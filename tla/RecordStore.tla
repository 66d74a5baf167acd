----------------------------- MODULE RecordStore -----------------------------
(***************************************************************************)
(* The memory_records table behind MemoryRecordRepositoryPort, for the two *)
(* repositories that ship with the code.  A table is a set of rows and an  *)
(* operator stands for one repository statement: every statement runs on a *)
(* connection of its own and commits before the awaiting coroutine resumes *)
(* so it takes effect atomically.  Payload, sector, scope and timestamps   *)
(* are left out: no statement modelled here chooses by them.               *)
(***************************************************************************)
CONSTANTS
    Backend,    \* which repository is wired in: "sqlite" or "postgres"
    Tenants,
    Keys,       \* idempotency keys
    NoKey,      \* idempotency_key is None
    MemoryIds   \* the identifiers new_memory_id() can hand out

ASSUME RecordStoreAssumption ==
    /\ Backend \in {"sqlite", "postgres"}
    /\ NoKey \notin Keys

PipelineStatuses ==
    {"PENDING", "ENRICHED", "PARTIAL_ENRICHMENT_FAILED", "ENRICHMENT_SKIPPED"}

Row == [id: MemoryIds, tenant: Tenants, key: Keys \cup {NoKey},
        status: PipelineStatuses]

\* Two rows the partial unique index (tenant_id, idempotency_key) lets not coexist.
SameKey(r, q) == r.key # NoKey /\ r.key = q.key /\ r.tenant = q.tenant

\* Slips: no unique index; one that forgets the tenant.
SaveById(rows, row) == {r \in rows : r.id # row.id} \cup {row}
SaveByKey(rows, row) ==
    {r \in rows : r.id # row.id /\ (r.key = NoKey \/ r.key # row.key)} \cup {row}

\* INSERT OR REPLACE: every row that conflicts on the primary key or on the
\* unique index is deleted, then the new row is inserted.
SqliteSave(rows, row) ==
    {r \in rows : r.id # row.id /\ ~SameKey(r, row)} \cup {row}

\* INSERT ... ON CONFLICT (memory_id, tenant_id) DO NOTHING.
PostgresSave(rows, row) ==
    IF \E r \in rows : r.id = row.id /\ r.tenant = row.tenant
    THEN rows
    ELSE rows \cup {row}

\* The primary key is the only arbiter of that INSERT: a conflict on the
\* idempotency index alone is a unique violation, and save raises.
PostgresSaveRaises(rows, row) ==
    /\ \A r \in rows : ~(r.id = row.id /\ r.tenant = row.tenant)
    /\ \E r \in rows : SameKey(r, row)

SaveRow(rows, row) ==
    IF Backend = "sqlite" THEN SqliteSave(rows, row) ELSE PostgresSave(rows, row)

\* Slip: the PostgreSQL table without its unique index.
NeverRaises(rows, row) == FALSE

SaveRaises(rows, row) == Backend = "postgres" /\ PostgresSaveRaises(rows, row)

\* Slip: a record that is still to be enriched does not count.
SettledWithKey(rows, key, tenant) ==
    {r \in rows : r.tenant = tenant /\ r.key = key /\ r.status # "PENDING"}

\* The rows SELECT ... WHERE tenant_id = ? AND idempotency_key = ? may return.
RowsWithKey(rows, key, tenant) ==
    {r \in rows : r.tenant = tenant /\ r.key = key}

\* The existence check the SQLite repository makes before an UPDATE, on a
\* connection of its own (update_pipeline_status, update_lifecycle).
BelongsToTenant(rows, id, tenant) ==
    \E r \in rows : r.id = id /\ r.tenant = tenant

\* UPDATE ... SET pipeline_status = ? WHERE id = ? AND tenant_id = ?: silent
\* when no row matches, in both repositories.
SetPipelineStatus(rows, id, tenant, status) ==
    {IF r.id = id /\ r.tenant = tenant THEN [r EXCEPT !.status = status] ELSE r
        : r \in rows}
=============================================================================
