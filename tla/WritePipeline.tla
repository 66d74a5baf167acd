---------------------------- MODULE WritePipeline ----------------------------
(***************************************************************************)
(* WriteMemoryService: concurrent calls of execute() and the enrichment    *)
(* coroutines they run inline or leave behind as background tasks, over    *)
(* the memory_records table of RecordStore.                                *)
(*                                                                         *)
(* Coroutines of one event loop interleave only where they await, so an    *)
(* action is what a coroutine does from one resumption to the next await:  *)
(* it takes the effect of the statement it was waiting for and runs on.    *)
(* A call that is not idle stands in pc at the await it is about to leave. *)
(*                                                                         *)
(* Bounds: MaxCalls calls per client, MaxFaults operations that raise,     *)
(* MaxCrashes crashes of the process.                                      *)
(***************************************************************************)
EXTENDS Naturals, FiniteSets, RecordStore

CONSTANTS
    Clients,
    Request,            \* the request each client makes, and makes again
    HasExtractionPort,  \* was an ExtractionPort passed to the constructor?
    NoId, NoClient,
    MaxCalls, MaxFaults, MaxCrashes

WriteRequest == [tenant: Tenants, key: Keys \cup {NoKey},
                 extract: BOOLEAN, wait: BOOLEAN]

ASSUME WritePipelineAssumption ==
    /\ Request \in [Clients -> WriteRequest]
    /\ HasExtractionPort \in BOOLEAN
    /\ NoId \notin MemoryIds
    /\ NoClient \notin Clients
    /\ MaxCalls \in Nat /\ MaxFaults \in Nat /\ MaxCrashes \in Nat

VARIABLES
    rows,       \* memory_records
    audit,      \* ids with a WRITE entry in the audit log
    events,     \* <<kind, id>> the observer accepted
    facts,      \* ids extraction saved facts for
    author,     \* the client whose call minted each id, NoClient before that
    calls,      \* calls each client has made
    pc,         \* the await each client's call stands at
    memoryId,   \* the id of the record the call in progress is writing
    acks,       \* WriteResults returned so far
    job,        \* the await the enrichment of each record stands at
    handler,    \* enrichments inside their except clause
    outcome,    \* how the extraction of each record ended
    faults, crashes

store == <<rows, audit, events, facts>>
local == <<author, calls, pc, memoryId>>
enrichment == <<job, handler, outcome>>
vars == <<store, local, acks, enrichment, faults, crashes>>

Phase == {"idle", "lookup", "save", "audit", "emit", "enriching"}
JobPhase == {"none", "extract", "check", "update", "emit",
             "ended",   \* returned
             "died",    \* raised out of its except clause
             "lost"}    \* gone with the process
Live == {"extract", "check", "update", "emit"}
EventKinds == {"written", "enriched", "failed"}
Ack == [client: Clients, id: MemoryIds, status: PipelineStatuses,
        idempotent: BOOLEAN]

TypeOK ==
    /\ rows \subseteq Row
    /\ audit \subseteq MemoryIds
    /\ events \subseteq EventKinds \X MemoryIds
    /\ facts \subseteq MemoryIds
    /\ author \in [MemoryIds -> Clients \cup {NoClient}]
    /\ calls \in [Clients -> 0..MaxCalls]
    /\ pc \in [Clients -> Phase]
    /\ memoryId \in [Clients -> MemoryIds \cup {NoId}]
    /\ acks \subseteq Ack
    /\ job \in [MemoryIds -> JobPhase]
    /\ handler \subseteq MemoryIds
    /\ outcome \in [MemoryIds -> {"unknown", "extracted", "error", "raised"}]
    /\ faults \in 0..MaxFaults
    /\ crashes \in 0..MaxCrashes

Init ==
    /\ rows = {} /\ audit = {} /\ events = {} /\ facts = {}
    /\ author = [m \in MemoryIds |-> NoClient]
    /\ calls = [c \in Clients |-> 0]
    /\ pc = [c \in Clients |-> "idle"]
    /\ memoryId = [c \in Clients |-> NoId]
    /\ acks = {}
    /\ job = [m \in MemoryIds |-> "none"]
    /\ handler = {}
    /\ outcome = [m \in MemoryIds |-> "unknown"]
    /\ faults = 0 /\ crashes = 0

-----------------------------------------------------------------------------
(* execute(): the call of client c *)

InitialStatus(req) ==
    IF req.extract /\ ~HasExtractionPort THEN "ENRICHMENT_SKIPPED" ELSE "PENDING"

NewRow(c) ==
    [id |-> memoryId[c], tenant |-> Request[c].tenant, key |-> Request[c].key,
     status |-> InitialStatus(Request[c])]

\* The WriteResult of a call that wrote: always the initial status.
NewAck(c) ==
    [client |-> c, id |-> memoryId[c], status |-> InitialStatus(Request[c]),
     idempotent |-> FALSE]

\* The WriteResult of a call that found its key taken.
IdempotentAck(c, r) ==
    [client |-> c, id |-> r.id, status |-> r.status, idempotent |-> TRUE]

\* The call ends here, with a result or with an exception.
Leave(c) ==
    /\ pc' = [pc EXCEPT ![c] = "idle"]
    /\ memoryId' = [memoryId EXCEPT ![c] = NoId]

\* memory_id = new_memory_id(), on the way to record_repo.save.
MintAndSave(c) ==
    \E m \in {n \in MemoryIds : author[n] = NoClient} :
        /\ author' = [author EXCEPT ![m] = c]
        /\ memoryId' = [memoryId EXCEPT ![c] = m]
        /\ pc' = [pc EXCEPT ![c] = "save"]

\* A call with a key first awaits the lookup, one without goes on to save.
Call(c) ==
    /\ pc[c] = "idle"
    /\ calls[c] < MaxCalls
    /\ calls' = [calls EXCEPT ![c] = @ + 1]
    /\ \/ /\ Request[c].key # NoKey
          /\ pc' = [pc EXCEPT ![c] = "lookup"]
          /\ UNCHANGED <<author, memoryId>>
       \/ /\ Request[c].key = NoKey
          /\ MintAndSave(c)
    /\ UNCHANGED <<store, acks, enrichment, faults, crashes>>

Lookup(c) ==
    LET found == RowsWithKey(rows, Request[c].key, Request[c].tenant) IN
    /\ pc[c] = "lookup"
    /\ \/ /\ \E r \in found : acks' = acks \cup {IdempotentAck(c, r)}
          /\ Leave(c)
          /\ UNCHANGED author
       \/ /\ found = {}
          /\ MintAndSave(c)
          /\ UNCHANGED acks
    /\ UNCHANGED <<store, calls, enrichment, faults, crashes>>

\* Slip: a unique violation is swallowed.
SaveSwallowing(c) ==
    /\ pc[c] = "save"
    /\ rows' = IF SaveRaises(rows, NewRow(c)) THEN rows ELSE SaveRow(rows, NewRow(c))
    /\ pc' = [pc EXCEPT ![c] = "audit"]
    /\ UNCHANGED <<audit, events, facts, author, calls, memoryId, acks, enrichment,
                   faults, crashes>>

Save(c) ==
    /\ pc[c] = "save"
    /\ \/ /\ ~SaveRaises(rows, NewRow(c))
          /\ rows' = SaveRow(rows, NewRow(c))
          /\ pc' = [pc EXCEPT ![c] = "audit"]
          /\ UNCHANGED memoryId
       \/ /\ SaveRaises(rows, NewRow(c))
          /\ Leave(c)
          /\ UNCHANGED rows
    /\ UNCHANGED <<audit, events, facts, author, calls, acks, enrichment, faults, crashes>>

AppendAudit(c) ==
    /\ pc[c] = "audit"
    /\ audit' = audit \cup {memoryId[c]}
    /\ pc' = [pc EXCEPT ![c] = "emit"]
    /\ UNCHANGED <<rows, events, facts, author, calls, memoryId, acks,
                   enrichment, faults, crashes>>

\* Slip: only an awaited enrichment is started.
EnrichesWhenAwaited(c) == Request[c].extract /\ HasExtractionPort /\ Request[c].wait

Enriches(c) == Request[c].extract /\ HasExtractionPort

\* emit(MemoryWritten), then: await _enrich, or create_task and return, or return.
EmitWritten(c) ==
    LET m == memoryId[c] IN
    /\ pc[c] = "emit"
    /\ events' = events \cup {<<"written", m>>}
    /\ job' = IF Enriches(c) THEN [job EXCEPT ![m] = "extract"] ELSE job
    /\ IF Enriches(c) /\ Request[c].wait
       THEN /\ pc' = [pc EXCEPT ![c] = "enriching"]
            /\ UNCHANGED <<memoryId, acks>>
       ELSE /\ acks' = acks \cup {NewAck(c)}
            /\ Leave(c)
    /\ UNCHANGED <<rows, audit, facts, author, calls, handler, outcome, faults, crashes>>

\* An awaited operation raises and nothing in execute() catches it.  Over a
\* network connection the statement may have been committed all the same.
CallRaises(c) ==
    /\ pc[c] \in {"lookup", "save", "audit", "emit"}
    /\ faults < MaxFaults
    /\ faults' = faults + 1
    /\ \/ UNCHANGED <<rows, audit>>
       \/ /\ Backend = "postgres" /\ pc[c] = "save"
          /\ rows' = IF SaveRaises(rows, NewRow(c)) THEN rows ELSE SaveRow(rows, NewRow(c))
          /\ UNCHANGED audit
       \/ /\ Backend = "postgres" /\ pc[c] = "audit"
          /\ audit' = audit \cup {memoryId[c]}
          /\ UNCHANGED rows
    /\ Leave(c)
    /\ UNCHANGED <<events, facts, author, calls, acks, enrichment, crashes>>

-----------------------------------------------------------------------------
(* _enrich(): the coroutine of record m, awaited by a call or in the background *)

\* repo.update_pipeline_status: SQLite first checks that the row is there.
FirstUpdateStep == IF Backend = "sqlite" THEN "check" ELSE "update"

\* Slips: the except clause writes the success; it puts the record up for retry.
TargetAlwaysEnriched(m) == "ENRICHED"
TargetForRetry(m) == IF m \in handler THEN "PENDING" ELSE "ENRICHED"

\* The status the coroutine is on its way to write.
Target(m) == IF m \in handler THEN "PARTIAL_ENRICHMENT_FAILED" ELSE "ENRICHED"

\* Slip: only a success wakes the calls awaiting it.
WaitersOfSuccess(m) ==
    {c \in Clients : pc[c] = "enriching" /\ memoryId[c] = m /\ m \notin handler}

\* The calls awaiting the coroutine; they resume in the step that ends it.
Waiters(m) == {c \in Clients : pc[c] = "enriching" /\ memoryId[c] = m}

LeaveAll(cs) ==
    /\ pc' = [c \in Clients |-> IF c \in cs THEN "idle" ELSE pc[c]]
    /\ memoryId' = [c \in Clients |-> IF c \in cs THEN NoId ELSE memoryId[c]]

\* An exception in the coroutine: the first enters the except clause, one
\* raised in there reaches the awaiting call, or nobody.
Raise(m) ==
    IF m \notin handler
    THEN /\ handler' = handler \cup {m}
         /\ job' = [job EXCEPT ![m] = FirstUpdateStep]
         /\ UNCHANGED <<pc, memoryId>>
    ELSE /\ job' = [job EXCEPT ![m] = "died"]
         /\ LeaveAll(Waiters(m))
         /\ UNCHANGED handler

\* extraction.extract(record).  A model answer that is no JSON array is no
\* exception: the result has error set and no facts.  An exception can come
\* after some of the facts were saved.
Extract(m) ==
    /\ job[m] = "extract"
    /\ \/ /\ outcome' = [outcome EXCEPT ![m] = "extracted"]
          /\ facts' \in {facts, facts \cup {m}}
          /\ job' = [job EXCEPT ![m] = FirstUpdateStep]
          /\ UNCHANGED <<handler, pc, memoryId>>
       \/ /\ outcome' = [outcome EXCEPT ![m] = "error"]
          /\ job' = [job EXCEPT ![m] = FirstUpdateStep]
          /\ UNCHANGED <<facts, handler, pc, memoryId>>
       \/ /\ outcome' = [outcome EXCEPT ![m] = "raised"]
          /\ facts' \in {facts, facts \cup {m}}
          /\ Raise(m)
    /\ UNCHANGED <<rows, audit, events, author, calls, acks, faults, crashes>>

CheckExists(m) ==
    /\ job[m] = "check"
    /\ \/ /\ BelongsToTenant(rows, m, Request[author[m]].tenant)
          /\ job' = [job EXCEPT ![m] = "update"]
          /\ UNCHANGED <<handler, pc, memoryId>>
       \/ /\ ~BelongsToTenant(rows, m, Request[author[m]].tenant)
          /\ Raise(m)
    /\ UNCHANGED <<store, author, calls, acks, outcome, faults, crashes>>

UpdateStatus(m) ==
    /\ job[m] = "update"
    /\ rows' = SetPipelineStatus(rows, m, Request[author[m]].tenant, Target(m))
    /\ job' = [job EXCEPT ![m] = "emit"]
    /\ UNCHANGED <<audit, events, facts, local, acks, handler, outcome, faults, crashes>>

\* emit(MemoryEnriched) or emit(EnrichmentFailed); the coroutine returns and
\* with it the call that awaited it.
EmitOutcome(m) ==
    /\ job[m] = "emit"
    /\ events' = events \cup {<<IF m \in handler THEN "failed" ELSE "enriched", m>>}
    /\ job' = [job EXCEPT ![m] = "ended"]
    /\ acks' = acks \cup {NewAck(c) : c \in Waiters(m)}
    /\ LeaveAll(Waiters(m))
    /\ UNCHANGED <<rows, audit, facts, author, calls, handler, outcome, faults, crashes>>

\* An awaited operation of the coroutine raises, committed or not.
EnrichRaises(m) ==
    /\ job[m] \in {"check", "update", "emit"}
    /\ faults < MaxFaults
    /\ faults' = faults + 1
    /\ \/ UNCHANGED rows
       \/ /\ Backend = "postgres" /\ job[m] = "update"
          /\ rows' = SetPipelineStatus(rows, m, Request[author[m]].tenant, Target(m))
    /\ Raise(m)
    /\ UNCHANGED <<audit, events, facts, author, calls, acks, outcome, crashes>>

-----------------------------------------------------------------------------
\* The process goes down with its coroutines and comes back with the tables.
Crash ==
    /\ crashes < MaxCrashes
    /\ crashes' = crashes + 1
    /\ LeaveAll(Clients)
    /\ job' = [m \in MemoryIds |-> IF job[m] \in Live THEN "lost" ELSE job[m]]
    /\ UNCHANGED <<store, author, calls, acks, handler, outcome, faults>>

ClientStep(c) == Lookup(c) \/ Save(c) \/ AppendAudit(c) \/ EmitWritten(c)
EnrichStep(m) == Extract(m) \/ CheckExists(m) \/ UpdateStatus(m) \/ EmitOutcome(m)

Next ==
    \/ \E c \in Clients : Call(c) \/ ClientStep(c) \/ CallRaises(c)
    \/ \E m \in MemoryIds : EnrichStep(m) \/ EnrichRaises(m)
    \/ Crash

Spec == Init /\ [][Next]_vars

\* The event loop resumes every coroutine whose await has completed, and the
\* repositories, the observer and the extraction port answer or raise.  No
\* client has to call, nothing has to fail.
Fairness ==
    /\ \A c \in Clients : WF_vars(ClientStep(c))
    /\ \A m \in MemoryIds : WF_vars(EnrichStep(m))

FairSpec == Spec /\ Fairness

-----------------------------------------------------------------------------
(* Properties *)

\* Record m is in the table as client c asked for it.
Stored(m, c) ==
    \E r \in rows : r.id = m /\ r.tenant = Request[c].tenant /\ r.key = Request[c].key

\* A write is acknowledged only after its record is durable, and it stays
\* durable: whoever holds a WriteResult finds that record in the table under
\* its own tenant and key, through races, retries, faults and crashes.
AckedStored == \A a \in acks : Stored(a.id, a.client)

\* What is left of that where a racing write may replace the record: whoever
\* holds a WriteResult finds a record of its own tenant, by its id or its key.
AckedFindable ==
    \A a \in acks : \E r \in rows :
        /\ r.tenant = Request[a.client].tenant
        /\ r.key = Request[a.client].key
        /\ r.id = a.id \/ r.key # NoKey

\* Duplicate keys never leave two records, whatever two concurrent lookups saw.
OneRecordPerKey == \A r, q \in rows : SameKey(r, q) \/ r.id = q.id => r = q

\* Enrichment runs only for a record whose write went through: saved, audited
\* and announced, so that no fact is without a stored, audited record: the
\* loser of a race for a key never extracts anything.
EnrichmentFollowsWrite ==
    /\ \A m \in facts : job[m] # "none"
    /\ \A m \in MemoryIds :
          job[m] # "none" =>
              Stored(m, author[m]) /\ m \in audit /\ <<"written", m>> \in events

\* Observers are told what the table says: the announced outcome of a record
\* is its status, and no later failure turns an announced success around.
OutcomeEventsAgree ==
    \A r \in rows :
        /\ <<"enriched", r.id>> \in events => r.status = "ENRICHED"
        /\ <<"failed", r.id>> \in events => r.status = "PARTIAL_ENRICHMENT_FAILED"

\* The one reversal of a record's status is the fall from ENRICHED to
\* PARTIAL_ENRICHMENT_FAILED, taken when announcing the success raises: a
\* failed or skipped record keeps its status and none returns to PENDING.
StatusOnlyAdvances ==
    [][\A r \in rows, q \in rows' :
          r.id = q.id /\ r.status # q.status =>
              \/ r.status = "PENDING" /\ q.status \in {"ENRICHED", "PARTIAL_ENRICHMENT_FAILED"}
              \/ r.status = "ENRICHED" /\ q.status = "PARTIAL_ENRICHMENT_FAILED"]_vars

\* Every call returns or raises, also the one that waits for an enrichment.
CallsReturn == \A c \in Clients : pc[c] # "idle" ~> pc[c] = "idle"

\* A write that was announced and asked for extraction leaves PENDING, unless
\* its enrichment raised out of its except clause or went with the process, or
\* another write's row took its place.
WrittenSettles ==
    \A m \in MemoryIds :
        (<<"written", m>> \in events /\ Request[author[m]].extract /\ HasExtractionPort)
            ~> \/ \A r \in rows : r.id = m => r.status \in {"ENRICHED", "PARTIAL_ENRICHMENT_FAILED"}
               \/ job[m] \in {"died", "lost"}

\* The pipeline keeps the write contract (IdempotentWrite).
RecordOf(r) == [id |-> r.id, tenant |-> r.tenant, key |-> r.key]
RecordAcked(a) ==
    [id |-> a.id, tenant |-> Request[a.client].tenant, key |-> Request[a.client].key]

Accepted == {RecordOf(r) : r \in rows}
Acknowledged == {RecordAcked(a) : a \in acks}

Contract == INSTANCE IdempotentWrite WITH
    accepted <- Accepted, acknowledged <- Acknowledged

KeepsContract == Contract!Spec
=============================================================================
