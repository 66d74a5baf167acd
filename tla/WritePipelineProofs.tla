------------------------- MODULE WritePipelineProofs -------------------------
(***************************************************************************)
(* Theorems about WritePipeline for any clients, requests, keys, tenants   *)
(* and bounds.                                                             *)
(***************************************************************************)
EXTENDS WritePipeline, TLAPS

\* The calls that hold the id of a record they minted.
Writing == {"save", "audit", "emit", "enriching"}

\* A call in progress owns the id it writes under.
OwnsId ==
    \A c \in Clients :
        pc[c] \in Writing => memoryId[c] \in MemoryIds /\ author[memoryId[c]] = c

\* No row carries an id that was not minted ...
RowsMinted == \A r \in rows : author[r.id] # NoClient

\* ... or whose call has yet to save it.
FreshAtSave ==
    \A c \in Clients : pc[c] = "save" => \A r \in rows : r.id # memoryId[c]

\* The part of the inductive invariant that holds over both repositories.
TableInv == TypeOK /\ OwnsId /\ RowsMinted /\ FreshAtSave /\ OneRecordPerKey

-----------------------------------------------------------------------------
(* The table operators *)

\* A row built for a call that owns its id is well-formed.
LEMMA NewRowIsRow ==
    ASSUME TypeOK, NEW c \in Clients, memoryId[c] \in MemoryIds
    PROVE  /\ NewRow(c) \in Row
           /\ NewRow(c).id = memoryId[c]
           /\ NewRow(c).tenant = Request[c].tenant
           /\ NewRow(c).key = Request[c].key
BY WritePipelineAssumption
   DEF NewRow, Row, InitialStatus, PipelineStatuses, WriteRequest

\* Saving a row under a fresh id keeps one row per id and per tenant's key.
LEMMA SaveKeepsUnique ==
    ASSUME NEW T \in SUBSET Row, NEW row \in Row,
           \A r, q \in T : SameKey(r, q) \/ r.id = q.id => r = q,
           \A r \in T : r.id # row.id,
           ~SaveRaises(T, row)
    PROVE  /\ SaveRow(T, row) \subseteq Row
           /\ \A r \in SaveRow(T, row) : r \in T \/ r = row
           /\ \A r, q \in SaveRow(T, row) : SameKey(r, q) \/ r.id = q.id => r = q
<1>1. CASE Backend = "sqlite"
  BY <1>1 DEF SaveRow, SqliteSave, SameKey, Row
<1>2. CASE Backend = "postgres"
  BY <1>2 DEF SaveRow, SaveRaises, PostgresSave, PostgresSaveRaises, SameKey, Row
<1> QED BY <1>1, <1>2, RecordStoreAssumption

\* One row under an update: a row of the same identity.
LEMMA UpdatedRow ==
    ASSUME NEW r \in Row, NEW status \in PipelineStatuses
    PROVE  LET q == [r EXCEPT !.status = status] IN
           q \in Row /\ q.id = r.id /\ q.tenant = r.tenant /\ q.key = r.key
BY DEF Row

\* A status update changes no row but in its status.
LEMMA UpdateKeepsIdentity ==
    ASSUME NEW T \in SUBSET Row, NEW id, NEW tenant, NEW status \in PipelineStatuses
    PROVE  LET U == SetPipelineStatus(T, id, tenant, status)
               Updated(r) == IF r.id = id /\ r.tenant = tenant
                             THEN [r EXCEPT !.status = status] ELSE r
           IN
           /\ U \subseteq Row
           /\ \A r \in T : \E q \in U : q.id = r.id /\ q.tenant = r.tenant /\ q.key = r.key
           /\ \A q \in U : \E r \in T :
                 q.id = r.id /\ q.tenant = r.tenant /\ q.key = r.key /\ q = Updated(r)
<1> DEFINE U == SetPipelineStatus(T, id, tenant, status)
           Updated(r) == IF r.id = id /\ r.tenant = tenant
                         THEN [r EXCEPT !.status = status] ELSE r
<1>1. U = {Updated(r) : r \in T}
  BY DEF SetPipelineStatus
<1>2. \A r \in T : /\ Updated(r) \in Row /\ Updated(r).id = r.id
                   /\ Updated(r).tenant = r.tenant /\ Updated(r).key = r.key
  BY UpdatedRow
<1> HIDE DEF U, Updated
<1>3. /\ U \subseteq Row
      /\ \A r \in T : \E q \in U : q.id = r.id /\ q.tenant = r.tenant /\ q.key = r.key
      /\ \A q \in U : \E r \in T :
            q.id = r.id /\ q.tenant = r.tenant /\ q.key = r.key /\ q = Updated(r)
  BY <1>1, <1>2
<1> QED BY <1>3 DEF U, Updated

\* ... so it keeps one row per id and per tenant's key.
LEMMA UpdateKeepsUnique ==
    ASSUME NEW T \in SUBSET Row, NEW id, NEW tenant, NEW status \in PipelineStatuses,
           \A r, q \in T : SameKey(r, q) \/ r.id = q.id => r = q
    PROVE  \A r, q \in SetPipelineStatus(T, id, tenant, status) :
              SameKey(r, q) \/ r.id = q.id => r = q
<1> DEFINE U == SetPipelineStatus(T, id, tenant, status)
           Updated(r) == IF r.id = id /\ r.tenant = tenant
                         THEN [r EXCEPT !.status = status] ELSE r
<1>1. \A q \in U : \E r \in T :
         q.id = r.id /\ q.tenant = r.tenant /\ q.key = r.key /\ q = Updated(r)
  <2>1. U = {Updated(r) : r \in T}
    BY DEF SetPipelineStatus
  <2>2. \A r \in T :
           Updated(r).id = r.id /\ Updated(r).tenant = r.tenant /\ Updated(r).key = r.key
    BY UpdatedRow
  <2> HIDE DEF U, Updated
  <2> QED BY <2>1, <2>2
<1> HIDE DEF U, Updated
<1>2. \A r, q \in U : SameKey(r, q) \/ r.id = q.id => r = q
  <2> SUFFICES ASSUME NEW r \in U, NEW q \in U, SameKey(r, q) \/ r.id = q.id
               PROVE  r = q
    OBVIOUS
  <2>1. PICK r0 \in T : r.id = r0.id /\ r.tenant = r0.tenant /\ r.key = r0.key /\ r = Updated(r0)
    BY <1>1
  <2>2. PICK q0 \in T : q.id = q0.id /\ q.tenant = q0.tenant /\ q.key = q0.key /\ q = Updated(q0)
    BY <1>1
  <2>3. r0 = q0
    BY <2>1, <2>2 DEF SameKey
  <2> QED BY <2>1, <2>2, <2>3
<1> QED BY <1>2 DEF U

\* The status an enrichment writes is a status.
LEMMA TargetIsStatus == \A m : Target(m) \in PipelineStatuses
BY DEF Target, PipelineStatuses

-----------------------------------------------------------------------------
(* Type correctness and uniqueness, over either repository *)

LEMMA InitTableInv == Init => TableInv
BY WritePipelineAssumption
   DEF Init, TableInv, TypeOK, OwnsId, RowsMinted, FreshAtSave, OneRecordPerKey,
       Phase, JobPhase, Writing

\* A call that mints an id owns it, and takes no other call's.
LEMMA MintOwnsId ==
    ASSUME TypeOK, OwnsId, NEW c \in Clients, MintAndSave(c)
    PROVE  OwnsId' /\ pc' \in [Clients -> Phase] /\ memoryId' \in [Clients -> MemoryIds \cup {NoId}]
           /\ author' \in [MemoryIds -> Clients \cup {NoClient}]
<1>1. PICK m \in MemoryIds : /\ author[m] = NoClient
                            /\ author' = [author EXCEPT ![m] = c]
                            /\ memoryId' = [memoryId EXCEPT ![c] = m]
                            /\ pc' = [pc EXCEPT ![c] = "save"]
  BY DEF MintAndSave
<1>2. \A d \in Clients : pc[d] \in Writing => memoryId[d] # m
  BY <1>1, WritePipelineAssumption DEF OwnsId
<1> QED BY <1>1, <1>2 DEF TypeOK, OwnsId, Writing, Phase

LEMMA CallTableInv ==
    ASSUME TableInv, NEW c \in Clients, Call(c)
    PROVE  TableInv'
<1> USE DEF TableInv
<1>1. TypeOK'
  BY WritePipelineAssumption
     DEF TypeOK, Call, MintAndSave, store, enrichment, Phase
<1>2. OwnsId'
  <2>1. CASE MintAndSave(c)
    BY <2>1, MintOwnsId
  <2>2. CASE /\ pc' = [pc EXCEPT ![c] = "lookup"]
             /\ UNCHANGED <<author, memoryId>>
    BY <2>2 DEF TypeOK, OwnsId, Writing
  <2> QED BY <2>1, <2>2 DEF Call
<1>3. RowsMinted' /\ OneRecordPerKey'
  BY WritePipelineAssumption
     DEF TypeOK, RowsMinted, OneRecordPerKey, Call, MintAndSave, store, Row
<1>4. FreshAtSave'
  BY DEF TypeOK, RowsMinted, FreshAtSave, Call, MintAndSave, store
<1> QED BY <1>1, <1>2, <1>3, <1>4

LEMMA LookupTableInv ==
    ASSUME TableInv, NEW c \in Clients, Lookup(c)
    PROVE  TableInv'
<1> USE DEF TableInv
<1>1. TypeOK'
  <2>1. CASE MintAndSave(c) /\ UNCHANGED acks
    BY <2>1, MintOwnsId DEF Lookup, TypeOK, store, enrichment
  <2>2. CASE /\ Leave(c) /\ UNCHANGED author
             /\ \E r \in RowsWithKey(rows, Request[c].key, Request[c].tenant) :
                   acks' = acks \cup {IdempotentAck(c, r)}
    <3>1. PICK r \in rows : acks' = acks \cup {IdempotentAck(c, r)}
      BY <2>2 DEF RowsWithKey
    <3>2. IdempotentAck(c, r) \in Ack
      BY <3>1 DEF TypeOK, IdempotentAck, Ack, Row
    <3> QED BY <2>2, <3>1, <3>2 DEF Lookup, Leave, TypeOK, store, enrichment, Phase
  <2> QED BY <2>1, <2>2 DEF Lookup
<1>2. OwnsId'
  <2>1. CASE MintAndSave(c)
    BY <2>1, MintOwnsId
  <2>2. CASE Leave(c) /\ UNCHANGED author
    BY <2>2 DEF Leave, TypeOK, OwnsId, Writing
  <2> QED BY <2>1, <2>2 DEF Lookup
<1>3. RowsMinted' /\ OneRecordPerKey'
  BY WritePipelineAssumption
     DEF TypeOK, RowsMinted, OneRecordPerKey, Lookup, MintAndSave, Leave, store, Row
<1>4. FreshAtSave'
  BY DEF TypeOK, RowsMinted, FreshAtSave, Lookup, MintAndSave, Leave, store
<1> QED BY <1>1, <1>2, <1>3, <1>4

LEMMA SaveTableInv ==
    ASSUME TableInv, NEW c \in Clients, Save(c)
    PROVE  TableInv'
<1> USE DEF TableInv
<1>1. memoryId[c] \in MemoryIds /\ author[memoryId[c]] = c
  BY DEF Save, OwnsId, Writing
<1>2. CASE /\ ~SaveRaises(rows, NewRow(c))
           /\ rows' = SaveRow(rows, NewRow(c))
           /\ pc' = [pc EXCEPT ![c] = "audit"]
           /\ memoryId' = memoryId
  <2>1. /\ NewRow(c) \in Row
        /\ NewRow(c).id = memoryId[c]
    BY <1>1, NewRowIsRow
  <2>2. /\ rows' \subseteq Row
        /\ \A r \in rows' : r \in rows \/ r = NewRow(c)
        /\ OneRecordPerKey'
    BY <1>2, <2>1, SaveKeepsUnique DEF TypeOK, Save, FreshAtSave, OneRecordPerKey
  <2>3. TypeOK'
    BY <1>2, <2>2 DEF TypeOK, Save, enrichment, Phase
  <2>4. OwnsId'
    BY <1>2 DEF Save, OwnsId, Writing, TypeOK
  <2>5. RowsMinted'
    BY <1>1, <2>1, <2>2, WritePipelineAssumption DEF Save, RowsMinted
  <2>6. FreshAtSave'
    BY <1>1, <1>2, <2>1, <2>2 DEF Save, FreshAtSave, OwnsId, Writing, TypeOK
  <2> QED BY <2>2, <2>3, <2>4, <2>5, <2>6
<1>3. CASE rows' = rows /\ Leave(c)
  BY <1>3 DEF Save, Leave, enrichment, TypeOK, OwnsId, RowsMinted, FreshAtSave,
              OneRecordPerKey, Writing, Phase
<1> QED BY <1>2, <1>3 DEF Save

LEMMA AppendAuditTableInv ==
    ASSUME TableInv, NEW c \in Clients, AppendAudit(c)
    PROVE  TableInv'
<1>1. memoryId[c] \in MemoryIds
  BY DEF TableInv, AppendAudit, OwnsId, Writing
<1> QED
  BY <1>1 DEF TableInv, AppendAudit, enrichment, TypeOK, OwnsId, RowsMinted, FreshAtSave,
              OneRecordPerKey, Writing, Phase

LEMMA EmitWrittenTableInv ==
    ASSUME TableInv, NEW c \in Clients, EmitWritten(c)
    PROVE  TableInv'
<1> USE DEF TableInv
<1>1. memoryId[c] \in MemoryIds
  BY DEF EmitWritten, OwnsId, Writing
<1>2. NewAck(c) \in Ack
  BY <1>1 DEF NewAck, Ack, InitialStatus, PipelineStatuses
<1>3. TypeOK'
  BY <1>1, <1>2 DEF EmitWritten, Leave, TypeOK, Phase, JobPhase, EventKinds
<1>4. OwnsId' /\ FreshAtSave'
  BY DEF EmitWritten, Leave, TypeOK, OwnsId, FreshAtSave, Writing
<1>5. RowsMinted' /\ OneRecordPerKey'
  BY DEF EmitWritten, RowsMinted, OneRecordPerKey
<1> QED BY <1>3, <1>4, <1>5
\* A call that raises out of a statement that was or was not committed.
LEMMA CallRaisesTableInv ==
    ASSUME TableInv, NEW c \in Clients, CallRaises(c)
    PROVE  TableInv'
<1> USE DEF TableInv
<1>1. /\ rows' \subseteq Row
      /\ \A r \in rows' : r \in rows \/ (pc[c] = "save" /\ r = NewRow(c))
      /\ OneRecordPerKey'
  <2>1. CASE rows' = rows
    BY <2>1 DEF TypeOK, OneRecordPerKey
  <2>2. CASE /\ pc[c] = "save"
             /\ ~SaveRaises(rows, NewRow(c))
             /\ rows' = SaveRow(rows, NewRow(c))
    <3>1. NewRow(c) \in Row /\ NewRow(c).id = memoryId[c]
      BY <2>2, NewRowIsRow DEF OwnsId, Writing
    <3> QED BY <2>2, <3>1, SaveKeepsUnique DEF TypeOK, FreshAtSave, OneRecordPerKey
  <2> QED BY <2>1, <2>2 DEF CallRaises
<1>2. TypeOK'
  <2>1. audit' \subseteq MemoryIds
    BY DEF CallRaises, TypeOK, OwnsId, Writing
  <2>2. faults' \in 0..MaxFaults
    BY WritePipelineAssumption DEF CallRaises, TypeOK
  <2> QED BY <1>1, <2>1, <2>2 DEF CallRaises, Leave, enrichment, TypeOK, Phase
<1>3. OwnsId'
  BY DEF CallRaises, Leave, TypeOK, OwnsId, Writing
<1>4. RowsMinted'
  <2>1. pc[c] = "save" => author[NewRow(c).id] = c
    BY NewRowIsRow DEF OwnsId, Writing
  <2> QED BY <1>1, <2>1, WritePipelineAssumption DEF CallRaises, RowsMinted
<1>5. FreshAtSave'
  <2>1. pc[c] = "save" => NewRow(c).id = memoryId[c] /\ author[memoryId[c]] = c
    BY NewRowIsRow DEF OwnsId, Writing
  <2> QED BY <1>1, <2>1 DEF CallRaises, Leave, TypeOK, OwnsId, Writing, FreshAtSave
<1> QED BY <1>1, <1>2, <1>3, <1>4, <1>5

\* An exception in an enrichment moves its coroutine and the calls awaiting it.
LEMMA RaiseMoves ==
    ASSUME TypeOK, NEW m \in MemoryIds, Raise(m)
    PROVE  /\ job' \in [MemoryIds -> JobPhase]
           /\ handler' \subseteq MemoryIds
           /\ pc' \in [Clients -> Phase]
           /\ memoryId' \in [Clients -> MemoryIds \cup {NoId}]
           /\ \A c \in Clients : pc'[c] \in Writing =>
                 pc'[c] = pc[c] /\ memoryId'[c] = memoryId[c]
           /\ \A n \in MemoryIds : n # m => job'[n] = job[n]
BY DEF TypeOK, Raise, LeaveAll, FirstUpdateStep, Phase, JobPhase, Writing

LEMMA LeaveAllMoves ==
    ASSUME TypeOK, NEW cs, LeaveAll(cs)
    PROVE  /\ pc' \in [Clients -> Phase]
           /\ memoryId' \in [Clients -> MemoryIds \cup {NoId}]
           /\ \A c \in Clients : pc'[c] \in Writing =>
                 pc'[c] = pc[c] /\ memoryId'[c] = memoryId[c]
BY DEF TypeOK, LeaveAll, Phase, Writing

\* Where no call starts to write, ids are minted for none and rows keep their
\* identity, the table part of the invariant is kept.
LEMMA QuietStep ==
    ASSUME TableInv, UNCHANGED author,
           \A c \in Clients : pc'[c] \in Writing =>
              pc'[c] = pc[c] /\ memoryId'[c] = memoryId[c],
           \A q \in rows' : \E r \in rows : q.id = r.id
    PROVE  OwnsId' /\ RowsMinted' /\ FreshAtSave'
BY DEF TableInv, OwnsId, RowsMinted, FreshAtSave, Writing

LEMMA ExtractTableInv ==
    ASSUME TableInv, NEW m \in MemoryIds, Extract(m)
    PROVE  TableInv'
<1> USE DEF TableInv
<1>1. /\ job' \in [MemoryIds -> JobPhase]
      /\ handler' \subseteq MemoryIds
      /\ pc' \in [Clients -> Phase]
      /\ memoryId' \in [Clients -> MemoryIds \cup {NoId}]
      /\ \A c \in Clients : pc'[c] \in Writing =>
            pc'[c] = pc[c] /\ memoryId'[c] = memoryId[c]
  <2>1. CASE Raise(m)
    BY <2>1, RaiseMoves
  <2>2. CASE /\ job' = [job EXCEPT ![m] = FirstUpdateStep]
             /\ UNCHANGED <<handler, pc, memoryId>>
    BY <2>2 DEF TypeOK, FirstUpdateStep, JobPhase
  <2> QED BY <2>1, <2>2 DEF Extract
<1>2. /\ outcome' \in [MemoryIds -> {"unknown", "extracted", "error", "raised"}]
      /\ facts' \subseteq MemoryIds
  BY DEF Extract, TypeOK
<1>3. TypeOK'
  BY <1>1, <1>2 DEF Extract, TypeOK
<1>4. OwnsId' /\ RowsMinted' /\ FreshAtSave'
  BY <1>1, QuietStep DEF Extract
<1> QED BY <1>3, <1>4 DEF Extract, OneRecordPerKey

LEMMA CheckExistsTableInv ==
    ASSUME TableInv, NEW m \in MemoryIds, CheckExists(m)
    PROVE  TableInv'
<1> USE DEF TableInv
<1>1. /\ job' \in [MemoryIds -> JobPhase]
      /\ handler' \subseteq MemoryIds
      /\ pc' \in [Clients -> Phase]
      /\ memoryId' \in [Clients -> MemoryIds \cup {NoId}]
      /\ \A c \in Clients : pc'[c] \in Writing =>
            pc'[c] = pc[c] /\ memoryId'[c] = memoryId[c]
  <2>1. CASE Raise(m)
    BY <2>1, RaiseMoves
  <2>2. CASE job' = [job EXCEPT ![m] = "update"] /\ UNCHANGED <<handler, pc, memoryId>>
    BY <2>2 DEF TypeOK, JobPhase
  <2> QED BY <2>1, <2>2 DEF CheckExists
<1>2. TypeOK'
  BY <1>1 DEF CheckExists, TypeOK, store
<1>3. OwnsId' /\ RowsMinted' /\ FreshAtSave'
  BY <1>1, QuietStep DEF CheckExists, store
<1> QED BY <1>2, <1>3 DEF CheckExists, OneRecordPerKey, store

\* The rows after a status update, committed on behalf of record m.
LEMMA UpdatedRows ==
    ASSUME TableInv, NEW m \in MemoryIds,
           rows' = SetPipelineStatus(rows, m, Request[author[m]].tenant, Target(m))
    PROVE  /\ rows' \subseteq Row
           /\ OneRecordPerKey'
           /\ \A q \in rows' : \E r \in rows :
                 q.id = r.id /\ q.tenant = r.tenant /\ q.key = r.key
           /\ \A r \in rows : \E q \in rows' :
                 q.id = r.id /\ q.tenant = r.tenant /\ q.key = r.key
<1>1. rows \in SUBSET Row /\ Target(m) \in PipelineStatuses
  BY TargetIsStatus DEF TableInv, TypeOK
<1>2. OneRecordPerKey'
  BY <1>1, UpdateKeepsUnique DEF TableInv, OneRecordPerKey
<1> DEFINE id == m  tenant == Request[author[m]].tenant  status == Target(m)
           U == SetPipelineStatus(rows, id, tenant, status)
<1>3. /\ U \subseteq Row
      /\ \A q \in U : \E r \in rows :
            q.id = r.id /\ q.tenant = r.tenant /\ q.key = r.key
      /\ \A r \in rows : \E q \in U :
            q.id = r.id /\ q.tenant = r.tenant /\ q.key = r.key
  <2> HIDE DEF id, tenant, status
  <2>1. rows \in SUBSET Row /\ status \in PipelineStatuses
    BY <1>1 DEF status
  <2> QED BY <2>1, UpdateKeepsIdentity
<1> QED BY <1>2, <1>3

LEMMA UpdateStatusTableInv ==
    ASSUME TableInv, NEW m \in MemoryIds, UpdateStatus(m)
    PROVE  TableInv'
<1> USE DEF TableInv
<1>1. /\ rows' \subseteq Row /\ OneRecordPerKey'
      /\ \A q \in rows' : \E r \in rows : q.id = r.id
  BY UpdatedRows DEF UpdateStatus
<1>2. TypeOK'
  BY <1>1 DEF UpdateStatus, TypeOK, local, JobPhase
<1>3. OwnsId' /\ RowsMinted' /\ FreshAtSave'
  BY <1>1, QuietStep DEF UpdateStatus, local
<1> QED BY <1>1, <1>2, <1>3

LEMMA EmitOutcomeTableInv ==
    ASSUME TableInv, NEW m \in MemoryIds, EmitOutcome(m)
    PROVE  TableInv'
<1> USE DEF TableInv
<1>1. /\ pc' \in [Clients -> Phase]
      /\ memoryId' \in [Clients -> MemoryIds \cup {NoId}]
      /\ \A c \in Clients : pc'[c] \in Writing =>
            pc'[c] = pc[c] /\ memoryId'[c] = memoryId[c]
  BY LeaveAllMoves DEF EmitOutcome
<1>2. {NewAck(c) : c \in Waiters(m)} \subseteq Ack
  <2> SUFFICES ASSUME NEW c \in Waiters(m) PROVE NewAck(c) \in Ack
    OBVIOUS
  <2> QED BY DEF Waiters, NewAck, Ack, InitialStatus, PipelineStatuses
<1>3. events' \subseteq EventKinds \X MemoryIds
  BY DEF EmitOutcome, TypeOK, EventKinds
<1>4. TypeOK'
  BY <1>1, <1>2, <1>3 DEF EmitOutcome, TypeOK, JobPhase
<1>5. OwnsId' /\ RowsMinted' /\ FreshAtSave'
  BY <1>1, QuietStep DEF EmitOutcome
<1> QED BY <1>4, <1>5 DEF EmitOutcome, OneRecordPerKey

LEMMA EnrichRaisesTableInv ==
    ASSUME TableInv, NEW m \in MemoryIds, EnrichRaises(m)
    PROVE  TableInv'
<1> USE DEF TableInv
<1>1. /\ rows' \subseteq Row /\ OneRecordPerKey'
      /\ \A q \in rows' : \E r \in rows : q.id = r.id
  <2>1. CASE rows' = rows
    BY <2>1 DEF TypeOK, OneRecordPerKey
  <2>2. CASE rows' = SetPipelineStatus(rows, m, Request[author[m]].tenant, Target(m))
    BY <2>2, UpdatedRows
  <2> QED BY <2>1, <2>2 DEF EnrichRaises
<1>2. /\ job' \in [MemoryIds -> JobPhase]
      /\ handler' \subseteq MemoryIds
      /\ pc' \in [Clients -> Phase]
      /\ memoryId' \in [Clients -> MemoryIds \cup {NoId}]
      /\ \A c \in Clients : pc'[c] \in Writing =>
            pc'[c] = pc[c] /\ memoryId'[c] = memoryId[c]
  BY RaiseMoves DEF EnrichRaises
<1>3. TypeOK'
  BY <1>1, <1>2, WritePipelineAssumption DEF EnrichRaises, TypeOK
<1>4. OwnsId' /\ RowsMinted' /\ FreshAtSave'
  BY <1>1, <1>2, QuietStep DEF EnrichRaises
<1> QED BY <1>1, <1>3, <1>4

LEMMA CrashTableInv ==
    ASSUME TableInv, Crash
    PROVE  TableInv'
<1> USE DEF TableInv
<1>1. /\ pc' \in [Clients -> Phase]
      /\ memoryId' \in [Clients -> MemoryIds \cup {NoId}]
      /\ \A c \in Clients : pc'[c] \in Writing =>
            pc'[c] = pc[c] /\ memoryId'[c] = memoryId[c]
  BY LeaveAllMoves DEF Crash
<1>2. TypeOK'
  BY <1>1, WritePipelineAssumption DEF Crash, TypeOK, store, JobPhase
<1>3. OwnsId' /\ RowsMinted' /\ FreshAtSave'
  BY <1>1, QuietStep DEF Crash, store
<1> QED BY <1>2, <1>3 DEF Crash, OneRecordPerKey, store

\* Every step keeps it.
LEMMA NextTableInv == TableInv /\ [Next]_vars => TableInv'
<1> SUFFICES ASSUME TableInv, [Next]_vars
             PROVE  TableInv'
  OBVIOUS
<1>1. CASE UNCHANGED vars
  BY <1>1 DEF vars, store, local, enrichment, TableInv, TypeOK, OwnsId, RowsMinted,
              FreshAtSave, OneRecordPerKey
<1>2. ASSUME NEW c \in Clients, Call(c) \/ ClientStep(c) \/ CallRaises(c)
      PROVE  TableInv'
  BY <1>2, CallTableInv, LookupTableInv, SaveTableInv, AppendAuditTableInv,
     EmitWrittenTableInv, CallRaisesTableInv DEF ClientStep
<1>3. ASSUME NEW m \in MemoryIds, EnrichStep(m) \/ EnrichRaises(m)
      PROVE  TableInv'
  BY <1>3, ExtractTableInv, CheckExistsTableInv, UpdateStatusTableInv,
     EmitOutcomeTableInv, EnrichRaisesTableInv DEF EnrichStep
<1> QED BY <1>1, <1>2, <1>3, CrashTableInv DEF Next

\* The table part of the invariant holds throughout.
LEMMA TableInvariant == Spec => []TableInv
<1>1. Init => TableInv
  BY InitTableInv
<1>2. TableInv /\ [Next]_vars => TableInv'
  BY NextTableInv
<1> QED BY <1>1, <1>2, PTL DEF Spec

\* Every variable of WriteMemoryService's model keeps its type.
THEOREM TypeCorrect == Spec => []TypeOK
<1>1. TableInv => TypeOK
  BY DEF TableInv
<1> QED BY <1>1, TableInvariant, PTL

\* Over either repository, a tenant's idempotency key names one record at most,
\* for any number of concurrent calls, retries, faults and crashes.
THEOREM RecordPerKey == Spec => []OneRecordPerKey
<1>1. TableInv => OneRecordPerKey
  BY DEF TableInv
<1> QED BY <1>1, TableInvariant, PTL

-----------------------------------------------------------------------------
(* The status of a record and what is announced of it, over either repository *)

\* A row belongs to the tenant of the call that minted its id.
AuthorsTenant == \A r \in rows : r.tenant = Request[author[r.id]].tenant

\* No enrichment starts before its id is minted and its write announced.
NotBegun ==
    /\ \A m \in MemoryIds : author[m] = NoClient => job[m] = "none"
    /\ \A c \in Clients : pc[c] \in {"save", "audit", "emit"} => job[memoryId[c]] = "none"

\* An outcome is announced by the last step of an enrichment.
AnnouncedAtEnd ==
    \A m \in MemoryIds :
        /\ <<"enriched", m>> \in events => job[m] = "ended" /\ m \notin handler
        /\ <<"failed", m>> \in events => job[m] = "ended" /\ m \in handler

\* Nothing has failed in an enrichment that has not extracted yet.
HandlerLater == \A m \in handler : job[m] \notin {"none", "extract"}

\* What a row can say while its enrichment stands where it stands.
StatusFollowsJob ==
    \A r \in rows :
        /\ job[r.id] = "none" => r.status = InitialStatus(Request[author[r.id]])
        /\ job[r.id] # "none" => r.status # "ENRICHMENT_SKIPPED"
        /\ job[r.id] \in {"extract", "check", "update"} /\ r.id \notin handler =>
              r.status = "PENDING"
        /\ job[r.id] \in {"emit", "ended"} => r.status = Target(r.id)

JobInv == AuthorsTenant /\ NotBegun /\ AnnouncedAtEnd /\ HandlerLater /\ StatusFollowsJob

\* The rows after any step: the old ones, one more under a fresh id, or one of
\* them with the status its enrichment writes.
RowsAdded(c) ==
    /\ pc[c] = "save"
    /\ \A q \in rows' : q \in rows \/ q = NewRow(c)

RowsSettled(m) ==
    /\ job[m] = "update"
    /\ \A q \in rows' : \E r \in rows :
          /\ q.id = r.id /\ q.tenant = r.tenant
          /\ q.status = IF r.id = m THEN Target(m) ELSE r.status

LEMMA SavedRows ==
    ASSUME TableInv, NEW c \in Clients, pc[c] = "save",
           ~SaveRaises(rows, NewRow(c)), rows' = SaveRow(rows, NewRow(c))
    PROVE  RowsAdded(c)
<1>1. NewRow(c) \in Row /\ NewRow(c).id = memoryId[c]
  BY NewRowIsRow DEF TableInv, OwnsId, Writing
<1> QED BY <1>1, SaveKeepsUnique DEF TableInv, TypeOK, FreshAtSave, OneRecordPerKey, RowsAdded

LEMMA SettledRows ==
    ASSUME TableInv, AuthorsTenant, NEW m \in MemoryIds, job[m] = "update",
           rows' = SetPipelineStatus(rows, m, Request[author[m]].tenant, Target(m))
    PROVE  RowsSettled(m)
<1>1. ASSUME NEW r \in rows
      PROVE  LET q == [r EXCEPT !.status = Target(m)] IN
             q.id = r.id /\ q.tenant = r.tenant /\ q.status = Target(m)
  BY <1>1 DEF TableInv, TypeOK, Row
<1>2. ASSUME NEW r \in rows, r.id = m
      PROVE  r.tenant = Request[author[m]].tenant
  BY <1>2 DEF AuthorsTenant
<1>3. ASSUME NEW q \in rows'
      PROVE  \E r \in rows : /\ q.id = r.id /\ q.tenant = r.tenant
                             /\ q.status = IF r.id = m THEN Target(m) ELSE r.status
  <2>1. PICK r \in rows : q = IF r.id = m /\ r.tenant = Request[author[m]].tenant
                              THEN [r EXCEPT !.status = Target(m)] ELSE r
    BY <1>3 DEF SetPipelineStatus
  <2>2. CASE r.id = m
    BY <1>1, <1>2, <2>1, <2>2
  <2>3. CASE r.id # m
    BY <2>1, <2>3
  <2> QED BY <2>2, <2>3
<1> QED BY <1>3 DEF RowsSettled

LEMMA NextRows ==
    ASSUME TableInv, AuthorsTenant, Next
    PROVE  \/ UNCHANGED rows
           \/ \E c \in Clients : RowsAdded(c)
           \/ \E m \in MemoryIds : RowsSettled(m)
<1>1. ASSUME NEW c \in Clients, Call(c) \/ ClientStep(c) \/ CallRaises(c)
      PROVE  UNCHANGED rows \/ RowsAdded(c)
  BY <1>1, SavedRows
     DEF Call, ClientStep, Lookup, Save, AppendAudit, EmitWritten, CallRaises, store
<1>2. ASSUME NEW m \in MemoryIds, EnrichStep(m) \/ EnrichRaises(m)
      PROVE  UNCHANGED rows \/ RowsSettled(m)
  BY <1>2, SettledRows
     DEF EnrichStep, Extract, CheckExists, UpdateStatus, EmitOutcome, EnrichRaises, store
<1>3. ASSUME Crash PROVE UNCHANGED rows
  BY <1>3 DEF Crash, store
<1> QED BY <1>1, <1>2, <1>3 DEF Next

LEMMA InitJobInv == Init => JobInv
BY DEF Init, JobInv, AuthorsTenant, NotBegun, AnnouncedAtEnd, HandlerLater, StatusFollowsJob

\* A call that mints an id or goes on with it leaves the enrichments alone.
LEMMA MintJobInv ==
    ASSUME TableInv, JobInv, NEW c \in Clients, Call(c) \/ Lookup(c)
    PROVE  JobInv'
<1>1. UNCHANGED <<rows, events, job, handler>>
  BY DEF Call, Lookup, store, enrichment
<1>2. \A m \in MemoryIds : author[m] # NoClient => author'[m] = author[m]
  BY DEF TableInv, TypeOK, Call, Lookup, MintAndSave
<1>3. \A m \in MemoryIds : author'[m] = NoClient => author[m] = NoClient
  BY WritePipelineAssumption DEF TableInv, TypeOK, Call, Lookup, MintAndSave
<1>4. NotBegun'
  <2>1. ASSUME NEW d \in Clients, pc'[d] \in {"save", "audit", "emit"}
        PROVE  job[memoryId'[d]] = "none"
    <3>1. CASE MintAndSave(c)
      BY <2>1, <3>1 DEF MintAndSave, TableInv, TypeOK, JobInv, NotBegun
    <3>2. CASE Leave(c) \/ (pc' = [pc EXCEPT ![c] = "lookup"] /\ UNCHANGED memoryId)
      BY <2>1, <3>2 DEF Leave, TableInv, TypeOK, JobInv, NotBegun
    <3> QED BY <3>1, <3>2 DEF Call, Lookup
  <2> QED BY <1>1, <1>3, <2>1 DEF JobInv, NotBegun
<1>5. \A r \in rows : r.id \in MemoryIds /\ author'[r.id] = author[r.id]
  BY <1>2 DEF TableInv, TypeOK, Row, RowsMinted
<1>6. AuthorsTenant' /\ StatusFollowsJob'
  BY <1>1, <1>5 DEF JobInv, AuthorsTenant, StatusFollowsJob, Target, InitialStatus
<1> QED BY <1>1, <1>4, <1>6 DEF JobInv, AnnouncedAtEnd, HandlerLater

\* A step that saves, audits or raises in execute().
LEMMA SaveJobInv ==
    ASSUME TableInv, JobInv, NEW c \in Clients, Save(c) \/ AppendAudit(c) \/ CallRaises(c)
    PROVE  JobInv'
<1>1. UNCHANGED <<author, events, job, handler>>
  BY DEF Save, AppendAudit, CallRaises, enrichment
<1>2. UNCHANGED rows \/ RowsAdded(c)
  BY SavedRows DEF Save, AppendAudit, CallRaises
<1>3. NotBegun'
  BY <1>1 DEF Save, AppendAudit, CallRaises, Leave, TableInv, TypeOK, JobInv, NotBegun
<1>4. ASSUME NEW q \in rows', q \notin rows
      PROVE  /\ q.tenant = Request[author[q.id]].tenant
             /\ job[q.id] = "none" /\ q.status = InitialStatus(Request[author[q.id]])
  <2>1. pc[c] = "save" /\ q = NewRow(c)
    BY <1>2, <1>4 DEF RowsAdded
  <2>2. memoryId[c] \in MemoryIds /\ author[memoryId[c]] = c /\ job[memoryId[c]] = "none"
    BY <2>1 DEF TableInv, OwnsId, Writing, JobInv, NotBegun
  <2>3. q.status = InitialStatus(Request[c])
    BY <2>1 DEF NewRow
  <2> QED BY <2>1, <2>2, <2>3, NewRowIsRow DEF TableInv
<1>5. AuthorsTenant'
  BY <1>1, <1>4 DEF JobInv, AuthorsTenant
<1>6. StatusFollowsJob'
  <2>1. ASSUME NEW q \in rows', q \in rows
        PROVE  /\ job[q.id] = "none" => q.status = InitialStatus(Request[author[q.id]])
               /\ job[q.id] # "none" => q.status # "ENRICHMENT_SKIPPED"
               /\ job[q.id] \in {"extract", "check", "update"} /\ q.id \notin handler =>
                     q.status = "PENDING"
               /\ job[q.id] \in {"emit", "ended"} => q.status = Target(q.id)
    BY <2>1 DEF JobInv, StatusFollowsJob
  <2> QED BY <1>1, <1>4, <2>1 DEF StatusFollowsJob, Target, InitialStatus
<1> QED BY <1>1, <1>3, <1>5, <1>6 DEF JobInv, AnnouncedAtEnd, HandlerLater

\* The enrichment of a row that waits for extraction starts from PENDING.
LEMMA EmitWrittenJobInv ==
    ASSUME TableInv, JobInv, NEW c \in Clients, EmitWritten(c)
    PROVE  JobInv'
<1> DEFINE m == memoryId[c]
<1>1. m \in MemoryIds /\ author[m] = c /\ job[m] = "none"
  BY DEF EmitWritten, TableInv, OwnsId, Writing, JobInv, NotBegun
<1>2. /\ UNCHANGED <<rows, author, handler>>
      /\ events' = events \cup {<<"written", m>>}
      /\ job' = IF Enriches(c) THEN [job EXCEPT ![m] = "extract"] ELSE job
  BY DEF EmitWritten
<1>3. job \in [MemoryIds -> JobPhase]
  BY DEF TableInv, TypeOK
<1>4. /\ \A n \in MemoryIds : n # m => job'[n] = job[n]
      /\ job'[m] = IF Enriches(c) THEN "extract" ELSE "none"
  BY <1>1, <1>2, <1>3
<1>5. NotBegun'
  <2>1. ASSUME NEW d \in Clients, pc'[d] \in {"save", "audit", "emit"}
        PROVE  /\ d # c /\ memoryId'[d] = memoryId[d] /\ memoryId[d] \in MemoryIds
               /\ author[memoryId[d]] = d /\ job[memoryId[d]] = "none"
    BY <2>1 DEF EmitWritten, Leave, TableInv, TypeOK, OwnsId, Writing, JobInv, NotBegun
  <2>2. ASSUME NEW d \in Clients, pc'[d] \in {"save", "audit", "emit"}
        PROVE  job'[memoryId'[d]] = "none"
    BY <1>1, <1>4, <2>1, <2>2
  <2>3. ASSUME NEW n \in MemoryIds, author[n] = NoClient
        PROVE  job'[n] = "none"
    BY <1>1, <1>4, <2>3, WritePipelineAssumption DEF JobInv, NotBegun
  <2> QED BY <1>2, <2>2, <2>3 DEF NotBegun
<1>6. AnnouncedAtEnd'
  <2>1. ASSUME NEW n \in MemoryIds
        PROVE  /\ <<"enriched", n>> \in events' => job'[n] = "ended" /\ n \notin handler
               /\ <<"failed", n>> \in events' => job'[n] = "ended" /\ n \in handler
    BY <1>1, <1>2, <1>4 DEF JobInv, AnnouncedAtEnd
  <2> QED BY <1>2, <2>1 DEF AnnouncedAtEnd
<1>7. HandlerLater'
  BY <1>1, <1>2, <1>4 DEF TableInv, TypeOK, JobInv, HandlerLater
<1>8. StatusFollowsJob'
  <2>1. ASSUME NEW r \in rows, r.id = m, Enriches(c)
        PROVE  r.status = "PENDING"
    BY <1>1, <2>1 DEF JobInv, StatusFollowsJob, InitialStatus, Enriches
  <2>2. ASSUME NEW r \in rows
        PROVE  /\ job'[r.id] = "none" => r.status = InitialStatus(Request[author[r.id]])
               /\ job'[r.id] # "none" => r.status # "ENRICHMENT_SKIPPED"
               /\ job'[r.id] \in {"extract", "check", "update"} /\ r.id \notin handler =>
                     r.status = "PENDING"
               /\ job'[r.id] \in {"emit", "ended"} => r.status = Target(r.id)
    <3>1. r.id \in MemoryIds
      BY DEF TableInv, TypeOK, Row
    <3>2. CASE r.id = m /\ Enriches(c)
      BY <1>4, <2>1, <3>2
    <3>3. CASE ~(r.id = m /\ Enriches(c))
      <4>1. job'[r.id] = job[r.id]
        BY <1>1, <1>4, <3>1, <3>3
      <4> QED BY <4>1 DEF JobInv, StatusFollowsJob
    <3> QED BY <3>2, <3>3
  <2> QED BY <1>2, <2>2 DEF StatusFollowsJob, Target, InitialStatus
<1>9. AuthorsTenant'
  BY <1>2 DEF JobInv, AuthorsTenant
<1> QED BY <1>5, <1>6, <1>7, <1>8, <1>9 DEF JobInv

\* A step of an enrichment moves its own coroutine only, and no call to a
\* record it has yet to save, audit or announce.
LEMMA EnrichMoves ==
    ASSUME TableInv, NEW m \in MemoryIds, EnrichStep(m) \/ EnrichRaises(m)
    PROVE  /\ job[m] \in Live /\ author' = author
           /\ job' \in [MemoryIds -> JobPhase] /\ handler' \subseteq MemoryIds
           /\ \A n \in MemoryIds : n # m => job'[n] = job[n] /\ (n \in handler' <=> n \in handler)
           /\ \A c \in Clients : pc'[c] \in Writing =>
                 pc'[c] = pc[c] /\ memoryId'[c] = memoryId[c]
<1>0. TypeOK
  BY DEF TableInv
<1>1. job[m] \in Live /\ author' = author
  BY DEF EnrichStep, Extract, CheckExists, UpdateStatus, EmitOutcome, EnrichRaises, Live, local
<1>2. CASE Raise(m)
  BY <1>0, <1>1, <1>2, RaiseMoves DEF Raise
<1>3. CASE /\ UNCHANGED <<handler, pc, memoryId>>
           /\ \E p \in JobPhase : job' = [job EXCEPT ![m] = p]
  BY <1>0, <1>1, <1>3 DEF TypeOK
<1>4. CASE EmitOutcome(m)
  BY <1>0, <1>1, <1>4, LeaveAllMoves DEF EmitOutcome, TypeOK, JobPhase
<1>5. Raise(m) \/ EmitOutcome(m)
      \/ (UNCHANGED <<handler, pc, memoryId>> /\ \E p \in JobPhase : job' = [job EXCEPT ![m] = p])
  BY DEF EnrichStep, Extract, CheckExists, UpdateStatus, EnrichRaises, FirstUpdateStep, JobPhase,
         local
<1> QED BY <1>2, <1>3, <1>4, <1>5

\* Where the coroutine of m can go: on through its try block, into its except
\* clause, out of it, or to its announcement.
Went(m) ==
    \/ job[m] \in {"extract", "check"} /\ job'[m] \in {"check", "update"}
    \/ job[m] = "update" /\ job'[m] = "emit"

StaysInBlock(m) == (m \in handler' <=> m \in handler) /\ events' = events

OnWithRows(m) ==
    \/ job[m] # "update" /\ UNCHANGED rows
    \/ job[m] = "update" /\ RowsSettled(m)

Fails(m) ==
    /\ m \notin handler /\ m \in handler' /\ job'[m] \in {"check", "update"}
    /\ events' = events /\ (UNCHANGED rows \/ RowsSettled(m))

Dies(m) ==
    /\ m \in handler /\ m \in handler' /\ job'[m] = "died"
    /\ events' = events /\ (UNCHANGED rows \/ RowsSettled(m))

Announces(m) ==
    /\ job[m] = "emit" /\ job'[m] = "ended"
    /\ (m \in handler' <=> m \in handler) /\ UNCHANGED rows
    /\ events' = events \cup {<<IF m \in handler THEN "failed" ELSE "enriched", m>>}

LEMMA EnrichGoes ==
    ASSUME TableInv, JobInv, NEW m \in MemoryIds, EnrichStep(m) \/ EnrichRaises(m)
    PROVE  \/ Went(m) /\ StaysInBlock(m) /\ OnWithRows(m)
           \/ Fails(m) \/ Dies(m) \/ Announces(m)
<1>0. job \in [MemoryIds -> JobPhase]
  BY DEF TableInv, TypeOK
<1>1. ASSUME Raise(m), events' = events, UNCHANGED rows \/ RowsSettled(m)
      PROVE  Fails(m) \/ Dies(m)
  BY <1>0, <1>1 DEF Raise, Fails, Dies, FirstUpdateStep
<1>2. CASE Extract(m) \/ CheckExists(m)
  <2>1. /\ UNCHANGED <<rows, events>> /\ job[m] \in {"extract", "check"}
        /\ \/ Raise(m)
           \/ /\ handler' = handler
              /\ \E p \in {"check", "update"} : job' = [job EXCEPT ![m] = p]
    BY <1>2 DEF Extract, CheckExists, store, FirstUpdateStep
  <2>2. CASE Raise(m)
    BY <1>1, <2>1, <2>2
  <2>3. CASE handler' = handler /\ \E p \in {"check", "update"} : job' = [job EXCEPT ![m] = p]
    BY <1>0, <2>1, <2>3 DEF Went, StaysInBlock, OnWithRows
  <2> QED BY <2>1, <2>2, <2>3
<1>3. CASE UpdateStatus(m)
  <2>1. RowsSettled(m)
    BY <1>3, SettledRows DEF UpdateStatus, JobInv
  <2> QED BY <1>0, <1>3, <2>1 DEF UpdateStatus, Went, StaysInBlock, OnWithRows
<1>4. CASE EmitOutcome(m)
  BY <1>0, <1>4 DEF EmitOutcome, Announces
<1>5. CASE EnrichRaises(m)
  <2>1. UNCHANGED rows \/ RowsSettled(m)
    BY <1>5, SettledRows DEF EnrichRaises, JobInv
  <2> QED BY <1>1, <1>5, <2>1 DEF EnrichRaises
<1> QED BY <1>2, <1>3, <1>4, <1>5 DEF EnrichStep

LEMMA EnrichJobInv ==
    ASSUME TableInv, JobInv, NEW m \in MemoryIds, EnrichStep(m) \/ EnrichRaises(m)
    PROVE  JobInv'
<1>0. /\ job[m] \in Live /\ author' = author
      /\ handler \subseteq MemoryIds /\ handler' \subseteq MemoryIds
      /\ \A n \in MemoryIds : n # m => job'[n] = job[n] /\ (n \in handler' <=> n \in handler)
      /\ \A c \in Clients : pc'[c] \in Writing =>
            pc'[c] = pc[c] /\ memoryId'[c] = memoryId[c]
  BY EnrichMoves DEF TableInv, TypeOK
<1>1. \/ Went(m) /\ StaysInBlock(m) /\ OnWithRows(m)
      \/ Fails(m) \/ Dies(m) \/ Announces(m)
  BY EnrichGoes
<1>2. job'[m] \in {"check", "update", "emit", "ended", "died"}
  BY <1>1 DEF Went, Fails, Dies, Announces
<1>3. HandlerLater'
  BY <1>0, <1>2 DEF JobInv, HandlerLater
<1>4. NotBegun'
  <2>1. \A n \in MemoryIds : job[n] = "none" => job'[n] = "none"
    BY <1>0 DEF Live
  <2>2. \A c \in Clients : pc'[c] \in {"save", "audit", "emit"} =>
           /\ memoryId'[c] = memoryId[c] /\ memoryId[c] \in MemoryIds
           /\ job[memoryId[c]] = "none"
    BY <1>0 DEF Writing, TableInv, OwnsId, JobInv, NotBegun
  <2> QED BY <1>0, <2>1, <2>2 DEF JobInv, NotBegun
<1>5. AnnouncedAtEnd'
  <2>1. <<"enriched", m>> \notin events /\ <<"failed", m>> \notin events
    BY <1>0 DEF JobInv, AnnouncedAtEnd, Live
  <2>2. ASSUME NEW n \in MemoryIds, n # m
        PROVE  /\ <<"enriched", n>> \in events' => <<"enriched", n>> \in events
               /\ <<"failed", n>> \in events' => <<"failed", n>> \in events
    BY <1>1, <2>2 DEF StaysInBlock, Fails, Dies, Announces
  <2>3. /\ <<"enriched", m>> \in events' => job'[m] = "ended" /\ m \notin handler'
        /\ <<"failed", m>> \in events' => job'[m] = "ended" /\ m \in handler'
    BY <1>1, <2>1 DEF StaysInBlock, Fails, Dies, Announces
  <2> QED BY <1>0, <2>2, <2>3 DEF JobInv, AnnouncedAtEnd
<1>6. ASSUME NEW q \in rows'
      PROVE  \E r \in rows : /\ q.id = r.id /\ q.tenant = r.tenant
                             /\ q.status = r.status \/ (RowsSettled(m) /\ q.id = m /\ q.status = Target(m))
  <2>1. UNCHANGED rows \/ RowsSettled(m)
    BY <1>1 DEF OnWithRows, Fails, Dies, Announces
  <2> QED BY <1>6, <2>1 DEF RowsSettled
<1>7. AuthorsTenant'
  BY <1>0, <1>6 DEF JobInv, AuthorsTenant
<1>8. StatusFollowsJob'
  <2> SUFFICES ASSUME NEW q \in rows'
               PROVE  /\ job'[q.id] = "none" => q.status = InitialStatus(Request[author[q.id]])
                      /\ job'[q.id] # "none" => q.status # "ENRICHMENT_SKIPPED"
                      /\ job'[q.id] \in {"extract", "check", "update"} /\ q.id \notin handler' =>
                            q.status = "PENDING"
                      /\ job'[q.id] \in {"emit", "ended"} => q.status = Target(q.id)'
    BY <1>0 DEF StatusFollowsJob, InitialStatus
  <2>1. PICK r \in rows : /\ q.id = r.id
                          /\ q.status = r.status
                                \/ (RowsSettled(m) /\ q.id = m /\ q.status = Target(m))
    BY <1>6
  <2>2. r.id \in MemoryIds
    BY DEF TableInv, TypeOK, Row
  <2>3. CASE r.id # m
    <3>1. q.status = r.status /\ job'[q.id] = job[r.id] /\ (q.id \in handler' <=> r.id \in handler)
      BY <1>0, <2>1, <2>2, <2>3
    <3> QED BY <2>1, <3>1 DEF JobInv, StatusFollowsJob, Target
  <2>4. CASE r.id = m
    <3>1. r.status # "ENRICHMENT_SKIPPED"
      BY <1>0, <2>4 DEF JobInv, StatusFollowsJob, Live
    <3>2. q.status # "ENRICHMENT_SKIPPED"
      BY <2>1, <3>1 DEF Target
    <3>3. CASE Went(m) /\ StaysInBlock(m) /\ OnWithRows(m)
      <4>1. CASE job[m] = "update"
        <5>1. q.status = Target(m)
          <6>1. PICK s \in rows : q.id = s.id /\ q.status = IF s.id = m THEN Target(m) ELSE s.status
            BY <3>3, <4>1 DEF OnWithRows, RowsSettled
          <6> QED BY <2>1, <2>4, <6>1
        <5>2. job'[m] = "emit"
          BY <3>3, <4>1 DEF Went
        <5> QED BY <2>1, <2>4, <3>2, <3>3, <5>1, <5>2 DEF StaysInBlock, Target
      <4>2. CASE job[m] # "update"
        <5>1. q \in rows /\ job[m] \in {"extract", "check"} /\ job'[m] \in {"check", "update"}
          BY <3>3, <4>2 DEF OnWithRows, Went
        <5>2. m \notin handler => q.status = "PENDING"
          BY <2>1, <2>4, <5>1 DEF JobInv, StatusFollowsJob
        <5> QED BY <2>1, <2>4, <3>2, <3>3, <5>1, <5>2 DEF StaysInBlock
      <4> QED BY <4>1, <4>2
    <3>4. CASE Fails(m) \/ Dies(m)
      BY <2>1, <2>4, <3>2, <3>4 DEF Fails, Dies
    <3>5. CASE Announces(m)
      <4>1. q \in rows /\ job[m] = "emit"
        BY <3>5 DEF Announces
      <4>2. q.status = Target(m)
        BY <2>1, <2>4, <4>1 DEF JobInv, StatusFollowsJob
      <4> QED BY <2>1, <2>4, <3>2, <3>5, <4>2 DEF Announces, Target
    <3> QED BY <1>1, <3>3, <3>4, <3>5
  <2> QED BY <2>3, <2>4
<1> QED BY <1>3, <1>4, <1>5, <1>7, <1>8 DEF JobInv

\* A crash ends coroutines, and an ended one demands nothing of its row.
LEMMA CrashJobInv ==
    ASSUME TableInv, JobInv, Crash
    PROVE  JobInv'
<1>1. /\ UNCHANGED <<rows, author, events, handler>>
      /\ \A m \in MemoryIds : job'[m] = IF job[m] \in Live THEN "lost" ELSE job[m]
      /\ \A c \in Clients : pc'[c] \notin Writing
  BY DEF Crash, store, LeaveAll, Writing
<1>2. NotBegun'
  BY <1>1 DEF JobInv, NotBegun, Live, Writing
<1>3. AnnouncedAtEnd' /\ HandlerLater'
  BY <1>1 DEF TableInv, TypeOK, JobInv, AnnouncedAtEnd, HandlerLater, Live
<1>4. StatusFollowsJob'
  <2>1. \A r \in rows : r.id \in MemoryIds
    BY DEF TableInv, TypeOK, Row
  <2> QED BY <1>1, <2>1 DEF JobInv, StatusFollowsJob, Live, Target, InitialStatus
<1> QED BY <1>1, <1>2, <1>3, <1>4 DEF JobInv, AuthorsTenant

LEMMA NextJobInv == TableInv /\ JobInv /\ [Next]_vars => JobInv'
<1> SUFFICES ASSUME TableInv, JobInv, [Next]_vars
             PROVE  JobInv'
  OBVIOUS
<1>1. CASE UNCHANGED vars
  BY <1>1 DEF vars, store, local, enrichment, JobInv, AuthorsTenant, NotBegun, AnnouncedAtEnd,
              HandlerLater, StatusFollowsJob, Target, InitialStatus
<1>2. ASSUME NEW c \in Clients, Call(c) \/ ClientStep(c) \/ CallRaises(c)
      PROVE  JobInv'
  BY <1>2, MintJobInv, SaveJobInv, EmitWrittenJobInv DEF ClientStep
<1>3. ASSUME NEW m \in MemoryIds, EnrichStep(m) \/ EnrichRaises(m)
      PROVE  JobInv'
  BY <1>3, EnrichJobInv
<1> QED BY <1>1, <1>2, <1>3, CrashJobInv DEF Next

LEMMA JobInvariant == Spec => [](TableInv /\ JobInv)
<1>1. Init => JobInv
  BY InitJobInv
<1>2. TableInv /\ JobInv /\ [Next]_vars => JobInv'
  BY NextJobInv
<1> QED BY <1>1, <1>2, TableInvariant, PTL DEF Spec

\* Over either repository, what the observers are told of an enrichment is what
\* the table says of its record, from then on.
THEOREM AnnouncedIsRecorded == Spec => []OutcomeEventsAgree
<1>1. TableInv /\ JobInv => OutcomeEventsAgree
  <2> SUFFICES ASSUME TableInv, JobInv, NEW r \in rows
               PROVE  /\ <<"enriched", r.id>> \in events => r.status = "ENRICHED"
                      /\ <<"failed", r.id>> \in events => r.status = "PARTIAL_ENRICHMENT_FAILED"
    BY DEF OutcomeEventsAgree
  <2>1. r.id \in MemoryIds
    BY DEF TableInv, TypeOK, Row
  <2> QED BY <2>1 DEF JobInv, AnnouncedAtEnd, StatusFollowsJob, Target
<1> QED BY <1>1, JobInvariant, PTL

\* Over either repository a record's status only advances, whatever statement
\* of its enrichment raises, committed or not.
THEOREM StatusAdvances == Spec => StatusOnlyAdvances
<1> DEFINE Advances ==
      \A r \in rows, q \in rows' :
          r.id = q.id /\ r.status # q.status =>
              \/ r.status = "PENDING" /\ q.status \in {"ENRICHED", "PARTIAL_ENRICHMENT_FAILED"}
              \/ r.status = "ENRICHED" /\ q.status = "PARTIAL_ENRICHMENT_FAILED"
<1>1. TableInv /\ JobInv /\ [Next]_vars => [Advances]_vars
  <2> SUFFICES ASSUME TableInv, JobInv, Next,
                      NEW r \in rows, NEW q \in rows', r.id = q.id, r.status # q.status
               PROVE  \/ /\ r.status = "PENDING"
                         /\ q.status \in {"ENRICHED", "PARTIAL_ENRICHMENT_FAILED"}
                      \/ r.status = "ENRICHED" /\ q.status = "PARTIAL_ENRICHMENT_FAILED"
    OBVIOUS
  <2>1. q \notin rows
    BY DEF TableInv, OneRecordPerKey
  <2>2. ASSUME NEW c \in Clients, RowsAdded(c) PROVE FALSE
    <3>1. memoryId[c] \in MemoryIds /\ NewRow(c).id = memoryId[c]
      BY <2>2, NewRowIsRow DEF RowsAdded, TableInv, OwnsId, Writing
    <3> QED BY <2>1, <2>2, <3>1 DEF RowsAdded, TableInv, FreshAtSave
  <2>3. ASSUME NEW m \in MemoryIds, RowsSettled(m)
        PROVE  r.id = m /\ q.status = Target(m) /\ job[m] = "update"
    <3>1. PICK s \in rows : q.id = s.id /\ q.status = IF s.id = m THEN Target(m) ELSE s.status
      BY <2>3 DEF RowsSettled
    <3>2. s = r
      BY <3>1 DEF TableInv, OneRecordPerKey
    <3> QED BY <2>3, <3>1, <3>2 DEF RowsSettled
  <2>4. PICK m \in MemoryIds : r.id = m /\ q.status = Target(m) /\ job[m] = "update"
    BY <2>1, <2>2, <2>3, NextRows DEF JobInv
  <2>5. CASE m \in handler
    <3>1. r.status # "ENRICHMENT_SKIPPED" /\ r.status \in PipelineStatuses
      BY <2>4 DEF JobInv, StatusFollowsJob, TableInv, TypeOK, Row
    <3> QED BY <2>4, <2>5, <3>1 DEF Target, PipelineStatuses
  <2>6. CASE m \notin handler
    BY <2>4, <2>6 DEF JobInv, StatusFollowsJob, Target
  <2> QED BY <2>5, <2>6
<1> QED BY <1>1, JobInvariant, PTL DEF Spec, StatusOnlyAdvances

-----------------------------------------------------------------------------
(* What waits, and what it waits for *)

\* A call that awaits an enrichment awaits one that is under way.
WaitsForLive == \A c \in Clients : pc[c] = "enriching" => job[memoryId[c]] \in Live

\* The enrichment of an announced write was begun, if the write asked for one.
AnnouncedBegun ==
    \A m \in MemoryIds :
        <<"written", m>> \in events =>
            author[m] # NoClient /\ (Enriches(author[m]) => job[m] # "none")

HandInv == WaitsForLive /\ AnnouncedBegun

\* An announced write that asked for extraction is still in hand, or has left
\* PENDING, or its enrichment died in its except clause or with the process.
NeverForgotten ==
    \A m \in MemoryIds :
        <<"written", m>> \in events /\ Enriches(author[m]) =>
            \/ job[m] \in Live \cup {"died", "lost"}
            \/ \A r \in rows : r.id = m => r.status \in {"ENRICHED", "PARTIAL_ENRICHMENT_FAILED"}

\* A coroutine that ends takes every call awaiting it along.
LEMMA EndWakes ==
    ASSUME TableInv, NEW m \in MemoryIds, EnrichStep(m) \/ EnrichRaises(m),
           NEW c \in Clients, pc'[c] = "enriching", memoryId'[c] = m
    PROVE  job'[m] \in Live
<1>0. job \in [MemoryIds -> JobPhase] /\ memoryId \in [Clients -> MemoryIds \cup {NoId}]
  BY DEF TableInv, TypeOK
<1>1. pc[c] = "enriching" /\ memoryId[c] = m
  BY EnrichMoves DEF Writing
<1>2. ~LeaveAll(Waiters(m))
  BY <1>1 DEF LeaveAll, Waiters
<1>3. CASE Raise(m)
  BY <1>0, <1>2, <1>3 DEF Raise, FirstUpdateStep, Live
<1>4. CASE \E p \in Live : job' = [job EXCEPT ![m] = p]
  BY <1>0, <1>4
<1>5. Raise(m) \/ EmitOutcome(m) \/ \E p \in Live : job' = [job EXCEPT ![m] = p]
  BY DEF EnrichStep, Extract, CheckExists, UpdateStatus, EnrichRaises, FirstUpdateStep, Live
<1> QED BY <1>2, <1>3, <1>4, <1>5 DEF EmitOutcome

LEMMA NextHandInv == TableInv /\ JobInv /\ HandInv /\ [Next]_vars => HandInv'
<1> SUFFICES ASSUME TableInv, JobInv, HandInv, [Next]_vars
             PROVE  HandInv'
  OBVIOUS
<1>0. TypeOK /\ OwnsId /\ WaitsForLive /\ AnnouncedBegun /\ NotBegun
  BY DEF TableInv, JobInv, HandInv
<1>1. CASE UNCHANGED vars
  BY <1>0, <1>1 DEF vars, store, local, enrichment, HandInv, WaitsForLive, AnnouncedBegun
<1>2. ASSUME NEW c \in Clients, Call(c) \/ Lookup(c)
      PROVE  HandInv'
  <2>1. UNCHANGED <<events, job>>
    BY <1>2 DEF Call, Lookup, store, enrichment
  <2>2. \A d \in Clients : pc'[d] = "enriching" => pc[d] = "enriching" /\ memoryId'[d] = memoryId[d]
    BY <1>0, <1>2 DEF Call, Lookup, MintAndSave, Leave, TypeOK
  <2>3. \A m \in MemoryIds : author[m] # NoClient => author'[m] = author[m]
    BY <1>0, <1>2 DEF TypeOK, Call, Lookup, MintAndSave
  <2> QED BY <1>0, <2>1, <2>2, <2>3 DEF HandInv, WaitsForLive, AnnouncedBegun
<1>3. ASSUME NEW c \in Clients, Save(c) \/ AppendAudit(c) \/ CallRaises(c)
      PROVE  HandInv'
  <2>1. UNCHANGED <<author, events, job>>
    BY <1>3 DEF Save, AppendAudit, CallRaises, enrichment
  <2>2. \A d \in Clients : pc'[d] = "enriching" => pc[d] = "enriching" /\ memoryId'[d] = memoryId[d]
    BY <1>0, <1>3 DEF Save, AppendAudit, CallRaises, Leave, TypeOK
  <2> QED BY <1>0, <2>1, <2>2 DEF HandInv, WaitsForLive, AnnouncedBegun
<1>4. ASSUME NEW c \in Clients, EmitWritten(c)
      PROVE  HandInv'
  <2> DEFINE m == memoryId[c]
  <2>1. m \in MemoryIds /\ author[m] = c /\ c # NoClient
    BY <1>0, <1>4, WritePipelineAssumption DEF EmitWritten, OwnsId, Writing
  <2>2. /\ events' = events \cup {<<"written", m>>} /\ author' = author
        /\ job' = IF Enriches(c) THEN [job EXCEPT ![m] = "extract"] ELSE job
    BY <1>4 DEF EmitWritten
  <2>3. /\ \A n \in MemoryIds : n # m => job'[n] = job[n]
        /\ Enriches(c) => job'[m] = "extract"
        /\ ~Enriches(c) => job' = job
    BY <1>0, <2>1, <2>2 DEF TypeOK
  <2>4. AnnouncedBegun'
    <3> SUFFICES ASSUME NEW n \in MemoryIds, <<"written", n>> \in events'
                 PROVE  author[n] # NoClient /\ (Enriches(author[n]) => job'[n] # "none")
      BY <2>2 DEF AnnouncedBegun, Enriches
    <3>1. CASE n = m
      BY <2>1, <2>3, <3>1
    <3>2. CASE n # m
      BY <1>0, <2>2, <2>3, <3>2 DEF AnnouncedBegun
    <3> QED BY <3>1, <3>2
  <2>5. ASSUME NEW d \in Clients, pc'[d] = "enriching"
        PROVE  job'[memoryId'[d]] \in Live
    <3>1. CASE d = c
      <4>1. Enriches(c) /\ memoryId' = memoryId
        BY <1>0, <1>4, <2>5, <3>1 DEF EmitWritten, Leave, TypeOK
      <4> QED BY <2>3, <3>1, <4>1 DEF Live
    <3>2. CASE d # c
      <4>1. pc[d] = "enriching" /\ memoryId'[d] = memoryId[d]
        BY <1>0, <1>4, <2>5, <3>2 DEF EmitWritten, Leave, TypeOK
      <4>2. memoryId[d] \in MemoryIds /\ job[memoryId[d]] \in Live
        BY <1>0, <4>1 DEF OwnsId, Writing, WaitsForLive
      <4> QED BY <2>3, <4>1, <4>2 DEF Live
    <3> QED BY <3>1, <3>2
  <2> QED BY <2>4, <2>5 DEF HandInv, WaitsForLive
<1>5. ASSUME NEW m \in MemoryIds, EnrichStep(m) \/ EnrichRaises(m)
      PROVE  HandInv'
  <2>1. /\ job[m] \in Live /\ author' = author
        /\ \A n \in MemoryIds : n # m => job'[n] = job[n]
        /\ \A c \in Clients : pc'[c] \in Writing =>
              pc'[c] = pc[c] /\ memoryId'[c] = memoryId[c]
    BY <1>5, EnrichMoves
  <2>2. /\ job'[m] # "none"
        /\ \A n \in MemoryIds : <<"written", n>> \in events' => <<"written", n>> \in events
    BY <1>5, EnrichGoes DEF Went, StaysInBlock, Fails, Dies, Announces
  <2>3. AnnouncedBegun'
    <3> SUFFICES ASSUME NEW n \in MemoryIds, <<"written", n>> \in events'
                 PROVE  author[n] # NoClient /\ (Enriches(author[n]) => job'[n] # "none")
      BY <2>1 DEF AnnouncedBegun, Enriches
    <3> QED BY <1>0, <2>1, <2>2 DEF AnnouncedBegun
  <2>4. ASSUME NEW c \in Clients, pc'[c] = "enriching"
        PROVE  job'[memoryId'[c]] \in Live
    <3>1. pc[c] = "enriching" /\ memoryId'[c] = memoryId[c] /\ memoryId[c] \in MemoryIds
      BY <1>0, <2>1, <2>4 DEF Writing, OwnsId
    <3>2. CASE memoryId[c] = m
      BY <1>5, <2>4, <3>1, <3>2, EndWakes
    <3>3. CASE memoryId[c] # m
      BY <1>0, <2>1, <3>1, <3>3 DEF WaitsForLive
    <3> QED BY <3>2, <3>3
  <2> QED BY <2>3, <2>4 DEF HandInv, WaitsForLive
<1>6. CASE Crash
  <2>1. /\ UNCHANGED <<author, events>>
        /\ \A m \in MemoryIds : job'[m] = IF job[m] \in Live THEN "lost" ELSE job[m]
        /\ \A c \in Clients : pc'[c] # "enriching"
    BY <1>6 DEF Crash, store, LeaveAll
  <2> QED BY <1>0, <2>1 DEF HandInv, WaitsForLive, AnnouncedBegun, Enriches
<1> QED BY <1>1, <1>2, <1>3, <1>4, <1>5, <1>6 DEF Next, ClientStep

LEMMA HandInvariant == Spec => [](TableInv /\ JobInv /\ HandInv)
<1>1. Init => HandInv
  BY DEF Init, HandInv, WaitsForLive, AnnouncedBegun
<1> QED BY <1>1, NextHandInv, JobInvariant, PTL DEF Spec

\* Over either repository no call waits in vain: the enrichment it awaits is under
\* way, whatever raised in it, and takes the call along when it ends.
THEOREM WaitersAreServed == Spec => []WaitsForLive
<1>1. HandInv => WaitsForLive
  BY DEF HandInv
<1> QED BY <1>1, HandInvariant, PTL

\* Over either repository no announced write is left PENDING with nobody at work
\* on it, except where its enrichment died in its except clause or was lost.
THEOREM WritesStayInHand == Spec => []NeverForgotten
<1>1. TableInv /\ JobInv /\ HandInv => NeverForgotten
  <2> SUFFICES ASSUME TableInv, JobInv, HandInv, NEW m \in MemoryIds,
                      <<"written", m>> \in events, Enriches(author[m]),
                      job[m] \notin Live \cup {"died", "lost"}, NEW r \in rows, r.id = m
               PROVE  r.status \in {"ENRICHED", "PARTIAL_ENRICHMENT_FAILED"}
    BY DEF NeverForgotten
  <2>1. job[m] = "ended"
    BY DEF HandInv, AnnouncedBegun, TableInv, TypeOK, JobPhase, Live
  <2> QED BY <2>1 DEF JobInv, StatusFollowsJob, Target
<1> QED BY <1>1, HandInvariant, PTL

\* How far the coroutine of m has come: twice through the statements of an update
\* at most, the second time in the except clause.
Stage(m) ==
    CASE job[m] = "none" -> 0
      [] job[m] = "extract" -> 1
      [] job[m] = "check" -> IF m \in handler THEN 5 ELSE 2
      [] job[m] = "update" -> IF m \in handler THEN 6 ELSE 3
      [] job[m] = "emit" -> IF m \in handler THEN 7 ELSE 4
      [] job[m] \in {"ended", "died", "lost"} -> 8

\* No enrichment goes round in circles: each of its steps takes it further.
EnrichmentAdvances ==
    [][\A m \in MemoryIds :
          \/ job'[m] = job[m] /\ (m \in handler' <=> m \in handler)
          \/ Stage(m)' > Stage(m)]_vars

\* Whatever raises, an enrichment is over after eight steps of its own.
THEOREM EnrichmentsAdvance == Spec => EnrichmentAdvances
<1> DEFINE Advances ==
      \A m \in MemoryIds :
          \/ job'[m] = job[m] /\ (m \in handler' <=> m \in handler)
          \/ Stage(m)' > Stage(m)
<1>1. TableInv /\ JobInv /\ [Next]_vars => [Advances]_vars
  <2> SUFFICES ASSUME TableInv, JobInv, Next, NEW m \in MemoryIds,
                      ~(job'[m] = job[m] /\ (m \in handler' <=> m \in handler))
               PROVE  Stage(m)' > Stage(m)
    OBVIOUS
  <2>0. job \in [MemoryIds -> JobPhase]
    BY DEF TableInv, TypeOK
  <2>1. ASSUME NEW c \in Clients, Call(c) \/ Lookup(c) \/ Save(c) \/ AppendAudit(c) \/ CallRaises(c)
        PROVE  FALSE
    BY <2>1 DEF Call, Lookup, Save, AppendAudit, CallRaises, enrichment
  <2>2. ASSUME NEW c \in Clients, EmitWritten(c)
        PROVE  Stage(m)' > Stage(m)
    <3>1. job[m] = "none" /\ job'[m] = "extract"
      BY <2>0, <2>2 DEF EmitWritten, TableInv, OwnsId, Writing, JobInv, NotBegun
    <3> QED BY <3>1 DEF Stage
  <2>3. ASSUME NEW n \in MemoryIds, EnrichStep(n) \/ EnrichRaises(n)
        PROVE  Stage(m)' > Stage(m)
    <3>1. m = n /\ job[m] \in Live
      BY <2>3, EnrichMoves
    <3>2. \/ Went(m) /\ StaysInBlock(m)
          \/ Fails(m) \/ Dies(m) \/ Announces(m)
      BY <2>3, <3>1, EnrichGoes
    <3>3. job[m] = "extract" => m \notin handler
      BY DEF JobInv, HandlerLater
    <3>4. CASE Went(m) /\ StaysInBlock(m)
      BY <2>0, <3>1, <3>3, <3>4 DEF Went, StaysInBlock, Stage, Live
    <3>5. CASE Fails(m)
      BY <2>0, <3>1, <3>5 DEF Fails, Stage, Live
    <3>6. CASE Dies(m) \/ Announces(m)
      BY <2>0, <3>1, <3>6 DEF Dies, Announces, Stage, Live
    <3> QED BY <3>2, <3>4, <3>5, <3>6
  <2>4. CASE Crash
    <3>1. job[m] \in Live /\ job'[m] = "lost"
      BY <2>4 DEF Crash
    <3> QED BY <3>1 DEF Stage, Live
  <2> QED BY <2>1, <2>2, <2>3, <2>4 DEF Next, ClientStep
<1> QED BY <1>1, JobInvariant, PTL DEF Spec, EnrichmentAdvances

\* How far client c has come with its calls: six places to each of them, the last of
\* them that it is over.
Place(c) ==
    6 * calls[c] + CASE pc[c] = "lookup" -> 0
                     [] pc[c] = "save" -> 1
                     [] pc[c] = "audit" -> 2
                     [] pc[c] = "emit" -> 3
                     [] pc[c] = "enriching" -> 4
                     [] pc[c] = "idle" -> 5

\* No call goes back to an await it has left, and none is begun before the last is over.
CallAdvances ==
    [][\A c \in Clients :
          UNCHANGED <<calls[c], pc[c]>> \/ Place(c)' > Place(c)]_vars

\* A call is over after five steps of its own, the last of which the enrichment it
\* awaits may take for it.
THEOREM CallsAdvance == Spec => CallAdvances
<1> DEFINE Stands(c) == UNCHANGED <<calls[c], pc[c]>>
<1>1. TypeOK /\ [Next]_vars => [\A c \in Clients : Stands(c) \/ Place(c)' > Place(c)]_vars
  <2> SUFFICES ASSUME TypeOK, Next, NEW c \in Clients, ~Stands(c) PROVE Place(c)' > Place(c)
    OBVIOUS
  <2>0. /\ calls \in [Clients -> 0..MaxCalls] /\ MaxCalls \in Nat
        /\ pc \in [Clients -> Phase]
        /\ calls[c] \in Nat
    BY WritePipelineAssumption DEF TypeOK
  <2>1. ASSUME calls'[c] = calls[c], pc[c] # "idle", pc'[c] = "idle" PROVE Place(c)' > Place(c)
    <3>1. pc[c] \in {"lookup", "save", "audit", "emit", "enriching"}
      BY <2>0, <2>1 DEF Phase
    <3> QED BY <2>0, <2>1, <3>1 DEF Place
  <2>2. ASSUME NEW d \in Clients, Call(d) PROVE Place(c)' > Place(c)
    <3>1. d = c /\ pc[c] = "idle" /\ calls'[c] = calls[c] + 1 /\ pc'[c] \in {"lookup", "save"}
      BY <2>0, <2>2 DEF Call, MintAndSave
    <3> QED BY <2>0, <3>1 DEF Place
  <2>3. ASSUME NEW d \in Clients, Lookup(d) PROVE Place(c)' > Place(c)
    <3>1. d = c /\ pc[c] = "lookup" /\ calls'[c] = calls[c] /\ pc'[c] \in {"save", "idle"}
      BY <2>0, <2>3 DEF Lookup, MintAndSave, Leave
    <3> QED BY <2>0, <3>1 DEF Place
  <2>4. ASSUME NEW d \in Clients, Save(d) PROVE Place(c)' > Place(c)
    <3>1. d = c /\ pc[c] = "save" /\ calls'[c] = calls[c] /\ pc'[c] \in {"audit", "idle"}
      BY <2>0, <2>4 DEF Save, Leave
    <3> QED BY <2>0, <3>1 DEF Place
  <2>5. ASSUME NEW d \in Clients, AppendAudit(d) PROVE Place(c)' > Place(c)
    <3>1. d = c /\ pc[c] = "audit" /\ calls'[c] = calls[c] /\ pc'[c] = "emit"
      BY <2>0, <2>5 DEF AppendAudit
    <3> QED BY <2>0, <3>1 DEF Place
  <2>6. ASSUME NEW d \in Clients, EmitWritten(d) PROVE Place(c)' > Place(c)
    <3>1. d = c /\ pc[c] = "emit" /\ calls'[c] = calls[c] /\ pc'[c] \in {"enriching", "idle"}
      BY <2>0, <2>6 DEF EmitWritten, Leave
    <3> QED BY <2>0, <3>1 DEF Place
  <2>7. ASSUME NEW d \in Clients, CallRaises(d) PROVE Place(c)' > Place(c)
    <3>1. d = c /\ pc[c] # "idle" /\ calls'[c] = calls[c] /\ pc'[c] = "idle"
      BY <2>0, <2>7 DEF CallRaises, Leave
    <3> QED BY <2>1, <3>1
  <2>8. ASSUME calls' = calls, NEW cs \in SUBSET Clients, LeaveAll(cs) PROVE Place(c)' > Place(c)
    <3>1. c \in cs /\ pc'[c] = "idle"
      BY <2>0, <2>8 DEF LeaveAll
    <3>2. CASE pc[c] # "idle"
      BY <2>1, <2>8, <3>1, <3>2
    <3> QED BY <2>8, <3>1, <3>2
  <2>9. ASSUME NEW m \in MemoryIds, EnrichStep(m) \/ EnrichRaises(m) PROVE Place(c)' > Place(c)
    <3>1. calls' = calls /\ (pc' = pc \/ LeaveAll(Waiters(m)))
      BY <2>9 DEF EnrichStep, Extract, CheckExists, UpdateStatus, EmitOutcome, EnrichRaises,
                  Raise, local
    <3> QED BY <2>8, <3>1 DEF Waiters
  <2>10. ASSUME Crash PROVE Place(c)' > Place(c)
    BY <2>8, <2>10 DEF Crash
  <2> QED BY <2>2, <2>3, <2>4, <2>5, <2>6, <2>7, <2>9, <2>10 DEF Next, ClientStep
<1> QED BY <1>1, TypeCorrect, PTL DEF Spec, CallAdvances

-----------------------------------------------------------------------------
(* What an acknowledgement is worth over either repository *)

\* The table holds a record for client c under this id, or under its key.
Findable(id, c) ==
    \E r \in rows : /\ r.tenant = Request[c].tenant /\ r.key = Request[c].key
                    /\ r.id = id \/ r.key # NoKey

\* Past its save, a call's record can be found.
SavedFindable ==
    \A c \in Clients : pc[c] \in {"audit", "emit", "enriching"} => Findable(memoryId[c], c)

FindInv == AckedFindable /\ SavedFindable

\* The step replaces a row only by one of the same tenant and key.
RowsSucceeded ==
    \A r \in rows : \E q \in rows' : /\ q.tenant = r.tenant /\ q.key = r.key
                                     /\ q.id = r.id \/ q.key # NoKey

\* INSERT OR REPLACE leaves a row of the key in the table, as the INSERT does.
LEMMA SaveSucceeds ==
    ASSUME TableInv, NEW c \in Clients, pc[c] = "save",
           ~SaveRaises(rows, NewRow(c)), rows' = SaveRow(rows, NewRow(c))
    PROVE  /\ RowsSucceeded
           /\ NewRow(c) \in rows' /\ NewRow(c).id = memoryId[c]
           /\ NewRow(c).tenant = Request[c].tenant /\ NewRow(c).key = Request[c].key
<1> DEFINE row == NewRow(c)
<1>1. /\ row.id = memoryId[c]
      /\ row.tenant = Request[c].tenant /\ row.key = Request[c].key
  BY NewRowIsRow DEF TableInv, OwnsId, Writing
<1>2. \A r \in rows : r.id # row.id
  BY <1>1 DEF TableInv, FreshAtSave
<1> HIDE DEF row
<1>3. rows' = SaveRow(rows, row)
  BY DEF row
<1>4. CASE Backend = "sqlite"
  <2>1. rows' = {r \in rows : r.id # row.id /\ ~SameKey(r, row)} \cup {row}
    BY <1>3, <1>4 DEF SaveRow, SqliteSave
  <2>2. RowsSucceeded
    BY <1>2, <2>1 DEF RowsSucceeded, SameKey
  <2> QED BY <1>1, <2>1, <2>2 DEF row
<1>5. CASE Backend = "postgres"
  <2>1. rows' = rows \cup {row}
    BY <1>2, <1>3, <1>5 DEF SaveRow, PostgresSave
  <2> QED BY <1>1, <2>1 DEF row, RowsSucceeded
<1> QED BY <1>4, <1>5, RecordStoreAssumption

LEMMA NextRowsSucceeded == TableInv /\ Next => RowsSucceeded
<1> SUFFICES ASSUME TableInv, Next PROVE RowsSucceeded
  OBVIOUS
<1>1. ASSUME UNCHANGED rows PROVE RowsSucceeded
  BY <1>1 DEF RowsSucceeded
<1>2. ASSUME NEW m \in MemoryIds,
             rows' = SetPipelineStatus(rows, m, Request[author[m]].tenant, Target(m))
      PROVE  RowsSucceeded
  BY <1>2, UpdatedRows DEF RowsSucceeded
<1>3. ASSUME NEW c \in Clients, Call(c) \/ ClientStep(c) \/ CallRaises(c)
      PROVE  RowsSucceeded
  BY <1>1, <1>3, SaveSucceeds
     DEF Call, ClientStep, Lookup, Save, AppendAudit, EmitWritten, CallRaises, store
<1>4. ASSUME NEW m \in MemoryIds, EnrichStep(m) \/ EnrichRaises(m)
      PROVE  RowsSucceeded
  BY <1>1, <1>2, <1>4
     DEF EnrichStep, Extract, CheckExists, UpdateStatus, EmitOutcome, EnrichRaises, store
<1>5. ASSUME Crash PROVE RowsSucceeded
  BY <1>1, <1>5 DEF Crash, store
<1> QED BY <1>3, <1>4, <1>5 DEF Next

LEMMA FindableStays ==
    ASSUME RowsSucceeded, NEW id, NEW c, Findable(id, c)
    PROVE  \E q \in rows' : /\ q.tenant = Request[c].tenant /\ q.key = Request[c].key
                            /\ q.id = id \/ q.key # NoKey
BY DEF RowsSucceeded, Findable

LEMMA NextAckedFindable ==
    ASSUME TableInv, FindInv, Next
    PROVE  AckedFindable'
<1>1. ASSUME NEW a \in acks' PROVE Findable(a.id, a.client)
  <2>1. CASE a \in acks
    BY <2>1 DEF FindInv, AckedFindable, Findable
  <2>2. ASSUME NEW c \in Clients, Lookup(c), a \notin acks
        PROVE  Findable(a.id, a.client)
    <3>1. PICK r \in rows : /\ r.tenant = Request[c].tenant /\ r.key = Request[c].key
                           /\ a = IdempotentAck(c, r)
      BY <1>1, <2>2 DEF Lookup, RowsWithKey
    <3> QED BY <3>1 DEF IdempotentAck, Findable
  <2>3. ASSUME NEW c \in Clients, EmitWritten(c), a \notin acks
        PROVE  Findable(a.id, a.client)
    BY <1>1, <2>3 DEF EmitWritten, NewAck, FindInv, SavedFindable
  <2>4. ASSUME NEW m \in MemoryIds, EmitOutcome(m), a \notin acks
        PROVE  Findable(a.id, a.client)
    BY <1>1, <2>4 DEF EmitOutcome, Waiters, NewAck, FindInv, SavedFindable
  <2>5. \/ acks' = acks
        \/ \E c \in Clients : Lookup(c) \/ EmitWritten(c)
        \/ \E m \in MemoryIds : EmitOutcome(m)
    BY DEF Next, ClientStep, EnrichStep, Call, Save, AppendAudit, CallRaises, Extract,
           CheckExists, UpdateStatus, EnrichRaises, Crash
  <2> QED BY <1>1, <2>1, <2>2, <2>3, <2>4, <2>5
<1> QED BY <1>1, FindableStays, NextRowsSucceeded DEF AckedFindable

LEMMA NextSavedFindable ==
    ASSUME TableInv, FindInv, Next
    PROVE  SavedFindable'
<1> DEFINE Past == {"audit", "emit", "enriching"}
           Came(c) == \/ pc[c] \in Past /\ memoryId'[c] = memoryId[c]
                      \/ Save(c) /\ memoryId'[c] = memoryId[c]
                            /\ ~SaveRaises(rows, NewRow(c)) /\ rows' = SaveRow(rows, NewRow(c))
<1>0. TypeOK
  BY DEF TableInv
<1>1. ASSUME NEW c \in Clients, pc'[c] \in Past
      PROVE  Came(c)
  <2>1. ASSUME NEW d \in Clients, Call(d) \/ ClientStep(d) \/ CallRaises(d)
        PROVE  Came(c)
    BY <1>0, <1>1, <2>1
       DEF Call, ClientStep, Lookup, MintAndSave, Save, AppendAudit, EmitWritten, CallRaises,
           Leave, TypeOK
  <2>2. ASSUME NEW m \in MemoryIds, EnrichStep(m) \/ EnrichRaises(m)
        PROVE  Came(c)
    BY <1>1, <2>2, EnrichMoves DEF Writing
  <2>3. ASSUME Crash PROVE Came(c)
    BY <1>0, <1>1, <2>3, LeaveAllMoves DEF Crash, Writing
  <2> QED BY <2>1, <2>2, <2>3 DEF Next
<1>2. ASSUME NEW c \in Clients, pc'[c] \in Past
      PROVE  \E q \in rows' : /\ q.tenant = Request[c].tenant /\ q.key = Request[c].key
                              /\ q.id = memoryId'[c] \/ q.key # NoKey
  <2>1. CASE pc[c] \in Past /\ memoryId'[c] = memoryId[c]
    BY <2>1, FindableStays, NextRowsSucceeded DEF FindInv, SavedFindable
  <2>2. CASE Save(c) /\ memoryId'[c] = memoryId[c]
                /\ ~SaveRaises(rows, NewRow(c)) /\ rows' = SaveRow(rows, NewRow(c))
    BY <2>2, SaveSucceeds DEF Save
  <2> QED BY <1>1, <1>2, <2>1, <2>2
<1> QED BY <1>2 DEF SavedFindable, Findable

\* Over either repository, whoever holds a WriteResult finds a record of its own
\* tenant by the id it was given or by its key, also where a racing write's
\* INSERT OR REPLACE deleted the row it was told of.
THEOREM AckFindable == Spec => []AckedFindable
<1>1. Init => FindInv
  BY DEF Init, FindInv, AckedFindable, SavedFindable
<1>2. TableInv /\ FindInv /\ [Next]_vars => FindInv'
  <2>1. ASSUME UNCHANGED vars, FindInv PROVE FindInv'
    BY <2>1 DEF vars, store, local, FindInv, AckedFindable, SavedFindable, Findable
  <2> QED BY <2>1, NextAckedFindable, NextSavedFindable DEF FindInv
<1>3. FindInv => AckedFindable
  BY DEF FindInv
<1> QED BY <1>1, <1>2, <1>3, TableInvariant, PTL DEF Spec

-----------------------------------------------------------------------------
(* Durability: what holds while no INSERT OR REPLACE deletes a row *)

\* Two calls have both found one tenant's key free, and neither has saved yet.
Contested ==
    \E c, d \in Clients :
        c # d /\ pc[c] = "save" /\ pc[d] = "save" /\ SameKey(NewRow(c), NewRow(d))

\* PostgreSQL's unique index settles a contest, SQLite's INSERT OR REPLACE does not.
Settled == Backend = "postgres" \/ ~Contested

\* A call about to save over SQLite has its key for itself.
FreeAtSave ==
    Backend = "sqlite" =>
        \A c \in Clients : pc[c] = "save" => \A r \in rows : ~SameKey(r, NewRow(c))

\* Past its save, a call's record is in the table.
SavedStored ==
    \A c \in Clients : pc[c] \in {"audit", "emit", "enriching"} => Stored(memoryId[c], c)

\* A write is announced after it was audited.
AuditedAtEmit == \A c \in Clients : pc[c] = "emit" => memoryId[c] \in audit

DurableInv ==
    TableInv /\ FreeAtSave /\ AckedStored /\ SavedStored /\ AuditedAtEmit /\ EnrichmentFollowsWrite

\* The step deletes no row and changes none's id, tenant or key.
RowsKept ==
    \A r \in rows : \E q \in rows' : q.id = r.id /\ q.tenant = r.tenant /\ q.key = r.key

\* Under a fresh id, and over SQLite with a free key, a save adds the row or raises.
LEMMA SaveAdds ==
    ASSUME TableInv, FreeAtSave, NEW c \in Clients, pc[c] = "save"
    PROVE  /\ SaveRow(rows, NewRow(c)) = rows \cup {NewRow(c)}
           /\ NewRow(c).id = memoryId[c]
           /\ NewRow(c).tenant = Request[c].tenant
           /\ NewRow(c).key = Request[c].key
<1>1. memoryId[c] \in MemoryIds
  BY DEF TableInv, OwnsId, Writing
<1>2. /\ NewRow(c).id = memoryId[c]
      /\ NewRow(c).tenant = Request[c].tenant
      /\ NewRow(c).key = Request[c].key
  BY <1>1, NewRowIsRow DEF TableInv
<1>3. CASE Backend = "postgres"
  BY <1>2, <1>3 DEF TableInv, FreshAtSave, SaveRow, PostgresSave
<1>4. CASE Backend = "sqlite"
  <2>1. \A r \in rows : r.id # NewRow(c).id /\ ~SameKey(r, NewRow(c))
    BY <1>2, <1>4 DEF TableInv, FreshAtSave, FreeAtSave
  <2> QED BY <1>2, <1>4, <2>1 DEF SaveRow, SqliteSave
<1> QED BY <1>3, <1>4, RecordStoreAssumption

LEMMA NextKeepsRows ==
    ASSUME TableInv, FreeAtSave, Next
    PROVE  RowsKept
<1>1. ASSUME rows' = rows PROVE RowsKept
  BY <1>1 DEF RowsKept
<1>2. ASSUME NEW c \in Clients, pc[c] = "save", rows' = SaveRow(rows, NewRow(c))
      PROVE  RowsKept
  BY <1>2, SaveAdds DEF RowsKept
<1>3. ASSUME NEW m \in MemoryIds,
             rows' = SetPipelineStatus(rows, m, Request[author[m]].tenant, Target(m))
      PROVE  RowsKept
  BY <1>3, UpdatedRows DEF RowsKept
<1>4. ASSUME NEW c \in Clients, Call(c) \/ ClientStep(c) \/ CallRaises(c)
      PROVE  RowsKept
  BY <1>1, <1>2, <1>4
     DEF Call, ClientStep, Lookup, Save, AppendAudit, EmitWritten, CallRaises, store
<1>5. ASSUME NEW m \in MemoryIds, EnrichStep(m) \/ EnrichRaises(m)
      PROVE  RowsKept
  BY <1>1, <1>3, <1>5
     DEF EnrichStep, Extract, CheckExists, UpdateStatus, EmitOutcome, EnrichRaises, store
<1>6. ASSUME Crash PROVE RowsKept
  BY <1>1, <1>6 DEF Crash, store
<1> QED BY <1>4, <1>5, <1>6 DEF Next

\* Nothing recorded is withdrawn: audit entries, events and authors stay.
LEMMA NextOnlyAdds ==
    ASSUME TypeOK, Next
    PROVE  /\ audit \subseteq audit' /\ events \subseteq events'
           /\ \A m \in MemoryIds : author[m] # NoClient => author'[m] = author[m]
<1>1. ASSUME NEW c \in Clients, MintAndSave(c)
      PROVE  \A m \in MemoryIds : author[m] # NoClient => author'[m] = author[m]
  BY <1>1 DEF MintAndSave, TypeOK
<1>2. ASSUME NEW c \in Clients, Call(c) \/ Lookup(c)
      PROVE  /\ audit' = audit /\ events' = events
             /\ \A m \in MemoryIds : author[m] # NoClient => author'[m] = author[m]
  BY <1>1, <1>2 DEF Call, Lookup, store
<1>3. ASSUME NEW c \in Clients,
             Save(c) \/ AppendAudit(c) \/ EmitWritten(c) \/ CallRaises(c)
      PROVE  audit \subseteq audit' /\ events \subseteq events' /\ author' = author
  BY <1>3 DEF Save, AppendAudit, EmitWritten, CallRaises
<1>4. ASSUME NEW m \in MemoryIds, EnrichStep(m) \/ EnrichRaises(m)
      PROVE  audit \subseteq audit' /\ events \subseteq events' /\ author' = author
  BY <1>4 DEF EnrichStep, Extract, CheckExists, UpdateStatus, EmitOutcome, EnrichRaises,
              store, local
<1>5. ASSUME Crash
      PROVE  audit \subseteq audit' /\ events \subseteq events' /\ author' = author
  BY <1>5 DEF Crash, store
<1> QED BY <1>2, <1>3, <1>4, <1>5 DEF Next, ClientStep

\* A record stays stored as its client asked for it.
LEMMA StoredStays ==
    ASSUME RowsKept, NEW m, NEW c, Stored(m, c)
    PROVE  Stored(m, c)'
BY DEF RowsKept, Stored

LEMMA NextAckedStored ==
    ASSUME DurableInv, RowsKept, Next
    PROVE  AckedStored'
<1>1. \A a \in acks' : a \in acks \/ Stored(a.id, a.client)
  <2>1. ASSUME NEW c \in Clients, Lookup(c), NEW a \in acks', a \notin acks
        PROVE  Stored(a.id, a.client)
    <3>1. PICK r \in rows : /\ r.tenant = Request[c].tenant /\ r.key = Request[c].key
                           /\ a = IdempotentAck(c, r)
      BY <2>1 DEF Lookup, RowsWithKey
    <3> QED BY <3>1 DEF IdempotentAck, Stored
  <2>2. ASSUME NEW c \in Clients, EmitWritten(c), NEW a \in acks', a \notin acks
        PROVE  Stored(a.id, a.client)
    BY <2>2 DEF EmitWritten, NewAck, DurableInv, SavedStored
  <2>3. ASSUME NEW m \in MemoryIds, EmitOutcome(m), NEW a \in acks', a \notin acks
        PROVE  Stored(a.id, a.client)
    BY <2>3 DEF EmitOutcome, Waiters, NewAck, DurableInv, SavedStored
  <2>4. \/ acks' = acks
        \/ \E c \in Clients : Lookup(c) \/ EmitWritten(c)
        \/ \E m \in MemoryIds : EmitOutcome(m)
    BY DEF Next, ClientStep, EnrichStep, Call, Save, AppendAudit, CallRaises, Extract,
           CheckExists, UpdateStatus, EnrichRaises, Crash
  <2> QED BY <2>1, <2>2, <2>3, <2>4
<1>2. \A a \in acks' : Stored(a.id, a.client)
  BY <1>1 DEF DurableInv, AckedStored
<1> QED BY <1>2 DEF AckedStored, Stored, RowsKept

LEMMA NextSavedStored ==
    ASSUME DurableInv, RowsKept, Next
    PROVE  SavedStored' /\ AuditedAtEmit'
<1> DEFINE Saved == {"audit", "emit", "enriching"}
           Came(c) == \/ pc[c] \in Saved /\ memoryId'[c] = memoryId[c]
                      \/ Save(c) /\ memoryId'[c] = memoryId[c] /\ rows' = SaveRow(rows, NewRow(c))
           Audited(c) == pc'[c] = "emit" =>
                            \/ pc[c] = "emit" /\ memoryId'[c] = memoryId[c]
                            \/ memoryId'[c] \in audit'
<1>1. TypeOK /\ TableInv /\ FreeAtSave
  BY DEF DurableInv, TableInv
<1>2. ASSUME NEW c \in Clients, pc'[c] \in Saved
      PROVE  Came(c) /\ Audited(c)
  <2>1. ASSUME NEW d \in Clients, Call(d) \/ ClientStep(d) \/ CallRaises(d)
        PROVE  Came(c) /\ Audited(c)
    BY <1>1, <1>2, <2>1
       DEF Call, ClientStep, Lookup, MintAndSave, Save, AppendAudit, EmitWritten, CallRaises,
           Leave, TypeOK
  <2>2. ASSUME NEW m \in MemoryIds, EnrichStep(m) \/ EnrichRaises(m)
        PROVE  pc'[c] = pc[c] /\ memoryId'[c] = memoryId[c]
    BY <1>1, <1>2, <2>2, RaiseMoves, LeaveAllMoves
       DEF EnrichStep, Extract, CheckExists, UpdateStatus, EmitOutcome, EnrichRaises, local, Writing
  <2>3. ASSUME Crash
        PROVE  pc'[c] = pc[c] /\ memoryId'[c] = memoryId[c]
    BY <1>1, <1>2, <2>3, LeaveAllMoves DEF Crash, Writing
  <2> QED BY <1>2, <2>1, <2>2, <2>3 DEF Next
<1>3. SavedStored'
  <2> SUFFICES ASSUME NEW c \in Clients, pc'[c] \in Saved
               PROVE  \E r \in rows' : /\ r.id = memoryId'[c]
                                       /\ r.tenant = Request[c].tenant
                                       /\ r.key = Request[c].key
    BY DEF SavedStored, Stored
  <2>1. CASE pc[c] \in Saved /\ memoryId'[c] = memoryId[c]
    BY <2>1 DEF DurableInv, SavedStored, Stored, RowsKept
  <2>2. CASE Save(c) /\ memoryId'[c] = memoryId[c] /\ rows' = SaveRow(rows, NewRow(c))
    BY <1>1, <2>2, SaveAdds DEF Save, Stored
  <2> QED BY <1>2, <2>1, <2>2
<1>4. AuditedAtEmit'
  BY <1>1, <1>2, NextOnlyAdds DEF DurableInv, AuditedAtEmit
<1> QED BY <1>3, <1>4

LEMMA NextEnrichmentFollowsWrite ==
    ASSUME DurableInv, RowsKept, Next
    PROVE  EnrichmentFollowsWrite'
<1> DEFINE Begun(m) == /\ Stored(m, author[m]) /\ m \in audit
                       /\ <<"written", m>> \in events' /\ author' = author
<1>1. TypeOK
  BY DEF DurableInv, TableInv
<1>2. ASSUME NEW m \in MemoryIds, job'[m] # "none", job[m] = "none"
      PROVE  Begun(m)
  <2>1. ASSUME NEW c \in Clients, EmitWritten(c)
        PROVE  Begun(m)
    <3>1. memoryId[c] = m /\ author[m] = c
      BY <1>1, <1>2, <2>1 DEF EmitWritten, DurableInv, TableInv, OwnsId, Writing, TypeOK
    <3> QED BY <2>1, <3>1 DEF EmitWritten, DurableInv, SavedStored, AuditedAtEmit
  <2>2. ASSUME NEW c \in Clients,
               Call(c) \/ Lookup(c) \/ Save(c) \/ AppendAudit(c) \/ CallRaises(c)
        PROVE  FALSE
    BY <1>2, <2>2 DEF Call, Lookup, Save, AppendAudit, CallRaises, enrichment
  <2>3. ASSUME NEW n \in MemoryIds, EnrichStep(n) \/ EnrichRaises(n)
        PROVE  FALSE
    <3>1. job[n] # "none"
      BY <2>3 DEF EnrichStep, Extract, CheckExists, UpdateStatus, EmitOutcome, EnrichRaises
    <3>2. job'[m] = job[m]
      BY <1>1, <1>2, <2>3, <3>1, RaiseMoves
         DEF EnrichStep, Extract, CheckExists, UpdateStatus, EmitOutcome, EnrichRaises, TypeOK
    <3> QED BY <1>2, <3>2
  <2>4. ASSUME Crash PROVE FALSE
    BY <1>2, <2>4 DEF Crash, Live
  <2> QED BY <2>1, <2>2, <2>3, <2>4 DEF Next, ClientStep
<1>3. ASSUME NEW m \in MemoryIds, Stored(m, author[m])
      PROVE  author'[m] = author[m] \/ author' = author
  BY <1>1, <1>3, NextOnlyAdds DEF Stored, DurableInv, TableInv, RowsMinted
<1>4. ASSUME NEW m \in MemoryIds, job'[m] # "none"
      PROVE  /\ Stored(m, author[m]) /\ m \in audit
             /\ <<"written", m>> \in events' /\ author'[m] = author[m]
  BY <1>1, <1>2, <1>3, <1>4, NextOnlyAdds DEF DurableInv, EnrichmentFollowsWrite
<1>5. ASSUME NEW m \in MemoryIds, job'[m] # "none"
      PROVE  /\ \E r \in rows' : /\ r.id = m /\ r.tenant = Request[author'[m]].tenant
                                /\ r.key = Request[author'[m]].key
             /\ m \in audit' /\ <<"written", m>> \in events'
  BY <1>1, <1>4, <1>5, NextOnlyAdds DEF Stored, RowsKept
<1>6. ASSUME NEW m \in facts'
      PROVE  m \in MemoryIds /\ job[m] # "none"
  <2>1. m \in facts \/ (m \in MemoryIds /\ job[m] = "extract")
    BY <1>6 DEF Next, Call, ClientStep, Lookup, Save, AppendAudit, EmitWritten, CallRaises,
                EnrichStep, Extract, CheckExists, UpdateStatus, EmitOutcome, EnrichRaises,
                Crash, store
  <2> QED BY <1>1, <2>1 DEF TypeOK, DurableInv, EnrichmentFollowsWrite
<1>7. ASSUME NEW m \in MemoryIds, job[m] # "none"
      PROVE  job'[m] # "none"
  <2>1. ASSUME NEW c \in Clients, Call(c) \/ ClientStep(c) \/ CallRaises(c)
        PROVE  job'[m] # "none"
    BY <1>1, <1>7, <2>1
       DEF Call, ClientStep, Lookup, Save, AppendAudit, EmitWritten, CallRaises, enrichment,
           TypeOK
  <2>2. ASSUME NEW n \in MemoryIds, EnrichStep(n) \/ EnrichRaises(n)
        PROVE  job'[m] # "none"
    BY <1>1, <1>7, <2>2
       DEF EnrichStep, Extract, CheckExists, UpdateStatus, EmitOutcome, EnrichRaises, Raise,
           FirstUpdateStep, TypeOK
  <2>3. ASSUME Crash PROVE job'[m] # "none"
    BY <1>7, <2>3 DEF Crash
  <2> QED BY <2>1, <2>2, <2>3 DEF Next
<1> QED BY <1>5, <1>6, <1>7 DEF EnrichmentFollowsWrite, Stored

\* Only a lookup or a call without a key leads to a save, and only another call for
\* the key, found free as well, could take it in between.
LEMMA NextFreeAtSave ==
    ASSUME TableInv, FreeAtSave, Settled, Next, Backend = "sqlite"
    PROVE  FreeAtSave'
<1> SUFFICES ASSUME NEW c \in Clients, pc'[c] = "save", NEW q \in rows'
             PROVE  ~(q.key # NoKey /\ q.key = Request[c].key /\ q.tenant = Request[c].tenant)
  <2>1. ASSUME NEW c \in Clients, NEW q \in rows'
        PROVE  SameKey(q, NewRow(c))' <=>
                  q.key # NoKey /\ q.key = Request[c].key /\ q.tenant = Request[c].tenant
    BY DEF SameKey, NewRow
  <2> QED BY <2>1 DEF FreeAtSave
<1>0. TypeOK /\ Backend # "postgres" /\ ~Contested
  BY DEF TableInv, Settled
<1> DEFINE Free(r) == ~(r.key # NoKey /\ r.key = Request[c].key /\ r.tenant = Request[c].tenant)
<1>1. ASSUME pc[c] = "save", NEW r \in rows PROVE Free(r)
  BY <1>1 DEF FreeAtSave, SameKey, NewRow
<1>2. ASSUME pc[c] = "save", rows' = rows PROVE Free(q)
  BY <1>1, <1>2
<1>3. ASSUME NEW m \in MemoryIds, pc[c] = "save",
             rows' = SetPipelineStatus(rows, m, Request[author[m]].tenant, Target(m))
      PROVE  Free(q)
  <2>1. PICK r \in rows : q.key = r.key /\ q.tenant = r.tenant
    BY <1>3, UpdatedRows
  <2> QED BY <1>1, <1>3, <2>1
<1>4. ASSUME NEW d \in Clients, Save(d) PROVE Free(q)
  <2>1. pc[d] = "save" /\ rows' = SaveRow(rows, NewRow(d)) /\ pc' = [pc EXCEPT ![d] = "audit"]
    BY <1>0, <1>4 DEF Save, SaveRaises
  <2>2. d # c /\ pc[c] = "save"
    BY <1>0, <2>1 DEF TypeOK
  <2>3. q \in rows \/ q = NewRow(d)
    BY <2>1, SaveAdds
  <2>4. ~SameKey(NewRow(d), NewRow(c))
    BY <1>0, <2>1, <2>2 DEF Contested
  <2> QED BY <1>1, <2>2, <2>3, <2>4 DEF SameKey, NewRow
<1>5. ASSUME NEW d \in Clients, Call(d) \/ Lookup(d) PROVE Free(q)
  <2>1. rows' = rows
    BY <1>5 DEF Call, Lookup, store
  <2>2. CASE pc[c] = "save"
    BY <1>2, <2>1, <2>2
  <2>3. CASE pc[c] # "save"
    <3>1. d = c
      BY <1>0, <1>5, <2>3 DEF Call, Lookup, MintAndSave, Leave, TypeOK
    <3>2. CASE Call(c)
      BY <1>0, <3>2 DEF Call, TypeOK
    <3>3. CASE Lookup(c)
      <4>1. RowsWithKey(rows, Request[c].key, Request[c].tenant) = {}
        BY <1>0, <3>3 DEF Lookup, Leave, TypeOK
      <4> QED BY <2>1, <4>1 DEF RowsWithKey
    <3> QED BY <1>5, <3>1, <3>2, <3>3
  <2> QED BY <2>2, <2>3
<1>6. ASSUME NEW d \in Clients, AppendAudit(d) \/ EmitWritten(d) \/ CallRaises(d) PROVE Free(q)
  <2>1. rows' = rows
    BY <1>0, <1>6 DEF AppendAudit, EmitWritten, CallRaises
  <2>2. pc[c] = "save"
    BY <1>0, <1>6 DEF AppendAudit, EmitWritten, CallRaises, Leave, TypeOK
  <2> QED BY <1>2, <2>1, <2>2
<1>7. ASSUME NEW m \in MemoryIds, EnrichStep(m) \/ EnrichRaises(m) PROVE Free(q)
  <2>1. pc[c] = "save"
    BY <1>7, EnrichMoves DEF Writing
  <2>2. \/ rows' = rows
        \/ rows' = SetPipelineStatus(rows, m, Request[author[m]].tenant, Target(m))
    BY <1>7 DEF EnrichStep, Extract, CheckExists, UpdateStatus, EmitOutcome, EnrichRaises, store
  <2> QED BY <1>2, <1>3, <2>1, <2>2
<1>8. ASSUME Crash PROVE FALSE
  BY <1>8, <1>0 DEF Crash, LeaveAll, TypeOK
<1> QED BY <1>4, <1>5, <1>6, <1>7, <1>8 DEF Next, ClientStep

LEMMA NextDurableInv == DurableInv /\ Settled /\ [Next]_vars => DurableInv'
<1>1. ASSUME DurableInv, Settled, Next PROVE DurableInv'
  <2>1. TableInv'
    BY <1>1, NextTableInv DEF DurableInv
  <2>2. RowsKept
    BY <1>1, NextKeepsRows DEF DurableInv
  <2>3. FreeAtSave'
    BY <1>1, NextFreeAtSave DEF DurableInv, FreeAtSave
  <2> QED BY <1>1, <2>1, <2>2, <2>3, NextAckedStored, NextSavedStored,
             NextEnrichmentFollowsWrite DEF DurableInv
<1>2. ASSUME DurableInv, UNCHANGED vars PROVE DurableInv'
  <2>1. FreeAtSave'
    BY <1>2 DEF DurableInv, FreeAtSave, NewRow, vars, store, local
  <2> QED BY <1>2, <2>1, NextTableInv
     DEF DurableInv, AckedStored, SavedStored, AuditedAtEmit, EnrichmentFollowsWrite, Stored,
         vars, store, local, enrichment
<1> QED BY <1>1, <1>2

LEMMA DurableInvariant == Spec /\ []Settled => []DurableInv
<1>1. Init => DurableInv
  BY InitTableInv
     DEF Init, DurableInv, FreeAtSave, AckedStored, SavedStored, AuditedAtEmit, EnrichmentFollowsWrite
<1> QED BY <1>1, NextDurableInv, PTL DEF Spec

\* On either backend, as long as no two calls over SQLite have found the same key free
\* at once, whoever holds a WriteResult finds its record in the table, whatever
\* is repeated, fails or crashes.
THEOREM SettledAckDurable == Spec /\ []Settled => []AckedStored
<1>1. DurableInv => AckedStored
  BY DEF DurableInv
<1> QED BY <1>1, DurableInvariant, PTL

\* Over PostgreSQL, whoever holds a WriteResult finds its record in the table,
\* whatever races, retries, faults and crashes came between.
THEOREM AckDurable ==
    ASSUME Backend = "postgres"
    PROVE  Spec => []AckedStored
<1>1. Settled
  BY DEF Settled
<1> QED BY <1>1, SettledAckDurable, PTL

\* On either backend, as long as no two calls over SQLite have found the same key free
\* at once, extraction runs for records that were saved, audited and announced.
LEMMA SettledEnrichment == Spec /\ []Settled => []EnrichmentFollowsWrite
<1>1. DurableInv => EnrichmentFollowsWrite
  BY DEF DurableInv
<1> QED BY <1>1, DurableInvariant, PTL

\* Over PostgreSQL, extraction runs for records that were saved, audited and
\* announced, so never for the loser of a race for a key.
THEOREM EnrichmentIsOfWrites ==
    ASSUME Backend = "postgres"
    PROVE  Spec => []EnrichmentFollowsWrite
<1>1. Settled
  BY DEF Settled
<1> QED BY <1>1, SettledEnrichment, PTL

-----------------------------------------------------------------------------
(* The pipeline implements the write contract *)

\* A save under a fresh id and a free key is the contract's Accept.
LEMMA SaveAccepts ==
    ASSUME TableInv, FreeAtSave, NEW c \in Clients, pc[c] = "save",
           ~SaveRaises(rows, NewRow(c)), rows' = SaveRow(rows, NewRow(c)), UNCHANGED acks
    PROVE  Contract!Next
<1> DEFINE e == RecordOf(NewRow(c))
<1>1. /\ rows' = rows \cup {NewRow(c)}
      /\ NewRow(c).id = memoryId[c]
  BY SaveAdds
<1>2. /\ memoryId[c] \in MemoryIds /\ NewRow(c) \in Row
      /\ e \in Contract!Record /\ e.id = NewRow(c).id
      /\ e.tenant = NewRow(c).tenant /\ e.key = NewRow(c).key
  BY NewRowIsRow DEF TableInv, OwnsId, Writing, RecordOf, Contract!Record, Row
<1>3. \A d \in Accepted : d.id # e.id
  BY <1>1, <1>2 DEF TableInv, FreshAtSave, Accepted, RecordOf
<1>4. e.key # NoKey => \A d \in Accepted : ~(d.tenant = e.tenant /\ d.key = e.key)
  <2>1. \A r \in rows : ~SameKey(r, NewRow(c))
    <3>1. CASE Backend = "postgres"
      BY <1>1, <3>1 DEF TableInv, FreshAtSave, SaveRaises, PostgresSaveRaises
    <3>2. CASE Backend = "sqlite"
      BY <3>2 DEF FreeAtSave
    <3> QED BY <3>1, <3>2, RecordStoreAssumption
  <2> QED BY <1>2, <2>1 DEF Accepted, RecordOf, SameKey
<1>5. Accepted' = Accepted \cup {e}
  BY <1>1 DEF Accepted
<1>6. UNCHANGED Acknowledged
  BY DEF Acknowledged
<1> QED BY <1>2, <1>3, <1>4, <1>5, <1>6 DEF Contract!Next, Contract!Accept

\* A WriteResult for a stored record is the contract's Acknowledge.
LEMMA AckAcknowledges ==
    ASSUME TypeOK, NEW a \in Ack, Stored(a.id, a.client), acks' = acks \cup {a}, UNCHANGED rows
    PROVE  Contract!Next
<1> DEFINE e == RecordAcked(a)
<1>1. e \in Contract!Record
  BY WritePipelineAssumption DEF RecordAcked, Contract!Record, Ack, WriteRequest
<1>2. e \in Accepted
  <2>1. PICK r \in rows : /\ r.id = a.id /\ r.tenant = Request[a.client].tenant
                         /\ r.key = Request[a.client].key
    BY DEF Stored
  <2>2. RecordOf(r) = e
    BY <2>1 DEF RecordOf, RecordAcked
  <2> QED BY <2>2 DEF Accepted
<1>3. Acknowledged' = Acknowledged \cup {e} /\ Accepted' = Accepted
  BY DEF Acknowledged, Accepted
<1> QED BY <1>1, <1>2, <1>3 DEF Contract!Next, Contract!Acknowledge

\* What neither saves nor answers stutters: a status is none of the contract's.
LEMMA QuietStutters ==
    ASSUME UNCHANGED acks, TableInv,
           \/ UNCHANGED rows
           \/ \E m \in MemoryIds :
                 rows' = SetPipelineStatus(rows, m, Request[author[m]].tenant, Target(m))
    PROVE  UNCHANGED <<Accepted, Acknowledged>>
<1>1. Accepted' = Accepted
  <2>1. CASE UNCHANGED rows
    BY <2>1 DEF Accepted
  <2>2. ASSUME NEW m \in MemoryIds,
               rows' = SetPipelineStatus(rows, m, Request[author[m]].tenant, Target(m))
        PROVE  Accepted' = Accepted
    <3>1. /\ \A q \in rows' : \E r \in rows : RecordOf(q) = RecordOf(r)
          /\ \A r \in rows : \E q \in rows' : RecordOf(r) = RecordOf(q)
      BY <2>2, UpdatedRows DEF RecordOf
    <3> QED BY <3>1 DEF Accepted
  <2> QED BY <2>1, <2>2
<1>2. Acknowledged' = Acknowledged
  BY DEF Acknowledged
<1> QED BY <1>1, <1>2

LEMMA NextKeepsContract ==
    ASSUME DurableInv, Next
    PROVE  Contract!Next \/ UNCHANGED <<Accepted, Acknowledged>>
<1>0. TypeOK /\ TableInv /\ FreeAtSave
  BY DEF DurableInv, TableInv
<1>1. ASSUME NEW c \in Clients, Call(c) \/ AppendAudit(c)
      PROVE  UNCHANGED <<rows, acks>>
  BY <1>1 DEF Call, AppendAudit, store
<1>2. ASSUME NEW c \in Clients, Lookup(c)
      PROVE  Contract!Next \/ UNCHANGED <<rows, acks>>
  <2>1. CASE UNCHANGED acks
    BY <1>2, <2>1 DEF Lookup, store
  <2>2. CASE \E r \in RowsWithKey(rows, Request[c].key, Request[c].tenant) :
                acks' = acks \cup {IdempotentAck(c, r)}
    <3>1. PICK r \in rows : /\ r.tenant = Request[c].tenant /\ r.key = Request[c].key
                           /\ acks' = acks \cup {IdempotentAck(c, r)}
      BY <2>2 DEF RowsWithKey
    <3> DEFINE a == IdempotentAck(c, r)
    <3>2. a \in Ack /\ Stored(a.id, a.client)
      BY <1>0, <3>1 DEF TypeOK, IdempotentAck, Ack, Row, Stored
    <3>3. UNCHANGED rows
      BY <1>2 DEF Lookup, store
    <3> HIDE DEF a
    <3>4. acks' = acks \cup {a}
      BY <3>1 DEF a
    <3> QED BY <1>0, <3>2, <3>3, <3>4, AckAcknowledges
  <2> QED BY <1>2, <2>1, <2>2 DEF Lookup
<1>3. ASSUME NEW c \in Clients, Save(c) \/ CallRaises(c)
      PROVE  Contract!Next \/ UNCHANGED <<rows, acks>>
  BY <1>0, <1>3, SaveAccepts DEF Save, CallRaises
<1>4. ASSUME NEW c \in Clients, memoryId[c] \in MemoryIds, Stored(memoryId[c], c),
             acks' = acks \cup {NewAck(c)}, UNCHANGED rows
      PROVE  Contract!Next
  <2> DEFINE a == NewAck(c)
  <2>1. a \in Ack /\ Stored(a.id, a.client)
    BY <1>4 DEF NewAck, Ack, InitialStatus, PipelineStatuses
  <2> HIDE DEF a
  <2>2. acks' = acks \cup {a}
    BY <1>4 DEF a
  <2> QED BY <1>0, <1>4, <2>1, <2>2, AckAcknowledges
<1>5. ASSUME NEW c \in Clients, EmitWritten(c)
      PROVE  Contract!Next \/ UNCHANGED <<rows, acks>>
  BY <1>0, <1>4, <1>5 DEF EmitWritten, DurableInv, SavedStored, TableInv, OwnsId, Writing
<1>6. ASSUME NEW m \in MemoryIds, EmitOutcome(m)
      PROVE  Contract!Next \/ UNCHANGED <<rows, acks>>
  <2>1. CASE Waiters(m) = {}
    BY <1>6, <2>1 DEF EmitOutcome
  <2>2. CASE Waiters(m) # {}
    <3>1. PICK c \in Clients : pc[c] = "enriching" /\ memoryId[c] = m
      BY <2>2 DEF Waiters
    <3>2. Waiters(m) = {c}
      BY <1>0, <3>1 DEF Waiters, TableInv, OwnsId, Writing
    <3>3. acks' = acks \cup {NewAck(c)} /\ UNCHANGED rows
      BY <1>6, <3>2 DEF EmitOutcome
    <3> QED BY <1>4, <3>1, <3>3 DEF DurableInv, SavedStored
  <2> QED BY <2>1, <2>2
<1>7. ASSUME NEW m \in MemoryIds,
             Extract(m) \/ CheckExists(m) \/ UpdateStatus(m) \/ EnrichRaises(m)
      PROVE  UNCHANGED <<Accepted, Acknowledged>>
  BY <1>0, <1>7, QuietStutters DEF Extract, CheckExists, UpdateStatus, EnrichRaises, store
<1>8. ASSUME Crash PROVE UNCHANGED <<rows, acks>>
  BY <1>8 DEF Crash, store
<1> QED
  BY <1>0, <1>1, <1>2, <1>3, <1>5, <1>6, <1>7, <1>8, QuietStutters
     DEF Next, ClientStep, EnrichStep

\* On either backend, as long as no two calls over SQLite have found the same key free
\* at once, the write pipeline implements the write contract.
THEOREM SettledImplementsContract == Spec /\ []Settled => KeepsContract
<1>1. Init => Contract!Init
  BY DEF Init, Contract!Init, Accepted, Acknowledged
<1>2. DurableInv /\ [Next]_vars => [Contract!Next]_<<Accepted, Acknowledged>>
  <2>1. ASSUME UNCHANGED vars PROVE UNCHANGED <<Accepted, Acknowledged>>
    BY <2>1 DEF vars, store, Accepted, Acknowledged
  <2> QED BY <2>1, NextKeepsContract
<1> QED BY <1>1, <1>2, DurableInvariant, PTL DEF Spec, KeepsContract, Contract!Spec

\* Over PostgreSQL the write pipeline implements the write contract: records
\* are accepted once per tenant and key, and only accepted records acknowledged.
THEOREM ImplementsContract ==
    ASSUME Backend = "postgres"
    PROVE  Spec => KeepsContract
<1>1. Settled
  BY DEF Settled
<1> QED BY <1>1, SettledImplementsContract, PTL

\* The contract alone keeps its promise: accepting and acknowledging are all its steps.
LEMMA ContractKeepsPromise == Contract!Spec => []Contract!Promise
<1>1. Contract!Init => Contract!Promise
  BY DEF Contract!Init, Contract!Promise
<1>2. Contract!Promise /\ [Contract!Next]_<<Accepted, Acknowledged>> => Contract!Promise'
  <2> SUFFICES ASSUME Contract!Promise, [Contract!Next]_<<Accepted, Acknowledged>>
               PROVE  Contract!Promise'
    OBVIOUS
  <2>1. ASSUME NEW e \in Contract!Record, Contract!Accept(e)
        PROVE  Contract!Promise'
    BY <2>1 DEF Contract!Promise, Contract!Accept
  <2>2. ASSUME NEW e \in Contract!Record, Contract!Acknowledge(e)
        PROVE  Contract!Promise'
    BY <2>2 DEF Contract!Promise, Contract!Acknowledge
  <2>3. CASE UNCHANGED <<Accepted, Acknowledged>>
    BY <2>3 DEF Contract!Promise
  <2> QED BY <2>1, <2>2, <2>3 DEF Contract!Next
<1> QED BY <1>1, <1>2, PTL DEF Contract!Spec

\* On either backend, as long as no two calls over SQLite have found the same key free
\* at once, every WriteResult names a durable record, and one for each tenant's key.
THEOREM SettledPromise == Spec /\ []Settled => []Contract!Promise
  BY SettledImplementsContract, ContractKeepsPromise, PTL DEF KeepsContract

\* Over PostgreSQL every WriteResult a client holds names a durable record, and two
\* results for one tenant's key name the same one.
THEOREM PromiseKept ==
    ASSUME Backend = "postgres"
    PROVE  Spec => []Contract!Promise
  BY ImplementsContract, ContractKeepsPromise, PTL DEF KeepsContract
=============================================================================
