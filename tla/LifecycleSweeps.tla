--------------------------- MODULE LifecycleSweeps ---------------------------
(***************************************************************************)
(* The sweeps over one tenant's memory records: ConsolidationService as    *)
(* the scheduler's loop and the end of a session run it, and DecayService. *)
(* All of them work through a list read earlier, side by side.             *)
(*                                                                         *)
(* Records are numbered in the order they were recorded.  A summary is a   *)
(* row of the same table, but saved as CONSOLIDATED: no list returns it    *)
(* and no sweep changes it, so summaries are kept apart, each with an id   *)
(* of its own.  A worker stands in pc at the await it is about to leave;   *)
(* one that nothing shared depends on has no phase of its own.             *)
(*                                                                         *)
(* Bounds: N records, and MaxUpsets events from outside: an operation that *)
(* fails, a crash of the process, a change of the policy.                  *)
(***************************************************************************)
EXTENDS Integers, Sequences, FiniteSets

CONSTANTS
    N,
    Principals,
    NoPrincipal,                    \* the scope of a sweep called without one
    PrincipalOf, SectorOf,          \* of each record
    PolicySectors,                  \* policy.sectors, in order
    Threshold, MaxItems,            \* policy.threshold_record_count, max_items_per_run
    ListLimit,                      \* the default limit of list_by_scope
    Workers, Role, ScopeOf,         \* who runs which sweep, with what scope
    Saved,                          \* records in the table from the start
    PolicyChoices,                  \* what an operator may set
    MaxUpsets

Records == 1..N
Sectors == {PolicySectors[k] : k \in DOMAIN PolicySectors}
Roles == {"consolidation", "decay", "session"}
Triggers == {"SESSION_END", "THRESHOLD", "SCHEDULE", "ON_DEMAND"}

ASSUME SweepsAssumption ==
    /\ N \in Nat /\ ListLimit \in Nat
    /\ Threshold \in Nat \ {0} /\ MaxItems \in Nat \ {0}
    /\ MaxUpsets \in Nat
    /\ PolicyChoices \subseteq [enabled: BOOLEAN, trigger: Triggers]
    /\ NoPrincipal \notin Principals
    /\ PolicySectors \in Seq(Sectors)
    /\ PrincipalOf \in [Records -> Principals]
    /\ Role \in [Workers -> Roles]
    /\ ScopeOf \in [Workers -> Principals \cup {NoPrincipal}]
    /\ Saved \subseteq Records

VARIABLES
    backend,    \* the record repository wired in: "sqlite" or "postgres"
    ports,      \* "shipped": the repositories and logs of src; "complete":
                \* ones that have what the services call
    policy,     \* the tenant's consolidation policy: enabled, trigger
    life,       \* lifecycle_state of each record, "none" before it is saved
    summaries,  \* consolidated records saved
    audit,      \* <<operation, record>> in the audit log
    completed,  \* batches observers heard ConsolidationJobCompleted of
    pc,         \* the await each worker stands at
    sector,     \* position in policy.sectors
    batch,      \* records it is summarising, or has
    todo,       \* records it has still to work through
    excused,    \* history: records two sweeps held at once, or one was cut off with
    upsets

table == <<life, summaries>>
heard == <<audit, completed>>
worker == <<pc, sector, batch, todo>>
wiring == <<backend, ports>>
vars == <<wiring, policy, table, heard, worker, excused, upsets>>

States == {"ACTIVE", "CONSOLIDATED", "DECAYED"}
Phase == {"idle", "ending", "policy", "list", "save", "update", "audit", "complete",
          "old", "decay", "log"}
Summary == [id: Nat, principal: Principals, sector: Sectors, sources: SUBSET Records]

TypeOK ==
    /\ backend \in {"sqlite", "postgres"}
    /\ ports \in {"shipped", "complete"}
    /\ policy \in [enabled: BOOLEAN, trigger: Triggers]
    /\ life \in [Records -> States \cup {"none"}]
    /\ summaries \subseteq Summary
    /\ audit \subseteq {"CONSOLIDATE", "DECAY"} \X Records
    /\ completed \subseteq SUBSET Records
    /\ pc \in [Workers -> Phase]
    /\ sector \in [Workers -> 0..Len(PolicySectors)]
    /\ batch \in [Workers -> SUBSET Records]
    /\ todo \in [Workers -> SUBSET Records]
    /\ excused \subseteq Records
    /\ upsets \in 0..MaxUpsets

Init ==
    /\ backend \in {"sqlite", "postgres"}
    /\ ports \in {"shipped", "complete"}
    /\ policy = [enabled |-> TRUE, trigger |-> "SESSION_END"]   \* the defaults
    /\ life = [i \in Records |-> IF i \in Saved THEN "ACTIVE" ELSE "none"]
    /\ summaries = {} /\ audit = {} /\ completed = {}
    /\ pc = [w \in Workers |-> "idle"]
    /\ sector = [w \in Workers |-> 0]
    /\ batch = [w \in Workers |-> {}]
    /\ todo = [w \in Workers |-> {}]
    /\ excused = {}
    /\ upsets = 0

-----------------------------------------------------------------------------
(* The statements of the record repository *)

\* ORDER BY recorded_at DESC LIMIT k.
Newest(S, k) == {i \in S : Cardinality({j \in S : i < j}) < k}

\* Slip: SQLite forgets the principal.
MatchesAnyone(i, p) == TRUE

\* SQLite compares the principal, and the text of None when there is none;
\* PostgreSQL looks at the tenant only.
SqliteMatches(i, p) == PrincipalOf[i] = p
PostgresMatches(i, p) == TRUE

\* Slip: the lifecycle states are not looked at.
ListEveryState(p) ==
    Newest({i \in Records : life[i] # "none" /\ PostgresMatches(i, p)}, ListLimit)

\* list_by_scope(scope, [ACTIVE]).
ListByScope(p) ==
    Newest({i \in Records :
               /\ life[i] = "ACTIVE"
               /\ IF backend = "sqlite" THEN SqliteMatches(i, p) ELSE PostgresMatches(i, p)},
           ListLimit)

\* update_lifecycle and update_lifecycle_state: whatever state the record is in.
SetState(i, s) == life' = [life EXCEPT ![i] = s]

\* The row a worker is at: batches are worked through newest first.
Current(w) == CHOOSE i \in todo[w] : \A j \in todo[w] : j <= i

Left(w) == todo[w] \ {Current(w)}

-----------------------------------------------------------------------------
(* Beginnings and ends *)

Upset == upsets < MaxUpsets /\ upsets' = upsets + 1

\* WriteMemoryService saves the next record.
Write(i) ==
    /\ life[i] = "none"
    /\ \A j \in Records : j < i => life[j] # "none"
    /\ SetState(i, "ACTIVE")
    /\ UNCHANGED <<wiring, policy, summaries, heard, worker, excused, upsets>>

\* TenantPolicyRepository.save replaces the policies as a whole.
SavePolicy ==
    /\ Upset
    /\ policy' \in PolicyChoices \ {policy}
    /\ UNCHANGED <<wiring, table, heard, worker, excused>>

Enter(w, phase) ==
    /\ pc[w] = "idle"
    /\ pc' = [pc EXCEPT ![w] = phase]
    /\ UNCHANGED <<wiring, policy, table, heard, sector, batch, todo, excused, upsets>>

\* ConsolidationService.execute(tenant), SessionEndHandler.execute, DecayService.execute.
BeginSweep(w) == Role[w] = "consolidation" /\ Enter(w, "policy")
BeginSession(w) == Role[w] = "session" /\ Enter(w, "ending")
BeginDecay(w) == Role[w] = "decay" /\ Enter(w, "old")

\* The worker's sweep is over, by returning or by raising.
Stop(w) ==
    /\ pc' = [pc EXCEPT ![w] = "idle"]
    /\ sector' = [sector EXCEPT ![w] = 0]
    /\ batch' = [batch EXCEPT ![w] = {}]
    /\ todo' = [todo EXCEPT ![w] = {}]

To(w, phase) ==
    /\ pc' = [pc EXCEPT ![w] = phase]
    /\ UNCHANGED <<sector, batch, todo>>

\* The loop over policy.sectors: the list of the next one, or the return.
ToSector(w, k) ==
    IF k > Len(PolicySectors)
    THEN Stop(w)
    ELSE /\ pc' = [pc EXCEPT ![w] = "list"]
         /\ sector' = [sector EXCEPT ![w] = k]
         /\ batch' = [batch EXCEPT ![w] = {}]
         /\ todo' = [todo EXCEPT ![w] = {}]

-----------------------------------------------------------------------------
(* SessionEndHandler.execute, up to the sweep it triggers *)

\* The ACTIVE records of the scope are counted, emit(SessionEnded) tells how many
\* there are, and the policy decides.
EndSession(w) ==
    /\ pc[w] = "ending"
    /\ IF policy.trigger = "SESSION_END" /\ policy.enabled THEN To(w, "policy") ELSE Stop(w)
    /\ UNCHANGED <<wiring, policy, table, heard, excused, upsets>>

-----------------------------------------------------------------------------
(* ConsolidationService.execute and _run_sector *)

LoadPolicy(w) ==
    /\ pc[w] = "policy"
    /\ IF policy.enabled THEN ToSector(w, 1) ELSE Stop(w)
    /\ UNCHANGED <<wiring, policy, table, heard, excused, upsets>>

\* Slip: a sector below the threshold ends the sweep.
ToNextSectorNever(w) == Stop(w)

ShortSector(w) == ToSector(w, sector[w] + 1)

InSector(w) == {i \in ListByScope(ScopeOf[w]) : SectorOf[i] = PolicySectors[sector[w]]}

\* Records some other sweep of the moment holds too.
HeldElsewhere(w, S) == {i \in S : \E v \in Workers \ {w} : i \in batch[v]}

\* list_by_scope; then, with enough records, emit(ConsolidationJobStarted) and
\* _summarise, which falls back to joining the payloads when the model raises.
List(w) ==
    LET chosen == Newest(InSector(w), MaxItems) IN
    /\ pc[w] = "list"
    /\ \/ /\ Cardinality(InSector(w)) < Threshold
          /\ ShortSector(w)
          /\ UNCHANGED excused
       \/ /\ Cardinality(InSector(w)) >= Threshold
          /\ pc' = [pc EXCEPT ![w] = "save"]
          /\ batch' = [batch EXCEPT ![w] = chosen]
          /\ excused' = excused \cup HeldElsewhere(w, chosen)
          /\ UNCHANGED <<sector, todo>>
    /\ UNCHANGED <<wiring, policy, table, heard, upsets>>

\* The rows that summarise the records of S.
RowsOf(S) == {s \in summaries : s.sources = S}

\* A row of its own for every save: new_memory_id() hands out no id twice.  All an
\* id has to do is to tell rows apart, so the rows of one batch are numbered.  The
\* scope is the scope of the batch's first record.
NewSummary(w) ==
    LET first == CHOOSE i \in batch[w] : \A j \in batch[w] : j <= i IN
    [id |-> Cardinality(RowsOf(batch[w])) + 1, principal |-> PrincipalOf[first],
     sector |-> PolicySectors[sector[w]], sources |-> batch[w]]

\* Slip: what is worked through is all the sector has by now.
WholeSector(w) == InSector(w)

Sources(w) == batch[w]

Save(w) ==
    /\ pc[w] = "save"
    /\ summaries' = summaries \cup {NewSummary(w)}
    /\ pc' = [pc EXCEPT ![w] = "update"]
    /\ todo' = [todo EXCEPT ![w] = Sources(w)]
    /\ UNCHANGED <<wiring, policy, life, heard, sector, batch, excused,
                   upsets>>

Update(w) ==
    /\ pc[w] = "update"
    /\ SetState(Current(w), "CONSOLIDATED")
    /\ To(w, "audit")
    /\ UNCHANGED <<wiring, policy, summaries, heard, excused, upsets>>

\* Slip: the entry names the first record of the batch each time.
FirstOfBatch(w) == CHOOSE i \in batch[w] : \A j \in batch[w] : j <= i

Audited(w) == Current(w)

\* The call passes keywords that AuditLogPort.append does not take: with the
\* shipped logs it raises, and the sweep ends here.  Otherwise emit
\* (MemoryConsolidated), and on with the batch.
Audit(w) ==
    /\ pc[w] = "audit"
    /\ \/ /\ ports = "shipped"
          /\ Stop(w)
          /\ excused' = excused \cup todo[w]
          /\ UNCHANGED audit
       \/ /\ ports = "complete"
          /\ audit' = audit \cup {<<"CONSOLIDATE", Audited(w)>>}
          /\ todo' = [todo EXCEPT ![w] = Left(w)]
          /\ pc' = [pc EXCEPT ![w] = IF Left(w) = {} THEN "complete" ELSE "update"]
          /\ UNCHANGED <<sector, batch, excused>>
    /\ UNCHANGED <<wiring, policy, table, completed, upsets>>

\* emit(ConsolidationJobCompleted), and on with the next sector.
Complete(w) ==
    /\ pc[w] = "complete"
    /\ completed' = completed \cup {batch[w]}
    /\ ToSector(w, sector[w] + 1)
    /\ UNCHANGED <<wiring, policy, table, audit, excused, upsets>>

-----------------------------------------------------------------------------
(* DecayService.execute *)

\* list_active_older_than: the cutoff splits the records by age.  The shipped
\* repositories have no such method, and the sweep raises.
ListOld(w) ==
    /\ pc[w] = "old"
    /\ \/ ports = "shipped" /\ Stop(w)
       \/ /\ ports = "complete"
          /\ \E k \in 0..N :
                LET old == {i \in 1..k : life[i] = "ACTIVE"} IN
                IF old = {} THEN Stop(w)
                ELSE /\ todo' = [todo EXCEPT ![w] = old]
                     /\ pc' = [pc EXCEPT ![w] = "decay"]
                     /\ UNCHANGED <<sector, batch>>
    /\ UNCHANGED <<wiring, policy, table, heard, excused, upsets>>

Decay(w) ==
    /\ pc[w] = "decay"
    /\ SetState(Current(w), "DECAYED")
    /\ To(w, "log")
    /\ UNCHANGED <<wiring, policy, summaries, heard, excused, upsets>>

LogDecay(w) ==
    /\ pc[w] = "log"
    /\ audit' = audit \cup {<<"DECAY", Current(w)>>}
    /\ IF Left(w) = {}
       THEN Stop(w)
       ELSE /\ todo' = [todo EXCEPT ![w] = Left(w)]
            /\ pc' = [pc EXCEPT ![w] = "decay"]
            /\ UNCHANGED <<sector, batch>>
    /\ UNCHANGED <<wiring, policy, table, completed, excused, upsets>>

-----------------------------------------------------------------------------
(* Failures *)

\* An awaited operation raises, or the loop's task is cancelled while it waits.
\* A statement may have been committed all the same: the answer was lost on the
\* way, or the thread of aiosqlite went on.
Fails(w) ==
    /\ pc[w] # "idle"
    /\ Upset
    /\ \/ UNCHANGED <<table, audit>>
       \/ /\ pc[w] = "save"
          /\ summaries' = summaries \cup {NewSummary(w)}
          /\ UNCHANGED <<life, audit>>
       \/ /\ pc[w] \in {"update", "decay"}
          /\ SetState(Current(w), IF pc[w] = "update" THEN "CONSOLIDATED" ELSE "DECAYED")
          /\ UNCHANGED <<summaries, audit>>
       \/ /\ pc[w] \in {"audit", "log"}
          /\ audit' = audit \cup {<<IF pc[w] = "audit" THEN "CONSOLIDATE" ELSE "DECAY",
                                    Current(w)>>}
          /\ UNCHANGED table
    /\ excused' = excused \cup batch[w] \cup todo[w]
    /\ Stop(w)
    /\ UNCHANGED <<wiring, policy, completed>>

\* The process goes down with its workers and comes back with the tables.
Crash ==
    /\ Upset
    /\ excused' = excused \cup UNION {batch[w] \cup todo[w] : w \in Workers}
    /\ pc' = [w \in Workers |-> "idle"]
    /\ sector' = [w \in Workers |-> 0]
    /\ batch' = [w \in Workers |-> {}]
    /\ todo' = [w \in Workers |-> {}]
    /\ UNCHANGED <<wiring, policy, table, heard>>

Begin(w) == BeginSweep(w) \/ BeginSession(w) \/ BeginDecay(w)

Step(w) ==
    \/ EndSession(w) \/ LoadPolicy(w)
    \/ List(w) \/ Save(w) \/ Update(w) \/ Audit(w) \/ Complete(w)
    \/ ListOld(w) \/ Decay(w) \/ LogDecay(w)

Next ==
    \/ \E i \in Records : Write(i)
    \/ \E w \in Workers : Begin(w) \/ Step(w) \/ Fails(w)
    \/ SavePolicy
    \/ Crash

Spec == Init /\ [][Next]_vars

\* The event loop resumes every worker whose await has completed, and the
\* scheduler's loop sweeps again and again (LoopKeepsSweeping of
\* LifecycleScheduler).  No session has to end and nothing has to fail.
Fairness ==
    \A w \in Workers : WF_vars(Step(w)) /\ WF_vars(BeginSweep(w))

FairSpec == Spec /\ Fairness

-----------------------------------------------------------------------------
(* Properties *)

\* Consolidation loses no evidence: what a sweep took out of the ACTIVE records
\* is in a summary that was saved, whatever other sweeps, faults or a crash
\* did in between.
LineageKept ==
    \A i \in Records :
        life[i] = "CONSOLIDATED" => \E s \in summaries : i \in s.sources

\* Two summaries, of the same batch or of two, repeat a record only where the sweeps
\* held it at the same time, or where one was cut off with it and it, or another,
\* took it up again.
RepeatsExcused ==
    \A s, t \in summaries : s # t => s.sources \cap t.sources \subseteq excused

\* A completed job did what it announced: all of its batch has left ACTIVE
\* and is in the audit log.
CompletedMeansDone ==
    \A b \in completed : \A i \in b :
        /\ life[i] \in {"CONSOLIDATED", "DECAYED"}
        /\ <<"CONSOLIDATE", i>> \in audit

\* The operation that gave a record its state is in the audit log, or its sweep
\* is about to write the entry, or was cut off before.
TransitionsAudited ==
    \A i \in Records :
        /\ life[i] = "CONSOLIDATED" =>
              \/ <<"CONSOLIDATE", i>> \in audit
              \/ \E w \in Workers : pc[w] = "audit" /\ i = Current(w)
              \/ i \in excused
        /\ life[i] = "DECAYED" =>
              \/ <<"DECAY", i>> \in audit
              \/ \E w \in Workers : pc[w] = "log" /\ i = Current(w)
              \/ i \in excused

\* On SQLite a summary holds records of one principal only, its own.
SqliteSummariesPrivate ==
    backend = "sqlite" =>
        \A s \in summaries : \A i \in s.sources : PrincipalOf[i] = s.principal

Backlog(k) == {i \in Records : life[i] = "ACTIVE" /\ SectorOf[i] = k}

\* Sweeps get through the backlog on PostgreSQL, also when each one is cut off:
\* while consolidation stays enabled no sector stays above its threshold for
\* good, as far as the list's limit covers the records.
BacklogWorkedOff ==
    (backend = "postgres" /\ <>[](policy.enabled)) =>
        \A k \in Sectors : []<>(Cardinality(Backlog(k)) < Threshold)
=============================================================================
