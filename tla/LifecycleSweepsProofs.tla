------------------------ MODULE LifecycleSweepsProofs ------------------------
(***************************************************************************)
(* What holds of the sweeps for any records, workers, policies and faults. *)
(*                                                                         *)
(* The properties speak of records and summaries; what keeps them is how   *)
(* far each worker is with its batch (Sound), that no two workers hold a   *)
(* record unexcused (Apart), and that a record of a summary still ACTIVE   *)
(* has a worker that will come to it, or is excused (Pending).             *)
(***************************************************************************)
EXTENDS LifecycleSweeps, WellFoundedInduction, FiniteSetTheorems, TLAPS

\* A nonempty set of records has a newest one.
LEMMA HasNewest ==
    ASSUME NEW S, S \subseteq Records, S # {}
    PROVE  \E i \in S : \A j \in S : j <= i
<1> DEFINE T == {N - i : i \in S}
<1>0. N \in Nat /\ \A i \in S : i \in 1..N
  BY SweepsAssumption DEF Records
<1>1. T \subseteq Nat /\ T # {}
  <2>1. \A i \in S : N - i \in Nat
    BY <1>0
  <2>2. PICK i \in S : TRUE
    OBVIOUS
  <2>3. N - i \in T
    OBVIOUS
  <2> QED
    BY <2>1, <2>3
<1>2. PICK m \in T : \A k \in T : <<k, m>> \notin OpToRel(<, Nat)
  <2> HIDE DEF T
  <2> QED
    BY <1>1, WFMin, NatLessThanWellFounded, Zenon
<1>3. \A k \in T : ~(k < m)
  <2> HIDE DEF T
  <2>1. ASSUME NEW k \in T, k < m PROVE FALSE
    <3>1. k \in Nat /\ m \in Nat
      BY <1>1, <1>2
    <3>2. <<k, m>> \in OpToRel(<, Nat)
      BY <3>1, <2>1, Zenon DEF OpToRel
    <3> QED
      BY <3>2, <1>2
  <2> QED
    BY <2>1
<1>4. PICK i \in S : m = N - i
  BY <1>2
<1>5. ASSUME NEW j \in S PROVE j <= i
  <2>1. N - j \in T
    OBVIOUS
  <2>2. ~(N - j < N - i)
    BY <2>1, <1>3, <1>4
  <2> QED
    BY <2>2, <1>0
<1> QED
  BY <1>5

\* The row a worker is at is one of those it has still to work through.
LEMMA CurrentIsLeft ==
    ASSUME NEW w \in Workers, todo[w] \subseteq Records, todo[w] # {}
    PROVE  Current(w) \in todo[w]
  BY HasNewest DEF Current

LEMMA CurrentKept ==
    ASSUME NEW w \in Workers, todo'[w] = todo[w]
    PROVE  Current(w)' = Current(w)
  BY DEF Current

\* A list cut at k >= 1 rows is part of the whole, and not empty unless that is.
LEMMA NewestFacts ==
    ASSUME NEW S, S \subseteq Records, NEW k \in Nat \ {0}
    PROVE  /\ Newest(S, k) \subseteq S
           /\ S # {} => Newest(S, k) # {}
<1>1. Newest(S, k) \subseteq S
  BY DEF Newest
<1>2. ASSUME S # {} PROVE Newest(S, k) # {}
  <2>1. PICK m \in S : \A j \in S : j <= m
    BY <1>2, HasNewest
  <2>2. {j \in S : m < j} = {}
    <3>1. \A j \in S : j \in Int
      BY SweepsAssumption DEF Records
    <3> QED
      BY <2>1, <3>1
  <2>3. Cardinality({j \in S : m < j}) = 0
    BY <2>2, FS_EmptySet
  <2>4. m \in Newest(S, k)
    BY <2>3 DEF Newest
  <2> QED
    BY <2>4
<1> QED
  BY <1>1, <1>2

-----------------------------------------------------------------------------
Gone == {"CONSOLIDATED", "DECAYED"}
Summarising == {"update", "audit"}      \* at a batch whose summary is saved
Resting == {"idle", "ending", "policy", "old", "list"}

\* What is behind a worker, given the await it stands at.
Sound(w) ==
    /\ pc[w] \in Resting => batch[w] = {} /\ todo[w] = {}
    /\ pc[w] \in {"list", "save", "update", "audit", "complete"} =>
          sector[w] \in 1..Len(PolicySectors)
    /\ pc[w] = "save" =>
          /\ batch[w] # {}
          /\ backend = "sqlite" => \A i \in batch[w] : PrincipalOf[i] = ScopeOf[w]
          /\ \A s \in summaries : batch[w] \cap s.sources \subseteq excused
    /\ pc[w] \in Summarising => todo[w] # {} /\ todo[w] \subseteq batch[w]
    /\ pc[w] \in {"decay", "log"} => todo[w] # {}
    /\ pc[w] = "complete" => todo[w] = {}
    /\ pc[w] \in Summarising \cup {"complete"} =>
          /\ \E s \in summaries : batch[w] = s.sources
          /\ \A i \in batch[w] \ todo[w] : life[i] \in Gone /\ <<"CONSOLIDATE", i>> \in audit
    /\ pc[w] = "audit" => life[Current(w)] \in Gone
    /\ \A i \in batch[w] \cup todo[w] : life[i] # "none"

Apart ==
    \A v, w \in Workers : v # w => batch[v] \cap batch[w] \subseteq excused

Recorded == \A s \in summaries : \A i \in s.sources : life[i] # "none"

\* i is still to be worked through by a worker that has saved its summary.
InHand(i) == \E v \in Workers : pc[v] \in Summarising /\ i \in todo[v]

Pending ==
    \A s \in summaries : \A i \in s.sources :
        life[i] = "ACTIVE" => i \in excused \/ InHand(i)

\* The rows of one batch are numbered as they are saved.
RowsNumbered ==
    /\ IsFiniteSet(summaries)
    /\ \A s \in summaries : s.id \in 1..Cardinality(RowsOf(s.sources))

IInv ==
    /\ TypeOK /\ RowsNumbered
    /\ \A w \in Workers : Sound(w)
    /\ Apart /\ Recorded /\ Pending
    /\ LineageKept /\ RepeatsExcused /\ TransitionsAudited
    /\ SqliteSummariesPrivate /\ CompletedMeansDone

LEMMA InitIInv == Init => IInv
<1> SUFFICES ASSUME Init PROVE IInv
  OBVIOUS
<1>1. TypeOK
  BY SweepsAssumption DEF Init, TypeOK, States, Phase, Triggers, Summary
<1>2. \A w \in Workers : Sound(w)
  BY DEF Init, Sound, Resting, Summarising
<1>3. Apart /\ Recorded /\ Pending
  BY DEF Init, Apart, Recorded, Pending
<1>4. LineageKept /\ RepeatsExcused /\ SqliteSummariesPrivate /\ CompletedMeansDone
  BY DEF Init, LineageKept, RepeatsExcused, SqliteSummariesPrivate, CompletedMeansDone
<1>5. TransitionsAudited
  BY DEF Init, TransitionsAudited
<1>6. RowsNumbered
  BY FS_EmptySet DEF Init, RowsNumbered
<1> QED
  BY <1>1, <1>2, <1>3, <1>4, <1>5, <1>6 DEF IInv

-----------------------------------------------------------------------------
(* What a step does to the table, to the logs and to its worker. *)

WorkerType ==
    /\ pc \in [Workers -> Phase]
    /\ sector \in [Workers -> 0..Len(PolicySectors)]
    /\ batch \in [Workers -> SUBSET Records]
    /\ todo \in [Workers -> SUBSET Records]

\* No record goes back to where it was.
Forward ==
    \A i \in Records :
        /\ life[i] # "none" => life'[i] # "none"
        /\ life[i] \in Gone => life'[i] \in Gone

Grows ==
    /\ Forward
    /\ backend' = backend
    /\ audit \subseteq audit' /\ summaries \subseteq summaries' /\ excused \subseteq excused'

Still(v) ==
    /\ pc'[v] = pc[v] /\ sector'[v] = sector[v]
    /\ batch'[v] = batch[v] /\ todo'[v] = todo[v]

Others(w) == \A v \in Workers \ {w} : Still(v)

Rests(w) ==
    /\ pc'[w] \in Resting /\ batch'[w] = {} /\ todo'[w] = {}
    /\ pc'[w] = "list" => sector'[w] \in 1..Len(PolicySectors)

LEMMA LenIsNat == Len(PolicySectors) \in Nat
  BY SweepsAssumption

LEMMA StopFacts ==
    ASSUME TypeOK, NEW w \in Workers, Stop(w)
    PROVE  WorkerType' /\ Rests(w) /\ Others(w)
  BY LenIsNat DEF TypeOK, Stop, WorkerType, Rests, Others, Still, Resting, Phase

LEMMA ToSectorFacts ==
    ASSUME TypeOK, NEW w \in Workers, NEW k \in Nat \ {0}, ToSector(w, k)
    PROVE  WorkerType' /\ Rests(w) /\ Others(w)
<1>1. CASE k > Len(PolicySectors)
  BY <1>1, StopFacts DEF ToSector
<1>2. CASE ~(k > Len(PolicySectors))
  <2>1. k \in 1..Len(PolicySectors)
    BY <1>2, LenIsNat
  <2>2. /\ pc' = [pc EXCEPT ![w] = "list"]
        /\ sector' = [sector EXCEPT ![w] = k]
        /\ batch' = [batch EXCEPT ![w] = {}]
        /\ todo' = [todo EXCEPT ![w] = {}]
    BY <1>2 DEF ToSector
  <2> QED
    BY <2>1, <2>2, LenIsNat DEF TypeOK, WorkerType, Rests, Others, Still, Resting, Phase
<1> QED
  BY <1>1, <1>2

LEMMA ToFacts ==
    ASSUME TypeOK, NEW w \in Workers, NEW ph \in Phase, To(w, ph)
    PROVE  /\ WorkerType' /\ Others(w)
           /\ pc'[w] = ph /\ sector'[w] = sector[w]
           /\ batch'[w] = batch[w] /\ todo'[w] = todo[w]
  BY DEF TypeOK, To, WorkerType, Others, Still

\* A worker at rest has nothing behind it that could be wrong.
LEMMA RestingSound ==
    ASSUME NEW w \in Workers, Rests(w)
    PROVE  Sound(w)'
  BY DEF Rests, Sound, Resting, Summarising

\* What is behind a worker that does not move stays, however the table grows,
\* unless a summary repeats its batch.
LEMMA StillSound ==
    ASSUME IInv, Grows, NEW v \in Workers, Still(v),
           pc[v] = "save" => \A s \in summaries' \ summaries : batch[v] \cap s.sources \subseteq excused'
    PROVE  Sound(v)'
<1>1. Sound(v) /\ batch[v] \subseteq Records /\ todo[v] \subseteq Records
  BY DEF IInv, TypeOK
<1>2. Current(v)' = Current(v)
  BY CurrentKept DEF Still
<1>3. pc[v] = "audit" => Current(v) \in Records
  BY <1>1, CurrentIsLeft DEF Sound, Summarising
<1>4. \A i \in batch[v] \cup todo[v] : life'[i] # "none"
  BY <1>1 DEF Sound, Grows, Forward
<1>5. pc[v] \in Summarising \cup {"complete"} =>
          /\ \E s \in summaries' : batch[v] = s.sources
          /\ \A i \in batch[v] \ todo[v] : life'[i] \in Gone /\ <<"CONSOLIDATE", i>> \in audit'
  BY <1>1 DEF Sound, Grows, Forward
<1>6. pc[v] = "save" =>
          /\ batch[v] # {}
          /\ backend' = "sqlite" => \A i \in batch[v] : PrincipalOf[i] = ScopeOf[v]
          /\ \A s \in summaries' : batch[v] \cap s.sources \subseteq excused'
  BY <1>1 DEF Sound, Grows
<1>7. pc[v] = "audit" => life'[Current(v)] \in Gone
  BY <1>1, <1>3 DEF Sound, Grows, Forward
<1> QED
  BY <1>1, <1>2, <1>4, <1>5, <1>6, <1>7 DEF Sound, Still

\* A completed job stays done.
LEMMA DoneStays ==
    ASSUME IInv, Grows, completed' = completed
    PROVE  CompletedMeansDone'
  BY DEF IInv, TypeOK, CompletedMeansDone, Grows, Forward, Gone

-----------------------------------------------------------------------------
(* Steps that leave the table alone. *)

\* Worker w goes on or stops: what it lets go of is done, audited or excused.
Quiet(w) ==
    /\ life' = life /\ summaries' = summaries /\ backend' = backend
    /\ audit \subseteq audit' /\ excused \subseteq excused'
    /\ Others(w)
    /\ \/ batch'[w] \subseteq batch[w]
       \/ \A v \in Workers \ {w} : batch'[w] \cap batch[v] \subseteq excused'
    /\ pc[w] \in Summarising =>
          \A i \in todo[w] :
              \/ i \in excused' \/ life[i] \in Gone
              \/ pc'[w] \in Summarising /\ i \in todo'[w]
    /\ pc[w] = "audit" => Current(w) \in excused' \/ <<"CONSOLIDATE", Current(w)>> \in audit'
    /\ pc[w] = "log" => Current(w) \in excused' \/ <<"DECAY", Current(w)>> \in audit'

LEMMA RowsKept ==
    ASSUME RowsNumbered, summaries' = summaries
    PROVE  RowsNumbered'
<1>1. \A S : RowsOf(S)' = RowsOf(S)
  BY DEF RowsOf
<1> QED
  BY <1>1 DEF RowsNumbered

LEMMA QuietGrows ==
    ASSUME IInv, NEW w \in Workers, Quiet(w)
    PROVE  Grows
  BY DEF Quiet, Grows, Forward

LEMMA QuietKeepsPending ==
    ASSUME IInv, NEW w \in Workers, Quiet(w)
    PROVE  Pending'
<1> SUFFICES ASSUME NEW s \in summaries, NEW i \in s.sources, life[i] = "ACTIVE"
             PROVE  i \in excused' \/ InHand(i)'
  BY DEF Pending, Quiet
<1>1. i \in excused \/ InHand(i)
  BY DEF IInv, Pending
<1>2. CASE i \in excused
  BY <1>2 DEF Quiet
<1>3. CASE InHand(i)
  <2>1. PICK v \in Workers : pc[v] \in Summarising /\ i \in todo[v]
    BY <1>3 DEF InHand
  <2>2. CASE v = w
    BY <2>1, <2>2 DEF Quiet, InHand, Gone
  <2>3. CASE v # w
    BY <2>1, <2>3 DEF Quiet, InHand, Others, Still
  <2> QED
    BY <2>2, <2>3
<1> QED
  BY <1>1, <1>2, <1>3

LEMMA QuietKeepsAudited ==
    ASSUME IInv, NEW w \in Workers, Quiet(w)
    PROVE  TransitionsAudited'
<1> SUFFICES ASSUME NEW i \in Records
             PROVE  /\ life'[i] = "CONSOLIDATED" =>
                          \/ <<"CONSOLIDATE", i>> \in audit'
                          \/ \E v \in Workers : pc'[v] = "audit" /\ i = Current(v)'
                          \/ i \in excused'
                    /\ life'[i] = "DECAYED" =>
                          \/ <<"DECAY", i>> \in audit'
                          \/ \E v \in Workers : pc'[v] = "log" /\ i = Current(v)'
                          \/ i \in excused'
  BY DEF TransitionsAudited
<1>1. \A v \in Workers \ {w} : Current(v)' = Current(v) /\ pc'[v] = pc[v]
  BY CurrentKept DEF Quiet, Others, Still
<1>2. ASSUME life'[i] = "CONSOLIDATED", <<"CONSOLIDATE", i>> \notin audit', i \notin excused'
      PROVE  \E v \in Workers : pc'[v] = "audit" /\ i = Current(v)'
  <2>1. PICK v \in Workers : pc[v] = "audit" /\ i = Current(v)
    BY <1>2 DEF IInv, TransitionsAudited, Quiet
  <2>2. v # w
    BY <2>1, <1>2 DEF Quiet
  <2> QED
    BY <2>1, <2>2, <1>1
<1>3. ASSUME life'[i] = "DECAYED", <<"DECAY", i>> \notin audit', i \notin excused'
      PROVE  \E v \in Workers : pc'[v] = "log" /\ i = Current(v)'
  <2>1. PICK v \in Workers : pc[v] = "log" /\ i = Current(v)
    BY <1>3 DEF IInv, TransitionsAudited, Quiet
  <2>2. v # w
    BY <2>1, <1>3 DEF Quiet
  <2> QED
    BY <2>1, <2>2, <1>1
<1> QED
  BY <1>2, <1>3

LEMMA QuietKeeps ==
    ASSUME IInv, TypeOK', NEW w \in Workers, Quiet(w), Sound(w)', CompletedMeansDone'
    PROVE  IInv'
<1>1. Grows
  BY QuietGrows
<1>2. \A v \in Workers : Sound(v)'
  <2> SUFFICES ASSUME NEW v \in Workers, v # w PROVE Sound(v)'
    OBVIOUS
  <2>1. Still(v) /\ summaries' \ summaries = {}
    BY DEF Quiet, Others
  <2> QED
    BY <1>1, <2>1, StillSound
<1>3. Apart'
  BY DEF IInv, Apart, Quiet, Others, Still
<1>4. Recorded' /\ LineageKept' /\ SqliteSummariesPrivate' /\ RepeatsExcused'
  BY DEF IInv, Recorded, LineageKept, SqliteSummariesPrivate, RepeatsExcused, Quiet
<1>5. RowsNumbered'
  BY RowsKept DEF Quiet, IInv
<1> QED
  BY <1>2, <1>3, <1>4, <1>5, QuietKeepsPending, QuietKeepsAudited DEF IInv

\* Worker w stops having excused what was left, or with nothing left.
LEMMA RestIsQuiet ==
    ASSUME IInv, NEW w \in Workers, Rests(w), Others(w), pc[w] \notin Summarising \cup {"log"},
           life' = life, summaries' = summaries, backend' = backend, audit \subseteq audit',
           excused \subseteq excused'
    PROVE  Quiet(w) /\ Sound(w)'
  BY RestingSound DEF Quiet, Rests, Summarising

LEMMA BeginKeeps ==
    ASSUME IInv, NEW w \in Workers, Begin(w)
    PROVE  IInv'
<1>1. PICK ph \in {"policy", "ending", "old"} : Enter(w, ph)
  BY DEF Begin, BeginSweep, BeginSession, BeginDecay
<1>2. /\ pc' = [pc EXCEPT ![w] = ph] /\ pc[w] = "idle"
      /\ UNCHANGED <<wiring, policy, table, heard, sector, batch, todo, excused, upsets>>
  BY <1>1 DEF Enter
<1>3. TypeOK'
  BY <1>2 DEF IInv, TypeOK, Phase, wiring, table, heard
<1>4. Rests(w) /\ Others(w)
  BY <1>2 DEF IInv, TypeOK, Rests, Others, Still, Sound, Resting
<1>5. Quiet(w) /\ Sound(w)' /\ Grows /\ completed' = completed
  BY <1>2, <1>4, RestIsQuiet, QuietGrows DEF Summarising, table, heard, wiring
<1> QED
  BY <1>3, <1>5, DoneStays, QuietKeeps

LEMMA EndSessionKeeps ==
    ASSUME IInv, NEW w \in Workers, EndSession(w)
    PROVE  IInv'
<1>1. pc[w] = "ending" /\ UNCHANGED <<wiring, policy, table, heard, excused, upsets>>
  BY DEF EndSession
<1>2. WorkerType' /\ Rests(w) /\ Others(w)
  <2>1. To(w, "policy") \/ Stop(w)
    BY DEF EndSession
  <2>2. To(w, "policy") => WorkerType' /\ Rests(w) /\ Others(w)
    BY <1>1, ToFacts DEF IInv, Phase, Rests, Sound, Resting
  <2> QED
    BY <2>1, <2>2, StopFacts DEF IInv
<1>3. TypeOK'
  BY <1>1, <1>2 DEF IInv, TypeOK, WorkerType, wiring, table, heard
<1>4. Quiet(w) /\ Sound(w)' /\ Grows /\ completed' = completed
  BY <1>1, <1>2, RestIsQuiet, QuietGrows DEF Summarising, table, heard, wiring
<1> QED
  BY <1>3, <1>4, DoneStays, QuietKeeps

LEMMA LoadPolicyKeeps ==
    ASSUME IInv, NEW w \in Workers, LoadPolicy(w)
    PROVE  IInv'
<1>1. pc[w] = "policy" /\ UNCHANGED <<wiring, policy, table, heard, excused, upsets>>
  BY DEF LoadPolicy
<1>2. WorkerType' /\ Rests(w) /\ Others(w)
  <2>1. ToSector(w, 1) \/ Stop(w)
    BY DEF LoadPolicy
  <2> QED
    BY <2>1, ToSectorFacts, StopFacts DEF IInv
<1>3. TypeOK'
  BY <1>1, <1>2 DEF IInv, TypeOK, WorkerType, wiring, table, heard
<1>4. Quiet(w) /\ Sound(w)' /\ Grows /\ completed' = completed
  BY <1>1, <1>2, RestIsQuiet, QuietGrows DEF Summarising, table, heard, wiring
<1> QED
  BY <1>3, <1>4, DoneStays, QuietKeeps

LEMMA AuditKeeps ==
    ASSUME IInv, NEW w \in Workers, Audit(w)
    PROVE  IInv'
<1>1. /\ pc[w] = "audit"
      /\ UNCHANGED <<wiring, policy, table, completed, upsets>>
      /\ todo[w] # {} /\ todo[w] \subseteq batch[w] /\ batch[w] \subseteq Records
      /\ todo[w] \subseteq Records
      /\ sector[w] \in 1..Len(PolicySectors)
      /\ life[Current(w)] \in Gone
  BY DEF Audit, IInv, Sound, Summarising, TypeOK
<1>2. Current(w) \in todo[w]
  BY <1>1, CurrentIsLeft
<1>3. CASE ports = "shipped" /\ Stop(w) /\ excused' = excused \cup todo[w] /\ UNCHANGED audit
  <2>1. WorkerType' /\ Rests(w) /\ Others(w)
    BY <1>3, StopFacts DEF IInv
  <2>2. TypeOK'
    BY <1>1, <1>3, <2>1 DEF IInv, TypeOK, WorkerType, wiring, table
  <2>3. Quiet(w)
    BY <1>1, <1>2, <1>3, <2>1 DEF Quiet, Rests, Summarising, table, wiring
  <2> QED
    BY <1>1, <2>1, <2>2, <2>3, RestingSound, QuietGrows, DoneStays, QuietKeeps
<1>4. CASE /\ audit' = audit \cup {<<"CONSOLIDATE", Current(w)>>}
           /\ todo' = [todo EXCEPT ![w] = Left(w)]
           /\ pc' = [pc EXCEPT ![w] = IF Left(w) = {} THEN "complete" ELSE "update"]
           /\ UNCHANGED <<sector, batch, excused>>
  <2>1. TypeOK'
    BY <1>1, <1>2, <1>4 DEF IInv, TypeOK, wiring, table, Phase, Left
  <2>2. /\ Others(w) /\ todo'[w] = todo[w] \ {Current(w)} /\ batch'[w] = batch[w]
        /\ sector'[w] = sector[w]
        /\ pc'[w] = IF todo'[w] = {} THEN "complete" ELSE "update"
    BY <1>4 DEF IInv, TypeOK, Others, Still, Left
  <2>3. Quiet(w)
    BY <1>1, <1>4, <2>2 DEF Quiet, Summarising, table, wiring
  <2>4. Sound(w)'
    <3>1. /\ \E s \in summaries : batch[w] = s.sources
          /\ \A i \in batch[w] \ todo[w] : life[i] \in Gone /\ <<"CONSOLIDATE", i>> \in audit
          /\ \A i \in batch[w] \cup todo[w] : life[i] # "none"
      BY <1>1 DEF IInv, Sound, Summarising
    <3>2. \A i \in batch'[w] \ todo'[w] : life[i] \in Gone /\ <<"CONSOLIDATE", i>> \in audit'
      BY <1>1, <1>4, <2>2, <3>1
    <3>3. life' = life /\ summaries' = summaries
      BY <1>1 DEF table
    <3> QED
      BY <1>1, <2>2, <3>1, <3>2, <3>3 DEF Sound, Summarising, Resting
  <2> QED
    BY <1>1, <2>1, <2>3, <2>4, QuietGrows, DoneStays, QuietKeeps
<1> QED
  BY <1>3, <1>4 DEF Audit, Audited

LEMMA CompleteKeeps ==
    ASSUME IInv, NEW w \in Workers, Complete(w)
    PROVE  IInv'
<1>1. /\ pc[w] = "complete" /\ completed' = completed \cup {batch[w]}
      /\ ToSector(w, sector[w] + 1)
      /\ UNCHANGED <<wiring, policy, table, audit, excused, upsets>>
  BY DEF Complete
<1>2. WorkerType' /\ Rests(w) /\ Others(w)
  <2>1. sector[w] + 1 \in Nat \ {0}
    BY LenIsNat DEF IInv, TypeOK
  <2> QED
    BY <1>1, <2>1, ToSectorFacts DEF IInv
<1>3. TypeOK'
  BY <1>1, <1>2 DEF IInv, TypeOK, WorkerType, wiring, table
<1>4. Quiet(w) /\ Sound(w)'
  BY <1>1, <1>2, RestIsQuiet DEF Summarising, table, wiring
<1>5. \A i \in batch[w] : life[i] \in Gone /\ <<"CONSOLIDATE", i>> \in audit
  BY <1>1 DEF IInv, Sound, Summarising
<1>6. CompletedMeansDone'
  BY <1>1, <1>5 DEF IInv, CompletedMeansDone, Gone, table
<1> QED
  BY <1>3, <1>4, <1>6, QuietKeeps

LEMMA ListOldKeeps ==
    ASSUME IInv, NEW w \in Workers, ListOld(w)
    PROVE  IInv'
<1>1. pc[w] = "old" /\ UNCHANGED <<wiring, policy, table, heard, excused, upsets>>
  BY DEF ListOld
<1>2. CASE Stop(w)
  <2>1. WorkerType' /\ Rests(w) /\ Others(w)
    BY <1>2, StopFacts DEF IInv
  <2>2. TypeOK'
    BY <1>1, <2>1 DEF IInv, TypeOK, WorkerType, wiring, table, heard
  <2>3. Quiet(w) /\ Sound(w)' /\ Grows /\ completed' = completed
    BY <1>1, <2>1, RestIsQuiet, QuietGrows DEF Summarising, table, heard, wiring
  <2> QED
    BY <2>2, <2>3, DoneStays, QuietKeeps
<1>3. ASSUME NEW k \in 0..N,
             {i \in 1..k : life[i] = "ACTIVE"} # {},
             todo' = [todo EXCEPT ![w] = {i \in 1..k : life[i] = "ACTIVE"}],
             pc' = [pc EXCEPT ![w] = "decay"],
             UNCHANGED <<sector, batch>>
      PROVE  IInv'
  <2>1. todo'[w] \subseteq Records /\ todo'[w] # {} /\ \A i \in todo'[w] : life[i] = "ACTIVE"
    BY <1>3, SweepsAssumption DEF IInv, TypeOK, Records
  <2>2. TypeOK'
    BY <1>1, <1>3, <2>1 DEF IInv, TypeOK, wiring, table, heard, Phase
  <2>3. Others(w) /\ pc'[w] = "decay" /\ batch'[w] = {}
    BY <1>1, <1>3 DEF IInv, TypeOK, Others, Still, Sound, Resting
  <2>4. Quiet(w)
    BY <1>1, <2>3 DEF Quiet, Summarising, table, heard, wiring
  <2>5. Sound(w)'
    BY <1>1, <2>1, <2>3 DEF Sound, Resting, Summarising, table
  <2> QED
    BY <1>1, <2>2, <2>4, <2>5, QuietGrows, DoneStays, QuietKeeps DEF heard
<1> QED
  BY <1>2, <1>3 DEF ListOld

LEMMA LogDecayKeeps ==
    ASSUME IInv, NEW w \in Workers, LogDecay(w)
    PROVE  IInv'
<1>1. /\ pc[w] = "log" /\ audit' = audit \cup {<<"DECAY", Current(w)>>}
      /\ UNCHANGED <<wiring, policy, table, completed, excused, upsets>>
      /\ todo[w] # {} /\ todo[w] \subseteq Records
  BY DEF LogDecay, IInv, Sound, TypeOK
<1>2. Current(w) \in Records
  BY <1>1, CurrentIsLeft
<1>3. CASE Stop(w)
  <2>1. WorkerType' /\ Rests(w) /\ Others(w)
    BY <1>3, StopFacts DEF IInv
  <2>2. TypeOK'
    BY <1>1, <1>2, <2>1 DEF IInv, TypeOK, WorkerType, wiring, table
  <2>3. Quiet(w) /\ Sound(w)'
    BY <1>1, <2>1, RestingSound DEF Quiet, Rests, Summarising, table, wiring
  <2> QED
    BY <1>1, <2>2, <2>3, QuietGrows, DoneStays, QuietKeeps
<1>4. CASE /\ Left(w) # {}
           /\ todo' = [todo EXCEPT ![w] = Left(w)]
           /\ pc' = [pc EXCEPT ![w] = "decay"]
           /\ UNCHANGED <<sector, batch>>
  <2>1. TypeOK'
    BY <1>1, <1>2, <1>4 DEF IInv, TypeOK, wiring, table, Phase, Left
  <2>2. /\ Others(w) /\ pc'[w] = "decay" /\ batch'[w] = batch[w]
        /\ todo'[w] # {} /\ todo'[w] \subseteq todo[w]
    BY <1>4 DEF IInv, TypeOK, Others, Still, Left
  <2>3. Quiet(w)
    BY <1>1, <2>2 DEF Quiet, Summarising, table, wiring
  <2>4. Sound(w)'
    <3>1. \A i \in batch[w] \cup todo[w] : life[i] # "none"
      BY DEF IInv, Sound
    <3> QED
      BY <1>1, <2>2, <3>1 DEF Sound, Summarising, Resting, table
  <2> QED
    BY <1>1, <2>1, <2>3, <2>4, QuietGrows, DoneStays, QuietKeeps
<1> QED
  BY <1>3, <1>4 DEF LogDecay

LEMMA InSectorFacts ==
    ASSUME IInv, NEW w \in Workers
    PROVE  /\ InSector(w) \subseteq Records
           /\ \A i \in InSector(w) :
                 /\ life[i] = "ACTIVE"
                 /\ backend = "sqlite" => PrincipalOf[i] = ScopeOf[w]
  BY DEF InSector, ListByScope, Newest, SqliteMatches

LEMMA ListKeeps ==
    ASSUME IInv, NEW w \in Workers, List(w)
    PROVE  IInv'
<1> DEFINE chosen == Newest(InSector(w), MaxItems)
<1>1. /\ pc[w] = "list" /\ UNCHANGED <<wiring, policy, table, heard, upsets>>
      /\ batch[w] = {} /\ todo[w] = {} /\ sector[w] \in 1..Len(PolicySectors)
  BY DEF List, IInv, Sound, Resting
<1>2. CASE ShortSector(w) /\ UNCHANGED excused
  <2>1. WorkerType' /\ Rests(w) /\ Others(w)
    <3>1. sector[w] + 1 \in Nat \ {0}
      BY LenIsNat DEF IInv, TypeOK
    <3> QED
      BY <1>2, <3>1, ToSectorFacts DEF IInv, ShortSector
  <2>2. TypeOK'
    BY <1>1, <1>2, <2>1 DEF IInv, TypeOK, WorkerType, wiring, table, heard
  <2>3. Quiet(w) /\ Sound(w)' /\ Grows /\ completed' = completed
    BY <1>1, <1>2, <2>1, RestIsQuiet, QuietGrows DEF Summarising, table, heard, wiring
  <2> QED
    BY <2>2, <2>3, DoneStays, QuietKeeps
<1>3. CASE /\ Cardinality(InSector(w)) >= Threshold
           /\ pc' = [pc EXCEPT ![w] = "save"]
           /\ batch' = [batch EXCEPT ![w] = chosen]
           /\ excused' = excused \cup HeldElsewhere(w, chosen)
           /\ UNCHANGED <<sector, todo>>
  <2>1. InSector(w) # {}
    <3>1. Threshold \in Nat \ {0}
      BY SweepsAssumption
    <3>2. InSector(w) = {} => Cardinality(InSector(w)) = 0
      BY FS_EmptySet
    <3> QED
      BY <1>3, <3>1, <3>2
  <2>2. chosen \subseteq InSector(w) /\ chosen # {} /\ chosen \subseteq Records
    BY <2>1, InSectorFacts, NewestFacts, SweepsAssumption
  <2> HIDE DEF chosen
  <2>3. TypeOK'
    BY <1>1, <1>3, <2>2 DEF IInv, TypeOK, wiring, table, heard, Phase, HeldElsewhere
  <2>4. /\ Others(w) /\ pc'[w] = "save" /\ batch'[w] = chosen
        /\ todo'[w] = {} /\ sector'[w] = sector[w]
    BY <1>1, <1>3 DEF IInv, TypeOK, Others, Still
  <2>5. Quiet(w)
    <3>1. \A v \in Workers \ {w} : chosen \cap batch[v] \subseteq excused'
      BY <1>3 DEF HeldElsewhere
    <3> QED
      BY <1>1, <1>3, <2>4, <3>1 DEF Quiet, Summarising, table, heard, wiring
  <2>6. \A s \in summaries : chosen \cap s.sources \subseteq excused'
    <3> SUFFICES ASSUME NEW s \in summaries, NEW i \in chosen, i \in s.sources,
                        i \notin excused
                 PROVE  i \in HeldElsewhere(w, chosen)
      BY <1>3
    <3>1. InHand(i)
      BY <2>2, InSectorFacts DEF IInv, Pending
    <3>2. PICK v \in Workers : pc[v] \in Summarising /\ i \in todo[v]
      BY <3>1 DEF InHand
    <3>3. v # w /\ i \in batch[v]
      BY <1>1, <3>2 DEF IInv, Sound, Summarising
    <3> QED
      BY <3>3 DEF HeldElsewhere
  <2>7. Sound(w)'
    <3>1. \A i \in chosen : life[i] # "none"
      BY <2>2, InSectorFacts
    <3>2. backend = "sqlite" => \A i \in chosen : PrincipalOf[i] = ScopeOf[w]
      BY <2>2, InSectorFacts
    <3> QED
      BY <1>1, <2>2, <2>4, <2>6, <3>1, <3>2 DEF Sound, Resting, Summarising, table, wiring
  <2> QED
    BY <1>1, <2>3, <2>5, <2>7, QuietGrows, DoneStays, QuietKeeps DEF heard
<1> QED
  BY <1>2, <1>3 DEF List

-----------------------------------------------------------------------------
(* Steps that change the table. *)

\* The rows of a batch can be counted.
LEMMA RowsCounted ==
    ASSUME RowsNumbered, NEW S
    PROVE  IsFiniteSet(RowsOf(S)) /\ Cardinality(RowsOf(S)) \in Nat
<1>1. RowsOf(S) \subseteq summaries /\ IsFiniteSet(summaries)
  BY DEF RowsOf, RowsNumbered
<1>2. IsFiniteSet(RowsOf(S))
  BY <1>1, FS_Subset
<1> QED
  BY <1>2, FS_CardinalityType

\* What the batch becomes a summary of, and that it is a row of its own.
LEMMA NewSummaryFacts ==
    ASSUME IInv, NEW w \in Workers, pc[w] = "save"
    PROVE  /\ NewSummary(w) \in Summary
           /\ NewSummary(w).id = Cardinality(RowsOf(batch[w])) + 1
           /\ NewSummary(w) \notin summaries
           /\ NewSummary(w).sources = batch[w]
           /\ backend = "sqlite" =>
                 \A i \in batch[w] : PrincipalOf[i] = NewSummary(w).principal
<1> DEFINE first == CHOOSE i \in batch[w] : \A j \in batch[w] : j <= i
<1>1. batch[w] # {} /\ batch[w] \subseteq Records /\ sector[w] \in 1..Len(PolicySectors)
  BY DEF IInv, TypeOK, Sound
<1>2. first \in batch[w]
  BY <1>1, HasNewest
<1> DEFINE n == Cardinality(RowsOf(batch[w]))
<1>3. NewSummary(w) = [id |-> n + 1, principal |-> PrincipalOf[first],
                       sector |-> PolicySectors[sector[w]], sources |-> batch[w]]
  BY DEF NewSummary
<1>n. n \in Nat
  BY RowsCounted DEF IInv
<1>f. NewSummary(w) \notin summaries
  <2> SUFFICES ASSUME NewSummary(w) \in summaries PROVE FALSE
    OBVIOUS
  <2>1. n + 1 \in 1..n
    BY <1>3 DEF IInv, RowsNumbered
  <2> QED
    BY <1>n, <2>1
<1> HIDE DEF first, n
<1>4. PrincipalOf[first] \in Principals
  BY <1>1, <1>2, SweepsAssumption
<1>5. PolicySectors[sector[w]] \in Sectors
  BY <1>1, SweepsAssumption
<1>6. backend = "sqlite" => \A i \in batch[w] : PrincipalOf[i] = PrincipalOf[first]
  BY <1>2 DEF IInv, Sound
<1>7. n + 1 \in Nat
  BY <1>n
<1>8. NewSummary(w).id = Cardinality(RowsOf(batch[w])) + 1
  BY <1>3 DEF n
<1> QED
  BY <1>1, <1>3, <1>f, <1>4, <1>5, <1>6, <1>7, <1>8 DEF Summary

\* One row more keeps them numbered.
LEMMA RowAdded ==
    ASSUME RowsNumbered, NEW new, new \notin summaries,
           new.id = Cardinality(RowsOf(new.sources)) + 1, summaries' = summaries \cup {new}
    PROVE  RowsNumbered'
<1> DEFINE n == Cardinality(RowsOf(new.sources))
<1>1. IsFiniteSet(RowsOf(new.sources)) /\ n \in Nat
  BY RowsCounted
<1>2. RowsOf(new.sources)' = RowsOf(new.sources) \cup {new}
  BY DEF RowsOf
<1>3. Cardinality(RowsOf(new.sources) \cup {new}) = n + 1
  <2>1. new \notin RowsOf(new.sources)
    BY DEF RowsOf
  <2> QED
    BY <1>1, <2>1, FS_AddElement
<1>4. IsFiniteSet(summaries')
  BY FS_AddElement DEF RowsNumbered
<1>5. ASSUME NEW s \in summaries' PROVE s.id \in 1..Cardinality(RowsOf(s.sources)')
  <2>0. Cardinality(RowsOf(new.sources)') = n + 1
    BY <1>2, <1>3
  <2>1. CASE s = new
    BY <1>1, <2>0, <2>1
  <2>2. CASE s \in summaries /\ s.sources = new.sources
    <3>1. s.id \in 1..n
      BY <2>2 DEF RowsNumbered
    <3>2. Cardinality(RowsOf(s.sources)') = n + 1
      BY <2>0, <2>2
    <3> HIDE DEF n
    <3> QED
      BY <1>1, <3>1, <3>2
  <2>3. CASE s \in summaries /\ s.sources # new.sources
    <3>1. RowsOf(s.sources)' = RowsOf(s.sources)
      BY <2>3 DEF RowsOf
    <3> QED
      BY <2>3, <3>1 DEF RowsNumbered
  <2> QED
    BY <2>1, <2>2, <2>3
<1> QED
  BY <1>4, <1>5 DEF RowsNumbered

\* Saving the summary does.
LEMMA SavingKeepsRows ==
    ASSUME IInv, NEW w \in Workers, pc[w] = "save",
           summaries' = summaries \cup {NewSummary(w)}
    PROVE  RowsNumbered'
<1>1. PICK new : new = NewSummary(w)
  OBVIOUS
<1>2. new.id = Cardinality(RowsOf(new.sources)) + 1 /\ new \notin summaries
  BY <1>1, NewSummaryFacts
<1>3. summaries' = summaries \cup {new}
  BY <1>1
<1> QED
  BY <1>2, <1>3, RowAdded DEF IInv

\* The summary of w's batch is saved, and w goes on with the batch or excuses it.
Summarises(w) ==
    /\ pc[w] = "save"
    /\ summaries' = summaries \cup {NewSummary(w)}
    /\ life' = life /\ backend' = backend /\ audit' = audit /\ excused \subseteq excused'
    /\ Others(w) /\ batch'[w] \subseteq batch[w]
    /\ \A i \in batch[w] : i \in excused' \/ (pc'[w] \in Summarising /\ i \in todo'[w])

LEMMA SummarisesKeeps ==
    ASSUME IInv, TypeOK', NEW w \in Workers, Summarises(w), Sound(w)', completed' = completed
    PROVE  IInv'
<1>1. Grows
  BY DEF Summarises, Grows, Forward
<1>2. /\ NewSummary(w).sources = batch[w]
      /\ backend = "sqlite" => \A i \in batch[w] : PrincipalOf[i] = NewSummary(w).principal
  BY NewSummaryFacts DEF Summarises
<1>3. \A v \in Workers : Sound(v)'
  <2> SUFFICES ASSUME NEW v \in Workers, v # w PROVE Sound(v)'
    OBVIOUS
  <2>1. \A s \in summaries' \ summaries : batch[v] \cap s.sources \subseteq excused'
    BY <1>2 DEF Summarises, IInv, Apart
  <2> QED
    BY <1>1, <2>1, StillSound DEF Summarises, Others
<1>4. Apart'
  BY DEF IInv, Apart, Summarises, Others, Still
<1>5. Recorded'
  BY <1>2 DEF IInv, Recorded, Summarises, Sound
<1>6. Pending'
  <2> SUFFICES ASSUME NEW s \in summaries', NEW i \in s.sources, life[i] = "ACTIVE"
               PROVE  i \in excused' \/ InHand(i)'
    BY DEF Pending, Summarises
  <2>1. CASE s \in summaries
    <3>1. CASE i \in excused
      BY <3>1 DEF Summarises
    <3>2. CASE InHand(i)
      BY <3>2 DEF InHand, Summarises, Summarising, Others, Still
    <3> QED
      BY <2>1, <3>1, <3>2 DEF IInv, Pending
  <2>2. CASE s = NewSummary(w)
    BY <1>2, <2>2 DEF Summarises, InHand
  <2> QED
    BY <2>1, <2>2 DEF Summarises
<1>7. LineageKept'
  BY DEF IInv, LineageKept, Summarises
<1>8. RepeatsExcused'
  <2>1. \A s \in summaries : batch[w] \cap s.sources \subseteq excused
    BY DEF IInv, Sound, Summarises
  <2> QED
    BY <1>2, <2>1 DEF IInv, RepeatsExcused, Summarises
<1>9. TransitionsAudited'
  <2>1. \A v \in Workers \ {w} : Current(v)' = Current(v) /\ pc'[v] = pc[v]
    BY CurrentKept DEF Summarises, Others, Still
  <2>2. /\ pc[w] = "save" /\ TransitionsAudited
        /\ life' = life /\ audit' = audit /\ excused \subseteq excused'
    BY DEF Summarises, IInv
  <2>3. \A i \in Records :
           life[i] = "CONSOLIDATED" /\ <<"CONSOLIDATE", i>> \notin audit /\ i \notin excused' =>
              \E v \in Workers : pc'[v] = "audit" /\ i = Current(v)'
    <3> SUFFICES ASSUME NEW i \in Records, life[i] = "CONSOLIDATED",
                        <<"CONSOLIDATE", i>> \notin audit, i \notin excused'
                 PROVE  \E v \in Workers : pc'[v] = "audit" /\ i = Current(v)'
      OBVIOUS
    <3>1. PICK v \in Workers : pc[v] = "audit" /\ i = Current(v)
      BY <2>2 DEF TransitionsAudited
    <3> QED
      BY <2>1, <2>2, <3>1
  <2>4. \A i \in Records :
           life[i] = "DECAYED" /\ <<"DECAY", i>> \notin audit /\ i \notin excused' =>
              \E v \in Workers : pc'[v] = "log" /\ i = Current(v)'
    <3> SUFFICES ASSUME NEW i \in Records, life[i] = "DECAYED",
                        <<"DECAY", i>> \notin audit, i \notin excused'
                 PROVE  \E v \in Workers : pc'[v] = "log" /\ i = Current(v)'
      OBVIOUS
    <3>1. PICK v \in Workers : pc[v] = "log" /\ i = Current(v)
      BY <2>2 DEF TransitionsAudited
    <3> QED
      BY <2>1, <2>2, <3>1
  <2> QED
    BY <2>2, <2>3, <2>4 DEF TransitionsAudited
<1>10. SqliteSummariesPrivate'
  BY <1>2 DEF IInv, SqliteSummariesPrivate, Summarises
<1>11. CompletedMeansDone'
  BY <1>1, DoneStays
<1>12. RowsNumbered'
  BY SavingKeepsRows DEF Summarises
<1> QED
  BY <1>3, <1>4, <1>5, <1>6, <1>7, <1>8, <1>9, <1>10, <1>11, <1>12 DEF IInv

LEMMA SaveKeeps ==
    ASSUME IInv, NEW w \in Workers, Save(w)
    PROVE  IInv'
<1>1. /\ pc[w] = "save" /\ batch[w] # {} /\ batch[w] \subseteq Records
      /\ summaries' = summaries \cup {NewSummary(w)}
      /\ pc' = [pc EXCEPT ![w] = "update"]
      /\ todo' = [todo EXCEPT ![w] = batch[w]]
      /\ UNCHANGED <<wiring, policy, life, heard, sector, batch, excused, upsets>>
      /\ sector[w] \in 1..Len(PolicySectors)
      /\ \A i \in batch[w] : life[i] # "none"
  BY DEF Save, Sources, IInv, Sound, TypeOK
<1>2. TypeOK'
  BY <1>1, NewSummaryFacts DEF IInv, TypeOK, wiring, heard, Phase
<1>3. /\ Others(w) /\ pc'[w] = "update" /\ todo'[w] = batch[w] /\ batch'[w] = batch[w]
      /\ sector'[w] = sector[w]
  BY <1>1 DEF IInv, TypeOK, Others, Still
<1>4. Summarises(w)
  BY <1>1, <1>3 DEF Summarises, Summarising, wiring, heard
<1>5. Sound(w)'
  BY <1>1, <1>3, NewSummaryFacts DEF Sound, Resting, Summarising
<1> QED
  BY <1>1, <1>2, <1>4, <1>5, SummarisesKeeps DEF heard

\* w sets the state of its current record, and goes on to its audit entry or
\* excuses what it lets go of.
StateAfter(w) == IF pc[w] = "update" THEN "CONSOLIDATED" ELSE "DECAYED"

Moves(w) ==
    /\ pc[w] \in {"update", "decay"}
    /\ life' = [life EXCEPT ![Current(w)] = StateAfter(w)]
    /\ summaries' = summaries /\ backend' = backend /\ audit' = audit
    /\ excused \subseteq excused'
    /\ Others(w) /\ batch'[w] \subseteq batch[w]
    /\ pc[w] = "update" =>
          \A i \in todo[w] : i \in excused' \/ (pc'[w] \in Summarising /\ i \in todo'[w])
    /\ \/ Current(w) \in excused'
       \/ /\ pc'[w] = IF pc[w] = "update" THEN "audit" ELSE "log"
          /\ todo'[w] = todo[w]

LEMMA MovesKeeps ==
    ASSUME IInv, TypeOK', NEW w \in Workers, Moves(w), Sound(w)', completed' = completed
    PROVE  IInv'
<1> DEFINE cur == Current(w)
<1>1. /\ todo[w] # {} /\ todo[w] \subseteq Records
      /\ \A i \in todo[w] : life[i] # "none"
  BY DEF Moves, IInv, Sound, Summarising, TypeOK
<1>2. cur \in todo[w] /\ cur \in Records
  BY <1>1, CurrentIsLeft
<1> HIDE DEF cur
<1>3. /\ \A i \in Records \ {cur} : life'[i] = life[i]
      /\ life'[cur] = IF pc[w] = "update" THEN "CONSOLIDATED" ELSE "DECAYED"
  BY <1>2 DEF Moves, StateAfter, IInv, TypeOK, cur
<1>4. Grows
  BY <1>1, <1>2, <1>3 DEF Moves, Grows, Forward, Gone
<1>5. \A v \in Workers : Sound(v)'
  <2> SUFFICES ASSUME NEW v \in Workers, v # w PROVE Sound(v)'
    OBVIOUS
  <2>1. summaries' \ summaries = {} /\ Still(v)
    BY DEF Moves, Others
  <2> QED
    BY <1>4, <2>1, StillSound
<1>6. Apart'
  BY DEF IInv, Apart, Moves, Others, Still
<1>7. Recorded'
  BY <1>4 DEF IInv, TypeOK, Summary, Recorded, Moves, Grows, Forward
<1>8. Pending'
  <2> SUFFICES ASSUME NEW s \in summaries, NEW i \in s.sources, life'[i] = "ACTIVE"
               PROVE  i \in excused' \/ InHand(i)'
    BY DEF Pending, Moves
  <2>1. i \in Records
    BY DEF IInv, TypeOK, Summary
  <2>2. life[i] = "ACTIVE"
    BY <1>3, <2>1
  <2>3. CASE i \in excused
    BY <2>3 DEF Moves
  <2>4. CASE InHand(i)
    <3>1. PICK v \in Workers : pc[v] \in Summarising /\ i \in todo[v]
      BY <2>4 DEF InHand
    <3>2. CASE v = w
      BY <3>1, <3>2 DEF Moves, InHand, Summarising
    <3>3. CASE v # w
      BY <3>1, <3>3 DEF Moves, InHand, Others, Still
    <3> QED
      BY <3>2, <3>3
  <2> QED
    BY <2>2, <2>3, <2>4 DEF IInv, Pending
<1>9. LineageKept'
  <2>1. pc[w] = "update" => \E s \in summaries : cur \in s.sources
    BY <1>2 DEF IInv, Sound, Summarising
  <2> QED
    BY <1>3, <2>1 DEF IInv, LineageKept, Moves
<1>10. TransitionsAudited'
  <2>1. ASSUME NEW i \in Records, i # cur
        PROVE  /\ life'[i] = "CONSOLIDATED" =>
                     \/ <<"CONSOLIDATE", i>> \in audit'
                     \/ \E v \in Workers : pc'[v] = "audit" /\ i = Current(v)'
                     \/ i \in excused'
               /\ life'[i] = "DECAYED" =>
                     \/ <<"DECAY", i>> \in audit'
                     \/ \E v \in Workers : pc'[v] = "log" /\ i = Current(v)'
                     \/ i \in excused'
    <3>1. \A v \in Workers \ {w} : Current(v)' = Current(v) /\ pc'[v] = pc[v]
      BY CurrentKept DEF Moves, Others, Still
    <3>2. pc[w] \in {"update", "decay"} /\ TransitionsAudited
      BY DEF Moves, IInv
    <3> QED
      BY <1>3, <2>1, <3>1, <3>2 DEF TransitionsAudited, Moves
  <2>2. /\ life'[cur] = "CONSOLIDATED" =>
              \/ \E v \in Workers : pc'[v] = "audit" /\ cur = Current(v)'
              \/ cur \in excused'
        /\ life'[cur] = "DECAYED" =>
              \/ \E v \in Workers : pc'[v] = "log" /\ cur = Current(v)'
              \/ cur \in excused'
    <3>1. CASE cur \in excused'
      BY <3>1
    <3>2. CASE /\ pc'[w] = IF pc[w] = "update" THEN "audit" ELSE "log"
               /\ todo'[w] = todo[w]
      <4>1. cur = Current(w)'
        BY <3>2, CurrentKept DEF cur
      <4> QED
        BY <1>3, <3>2, <4>1
    <3> QED
      BY <3>1, <3>2 DEF Moves, cur
  <2> QED
    BY <2>1, <2>2 DEF TransitionsAudited
<1>11. SqliteSummariesPrivate' /\ RepeatsExcused'
  BY DEF IInv, SqliteSummariesPrivate, RepeatsExcused, Moves
<1>12. CompletedMeansDone'
  BY <1>4, DoneStays
<1>13. RowsNumbered'
  BY RowsKept DEF Moves, IInv
<1> QED
  BY <1>5, <1>6, <1>7, <1>8, <1>9, <1>10, <1>11, <1>12, <1>13 DEF IInv

LEMMA UpdateKeeps ==
    ASSUME IInv, NEW w \in Workers, Update(w)
    PROVE  IInv'
<1>1. /\ pc[w] = "update"
      /\ life' = [life EXCEPT ![Current(w)] = "CONSOLIDATED"]
      /\ To(w, "audit")
      /\ UNCHANGED <<wiring, policy, summaries, heard, excused, upsets>>
      /\ todo[w] # {} /\ todo[w] \subseteq batch[w] /\ todo[w] \subseteq Records
      /\ \E s \in summaries : batch[w] = s.sources
      /\ \A i \in batch[w] \ todo[w] : life[i] \in Gone /\ <<"CONSOLIDATE", i>> \in audit
      /\ \A i \in batch[w] \cup todo[w] : life[i] # "none"
      /\ sector[w] \in 1..Len(PolicySectors)
      /\ batch[w] \subseteq Records
  BY DEF Update, SetState, IInv, Sound, Summarising, TypeOK
<1>2. Current(w) \in todo[w]
  BY <1>1, CurrentIsLeft
<1>3. /\ WorkerType' /\ Others(w) /\ pc'[w] = "audit" /\ sector'[w] = sector[w]
      /\ batch'[w] = batch[w] /\ todo'[w] = todo[w]
  BY <1>1, ToFacts DEF IInv, Phase
<1>4. TypeOK'
  BY <1>1, <1>3 DEF IInv, TypeOK, WorkerType, wiring, heard, States
<1>5. Moves(w)
  BY <1>1, <1>3 DEF Moves, StateAfter, Summarising, wiring, heard
<1>6. Sound(w)'
  <2>1. Current(w)' = Current(w)
    BY <1>3, CurrentKept
  <2>2. \A i \in Records : life'[i] = IF i = Current(w) THEN "CONSOLIDATED" ELSE life[i]
    BY <1>1 DEF IInv, TypeOK
  <2>3. life'[Current(w)] \in Gone
    BY <1>1, <1>2, <2>2 DEF Gone
  <2>4. /\ \A i \in batch[w] \ todo[w] : life'[i] \in Gone /\ <<"CONSOLIDATE", i>> \in audit
        /\ \A i \in batch[w] \cup todo[w] : life'[i] # "none"
    BY <1>1, <2>2 DEF Gone
  <2> QED
    BY <1>1, <1>3, <2>1, <2>3, <2>4 DEF Sound, Resting, Summarising, heard
<1> QED
  BY <1>1, <1>4, <1>5, <1>6, MovesKeeps DEF heard

LEMMA DecayKeeps ==
    ASSUME IInv, NEW w \in Workers, Decay(w)
    PROVE  IInv'
<1>1. /\ pc[w] = "decay"
      /\ life' = [life EXCEPT ![Current(w)] = "DECAYED"]
      /\ To(w, "log")
      /\ UNCHANGED <<wiring, policy, summaries, heard, excused, upsets>>
      /\ todo[w] # {} /\ todo[w] \subseteq Records /\ batch[w] \subseteq Records
      /\ \A i \in batch[w] \cup todo[w] : life[i] # "none"
  BY DEF Decay, SetState, IInv, Sound, TypeOK
<1>2. /\ WorkerType' /\ Others(w) /\ pc'[w] = "log" /\ sector'[w] = sector[w]
      /\ batch'[w] = batch[w] /\ todo'[w] = todo[w]
  BY <1>1, ToFacts DEF IInv, Phase
<1>3. TypeOK'
  BY <1>1, <1>2 DEF IInv, TypeOK, WorkerType, wiring, heard, States
<1>4. Moves(w)
  BY <1>1, <1>2 DEF Moves, StateAfter, Summarising, wiring, heard
<1>5. Sound(w)'
  <2>1. \A i \in Records : life'[i] = IF i = Current(w) THEN "DECAYED" ELSE life[i]
    BY <1>1 DEF IInv, TypeOK
  <2>2. \A i \in batch[w] \cup todo[w] : life'[i] # "none"
    BY <1>1, <2>1
  <2> QED
    BY <1>1, <1>2, <2>2 DEF Sound, Resting, Summarising
<1> QED
  BY <1>1, <1>3, <1>4, <1>5, MovesKeeps DEF heard

-----------------------------------------------------------------------------
(* Steps from outside. *)

LEMMA FailsKeeps ==
    ASSUME IInv, NEW w \in Workers, Fails(w)
    PROVE  IInv'
<1>1. /\ excused' = excused \cup batch[w] \cup todo[w]
      /\ UNCHANGED <<wiring, policy, completed>>
      /\ upsets' \in 0..MaxUpsets
      /\ batch[w] \subseteq Records /\ todo[w] \subseteq Records
      /\ excused \subseteq excused' /\ excused' \subseteq Records
  BY SweepsAssumption DEF Fails, Upset, IInv, TypeOK
<1>2. WorkerType' /\ Rests(w) /\ Others(w)
  BY StopFacts DEF Fails, IInv
<1>3. Sound(w)'
  BY <1>2, RestingSound
<1>4. pc[w] \in Summarising \cup {"decay", "log"} => Current(w) \in todo[w]
  BY <1>1, CurrentIsLeft DEF IInv, Sound, Summarising
<1>5. ASSUME life' = life, summaries' = summaries, audit \subseteq audit',
             audit' \subseteq {"CONSOLIDATE", "DECAY"} \X Records
      PROVE  IInv'
  <2>1. TypeOK'
    BY <1>1, <1>2, <1>5 DEF IInv, TypeOK, WorkerType, wiring
  <2>2. Quiet(w)
    BY <1>1, <1>2, <1>4, <1>5 DEF Quiet, Rests, Summarising, wiring
  <2> QED
    BY <1>1, <1>3, <2>1, <2>2, QuietGrows, DoneStays, QuietKeeps
<1>6. CASE UNCHANGED <<table, audit>>
  BY <1>5, <1>6 DEF table, IInv, TypeOK
<1>7. CASE /\ pc[w] = "save"
           /\ summaries' = summaries \cup {NewSummary(w)}
           /\ UNCHANGED <<life, audit>>
  <2>1. TypeOK'
    BY <1>1, <1>2, <1>7, NewSummaryFacts DEF IInv, TypeOK, WorkerType, wiring
  <2>2. Summarises(w)
    BY <1>1, <1>2, <1>7 DEF Summarises, Rests, wiring
  <2> QED
    BY <1>1, <1>3, <2>1, <2>2, SummarisesKeeps
<1>8. CASE /\ pc[w] \in {"update", "decay"}
           /\ life' = [life EXCEPT ![Current(w)] = StateAfter(w)]
           /\ UNCHANGED <<summaries, audit>>
  <2>1. TypeOK'
    BY <1>1, <1>2, <1>8 DEF IInv, TypeOK, WorkerType, wiring, States, StateAfter
  <2>2. Moves(w)
    BY <1>1, <1>2, <1>4, <1>8 DEF Moves, Rests, Summarising, wiring
  <2> QED
    BY <1>1, <1>3, <2>1, <2>2, MovesKeeps
<1>9. CASE /\ pc[w] \in {"audit", "log"}
           /\ audit' = audit \cup {<<IF pc[w] = "audit" THEN "CONSOLIDATE" ELSE "DECAY",
                                     Current(w)>>}
           /\ UNCHANGED table
  <2>1. Current(w) \in Records
    BY <1>1, <1>4, <1>9 DEF Summarising
  <2>2. audit' \subseteq {"CONSOLIDATE", "DECAY"} \X Records
    BY <1>9, <2>1 DEF IInv, TypeOK
  <2> QED
    BY <1>5, <1>9, <2>2 DEF table
<1> QED
  BY <1>6, <1>7, <1>8, <1>9 DEF Fails, SetState, StateAfter

LEMMA CrashKeeps ==
    ASSUME IInv, Crash
    PROVE  IInv'
<1>1. /\ UNCHANGED <<backend, ports, policy, life, summaries, audit, completed>>
      /\ \A w \in Workers : pc'[w] = "idle" /\ batch'[w] = {} /\ todo'[w] = {}
      /\ excused \subseteq excused'
      /\ \A w \in Workers : todo[w] \subseteq excused'
  BY DEF Crash, wiring, table, heard
<1>2. TypeOK'
  <2>1. WorkerType'
    BY LenIsNat DEF Crash, WorkerType, Phase
  <2>2. upsets' \in 0..MaxUpsets
    BY SweepsAssumption DEF Crash, Upset, IInv, TypeOK
  <2>3. excused' \subseteq Records
    BY DEF Crash, IInv, TypeOK
  <2> QED
    BY <1>1, <2>1, <2>2, <2>3 DEF IInv, TypeOK, WorkerType
<1>3. \A w \in Workers : Sound(w)'
  BY <1>1 DEF Sound, Resting, Summarising
<1>4. Apart' /\ Recorded' /\ LineageKept' /\ SqliteSummariesPrivate' /\ CompletedMeansDone'
  BY <1>1 DEF IInv, Apart, Recorded, LineageKept, SqliteSummariesPrivate, CompletedMeansDone
<1>5. RepeatsExcused'
  BY <1>1 DEF IInv, RepeatsExcused
<1>6. Pending'
  BY <1>1 DEF IInv, Pending, InHand
<1>7. TransitionsAudited'
  <2>1. \A w \in Workers : pc[w] \in {"audit", "log"} => Current(w) \in todo[w]
    BY CurrentIsLeft DEF IInv, TypeOK, Sound, Summarising
  <2> QED
    BY <1>1, <2>1 DEF IInv, TransitionsAudited
<1>8. RowsNumbered'
  BY <1>1, RowsKept DEF IInv
<1> QED
  BY <1>2, <1>3, <1>4, <1>5, <1>6, <1>7, <1>8 DEF IInv

LEMMA WriteKeeps ==
    ASSUME IInv, NEW i \in Records, Write(i)
    PROVE  IInv'
<1>1. /\ life[i] = "none" /\ life' = [life EXCEPT ![i] = "ACTIVE"]
      /\ UNCHANGED <<backend, ports, policy, summaries, audit, completed, pc, sector, batch,
                     todo, excused, upsets>>
  BY DEF Write, SetState, wiring, heard, worker
<1>2. /\ life'[i] = "ACTIVE"
      /\ \A j \in Records \ {i} : life'[j] = life[j]
  BY <1>1 DEF IInv, TypeOK
<1>3. TypeOK'
  BY <1>1 DEF IInv, TypeOK, States
<1>4. Grows
  BY <1>1, <1>2 DEF Grows, Forward, Gone
<1>5. \A w \in Workers : Sound(w)'
  <2> SUFFICES ASSUME NEW w \in Workers PROVE Sound(w)'
    OBVIOUS
  <2> QED
    BY <1>1, <1>4, StillSound DEF Still
<1>6. Apart' /\ SqliteSummariesPrivate' /\ RepeatsExcused'
  BY <1>1 DEF IInv, Apart, SqliteSummariesPrivate, RepeatsExcused
<1>7. Recorded' /\ Pending'
  BY <1>1, <1>2 DEF IInv, TypeOK, Summary, Recorded, Pending, InHand
<1>8. LineageKept'
  BY <1>1, <1>2 DEF IInv, LineageKept
<1>9. TransitionsAudited'
  <2>1. \A w \in Workers : Current(w)' = Current(w)
    BY <1>1, CurrentKept
  <2> QED
    BY <1>1, <1>2, <2>1 DEF IInv, TransitionsAudited
<1>10. CompletedMeansDone'
  BY <1>1, <1>4, DoneStays
<1>11. RowsNumbered'
  BY <1>1, RowsKept DEF IInv
<1> QED
  BY <1>3, <1>5, <1>6, <1>7, <1>8, <1>9, <1>10, <1>11 DEF IInv

\* A step that changes neither the table nor a worker, such as a new policy.
LEMMA NothingMoves ==
    ASSUME IInv, TypeOK', UNCHANGED <<wiring, table, heard, worker, excused>>
    PROVE  IInv'
<1>1. UNCHANGED <<backend, life, summaries, audit, completed, pc, sector, batch, todo, excused>>
  BY DEF wiring, table, heard, worker
<1>2. Grows
  BY <1>1 DEF Grows, Forward
<1>3. \A w \in Workers : Sound(w)'
  <2> SUFFICES ASSUME NEW w \in Workers PROVE Sound(w)'
    OBVIOUS
  <2> QED
    BY <1>1, <1>2, StillSound DEF Still
<1>4. Apart' /\ SqliteSummariesPrivate' /\ RepeatsExcused' /\ Recorded' /\ Pending' /\ LineageKept'
  BY <1>1 DEF IInv, Apart, SqliteSummariesPrivate, RepeatsExcused, Recorded, Pending, InHand,
     LineageKept
<1>5. TransitionsAudited'
  <2>1. \A w \in Workers : Current(w)' = Current(w)
    BY <1>1, CurrentKept
  <2> QED
    BY <1>1, <2>1 DEF IInv, TransitionsAudited
<1>6. CompletedMeansDone'
  BY <1>1, <1>2, DoneStays
<1>7. RowsNumbered'
  BY <1>1, RowsKept DEF IInv
<1> QED
  BY <1>3, <1>4, <1>5, <1>6, <1>7 DEF IInv

LEMMA SavePolicyKeeps ==
    ASSUME IInv, SavePolicy
    PROVE  IInv'
<1>1. policy' \in [enabled: BOOLEAN, trigger: Triggers] /\ upsets' \in 0..MaxUpsets
  BY SweepsAssumption DEF SavePolicy, Upset, IInv, TypeOK
<1>2. UNCHANGED <<wiring, table, heard, worker, excused>>
  BY DEF SavePolicy
<1>3. TypeOK'
  BY <1>1, <1>2 DEF IInv, TypeOK, wiring, table, heard, worker
<1> QED
  BY <1>2, <1>3, NothingMoves

LEMMA NextKeeps == IInv /\ [Next]_vars => IInv'
<1> SUFFICES ASSUME IInv, [Next]_vars PROVE IInv'
  OBVIOUS
<1>1. CASE UNCHANGED vars
  BY <1>1, NothingMoves DEF vars, IInv, TypeOK, wiring, table, heard, worker
<1>2. ASSUME NEW w \in Workers, Step(w) PROVE IInv'
  BY <1>2, EndSessionKeeps, LoadPolicyKeeps, ListKeeps, SaveKeeps, UpdateKeeps, AuditKeeps,
     CompleteKeeps, ListOldKeeps, DecayKeeps, LogDecayKeeps DEF Step
<1> QED
  BY <1>1, <1>2, WriteKeeps, BeginKeeps, FailsKeeps, SavePolicyKeeps, CrashKeeps DEF Next

LEMMA Invariance == Spec => []IInv
  BY InitIInv, NextKeeps, PTL DEF Spec

-----------------------------------------------------------------------------
\* Every variable keeps its type, for any records, workers and policies.
THEOREM SweepsTypeCorrect == Spec => []TypeOK
<1>1. IInv => TypeOK
  BY DEF IInv
<1> QED
  BY Invariance, <1>1, PTL

\* No evidence is lost: a consolidated record is in a saved summary, under any
\* interleaving of the sweeps and any faults.
THEOREM LineageIsKept == Spec => []LineageKept
<1>1. IInv => LineageKept
  BY DEF IInv
<1> QED
  BY Invariance, <1>1, PTL

\* Two rows, of one batch or of two, share a record only if two sweeps held it or
\* one was cut off with it.
THEOREM RepeatsAreExcused == Spec => []RepeatsExcused
<1>1. IInv => RepeatsExcused
  BY DEF IInv
<1> QED
  BY Invariance, <1>1, PTL

\* A save adds a row, also when the same batch was summarised before: no repeat
\* hides in the set of summaries.
SavesAddRows ==
    [][\A w \in Workers : Save(w) => summaries' = summaries \cup {NewSummary(w)}
                                  /\ NewSummary(w) \notin summaries]_vars

\* Every save is a row of its own, whatever was saved before and by whom.
THEOREM EverySaveIsARow == Spec => SavesAddRows
<1>1. IInv /\ [Next]_vars =>
        [\A w \in Workers : Save(w) => summaries' = summaries \cup {NewSummary(w)}
                                  /\ NewSummary(w) \notin summaries]_vars
  BY NewSummaryFacts DEF Save
<1> QED
  BY <1>1, Invariance, PTL DEF Spec, SavesAddRows

\* Every transition has its audit entry, but for the sweeps that were cut off.
THEOREM TransitionsAreAudited == Spec => []TransitionsAudited
<1>1. IInv => TransitionsAudited
  BY DEF IInv
<1> QED
  BY Invariance, <1>1, PTL

\* On SQLite no summary mixes the records of two principals.
THEOREM SqliteSummariesArePrivate == Spec => []SqliteSummariesPrivate
<1>1. IInv => SqliteSummariesPrivate
  BY DEF IInv
<1> QED
  BY Invariance, <1>1, PTL

\* ConsolidationJobCompleted is said of batches that are out of ACTIVE and audited.
THEOREM CompletedIsDone == Spec => []CompletedMeansDone
<1>1. IInv => CompletedMeansDone
  BY DEF IInv
<1> QED
  BY Invariance, <1>1, PTL

-----------------------------------------------------------------------------
(* How far a sweep has come *)

Span == 2 * N + 6

\* The statements of one round: of the batch of a sector, or of a decay.
Round(w) ==
    CASE pc[w] \in {"idle", "list"} -> 0
      [] pc[w] \in {"ending", "save"} -> 1
      [] pc[w] \in {"policy", "old"} -> 2
      [] pc[w] \in {"update", "decay"} -> 3 + 2 * (N - Cardinality(todo[w]))
      [] pc[w] \in {"audit", "log"} -> 4 + 2 * (N - Cardinality(todo[w]))
      [] pc[w] = "complete" -> 2 * N + 5

InSectors == {"list", "save", "update", "audit", "complete"}

Way(w) == Round(w) + (IF pc[w] \in InSectors THEN sector[w] * Span ELSE 0)

LEMMA RecordSets ==
    ASSUME NEW S \in SUBSET Records
    PROVE  /\ IsFiniteSet(S) /\ Cardinality(S) \in 0..N
           /\ \A i \in S : Cardinality(S \ {i}) = Cardinality(S) - 1 /\ Cardinality(S) >= 1
<1>0. N \in Nat
  BY SweepsAssumption
<1>1. IsFiniteSet(Records) /\ Cardinality(Records) = N
  <2>1. IsFiniteSet(1..N) /\ Cardinality(1..N) = IF 1 > N THEN 0 ELSE N - 1 + 1
    BY <1>0, FS_Interval
  <2> QED BY <1>0, <2>1 DEF Records
<1>2. IsFiniteSet(S) /\ Cardinality(S) <= N
  BY <1>1, FS_Subset
<1>3. Cardinality(S) \in Nat
  BY <1>2, FS_CardinalityType
<1>4. ASSUME NEW i \in S PROVE Cardinality(S \ {i}) = Cardinality(S) - 1 /\ Cardinality(S) >= 1
  <2>1. Cardinality(S \ {i}) = Cardinality(S) - 1
    BY <1>2, FS_RemoveElement
  <2>2. IsFiniteSet(S \ {i})
    BY <1>2, FS_RemoveElement
  <2>3. Cardinality(S \ {i}) \in Nat
    BY <2>2, FS_CardinalityType
  <2> QED BY <1>3, <2>1, <2>3
<1> QED BY <1>0, <1>2, <1>3, <1>4

\* The next sector is a span further on.
LEMMA NextSpan ==
    ASSUME NEW k \in Nat
    PROVE  /\ k * Span \in Nat
           /\ (k + 1) * Span = k * Span + Span
<1>1. Span \in Nat
  BY SweepsAssumption DEF Span
<1> HIDE DEF Span
<1>2. k * Span \in Nat
  BY <1>1
<1>3. (k + 1) * Span = k * Span + Span
  BY <1>1
<1> QED BY <1>2, <1>3

LEMMA RoundIsNat ==
    ASSUME TypeOK, NEW w \in Workers, Sound(w)
    PROVE  Round(w) \in Nat /\ Round(w) < Span
<1>1. pc[w] \in Phase /\ N \in Nat /\ Cardinality(todo[w]) \in 0..N
  BY RecordSets, SweepsAssumption DEF TypeOK
<1> QED BY <1>1 DEF Round, Phase, Span

LEMMA WayIsNat ==
    ASSUME TypeOK, NEW w \in Workers, Sound(w)
    PROVE  Way(w) \in Nat
<1>1. sector[w] \in Nat
  BY LenIsNat DEF TypeOK
<1> QED BY <1>1, RoundIsNat, NextSpan DEF Way

\* Within a round the next statement is further on.
LEMMA SameSector ==
    ASSUME TypeOK, NEW w \in Workers, Round(w) \in Nat, Round(w)' \in Nat,
           sector'[w] = sector[w], Round(w)' > Round(w),
           pc'[w] \in InSectors <=> pc[w] \in InSectors
    PROVE  Way(w)' > Way(w)
<1>1. sector[w] * Span \in Nat
  BY LenIsNat, NextSpan DEF TypeOK
<1>2. (sector[w] * Span)' = sector[w] * Span
  BY DEF Span
<1> HIDE DEF Span
<1> QED BY <1>1, <1>2 DEF Way

\* The loop over the sectors only goes on.
LEMMA OtherSector ==
    ASSUME TypeOK, NEW w \in Workers, Sound(w), NEW k \in Nat, ToSector(w, k + 1),
           pc[w] \in InSectors => sector[w] = k,
           pc[w] \notin InSectors => k = 0
    PROVE  pc'[w] = "idle" \/ Way(w)' > Way(w)
<1>0. /\ pc \in [Workers -> Phase] /\ sector \in [Workers -> 0..Len(PolicySectors)]
      /\ Round(w) \in Nat /\ Round(w) < Span /\ Span \in Nat
  BY RoundIsNat, SweepsAssumption DEF TypeOK, Span
<1>1. CASE k + 1 > Len(PolicySectors)
  BY <1>0, <1>1 DEF ToSector, Stop
<1>2. CASE ~(k + 1 > Len(PolicySectors))
  <2>1. pc'[w] = "list" /\ sector'[w] = k + 1
    BY <1>0, <1>2 DEF ToSector
  <2>2. Round(w)' = 0
    BY <2>1 DEF Round
  <2>3. Way(w)' = (k + 1) * Span
    BY <2>1, <2>2, NextSpan DEF Way, InSectors, Span
  <2>4. Way(w) <= Round(w) + k * Span
    BY <1>0, NextSpan DEF Way
  <2>5. Way(w) \in Nat
    BY WayIsNat
  <2> QED BY <1>0, <2>3, <2>4, <2>5, NextSpan
<1> QED BY <1>1, <1>2

\* A row that is worked through is not come back to.
LEMMA LeftIsLess ==
    ASSUME TypeOK, NEW w \in Workers, todo[w] # {}
    PROVE  /\ Left(w) \in SUBSET Records
           /\ Cardinality(todo[w]) \in 1..N
           /\ Cardinality(Left(w)) = Cardinality(todo[w]) - 1
<1>1. todo[w] \in SUBSET Records
  BY DEF TypeOK
<1>2. Current(w) \in todo[w]
  BY <1>1, CurrentIsLeft
<1>3. Cardinality(todo[w]) \in 0..N /\ Cardinality(todo[w]) >= 1
  BY <1>1, <1>2, RecordSets
<1>4. Cardinality(todo[w] \ {Current(w)}) = Cardinality(todo[w]) - 1
  BY <1>1, <1>2, RecordSets
<1>5. Cardinality(todo[w]) \in 1..N
  BY <1>3, SweepsAssumption
<1> QED BY <1>1, <1>4, <1>5 DEF Left

LEMMA StepGetsOn ==
    ASSUME IInv, IInv', NEW w \in Workers, Step(w)
    PROVE  pc'[w] = "idle" \/ Way(w)' > Way(w)
<1> DEFINE Done == pc'[w] = "idle" \/ Way(w)' > Way(w)
<1>0. /\ TypeOK /\ Sound(w) /\ pc \in [Workers -> Phase] /\ todo \in [Workers -> SUBSET Records]
      /\ sector \in [Workers -> 0..Len(PolicySectors)] /\ N \in Nat
  BY SweepsAssumption DEF IInv, TypeOK
<1>00. Round(w) \in Nat /\ Round(w)' \in Nat
  <2>1. pc'[w] \in Phase /\ todo'[w] \in SUBSET Records
    BY DEF IInv, TypeOK
  <2>2. Cardinality(todo'[w]) \in 0..N
    BY <2>1, RecordSets
  <2>3. Round(w)' \in Nat
    BY <1>0, <2>1, <2>2 DEF Round, Phase
  <2> QED BY <1>0, <2>3, RoundIsNat
<1>1. CASE Stop(w)
  BY <1>0, <1>1 DEF Stop
<1>2. CASE EndSession(w)
  <2>1. CASE To(w, "policy")
    <3>1. pc[w] = "ending" /\ pc'[w] = "policy" /\ sector'[w] = sector[w]
      BY <1>0, <1>2, <2>1 DEF EndSession, To
    <3>2. Round(w) = 1 /\ Round(w)' = 2
      BY <3>1 DEF Round
    <3> QED BY <1>0, <1>00, <3>1, <3>2, SameSector DEF InSectors
  <2> QED BY <1>1, <1>2, <2>1 DEF EndSession
<1>3. CASE LoadPolicy(w)
  <2>1. CASE ToSector(w, 1)
    <3>1. ToSector(w, 0 + 1) /\ pc[w] \notin InSectors
      BY <1>3, <2>1 DEF LoadPolicy, InSectors
    <3> QED BY <1>0, <3>1, OtherSector
  <2> QED BY <1>1, <1>3, <2>1 DEF LoadPolicy
<1>4. CASE List(w)
  <2>1. pc[w] = "list" /\ pc[w] \in InSectors /\ sector[w] \in Nat
    BY <1>0, <1>4, LenIsNat DEF List, InSectors
  <2>2. CASE ShortSector(w)
    BY <1>0, <2>1, <2>2, OtherSector DEF ShortSector
  <2>3. CASE pc' = [pc EXCEPT ![w] = "save"] /\ UNCHANGED <<sector, todo>>
    <3>1. pc'[w] = "save" /\ sector'[w] = sector[w]
      BY <1>0, <2>3
    <3>2. Round(w) = 0 /\ Round(w)' = 1
      BY <2>1, <3>1 DEF Round
    <3> QED BY <1>0, <1>00, <2>1, <3>1, <3>2, SameSector DEF InSectors
  <2> QED BY <1>4, <2>2, <2>3 DEF List
<1>5. CASE Save(w)
  <2>1. pc[w] = "save" /\ pc'[w] = "update" /\ sector' = sector
    BY <1>0, <1>5 DEF Save
  <2>2. Cardinality(todo'[w]) \in 0..N
    BY RecordSets DEF IInv, TypeOK
  <2>3. Round(w) = 1 /\ Round(w)' = 3 + 2 * (N - Cardinality(todo'[w]))
    BY <2>1 DEF Round
  <2>4. Round(w)' > Round(w)
    BY <1>0, <2>2, <2>3
  <2> QED BY <1>0, <1>00, <2>1, <2>4, SameSector DEF InSectors
<1>6. CASE Update(w) \/ Decay(w)
  <2>1. /\ \/ pc[w] = "update" /\ pc'[w] = "audit"
           \/ pc[w] = "decay" /\ pc'[w] = "log"
        /\ sector' = sector /\ todo' = todo
    BY <1>0, <1>6 DEF Update, Decay, To
  <2>2. Cardinality(todo[w]) \in 0..N
    BY <1>0, RecordSets
  <2>3. /\ Round(w) = 3 + 2 * (N - Cardinality(todo[w]))
        /\ Round(w)' = 4 + 2 * (N - Cardinality(todo[w]))
    BY <2>1 DEF Round
  <2>4. Round(w)' > Round(w)
    BY <1>0, <2>2, <2>3
  <2> QED BY <1>0, <1>00, <2>1, <2>4, SameSector DEF InSectors
<1>7. CASE Audit(w) \/ LogDecay(w)
  <2>0. pc[w] \in {"audit", "log"} /\ todo[w] # {}
    BY <1>0, <1>7 DEF Audit, LogDecay, Sound, Summarising
  <2>1. /\ Cardinality(todo[w]) \in 1..N
        /\ Cardinality(Left(w)) = Cardinality(todo[w]) - 1
    BY <1>0, <2>0, LeftIsLess
  <2>2. Round(w) = 4 + 2 * (N - Cardinality(todo[w]))
    BY <2>0 DEF Round
  <2>3. CASE todo' = [todo EXCEPT ![w] = Left(w)] /\ sector' = sector
             /\ pc' = [pc EXCEPT ![w] = IF pc[w] = "audit" THEN "update" ELSE "decay"]
    <3>1. /\ pc'[w] = IF pc[w] = "audit" THEN "update" ELSE "decay"
          /\ todo'[w] = Left(w)
      BY <1>0, <2>3
    <3>2. Round(w)' = 3 + 2 * (N - Cardinality(Left(w)))
      BY <3>1 DEF Round
    <3>3. Round(w)' > Round(w)
      BY <1>0, <2>1, <2>2, <3>2
    <3> QED BY <1>0, <1>00, <2>0, <2>3, <3>1, <3>3, SameSector DEF InSectors
  <2>4. CASE pc[w] = "audit" /\ pc' = [pc EXCEPT ![w] = "complete"] /\ sector' = sector
    <3>1. pc'[w] = "complete"
      BY <1>0, <2>4
    <3>2. Round(w)' = 2 * N + 5
      BY <3>1 DEF Round
    <3>3. Round(w)' > Round(w)
      BY <1>0, <2>1, <2>2, <3>2
    <3> QED BY <1>0, <1>00, <2>4, <3>1, <3>3, SameSector DEF InSectors
  <2> QED BY <1>1, <1>7, <2>3, <2>4 DEF Audit, LogDecay
<1>8. CASE Complete(w)
  <2>1. pc[w] \in InSectors /\ sector[w] \in Nat /\ ToSector(w, sector[w] + 1)
    BY <1>0, <1>8, LenIsNat DEF Complete, InSectors
  <2> QED BY <1>0, <2>1, OtherSector
<1>9. CASE ListOld(w)
  <2>1. CASE \E old : /\ todo' = [todo EXCEPT ![w] = old]
                      /\ pc' = [pc EXCEPT ![w] = "decay"]
                      /\ UNCHANGED <<sector, batch>>
    <3>1. pc[w] = "old" /\ pc'[w] = "decay" /\ sector' = sector
      BY <1>0, <1>9, <2>1 DEF ListOld
    <3>2. Cardinality(todo'[w]) \in 0..N
      BY RecordSets DEF IInv, TypeOK
    <3>3. Round(w) = 2 /\ Round(w)' = 3 + 2 * (N - Cardinality(todo'[w]))
      BY <3>1 DEF Round
    <3>4. Round(w)' > Round(w)
      BY <1>0, <3>2, <3>3
    <3> QED BY <1>0, <1>00, <3>1, <3>4, SameSector DEF InSectors
  <2> QED BY <1>1, <1>9, <2>1 DEF ListOld
<1> QED BY <1>2, <1>3, <1>4, <1>5, <1>6, <1>7, <1>8, <1>9 DEF Step

\* Each step of a sweep takes it further or ends it, and nobody else takes it back.
SweepsAdvance ==
    [][\A w \in Workers :
          /\ Step(w) => pc'[w] = "idle" \/ Way(w)' > Way(w)
          /\ pc'[w] = "idle" \/ Way(w)' >= Way(w)]_vars

LEMMA StillWay ==
    ASSUME NEW w \in Workers, Still(w), Way(w) \in Nat
    PROVE  Way(w)' >= Way(w)
<1>1. Way(w)' = Way(w)
  BY DEF Way, Round, Still, Span, InSectors
<1> QED BY <1>1

\* A sweep is over after a bounded number of its own steps, whatever is written,
\* swept and set beside it: its batches are fixed when they are listed, and a
\* sector it is through with is not listed again.
THEOREM SweepsGetOn == Spec => SweepsAdvance
<1> DEFINE A == \A w \in Workers :
                  /\ Step(w) => pc'[w] = "idle" \/ Way(w)' > Way(w)
                  /\ pc'[w] = "idle" \/ Way(w)' >= Way(w)
<1>1. IInv /\ IInv' /\ [Next]_vars => [A]_vars
  <2> SUFFICES ASSUME IInv, IInv', Next, NEW w \in Workers
               PROVE  /\ Step(w) => pc'[w] = "idle" \/ Way(w)' > Way(w)
                      /\ pc'[w] = "idle" \/ Way(w)' >= Way(w)
    OBVIOUS
  <2>1. TypeOK /\ Sound(w) /\ Way(w) \in Nat
    BY WayIsNat DEF IInv
  <2>2. Way(w)' \in Nat
    <3>1. pc'[w] \in Phase /\ Cardinality(todo'[w]) \in 0..N /\ sector'[w] \in Nat /\ N \in Nat
      BY RecordSets, LenIsNat, SweepsAssumption DEF IInv, TypeOK
    <3>2. Round(w)' \in Nat
      BY <3>1 DEF Round, Phase
    <3>3. sector'[w] * Span \in Nat
      BY <3>1, NextSpan
    <3> QED BY <3>2, <3>3 DEF Way, Span
  <2>3. Step(w) => pc'[w] = "idle" \/ Way(w)' > Way(w)
    BY StepGetsOn
  <2>4. CASE Still(w)
    BY <2>1, <2>3, <2>4, StillWay
  <2>5. ASSUME NEW v \in Workers \ {w}, Step(v) \/ Fails(v) PROVE Still(w)
    <3>1. CASE Stop(v) \/ \E k : ToSector(v, k)
      BY <2>1, <3>1 DEF Stop, ToSector, Still, TypeOK
    <3>2. CASE \E ph : To(v, ph)
      BY <2>1, <3>2 DEF To, Still, TypeOK
    <3>3. CASE List(v) \/ Save(v)
      BY <2>1, <3>1, <3>3 DEF List, ShortSector, Save, Still, TypeOK
    <3>4. CASE Audit(v) \/ LogDecay(v) \/ ListOld(v)
      BY <2>1, <3>1, <3>4 DEF Audit, LogDecay, ListOld, Still, TypeOK
    <3>5. CASE EndSession(v) \/ LoadPolicy(v) \/ Update(v) \/ Decay(v) \/ Complete(v) \/ Fails(v)
      BY <3>1, <3>2, <3>5 DEF EndSession, LoadPolicy, Update, Decay, Complete, Fails
    <3> QED BY <2>5, <3>3, <3>4, <3>5 DEF Step
  <2>6. ASSUME NEW v \in Workers, Begin(v)
        PROVE  Still(w) \/ (v = w /\ pc[w] = "idle" /\ pc'[w] \in {"policy", "ending", "old"})
    BY <2>1, <2>6 DEF Begin, BeginSweep, BeginSession, BeginDecay, Enter, Still, TypeOK
  <2>7. ASSUME pc[w] = "idle" PROVE Way(w) = 0
    BY <2>7 DEF Way, Round, InSectors
  <2>8. CASE Fails(w) \/ Crash
    BY <2>1, <2>8 DEF Fails, Crash, Stop, TypeOK
  <2>9. CASE (\E i \in Records : Write(i)) \/ SavePolicy
    BY <2>4, <2>9 DEF Write, SavePolicy, worker, Still
  <2> QED BY <2>1, <2>2, <2>3, <2>4, <2>5, <2>6, <2>7, <2>8, <2>9 DEF Next
<1> QED BY <1>1, Invariance, PTL DEF Spec, SweepsAdvance

-----------------------------------------------------------------------------
\* A record that was taken out of ACTIVE does not return to it.
NeverActiveAgain ==
    [][\A i \in Records :
          /\ life[i] \in Gone => life'[i] \in Gone
          /\ life[i] # "none" => life'[i] # "none"]_vars

\* Whatever stale lists two sweeps work through side by side, what one of them has
\* taken out of the backlog stays out: a backlog grows by writes alone.
THEOREM GoneForGood == Spec => NeverActiveAgain
<1> DEFINE A == \A i \in Records :
                  /\ life[i] \in Gone => life'[i] \in Gone
                  /\ life[i] # "none" => life'[i] # "none"
<1>1. IInv /\ [Next]_vars => [A]_vars
  <2> SUFFICES ASSUME IInv, Next PROVE A
    OBVIOUS
  <2>0. life \in [Records -> States \cup {"none"}]
    BY DEF IInv, TypeOK
  <2>1. CASE life' = life
    BY <2>1
  <2>2. ASSUME NEW j, NEW s \in Gone, SetState(j, s) PROVE A
    BY <2>0, <2>2 DEF SetState, Gone
  <2>3. ASSUME NEW i \in Records, Write(i) PROVE A
    BY <2>0, <2>3 DEF Write, SetState, Gone
  <2>4. ASSUME NEW w \in Workers, Begin(w) \/ Step(w) \/ Fails(w) PROVE A
    <3>1. CASE Begin(w)
      BY <2>1, <3>1 DEF Begin, BeginSweep, BeginSession, BeginDecay, Enter, table
    <3>2. CASE Update(w) \/ Decay(w)
      BY <2>2, <3>2 DEF Update, Decay, Gone
    <3>3. CASE Fails(w)
      BY <2>1, <2>2, <3>3 DEF Fails, Gone, table
    <3>4. CASE \/ EndSession(w) \/ LoadPolicy(w) \/ List(w) \/ Save(w) \/ Audit(w) \/ Complete(w)
               \/ ListOld(w) \/ LogDecay(w)
      BY <2>1, <3>4 DEF EndSession, LoadPolicy, List, Save, Audit, Complete, ListOld, LogDecay, table
    <3> QED BY <2>4, <3>1, <3>2, <3>3, <3>4 DEF Step
  <2>5. CASE SavePolicy \/ Crash
    BY <2>1, <2>5 DEF SavePolicy, Crash, table
  <2> QED BY <2>3, <2>4, <2>5 DEF Next
<1> QED BY <1>1, Invariance, PTL DEF Spec, NeverActiveAgain
=============================================================================
