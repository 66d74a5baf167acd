------------------------- MODULE SchemaMigrationProofs -------------------------
(***************************************************************************)
(* What holds of schema migration for any processes, releases and deaths.  *)
(*                                                                         *)
(* VersionsTruthful is not inductive by itself: that a recorded script has *)
(* run to its end follows from how far the process that records it has     *)
(* come (Progress), and Progress from VersionsTruthful, because a process  *)
(* goes on from the version it has read.                                   *)
(***************************************************************************)
EXTENDS SchemaMigration, TLAPS

\* The statements of a script name tables, and V1 names all of them.
LEMMA ScriptFacts ==
    /\ Len(Script(1)) = 5 /\ Len(Script(2)) = 1
    /\ \A k \in 1..5 : Script(1)[k] \in Tables
    /\ Script(2)[1] = "facts"
    /\ \A t \in Tables : \E k \in 1..5 : Script(1)[k] = t
<1>1. Script(1) = <<"versions", "memory_records", "facts", "audit_log", "other">>
      /\ Script(2) = <<"facts">>
  BY DEF Script, V1
<1>2. Len(Script(1)) = 5 /\ Len(Script(2)) = 1
  BY <1>1
<1>3. /\ Script(1)[1] = "versions" /\ Script(1)[2] = "memory_records"
      /\ Script(1)[3] = "facts" /\ Script(1)[4] = "audit_log" /\ Script(1)[5] = "other"
  BY <1>1
<1>4. \A k \in 1..5 : Script(1)[k] \in Tables
  BY <1>3, \A k \in 1..5 : k = 1 \/ k = 2 \/ k = 3 \/ k = 4 \/ k = 5 DEF Tables
<1>5. \A t \in Tables : \E k \in 1..5 : Script(1)[k] = t
  BY <1>3 DEF Tables
<1> QED
  BY <1>1, <1>2, <1>4, <1>5

\* A statement of a script is one of five, and of V2 the only one.
LEMMA StatementFacts ==
    ASSUME NEW v \in {1, 2}, NEW n \in 1..Len(Script(v))
    PROVE  /\ n \in 1..5 /\ Script(v)[n] \in Tables
           /\ v = 2 => n = 1 /\ Script(v)[n] = "facts"
           /\ Len(Script(v)) \in 1..5
<1>1. CASE v = 1
  <2>1. n \in 1..Len(Script(1))
    BY <1>1
  <2>2. n \in 1..5
    BY <2>1, ScriptFacts
  <2> QED
    BY <1>1, <2>2, ScriptFacts
<1>2. CASE v = 2
  <2>1. n \in 1..Len(Script(2))
    BY <1>2
  <2>2. n = 1
    BY <2>1, ScriptFacts
  <2> QED
    BY <1>2, <2>2, ScriptFacts DEF Tables
<1> QED
  BY <1>1, <1>2

-----------------------------------------------------------------------------
\* Phases belong to one backend, and every phase of a start to a version of the
\* release whose predecessors are recorded.
Place(p) ==
    /\ pc[p] \in {"read", "script", "record", "refused"} => backend = "sqlite"
    /\ pc[p] \in {"table", "check", "apply", "emit"} => backend = "postgres"
    /\ pc[p] \in {"script", "record", "check", "apply", "emit"} =>
          /\ version[p] \in Versions /\ version[p] <= Known[p]
          /\ version[p] = 2 => 1 \in versions

\* How far the scripts have come.
Progress(p) ==
    /\ pc[p] = "script" =>
          /\ statement[p] \in 1..Len(Script(version[p]))
          /\ version[p] = 1 => \A k \in 1..5 : k < statement[p] => schema[Script(1)[k]] # 0
    /\ pc[p] = "record" =>
          /\ version[p] = 1 => \A t \in Tables : schema[t] # 0
          /\ version[p] = 2 => schema["facts"] = 2
    /\ pc[p] = "emit" => version[p] \in versions

\* An event that is still to be sent has not been.
Unheard ==
    /\ \A v \in Versions : heard[v] <= 1 /\ (heard[v] # 0 => v \in versions)
    /\ \A p \in Processes : pc[p] = "emit" => heard[version[p]] = 0
    /\ \A p, q \in Processes :
          pc[p] = "emit" /\ pc[q] = "emit" /\ version[p] = version[q] => p = q

IInv ==
    /\ TypeOK
    /\ VersionsTruthful
    /\ UpMeansCurrent
    /\ \A p \in Processes : Place(p) /\ Progress(p)
    /\ Unheard

LEMMA InitIInv == Init => IInv
  BY MigrationAssumption DEF Init, IInv, TypeOK, VersionsTruthful, UpMeansCurrent, Place, Progress,
     Unheard, Versions, Tables, Phase

-----------------------------------------------------------------------------
\* What every step does to the schema and to the version table.
Grows ==
    /\ schema' \in [Tables -> 0..2]
    /\ \A t \in Tables : schema[t] <= schema'[t]
    /\ versions \subseteq versions' /\ versions' \subseteq Versions

LEMMA CreateGrows ==
    ASSUME TypeOK, NEW t \in Tables, CreateTable(t)
    PROVE  /\ schema' \in [Tables -> 0..2]
           /\ \A u \in Tables : schema[u] <= schema'[u]
           /\ schema'[t] # 0
  BY DEF TypeOK, CreateTable

LEMMA RebuildGrows ==
    ASSUME TypeOK, RebuildFacts
    PROVE  /\ schema' \in [Tables -> 0..2]
           /\ \A u \in Tables : schema[u] <= schema'[u]
           /\ schema'["facts"] = 2
  BY DEF TypeOK, RebuildFacts, Tables

LEMMA CommitGrows ==
    ASSUME IInv, NEW p \in Processes, pc[p] = "apply", Commit(p)
    PROVE  /\ Grows
           /\ version[p] \in versions'
           /\ version[p] = 1 => \A t \in Tables : schema'[t] # 0
           /\ version[p] = 2 => schema'["facts"] = 2
<1>1. version[p] \in Versions /\ version[p] \in {1, 2}
  BY DEF IInv, Place, Versions
<1>2. CASE version[p] = 1
  BY <1>1, <1>2 DEF IInv, TypeOK, Commit, Grows
<1>3. CASE version[p] = 2
  BY <1>1, <1>3 DEF IInv, TypeOK, Commit, Grows, Tables
<1> QED
  BY <1>1, <1>2, <1>3

\* A process that does not move keeps its place while the database grows.
LEMMA OthersKeep ==
    ASSUME IInv, Grows, backend' = backend, NEW q \in Processes,
           pc'[q] = pc[q], version'[q] = version[q], statement'[q] = statement[q]
    PROVE  Place(q)' /\ Progress(q)'
<1>1. Place(q) /\ Progress(q) /\ TypeOK
  BY DEF IInv
<1>2. Place(q)'
  BY <1>1 DEF Place, Grows
<1>3. \A t \in Tables : schema[t] # 0 => schema'[t] # 0
  BY <1>1 DEF TypeOK, Grows
<1>4. schema["facts"] = 2 => schema'["facts"] = 2
  BY <1>1 DEF TypeOK, Grows, Tables
<1>5. pc[q] = "script" => \A k \in 1..5 : Script(1)[k] \in Tables
  BY ScriptFacts
<1>6. Progress(q)'
  BY <1>1, <1>3, <1>4, <1>5 DEF Progress, Grows
<1> QED
  BY <1>2, <1>6

\* The version table stays truthful when nothing is recorded.
LEMMA TruthKept ==
    ASSUME IInv, Grows, versions' = versions
    PROVE  VersionsTruthful'
<1>1. \A t \in Tables : schema[t] # 0 => schema'[t] # 0
  BY DEF IInv, TypeOK, Grows
<1>2. schema["facts"] = 2 => schema'["facts"] = 2
  BY DEF IInv, TypeOK, Grows, Tables
<1> QED
  BY <1>1, <1>2 DEF IInv, VersionsTruthful

\* Nothing that only moves a process other than to emit disturbs the events.
LEMMA UnheardKept ==
    ASSUME IInv, Grows, heard' = heard, NEW p \in Processes,
           \A q \in Processes \ {p} : pc'[q] = pc[q] /\ version'[q] = version[q],
           pc'[p] # "emit"
    PROVE  Unheard'
<1> QED
  BY DEF IInv, Unheard, Grows

-----------------------------------------------------------------------------
(* One step per action *)

\* Where a process comes up, is down or is refused, nothing has to be shown of it.
LEMMA StartStep ==
    ASSUME IInv, NEW p \in Processes, Start(p)
    PROVE  IInv'
<1>0. Grows /\ pc'[p] \in {"read", "table"}
  BY DEF IInv, TypeOK, Start, To, Grows
<1>1. TypeOK'
  BY DEF IInv, TypeOK, Start, To, Phase
<1>2. VersionsTruthful'
  BY <1>0, TruthKept DEF Start
<1>3. UpMeansCurrent'
  BY <1>0 DEF IInv, TypeOK, UpMeansCurrent, Start, To
<1>4. Place(p)' /\ Progress(p)'
  BY <1>0 DEF IInv, TypeOK, Start, To, Place, Progress
<1>5. \A q \in Processes \ {p} : Place(q)' /\ Progress(q)'
  BY <1>0, OthersKeep DEF IInv, TypeOK, Start, To
<1>6. Unheard'
  BY <1>0, UnheardKept DEF IInv, TypeOK, Start, To
<1> QED
  BY <1>1, <1>2, <1>3, <1>4, <1>5, <1>6 DEF IInv

LEMMA ReadVersionStep ==
    ASSUME IInv, NEW p \in Processes, ReadVersion(p)
    PROVE  IInv'
<1>0. Grows /\ pc'[p] \in {"refused", "up", "script"}
  BY DEF IInv, TypeOK, ReadVersion, ToScript, To, Grows
<1>00. Known[p] \in {1, 2} /\ backend = "sqlite" /\ Current \in 0..2
  BY MigrationAssumption DEF IInv, Place, ReadVersion, Versions, Current
<1>1. TypeOK'
  BY <1>00 DEF IInv, TypeOK, ReadVersion, ToScript, To, Phase
<1>2. VersionsTruthful'
  BY <1>0, TruthKept DEF ReadVersion
<1>3. pc'[p] = "up" => 1..Known[p] \subseteq versions
  <2>1. pc'[p] = "up" => Current = Known[p]
    BY DEF IInv, TypeOK, ReadVersion, ToScript, To
  <2>2. Known[p] = 2 /\ Current = 2 => 1 \in versions /\ 2 \in versions
    BY DEF IInv, VersionsTruthful, Current
  <2>3. Known[p] = 1 /\ Current = 1 => 1 \in versions
    BY DEF IInv, VersionsTruthful, Current
  <2> QED
    BY <1>00, <2>1, <2>2, <2>3
<1>4. UpMeansCurrent'
  BY <1>3 DEF IInv, TypeOK, UpMeansCurrent, ReadVersion, ToScript, To
<1>5. pc'[p] = "script" => /\ version'[p] \in Versions /\ version'[p] <= Known[p]
                           /\ statement'[p] = 1
                           /\ version'[p] = 2 => 1 \in versions
  <2>1. pc'[p] = "script" => /\ Current < Known[p]
                             /\ version'[p] = Current + 1 /\ statement'[p] = 1
    BY DEF IInv, TypeOK, ReadVersion, ToScript, To
  <2>2. Current = 1 => 1 \in versions
    BY DEF Current
  <2> QED
    BY <1>00, <2>1, <2>2 DEF Versions
<1>6. Place(p)'
  BY <1>0, <1>00, <1>5 DEF ReadVersion, Place
<1>7. Progress(p)'
  BY <1>0, <1>5, ScriptFacts DEF Progress, Versions
<1>8. \A q \in Processes \ {p} : Place(q)' /\ Progress(q)'
  BY <1>0, OthersKeep DEF IInv, TypeOK, ReadVersion, ToScript, To
<1>9. Unheard'
  BY <1>0, UnheardKept DEF IInv, TypeOK, ReadVersion, ToScript, To
<1> QED
  BY <1>1, <1>2, <1>4, <1>6, <1>7, <1>8, <1>9 DEF IInv

LEMMA RunStatementStep ==
    ASSUME IInv, NEW p \in Processes, RunStatement(p)
    PROVE  IInv'
<1> DEFINE v == version[p]
           t == Script(v)[statement[p]]
<1>0. /\ TypeOK /\ pc[p] = "script" /\ Place(p) /\ Progress(p)
      /\ v \in {1, 2} /\ statement[p] \in 1..Len(Script(v)) /\ backend = "sqlite"
  BY DEF IInv, RunStatement, Place, Progress, Versions
<1>t. t \in Tables /\ (v = 2 => t = "facts" /\ statement[p] = 1) /\ statement[p] \in 1..5
  BY <1>0, StatementFacts
<1>1. CASE StatementRaises(v, t)
  <2>1. /\ GiveUp(p) /\ UNCHANGED <<schema, facts>>
        /\ UNCHANGED <<backend, versions, heard, deaths>>
    BY <1>1 DEF RunStatement
  <2>2. Grows /\ TypeOK' /\ pc'[p] = "down"
    BY <1>0, <2>1 DEF TypeOK, GiveUp, To, Grows, Phase
  <2>3. \A q \in Processes \ {p} :
            pc'[q] = pc[q] /\ version'[q] = version[q] /\ statement'[q] = statement[q]
    BY <1>0, <2>1 DEF TypeOK, GiveUp, To
  <2>4. VersionsTruthful'
    BY <2>1, <2>2, TruthKept
  <2>5. UpMeansCurrent'
    BY <2>1, <2>2, <2>3 DEF IInv, UpMeansCurrent
  <2>6. Place(p)' /\ Progress(p)'
    BY <2>2 DEF Place, Progress
  <2>7. \A q \in Processes \ {p} : Place(q)' /\ Progress(q)'
    BY <2>1, <2>2, <2>3, OthersKeep
  <2>8. Unheard'
    BY <2>1, <2>2, <2>3, UnheardKept
  <2> QED
    BY <2>2, <2>4, <2>5, <2>6, <2>7, <2>8 DEF IInv
<1>2. CASE ~StatementRaises(v, t)
  <2>1. /\ Execute(v, t)
        /\ UNCHANGED <<backend, versions, heard, deaths>>
        /\ IF ScriptEnds(p)
           THEN To(p, "record") /\ UNCHANGED <<version, statement>>
           ELSE /\ statement' = [statement EXCEPT ![p] = @ + 1]
                /\ UNCHANGED <<pc, version>>
    BY <1>2 DEF RunStatement
  <2>2. /\ Grows /\ facts' = facts
        /\ v = 1 => schema'[t] # 0
        /\ v = 2 => schema'["facts"] = 2
    <3>1. CASE v = 1
      BY <1>0, <1>t, <2>1, <3>1, CreateGrows DEF Execute, Grows, TypeOK
    <3>2. CASE v = 2
      BY <1>0, <1>t, <2>1, <3>2, RebuildGrows DEF Execute, RebuildFacts, Grows, TypeOK
    <3> QED
      BY <1>0, <3>1, <3>2
  <2>3. /\ \A q \in Processes \ {p} :
              pc'[q] = pc[q] /\ version'[q] = version[q] /\ statement'[q] = statement[q]
        /\ pc'[p] \in {"script", "record"} /\ version'[p] = v
        /\ pc'[p] = "record" <=> ScriptEnds(p)
        /\ pc'[p] = "script" => statement'[p] = statement[p] + 1
    BY <1>0, <2>1 DEF TypeOK, To
  <2>4. pc'[p] = "script" => statement[p] + 1 \in 1..Len(Script(v))
    BY <1>0, <2>3, ScriptFacts DEF ScriptEnds
  <2>5. TypeOK'
    <3>1. statement' \in [Processes -> 0..5]
      <4>1. CASE ScriptEnds(p)
        BY <1>0, <2>1, <4>1 DEF TypeOK
      <4>2. CASE ~ScriptEnds(p)
        <5>1. pc'[p] = "script"
          BY <2>3, <4>2
        <5>2. Len(Script(v)) \in 1..5
          BY <1>0, StatementFacts
        <5>3. statement[p] + 1 \in 0..5
          <6> DEFINE n == Len(Script(v))
                     k == statement[p]
          <6>1. k + 1 \in 1..n
            BY <2>4, <5>1
          <6>2. n \in 1..5 /\ k \in 1..5
            BY <1>t, <5>2
          <6> HIDE DEF n, k
          <6>3. k + 1 \in 0..5
            BY <6>1, <6>2
          <6> QED
            BY <6>3 DEF k
        <5> QED
          BY <1>0, <2>1, <4>2, <5>3 DEF TypeOK
      <4> QED
        BY <4>1, <4>2
    <3>2. pc' \in [Processes -> Phase] /\ version' \in [Processes -> 0..2]
      BY <1>0, <2>1 DEF TypeOK, To, Phase
    <3> QED
      BY <1>0, <2>1, <2>2, <3>1, <3>2 DEF TypeOK, Grows
  <2>6. VersionsTruthful'
    BY <2>1, <2>2, TruthKept
  <2>7. UpMeansCurrent'
    BY <2>1, <2>3 DEF IInv, UpMeansCurrent
  <2>8. Place(p)'
    BY <1>0, <2>1, <2>3 DEF Place
  <2>9. v = 1 => \A k \in 1..5 : k <= statement[p] => schema'[Script(1)[k]] # 0
    <3>1. \A u \in Tables : schema[u] # 0 => schema'[u] # 0
      BY <1>0, <2>2 DEF Grows, TypeOK
    <3>2. v = 1 => \A k \in 1..5 : k < statement[p] => schema[Script(1)[k]] # 0
      BY <1>0 DEF Progress
    <3>3. \A k \in 1..5 : k <= statement[p] => k < statement[p] \/ k = statement[p]
      BY <1>t
    <3>4. v = 1 => schema'[Script(1)[statement[p]]] # 0
      BY <2>2
    <3> QED BY <3>1, <3>2, <3>3, <3>4, ScriptFacts
  <2>10. v = 1 /\ ScriptEnds(p) => \A u \in Tables : schema'[u] # 0
    <3>1. v = 1 /\ ScriptEnds(p) => statement[p] = 5
      BY ScriptFacts DEF ScriptEnds
    <3> QED
      BY <2>9, <3>1, ScriptFacts
  <2>11. Progress(p)'
    BY <1>0, <1>t, <2>2, <2>3, <2>4, <2>9, <2>10 DEF Progress
  <2>12. \A q \in Processes \ {p} : Place(q)' /\ Progress(q)'
    BY <2>1, <2>2, <2>3, OthersKeep
  <2>13. Unheard'
    BY <2>1, <2>2, <2>3, UnheardKept
  <2> QED
    BY <2>5, <2>6, <2>7, <2>8, <2>11, <2>12, <2>13 DEF IInv
<1> QED
  BY <1>1, <1>2

LEMMA RecordVersionStep ==
    ASSUME IInv, NEW p \in Processes, RecordVersion(p)
    PROVE  IInv'
<1> DEFINE v == version[p]
<1>0. /\ TypeOK /\ pc[p] = "record" /\ Place(p) /\ Progress(p)
      /\ v \in {1, 2} /\ v <= Known[p] /\ Known[p] \in {1, 2} /\ backend = "sqlite"
  BY MigrationAssumption DEF IInv, RecordVersion, Place, Versions
<1>1. CASE Taken(v)
  <2>1. GiveUp(p) /\ UNCHANGED <<versions, backend, schema, facts, heard, deaths>>
    BY <1>1 DEF RecordVersion
  <2>2. Grows /\ TypeOK' /\ pc'[p] = "down"
    BY <1>0, <2>1 DEF TypeOK, GiveUp, To, Grows, Phase
  <2>3. \A q \in Processes \ {p} :
            pc'[q] = pc[q] /\ version'[q] = version[q] /\ statement'[q] = statement[q]
    BY <1>0, <2>1 DEF TypeOK, GiveUp, To
  <2>4. VersionsTruthful'
    BY <2>1, <2>2, TruthKept
  <2>5. UpMeansCurrent'
    BY <2>1, <2>2, <2>3 DEF IInv, UpMeansCurrent
  <2>6. Place(p)' /\ Progress(p)'
    BY <2>2 DEF Place, Progress
  <2>7. \A q \in Processes \ {p} : Place(q)' /\ Progress(q)'
    BY <2>1, <2>2, <2>3, OthersKeep
  <2>8. Unheard'
    BY <2>1, <2>2, <2>3, UnheardKept
  <2> QED
    BY <2>2, <2>4, <2>5, <2>6, <2>7, <2>8 DEF IInv
<1>2. CASE ~Taken(v)
  <2>1. /\ versions' = versions \cup {v}
        /\ UNCHANGED <<backend, schema, facts, heard, deaths>>
        /\ \/ MorePending(p, v) /\ ToScript(p, v + 1)
           \/ ~MorePending(p, v) /\ To(p, "up") /\ UNCHANGED <<version, statement>>
    BY <1>2 DEF RecordVersion
  <2>2. Grows
    <3>1. v \in Versions
      BY <1>0 DEF Place
    <3>2. versions' \subseteq Versions /\ versions \subseteq versions'
      BY <1>0, <2>1, <3>1 DEF TypeOK
    <3>3. schema' = schema /\ schema \in [Tables -> 0..2]
      BY <1>0, <2>1 DEF TypeOK
    <3> QED
      BY <3>2, <3>3 DEF Grows
  <2>3. TypeOK'
    BY <1>0, <2>1, <2>2 DEF TypeOK, Grows, MorePending, ToScript, To, Phase
  <2>4. VersionsTruthful'
    BY <1>0, <2>1 DEF IInv, VersionsTruthful, Place, Progress
  <2>5. \A q \in Processes \ {p} :
            pc'[q] = pc[q] /\ version'[q] = version[q] /\ statement'[q] = statement[q]
    BY <1>0, <2>1 DEF TypeOK, ToScript, To
  <2>6. pc'[p] = "up" => 1..Known[p] \subseteq versions'
    BY <1>0, <2>1 DEF TypeOK, MorePending, ToScript, To, Place
  <2>7. UpMeansCurrent'
    BY <2>1, <2>5, <2>6 DEF IInv, UpMeansCurrent
  <2>8. /\ pc'[p] \in {"script", "up"}
        /\ pc'[p] = "script" => version'[p] = 2 /\ Known[p] = 2 /\ statement'[p] = 1 /\ v = 1
    BY <1>0, <2>1 DEF TypeOK, MorePending, ToScript, To
  <2>9. Place(p)'
    BY <1>0, <2>1, <2>8 DEF Place, Versions
  <2>10. Progress(p)'
    BY <2>8, ScriptFacts DEF Progress
  <2>11. \A q \in Processes \ {p} : Place(q)' /\ Progress(q)'
    BY <2>1, <2>2, <2>5, OthersKeep
  <2>12. Unheard'
    BY <2>1, <2>2, <2>5, <2>8, UnheardKept
  <2> QED
    BY <2>3, <2>4, <2>7, <2>9, <2>10, <2>11, <2>12 DEF IInv
<1> QED
  BY <1>1, <1>2

LEMMA EnsureTableStep ==
    ASSUME IInv, NEW p \in Processes, EnsureTable(p)
    PROVE  IInv'
<1>0. TypeOK /\ backend = "postgres" /\ Known[p] \in {1, 2}
  BY MigrationAssumption DEF IInv, EnsureTable, Place, Versions
<1>1. Grows
  <2>1. "versions" \in Tables
    BY DEF Tables
  <2> QED
    BY <1>0, <2>1, CreateGrows DEF EnsureTable, Grows, TypeOK
<1>2. TypeOK'
  BY <1>0, <1>1 DEF TypeOK, EnsureTable, To, Phase, Grows
<1>3. VersionsTruthful'
  BY <1>1, TruthKept DEF EnsureTable
<1>4. /\ \A q \in Processes \ {p} :
              pc'[q] = pc[q] /\ version'[q] = version[q] /\ statement'[q] = statement[q]
      /\ pc'[p] = "check" /\ version'[p] = 1
  BY <1>0 DEF TypeOK, EnsureTable, To
<1>5. UpMeansCurrent'
  BY <1>4 DEF IInv, UpMeansCurrent, EnsureTable
<1>6. Place(p)' /\ Progress(p)'
  BY <1>0, <1>4 DEF Place, Progress, EnsureTable, Versions
<1>7. \A q \in Processes \ {p} : Place(q)' /\ Progress(q)'
  BY <1>1, <1>4, OthersKeep DEF EnsureTable
<1>8. Unheard'
  BY <1>1, <1>4, UnheardKept DEF EnsureTable
<1> QED
  BY <1>2, <1>3, <1>5, <1>6, <1>7, <1>8 DEF IInv

\* The loop over the versions ends with all that the release knows.
LEMMA NextVersionFacts ==
    ASSUME TypeOK, NEW p \in Processes, NextVersion(p),
           version[p] \in {1, 2}, Known[p] \in {1, 2}, version[p] <= Known[p],
           version[p] = 2 => 1 \in versions, version[p] \in versions
    PROVE  /\ pc' \in [Processes -> Phase] /\ version' \in [Processes -> 0..2]
           /\ \A q \in Processes \ {p} : pc'[q] = pc[q] /\ version'[q] = version[q]
           /\ pc'[p] \in {"check", "up"}
           /\ pc'[p] = "check" => version'[p] = 2 /\ Known[p] = 2 /\ 1 \in versions
           /\ pc'[p] = "up" => 1..Known[p] \subseteq versions
<1>1. CASE MorePending(p, version[p])
  BY <1>1 DEF TypeOK, NextVersion, MorePending, To, Phase
<1>2. CASE ~MorePending(p, version[p])
  BY <1>2 DEF TypeOK, NextVersion, MorePending, To, Phase
<1> QED
  BY <1>1, <1>2

LEMMA CheckAppliedStep ==
    ASSUME IInv, NEW p \in Processes, CheckApplied(p)
    PROVE  IInv'
<1>0. /\ TypeOK /\ pc[p] = "check" /\ Place(p) /\ backend = "postgres"
      /\ version[p] \in {1, 2} /\ Known[p] \in {1, 2} /\ version[p] <= Known[p]
      /\ version[p] = 2 => 1 \in versions
      /\ UNCHANGED <<backend, schema, versions, facts, heard, statement, deaths>>
  BY MigrationAssumption DEF IInv, CheckApplied, Place, Versions
<1>1. Grows
  BY <1>0 DEF TypeOK, Grows
<1>2. /\ pc' \in [Processes -> Phase] /\ version' \in [Processes -> 0..2]
      /\ \A q \in Processes \ {p} : pc'[q] = pc[q] /\ version'[q] = version[q]
      /\ pc'[p] \in {"check", "up", "apply"}
      /\ pc'[p] \in {"check", "apply"} =>
            /\ version'[p] \in {1, 2} /\ version'[p] <= Known[p]
            /\ version'[p] = 2 => 1 \in versions
      /\ pc'[p] = "up" => 1..Known[p] \subseteq versions
  <2>1. CASE version[p] \in versions
    BY <1>0, <2>1, NextVersionFacts DEF CheckApplied
  <2>2. CASE version[p] \notin versions
    BY <1>0, <2>2 DEF CheckApplied, TypeOK, To, Phase
  <2> QED
    BY <2>1, <2>2
<1>3. TypeOK'
  BY <1>0, <1>2 DEF TypeOK
<1>4. VersionsTruthful'
  BY <1>0, <1>1, TruthKept
<1>5. UpMeansCurrent'
  BY <1>0, <1>2 DEF IInv, UpMeansCurrent
<1>6. Place(p)' /\ Progress(p)'
  BY <1>0, <1>2 DEF Place, Progress, Versions
<1>7. \A q \in Processes \ {p} : Place(q)' /\ Progress(q)'
  BY <1>0, <1>1, <1>2, OthersKeep
<1>8. Unheard'
  BY <1>0, <1>1, <1>2, UnheardKept
<1> QED
  BY <1>3, <1>4, <1>5, <1>6, <1>7, <1>8 DEF IInv

\* A commit leaves the version table truthful.
LEMMA CommitTruthful ==
    ASSUME IInv, NEW p \in Processes, pc[p] = "apply", Commit(p)
    PROVE  VersionsTruthful'
<1>1. /\ TypeOK /\ VersionsTruthful /\ version[p] \in {1, 2}
      /\ version[p] = 2 => 1 \in versions
      /\ versions' = versions \cup {version[p]}
  BY DEF IInv, Place, Versions, Commit
<1>2. /\ Grows
      /\ version[p] = 1 => \A t \in Tables : schema'[t] # 0
      /\ version[p] = 2 => schema'["facts"] = 2
  BY CommitGrows
<1>3. \A t \in Tables : schema[t] # 0 => schema'[t] # 0
  BY <1>1, <1>2 DEF TypeOK, Grows
<1>4. schema["facts"] = 2 => schema'["facts"] = 2
  BY <1>1, <1>2 DEF TypeOK, Grows, Tables
<1> QED
  BY <1>1, <1>2, <1>3, <1>4 DEF VersionsTruthful

LEMMA ApplyStep ==
    ASSUME IInv, NEW p \in Processes, Apply(p)
    PROVE  IInv'
<1>0. TypeOK /\ pc[p] = "apply" /\ Place(p) /\ version[p] \in {1, 2}
  BY DEF IInv, Apply, Place, Versions
<1>1. CASE Taken(version[p]) /\ GiveUp(p) /\ UNCHANGED <<schema, versions, facts>>
  <2>1. GiveUp(p) /\ UNCHANGED <<versions, backend, schema, facts, heard, deaths>>
    BY <1>1 DEF Apply
  <2>2. Grows /\ TypeOK' /\ pc'[p] = "down"
    BY <1>0, <2>1 DEF TypeOK, GiveUp, To, Grows, Phase
  <2>3. \A q \in Processes \ {p} :
            pc'[q] = pc[q] /\ version'[q] = version[q] /\ statement'[q] = statement[q]
    BY <1>0, <2>1 DEF TypeOK, GiveUp, To
  <2>4. VersionsTruthful'
    BY <2>1, <2>2, TruthKept
  <2>5. UpMeansCurrent'
    BY <2>1, <2>2, <2>3 DEF IInv, UpMeansCurrent
  <2>6. Place(p)' /\ Progress(p)'
    BY <2>2 DEF Place, Progress
  <2>7. \A q \in Processes \ {p} : Place(q)' /\ Progress(q)'
    BY <2>1, <2>2, <2>3, OthersKeep
  <2>8. Unheard'
    BY <2>1, <2>2, <2>3, UnheardKept
  <2> QED
    BY <2>2, <2>4, <2>5, <2>6, <2>7, <2>8 DEF IInv
<1>2. CASE Commit(p) /\ To(p, "emit") /\ UNCHANGED <<version, statement>>
  <2>1. /\ UNCHANGED <<backend, heard, deaths, version, statement>>
        /\ version[p] \notin versions /\ version[p] \in versions'
        /\ facts' = facts
    BY <1>2 DEF Apply, Commit, Taken
  <2>2. Grows
    BY <1>0, <1>2, CommitGrows
  <2>3. TypeOK'
    BY <1>0, <1>2, <2>1, <2>2 DEF TypeOK, Grows, To, Phase
  <2>4. VersionsTruthful'
    BY <1>0, <1>2, CommitTruthful
  <2>5. pc'[p] = "emit" /\ \A q \in Processes \ {p} : pc'[q] = pc[q]
    BY <1>0, <1>2 DEF TypeOK, To
  <2>6. UpMeansCurrent'
    BY <2>2, <2>5 DEF IInv, UpMeansCurrent, Grows
  <2>7. Place(p)' /\ Progress(p)'
    BY <1>0, <2>1, <2>2, <2>5 DEF Place, Progress, Grows
  <2>8. \A q \in Processes \ {p} : Place(q)' /\ Progress(q)'
    BY <2>1, <2>2, <2>5, OthersKeep
  <2>9. Unheard'
    <3>1. \A q \in Processes : pc[q] = "emit" => version[q] # version[p]
      BY <2>1 DEF IInv, Progress
    <3>2. heard[version[p]] = 0
      BY <1>0, <2>1 DEF IInv, Unheard, Versions, TypeOK
    <3> QED
      BY <2>1, <2>2, <2>5, <3>1, <3>2 DEF IInv, Unheard, Grows
  <2> QED
    BY <2>3, <2>4, <2>6, <2>7, <2>8, <2>9 DEF IInv
<1> QED
  BY <1>1, <1>2 DEF Apply

LEMMA EmitMigratedStep ==
    ASSUME IInv, NEW p \in Processes, EmitMigrated(p)
    PROVE  IInv'
<1>0. /\ TypeOK /\ pc[p] = "emit" /\ Place(p) /\ backend = "postgres"
      /\ version[p] \in {1, 2} /\ Known[p] \in {1, 2} /\ version[p] <= Known[p]
      /\ (version[p] = 2 => 1 \in versions) /\ version[p] \in versions
      /\ UNCHANGED <<backend, schema, versions, facts, statement, deaths>>
      /\ heard' = [heard EXCEPT ![version[p]] = @ + 1] /\ NextVersion(p)
  BY MigrationAssumption DEF IInv, EmitMigrated, Place, Progress, Versions
<1>1. Grows
  BY <1>0 DEF TypeOK, Grows
<1>2. /\ pc' \in [Processes -> Phase] /\ version' \in [Processes -> 0..2]
      /\ \A q \in Processes \ {p} : pc'[q] = pc[q] /\ version'[q] = version[q]
      /\ pc'[p] \in {"check", "up"}
      /\ pc'[p] = "check" => version'[p] = 2 /\ Known[p] = 2 /\ 1 \in versions
      /\ pc'[p] = "up" => 1..Known[p] \subseteq versions
  BY <1>0, NextVersionFacts
<1>3. TypeOK'
  BY <1>0, <1>2 DEF TypeOK, Versions
<1>4. VersionsTruthful'
  BY <1>0, <1>1, TruthKept
<1>5. UpMeansCurrent'
  BY <1>0, <1>2 DEF IInv, UpMeansCurrent
<1>6. Place(p)' /\ Progress(p)'
  BY <1>0, <1>2 DEF Place, Progress, Versions
<1>7. \A q \in Processes \ {p} : Place(q)' /\ Progress(q)'
  BY <1>0, <1>1, <1>2, OthersKeep
<1>8. Unheard'
  <2>1. heard[version[p]] = 0 /\ heard \in [Versions -> Nat] /\ version[p] \in Versions
    BY <1>0 DEF IInv, Unheard, TypeOK, Versions
  <2>2. /\ heard'[version[p]] = 1
        /\ \A v \in Versions : v # version[p] => heard'[v] = heard[v]
    BY <1>0, <2>1
  <2>3. \A q \in Processes \ {p} : pc[q] = "emit" =>
            version[q] # version[p] /\ version[q] \in Versions
    BY <1>0 DEF IInv, Unheard, Place
  <2>4. \A v \in Versions : heard'[v] <= 1 /\ (heard'[v] # 0 => v \in versions')
    BY <1>0, <2>1, <2>2 DEF IInv, Unheard
  <2>5. \A q \in Processes : pc'[q] = "emit" => q # p /\ pc[q] = "emit" /\ version'[q] = version[q]
    BY <1>2
  <2>6. \A q \in Processes : pc'[q] = "emit" => heard'[version'[q]] = 0
    BY <2>2, <2>3, <2>5 DEF IInv, Unheard
  <2> QED
    BY <2>4, <2>5, <2>6 DEF IInv, Unheard
<1> QED
  BY <1>3, <1>4, <1>5, <1>6, <1>7, <1>8 DEF IInv

LEMMA SaveFactStep ==
    ASSUME IInv, NEW p \in Processes, NEW f \in Facts, SaveFact(p, f)
    PROVE  IInv'
  BY DEF IInv, SaveFact, TypeOK, VersionsTruthful, UpMeansCurrent, Place, Progress, Unheard,
     process

LEMMA DiesStep ==
    ASSUME IInv, NEW p \in Processes, Dies(p)
    PROVE  IInv'
<1>0. TypeOK /\ GiveUp(p) /\ UNCHANGED <<backend, heard>> /\ deaths' \in 0..MaxDeaths
  BY MigrationAssumption DEF IInv, TypeOK, Dies
<1>1. Grows /\ VersionsTruthful' /\ facts' = facts
  <2>1. CASE UNCHANGED <<schema, versions, facts>>
    <3>1. Grows
      BY <1>0, <2>1 DEF TypeOK, Grows
    <3> QED
      BY <2>1, <3>1, TruthKept
  <2>2. CASE pc[p] = "apply" /\ Commit(p)
    BY <2>2, CommitGrows, CommitTruthful DEF Commit
  <2> QED
    BY <2>1, <2>2 DEF Dies
<1>2. /\ pc'[p] = "down"
      /\ \A q \in Processes \ {p} :
            pc'[q] = pc[q] /\ version'[q] = version[q] /\ statement'[q] = statement[q]
  BY <1>0 DEF TypeOK, GiveUp, To
<1>3. TypeOK'
  BY <1>0, <1>1 DEF TypeOK, Grows, GiveUp, To, Phase
<1>4. UpMeansCurrent'
  BY <1>1, <1>2 DEF IInv, UpMeansCurrent, Grows
<1>5. Place(p)' /\ Progress(p)'
  BY <1>2 DEF Place, Progress
<1>6. \A q \in Processes \ {p} : Place(q)' /\ Progress(q)'
  BY <1>0, <1>1, <1>2, OthersKeep
<1>7. Unheard'
  BY <1>0, <1>1, <1>2, UnheardKept
<1> QED
  BY <1>1, <1>3, <1>4, <1>5, <1>6, <1>7 DEF IInv

-----------------------------------------------------------------------------
(* The theorems *)

\* IInv is inductive.
THEOREM MigrationInvariant == Spec => []IInv
<1>1. ASSUME IInv, [Next]_vars PROVE IInv'
  <2>1. CASE UNCHANGED vars
    BY <1>1, <2>1 DEF vars, process, IInv, TypeOK, VersionsTruthful, UpMeansCurrent, Place,
       Progress, Unheard
  <2>2. ASSUME NEW p \in Processes, Start(p) \/ Step(p) \/ Dies(p) PROVE IInv'
    BY <1>1, <2>2, StartStep, ReadVersionStep, RunStatementStep, RecordVersionStep,
       EnsureTableStep, CheckAppliedStep, ApplyStep, EmitMigratedStep, DiesStep DEF Step
  <2>3. ASSUME NEW p \in Processes, NEW f \in Facts, SaveFact(p, f) PROVE IInv'
    BY <1>1, <2>3, SaveFactStep
  <2> QED
    BY <1>1, <2>1, <2>2, <2>3 DEF Next
<1> QED
  BY <1>1, InitIInv, PTL DEF Spec

\* Every variable keeps its type, for any processes and releases.
THEOREM MigrationTypeCorrect == Spec => []TypeOK
<1>1. IInv => TypeOK
  BY DEF IInv
<1> QED
  BY <1>1, MigrationInvariant, PTL

\* The version table claims only what was done.
THEOREM VersionsAreTruthful == Spec => []VersionsTruthful
<1>1. IInv => VersionsTruthful
  BY DEF IInv
<1> QED
  BY <1>1, MigrationInvariant, PTL

\* A process that came up has all the versions its release knows.
THEOREM UpIsCurrent == Spec => []UpMeansCurrent
<1>1. IInv => UpMeansCurrent
  BY DEF IInv
<1> QED
  BY <1>1, MigrationInvariant, PTL

\* Observers hear of a version at most once, and only of one that is applied.
THEOREM HeardAtMostOnce == Spec => []HeardOnce
<1>1. IInv => HeardOnce
  BY DEF IInv, Unheard, HeardOnce
<1> QED
  BY <1>1, MigrationInvariant, PTL

\* No step loses a fact or takes a table back to an earlier form.
THEOREM SchemaAdvances == Spec => SchemaOnlyAdvances
<1> DEFINE A == facts \subseteq facts' /\ \A t \in Tables : schema[t] <= schema'[t]
<1>1. ASSUME IInv, [Next]_vars PROVE A \/ UNCHANGED vars
  <2>1. ASSUME NEW p \in Processes, RunStatement(p) PROVE A
    <3> DEFINE v == version[p]
               t == Script(v)[statement[p]]
    <3>1. TypeOK /\ v \in {1, 2} /\ t \in Tables
      <4>1. v \in {1, 2} /\ statement[p] \in 1..Len(Script(v))
        BY <1>1, <2>1 DEF IInv, RunStatement, Place, Progress, Versions
      <4> QED
        BY <1>1, <4>1, StatementFacts DEF IInv
    <3>2. \/ UNCHANGED <<schema, facts>>
          \/ v = 1 /\ CreateTable(t) /\ facts' = facts
          \/ RebuildFacts
      BY <2>1 DEF RunStatement, Execute
    <3>3. CASE UNCHANGED <<schema, facts>>
      BY <3>1, <3>3 DEF TypeOK
    <3>4. CASE CreateTable(t) /\ facts' = facts
      BY <3>1, <3>4, CreateGrows
    <3>5. CASE RebuildFacts
      BY <3>1, <3>5, RebuildGrows DEF RebuildFacts
    <3> QED
      BY <3>2, <3>3, <3>4, <3>5
  <2>2. ASSUME NEW p \in Processes, EnsureTable(p) PROVE A
    <3>1. "versions" \in Tables
      BY DEF Tables
    <3> QED
      BY <1>1, <2>2, <3>1, CreateGrows DEF IInv, EnsureTable
  <2>3. ASSUME NEW p \in Processes, pc[p] = "apply", Commit(p) PROVE A
    BY <1>1, <2>3, CommitGrows DEF Commit, Grows
  <2>4. ASSUME UNCHANGED <<schema, facts>> PROVE A
    BY <1>1, <2>4 DEF IInv, TypeOK
  <2>5. ASSUME NEW p \in Processes, Start(p) \/ Step(p) \/ Dies(p) PROVE A
    <3>1. CASE Start(p) \/ ReadVersion(p) \/ RecordVersion(p) \/ CheckApplied(p)
               \/ EmitMigrated(p)
      BY <2>4, <3>1 DEF Start, ReadVersion, RecordVersion, CheckApplied, EmitMigrated
    <3>2. CASE Apply(p) \/ Dies(p)
      BY <2>3, <2>4, <3>2 DEF Apply, Dies
    <3> QED
      BY <2>1, <2>2, <2>5, <3>1, <3>2 DEF Step
  <2>6. ASSUME NEW p \in Processes, NEW f \in Facts, SaveFact(p, f) PROVE A
    BY <1>1, <2>6 DEF IInv, TypeOK, SaveFact
  <2> QED
    BY <1>1, <2>5, <2>6 DEF Next
<1> QED
  BY <1>1, MigrationInvariant, PTL DEF Spec, SchemaOnlyAdvances

-----------------------------------------------------------------------------
(* How far a start has come *)

\* Another process recorded the version p is at: p will raise and start again.
Doomed(p) == version[p] \in versions

Stage(p) ==
    CASE pc[p] = "down" -> 8
      [] pc[p] \in {"read", "table"} -> 9
      [] pc[p] = "script" -> IF Doomed(p) THEN statement[p] ELSE 10 + statement[p]
      [] pc[p] = "record" -> IF Doomed(p) THEN 6 ELSE 16
      [] pc[p] = "check" -> 7 + 3 * version[p]
      [] pc[p] = "apply" -> IF Doomed(p) THEN 6 ELSE 8 + 3 * version[p]
      [] pc[p] = "emit" -> 9 + 3 * version[p]
      [] pc[p] \in {"up", "refused"} -> 20

\* A start that raises goes back, but only after a version was recorded.
Way(p) == 30 * Current + Stage(p)

LEMMA StageIsNat ==
    ASSUME TypeOK, NEW p \in Processes
    PROVE  Stage(p) \in 0..20
<1>1. pc[p] \in Phase /\ version[p] \in 0..2 /\ statement[p] \in 0..5
  BY DEF TypeOK
<1> QED BY <1>1 DEF Stage, Phase

LEMMA NextStageIsNat ==
    ASSUME TypeOK', NEW p \in Processes
    PROVE  Stage(p)' \in 0..20
<1>1. pc'[p] \in Phase /\ version'[p] \in 0..2 /\ statement'[p] \in 0..5
  BY DEF TypeOK
<1> QED BY <1>1 DEF Stage, Phase

LEMMA CurrentIsNat == Current \in 0..2
BY DEF Current

\* What a step does to the versions: nothing, or it records the next one.
LEMMA RecordedNext ==
    ASSUME IInv, NEW v \in {1, 2}, v \notin versions, v = 2 => 1 \in versions,
           versions' = versions \cup {v}
    PROVE  Current' = Current + 1
<1>1. VersionsTruthful
  BY DEF IInv
<1> QED BY <1>1 DEF VersionsTruthful, Current

LEMMA CommitCounts ==
    ASSUME IInv, NEW q \in Processes, pc[q] = "apply", Commit(q)
    PROVE  Current' = Current + 1
<1>1. version[q] \in {1, 2} /\ (version[q] = 2 => 1 \in versions)
  BY DEF IInv, Place, Versions
<1> QED BY <1>1, RecordedNext DEF Commit, Taken

LEMMA StepCounts ==
    ASSUME IInv, NEW q \in Processes, Start(q) \/ Step(q) \/ Dies(q)
    PROVE  versions' = versions \/ Current' = Current + 1
<1>1. CASE UNCHANGED versions
  BY <1>1
<1>2. CASE RecordVersion(q)
  <2>1. version[q] \in {1, 2} /\ (version[q] = 2 => 1 \in versions)
    BY <1>2 DEF IInv, Place, Versions, RecordVersion
  <2> QED BY <1>2, <2>1, RecordedNext DEF RecordVersion, Taken
<1>3. CASE Apply(q) \/ Dies(q)
  BY <1>1, <1>3, CommitCounts DEF Apply, Dies
<1>4. CASE Start(q) \/ ReadVersion(q) \/ RunStatement(q) \/ EnsureTable(q)
           \/ CheckApplied(q) \/ EmitMigrated(q)
  BY <1>4 DEF Start, ReadVersion, RunStatement, EnsureTable, CheckApplied, EmitMigrated
<1> QED BY <1>2, <1>3, <1>4 DEF Step

\* Whoever does not move is not thrown back but by a version that is recorded.
LEMMA OthersWay ==
    ASSUME IInv, TypeOK', NEW p \in Processes,
           pc'[p] = pc[p], version'[p] = version[p], statement'[p] = statement[p],
           versions' = versions \/ Current' = Current + 1
    PROVE  Way(p)' >= Way(p)
<1>1. Current \in 0..2 /\ Stage(p) \in 0..20 /\ Stage(p)' \in 0..20
  BY StageIsNat, NextStageIsNat, CurrentIsNat DEF IInv
<1>2. CASE versions' = versions
  <2>1. Current' = Current /\ Stage(p)' = Stage(p)
    BY <1>2 DEF Current, Stage, Doomed
  <2> QED BY <1>1, <2>1 DEF Way
<1>3. CASE Current' = Current + 1
  BY <1>1, <1>3 DEF Way
<1> QED BY <1>2, <1>3

\* A version is recorded by its own process.
LEMMA OwnRecord ==
    ASSUME IInv, TypeOK', NEW p \in Processes, Current' = Current + 1
    PROVE  Way(p)' > Way(p)
<1>1. Current \in 0..2 /\ Stage(p) \in 0..20 /\ Stage(p)' \in 0..20
  BY StageIsNat, NextStageIsNat, CurrentIsNat DEF IInv
<1> QED BY <1>1 DEF Way

LEMMA OwnStage ==
    ASSUME IInv, TypeOK', NEW p \in Processes, versions' = versions, Stage(p)' > Stage(p)
    PROVE  Way(p)' > Way(p)
<1>1. Current \in 0..2 /\ Stage(p) \in 0..20 /\ Stage(p)' \in 0..20
  BY StageIsNat, NextStageIsNat, CurrentIsNat DEF IInv
<1>2. Current' = Current
  BY DEF Current
<1> QED BY <1>1, <1>2 DEF Way

\* The statements of SQLite's runner.
LEMMA SqliteWay ==
    ASSUME IInv, TypeOK', NEW p \in Processes,
           ReadVersion(p) \/ RunStatement(p) \/ RecordVersion(p)
    PROVE  Way(p)' > Way(p)
<1>0. /\ pc \in [Processes -> Phase] /\ version \in [Processes -> 0..2]
      /\ statement \in [Processes -> 0..5] /\ versions \subseteq Versions
      /\ Known[p] \in {1, 2} /\ VersionsTruthful /\ Place(p) /\ Progress(p)
  BY MigrationAssumption DEF IInv, TypeOK, Versions
<1>1. CASE ReadVersion(p)
  <2>1. pc[p] = "read" /\ versions' = versions /\ Stage(p) = 9
    BY <1>1 DEF ReadVersion, Stage
  <2>2. CASE To(p, "refused") \/ To(p, "up")
    <3>1. pc'[p] \in {"refused", "up"}
      BY <1>0, <2>2 DEF To
    <3>2. Stage(p)' = 20
      BY <3>1 DEF Stage
    <3> QED BY <2>1, <3>2, OwnStage
  <2>3. CASE ToScript(p, Current + 1) /\ Current < Known[p]
    <3>1. pc'[p] = "script" /\ version'[p] = Current + 1 /\ statement'[p] = 1
      BY <1>0, <2>3 DEF ToScript, To
    <3>2. Current + 1 \notin versions
      BY <1>0, <2>3 DEF Current, VersionsTruthful
    <3>3. Stage(p)' = 11
      BY <2>1, <3>1, <3>2 DEF Stage, Doomed
    <3> QED BY <2>1, <3>3, OwnStage
  <2> QED BY <1>1, <2>2, <2>3 DEF ReadVersion
<1>2. CASE RunStatement(p)
  <2> DEFINE v == version[p]
             t == Script(v)[statement[p]]
  <2>1. pc[p] = "script" /\ versions' = versions /\ ~StatementRaises(v, t)
    BY <1>0, <1>2 DEF RunStatement, StatementRaises, Place, VersionsTruthful, Tables
  <2>2. CASE ScriptEnds(p)
    <3>1. pc'[p] = "record" /\ version' = version
      BY <1>0, <1>2, <2>1, <2>2 DEF RunStatement, To
    <3>2. Stage(p) = IF Doomed(p) THEN statement[p] ELSE 10 + statement[p]
      BY <2>1 DEF Stage
    <3>3. Stage(p)' = IF Doomed(p) THEN 6 ELSE 16
      BY <2>1, <3>1 DEF Stage, Doomed
    <3>4. statement[p] \in 0..5
      BY <1>0
    <3> QED BY <2>1, <3>2, <3>3, <3>4, OwnStage
  <2>3. CASE ~ScriptEnds(p)
    <3>1. pc' = pc /\ version' = version /\ statement'[p] = statement[p] + 1
      BY <1>0, <1>2, <2>1, <2>3 DEF RunStatement
    <3>2. Stage(p) = IF Doomed(p) THEN statement[p] ELSE 10 + statement[p]
      BY <2>1 DEF Stage
    <3>3. Stage(p)' = IF Doomed(p) THEN statement[p] + 1 ELSE 10 + (statement[p] + 1)
      BY <2>1, <3>1 DEF Stage, Doomed
    <3>4. statement[p] \in 0..5
      BY <1>0
    <3> QED BY <2>1, <3>2, <3>3, <3>4, OwnStage
  <2> QED BY <2>2, <2>3
<1>3. CASE RecordVersion(p)
  <2>1. pc[p] = "record" /\ version[p] \in {1, 2} /\ (version[p] = 2 => 1 \in versions)
    BY <1>0, <1>3 DEF RecordVersion, Place, Versions
  <2>2. CASE Taken(version[p])
    <3>1. pc'[p] = "down" /\ versions' = versions
      BY <1>0, <1>3, <2>2 DEF RecordVersion, GiveUp, To
    <3>2. Stage(p) = 6 /\ Stage(p)' = 8
      BY <2>1, <2>2, <3>1 DEF Stage, Doomed, Taken
    <3> QED BY <3>1, <3>2, OwnStage
  <2>3. CASE ~Taken(version[p])
    <3>1. Current' = Current + 1
      BY <1>3, <2>1, <2>3, RecordedNext DEF RecordVersion, Taken
    <3> QED BY <3>1, OwnRecord
  <2> QED BY <2>2, <2>3
<1> QED BY <1>1, <1>2, <1>3

\* On to the next version: from the check of one that is applied, or from its emit.
LEMMA NextVersionWay ==
    ASSUME IInv, TypeOK', NEW p \in Processes, NextVersion(p), versions' = versions,
           pc[p] \in {"check", "emit"}
    PROVE  Way(p)' > Way(p)
<1>0. /\ pc \in [Processes -> Phase] /\ version \in [Processes -> 0..2]
      /\ Known[p] \in {1, 2} /\ version[p] \in {1, 2}
  BY MigrationAssumption DEF IInv, TypeOK, Versions, Place
<1>1. Stage(p) <= 9 + 3 * version[p] /\ Stage(p) \in Nat
  BY <1>0 DEF Stage
<1>2. CASE MorePending(p, version[p])
  <2>1. pc'[p] = "check" /\ version'[p] = version[p] + 1
    BY <1>0, <1>2 DEF NextVersion, To
  <2>2. Stage(p)' = 7 + 3 * (version[p] + 1)
    BY <2>1 DEF Stage
  <2> QED BY <1>0, <1>1, <2>2, OwnStage
<1>3. CASE ~MorePending(p, version[p])
  <2>1. pc'[p] = "up"
    BY <1>0, <1>3 DEF NextVersion, To
  <2>2. Stage(p)' = 20
    BY <2>1 DEF Stage
  <2> QED BY <1>0, <1>1, <2>2, OwnStage
<1> QED BY <1>2, <1>3

\* The statements of PostgreSQL's migrator.
LEMMA PostgresWay ==
    ASSUME IInv, TypeOK', NEW p \in Processes,
           EnsureTable(p) \/ CheckApplied(p) \/ Apply(p) \/ EmitMigrated(p)
    PROVE  Way(p)' > Way(p)
<1>0. pc \in [Processes -> Phase] /\ version \in [Processes -> 0..2] /\ Place(p)
  BY DEF IInv, TypeOK
<1>1. CASE EnsureTable(p)
  <2>1. pc[p] = "table" /\ pc'[p] = "check" /\ version'[p] = 1 /\ versions' = versions
    BY <1>0, <1>1 DEF EnsureTable, To
  <2>2. Stage(p) = 9 /\ Stage(p)' = 10
    BY <2>1 DEF Stage
  <2> QED BY <2>1, <2>2, OwnStage
<1>2. CASE CheckApplied(p)
  <2>1. pc[p] = "check" /\ versions' = versions
    BY <1>2 DEF CheckApplied
  <2>2. CASE version[p] \in versions
    BY <1>2, <2>1, <2>2, NextVersionWay DEF CheckApplied
  <2>3. CASE version[p] \notin versions
    <3>1. pc'[p] = "apply" /\ version' = version
      BY <1>0, <1>2, <2>3 DEF CheckApplied, To
    <3>2. Stage(p) = 7 + 3 * version[p] /\ Stage(p)' = 8 + 3 * version[p]
      BY <2>1, <2>3, <3>1 DEF Stage, Doomed
    <3>3. version[p] \in 0..2
      BY <1>0
    <3> QED BY <2>1, <3>2, <3>3, OwnStage
  <2> QED BY <2>2, <2>3
<1>3. CASE Apply(p)
  <2>1. CASE Taken(version[p]) /\ GiveUp(p) /\ versions' = versions
    <3>1. pc[p] = "apply" /\ pc'[p] = "down"
      BY <1>0, <1>3, <2>1 DEF Apply, GiveUp, To
    <3>2. Stage(p) = 6 /\ Stage(p)' = 8
      BY <2>1, <3>1 DEF Stage, Doomed, Taken
    <3> QED BY <2>1, <3>2, OwnStage
  <2>2. CASE Commit(p)
    BY <1>3, <2>2, CommitCounts, OwnRecord DEF Apply
  <2> QED BY <1>3, <2>1, <2>2 DEF Apply
<1>4. CASE EmitMigrated(p)
  BY <1>4, NextVersionWay DEF EmitMigrated
<1> QED BY <1>1, <1>2, <1>3, <1>4

\* Each step of a start takes it further, and nothing but its own death takes it
\* back.
StartsAdvance ==
    [][\A p \in Processes :
          /\ Start(p) \/ Step(p) => Way(p)' > Way(p)
          /\ Dies(p) \/ Way(p)' >= Way(p)]_vars

LEMMA OwnWay ==
    ASSUME IInv, TypeOK', NEW p \in Processes, Start(p) \/ Step(p)
    PROVE  Way(p)' > Way(p)
<1>1. CASE Start(p)
  <2>1. pc[p] = "down" /\ pc'[p] \in {"read", "table"} /\ versions' = versions
    BY <1>1 DEF IInv, TypeOK, Start, To
  <2>2. Stage(p) = 8 /\ Stage(p)' = 9
    BY <2>1 DEF Stage
  <2> QED BY <2>1, <2>2, OwnStage
<1> QED BY <1>1, SqliteWay, PostgresWay DEF Step

LEMMA StaysPut ==
    ASSUME TypeOK, NEW p \in Processes, NEW q \in Processes \ {p},
           Start(q) \/ Step(q) \/ Dies(q)
    PROVE  pc'[p] = pc[p] /\ version'[p] = version[p] /\ statement'[p] = statement[p]
<1>0. pc \in [Processes -> Phase] /\ version \in [Processes -> 0..2]
      /\ statement \in [Processes -> 0..5]
  BY DEF TypeOK
<1>1. CASE Start(q) \/ ReadVersion(q) \/ RunStatement(q) \/ RecordVersion(q)
  BY <1>0, <1>1 DEF Start, ReadVersion, RunStatement, RecordVersion, GiveUp, ToScript, To
<1>2. CASE EnsureTable(q) \/ CheckApplied(q) \/ Apply(q) \/ EmitMigrated(q) \/ Dies(q)
  BY <1>0, <1>2 DEF EnsureTable, CheckApplied, Apply, EmitMigrated, NextVersion, Dies, GiveUp, To
<1> QED BY <1>1, <1>2 DEF Step

\* However processes race for the versions, a start is over after at most 80 of its
\* steps, raised starts and those that follow them counted in, unless it dies: who
\* raises was overtaken by a version that is there for good.
THEOREM StartsGetOn == Spec => StartsAdvance
<1> DEFINE A == \A p \in Processes :
                  /\ Start(p) \/ Step(p) => Way(p)' > Way(p)
                  /\ Dies(p) \/ Way(p)' >= Way(p)
<1>1. IInv /\ TypeOK' /\ [Next]_vars => [A]_vars
  <2> SUFFICES ASSUME IInv, TypeOK', Next, NEW p \in Processes
               PROVE  /\ Start(p) \/ Step(p) => Way(p)' > Way(p)
                      /\ Dies(p) \/ Way(p)' >= Way(p)
    OBVIOUS
  <2>1. Way(p) \in Nat /\ Way(p)' \in Nat
    <3>1. Stage(p) \in 0..20 /\ Stage(p)' \in 0..20
      BY StageIsNat, NextStageIsNat DEF IInv
    <3>2. Current \in 0..2 /\ Current' \in 0..2
      BY DEF Current
    <3> QED BY <3>1, <3>2 DEF Way
  <2>2. Start(p) \/ Step(p) => Way(p)' > Way(p)
    BY OwnWay
  <2>3. ASSUME NEW q \in Processes \ {p}, Start(q) \/ Step(q) \/ Dies(q)
        PROVE  Way(p)' >= Way(p)
    BY <2>3, StaysPut, StepCounts, OthersWay DEF IInv
  <2>4. ASSUME NEW q \in Processes, NEW f \in Facts, SaveFact(q, f)
        PROVE  Way(p)' >= Way(p)
    BY <2>4, OthersWay DEF SaveFact, process
  <2>5. CASE Start(p) \/ Step(p)
    BY <2>1, <2>2, <2>5
  <2> QED BY <2>2, <2>3, <2>4, <2>5 DEF Next
<1>2. IInv => TypeOK
  BY DEF IInv
<1> QED BY <1>1, <1>2, MigrationInvariant, PTL DEF Spec, StartsAdvance
=============================================================================
