---------------------- MODULE LifecycleSchedulerProofs ----------------------
(***************************************************************************)
(* Theorems about LifecycleScheduler for any tenants, callers and tasks.   *)
(***************************************************************************)
EXTENDS LifecycleScheduler, TLAPS

\* A start() in progress knows its tenant.
StartsHaveTenant == \A c \in Callers : pc[c] = "policy" => tenant[c] \in Tenants

\* A task that caught its cancellation had been cancelled, so it was born.
LostWereBorn == \A k \in lost : state[k] # "unborn"

SchedulerInv == TypeOK /\ StartsHaveTenant /\ LostWereBorn /\ RegistryExact

\* Nothing is under way that could start a tenant of quiet: no call, no loop.
QuietIsUnstarted == quiet \subseteq Unstarted

QuietInv == SchedulerInv /\ QuietIsUnstarted /\ NoLoopAfterStop

LEMMA CancelledIsUnwinding ==
    ASSUME NEW s \in Live \cup {"unborn", "done"}
    PROVE  /\ Cancelled(s) \in Live \cup {"unborn", "done"}
           /\ s \in Live => Cancelled(s) \in Unwinding
BY DEF Cancelled, Live, Loops, Unwinding

LEMMA KeyOfTenant ==
    ASSUME NEW t \in Tenants, NEW j \in Jobs
    PROVE  <<t, j>> \in TaskKey
BY DEF TaskKey

\* Registering a new task for a key keeps the registry exact: the task in the
\* way is no loop any more.
LEMMA EnsureTaskKeepsRegistry ==
    ASSUME TypeOK, RegistryExact, LostWereBorn, lost' = lost,
           NEW key \in TaskKey, EnsureTask(key)
    PROVE  /\ LostWereBorn'
           /\ tasks' \in [TaskKey -> TaskIds \cup {NoTask}]
           /\ owner' \in [TaskIds -> TaskKey \cup {NoKey}]
           /\ state' \in [TaskIds -> Live \cup {"unborn", "done"}]
           /\ RegistryExact'
<1>1. PICK k \in TaskIds :
         /\ state[k] = "unborn"
         /\ tasks' = [tasks EXCEPT ![key] = k]
         /\ owner' = [owner EXCEPT ![k] = key]
         /\ state' = [n \in TaskIds |->
                         IF n = k THEN "created"
                         ELSE IF n = tasks[key] THEN Cancelled(state[n]) ELSE state[n]]
  BY DEF EnsureTask
<1>2. /\ state'[k] = "created"
      /\ \A n \in TaskIds \ {k} :
            state'[n] = IF n = tasks[key] THEN Cancelled(state[n]) ELSE state[n]
  BY <1>1
<1>3. /\ tasks' \in [TaskKey -> TaskIds \cup {NoTask}]
      /\ owner' \in [TaskIds -> TaskKey \cup {NoKey}]
  BY <1>1 DEF TypeOK
<1>4. \A n \in TaskIds : state'[n] \in Live \cup {"unborn", "done"}
  BY <1>2, CancelledIsUnwinding DEF TypeOK, Live, Loops
<1>5. state' \in [TaskIds -> Live \cup {"unborn", "done"}]
  BY <1>1, <1>4
<1>6. \A n \in TaskIds \ lost : state'[n] \in Loops =>
         owner'[n] \in TaskKey /\ tasks'[owner'[n]] = n
  <2> SUFFICES ASSUME NEW n \in TaskIds \ lost, state'[n] \in Loops
               PROVE  owner'[n] \in TaskKey /\ tasks'[owner'[n]] = n
    OBVIOUS
  <2>1. CASE n = k
    BY <1>1, <2>1 DEF TypeOK
  <2>2. CASE n # k
    <3>1. n # tasks[key] /\ state[n] \in Loops
      <4>1. CASE n = tasks[key]
        <5>1. state[n] \in Live /\ state'[n] \in Unwinding
          BY <1>2, <2>2, <4>1, CancelledIsUnwinding, SchedulerAssumption
             DEF TypeOK, RegistryExact, Live
        <5> QED BY <5>1 DEF Loops, Unwinding
      <4>2. CASE n # tasks[key]
        BY <1>2, <2>2, <4>2
      <4> QED BY <4>1, <4>2
    <3>2. owner'[n] = owner[n] /\ owner[n] # key
      BY <1>1, <2>2, <3>1 DEF TypeOK, RegistryExact
    <3> QED BY <1>1, <3>1, <3>2 DEF TypeOK, RegistryExact
  <2> QED BY <2>1, <2>2
<1>7. \A q \in TaskKey :
         tasks'[q] # NoTask =>
            state'[tasks'[q]] \in Loops /\ owner'[tasks'[q]] = q /\ tasks'[q] \notin lost
  <2> SUFFICES ASSUME NEW q \in TaskKey, tasks'[q] # NoTask
               PROVE  state'[tasks'[q]] \in Loops /\ owner'[tasks'[q]] = q /\ tasks'[q] \notin lost
    OBVIOUS
  <2>1. CASE q = key
    BY <1>1, <1>2, <2>1 DEF TypeOK, Loops, LostWereBorn
  <2>2. CASE q # key
    <3>1. tasks'[q] = tasks[q] /\ tasks[q] \in TaskIds
      BY <1>1, <2>2 DEF TypeOK
    <3>2. state[tasks[q]] \in Loops /\ owner[tasks[q]] = q /\ tasks[q] \notin lost
      BY <3>1, SchedulerAssumption DEF RegistryExact
    <3>3. tasks[q] # k /\ tasks[q] # tasks[key]
      BY <1>1, <2>2, <3>1, <3>2, SchedulerAssumption DEF RegistryExact, Loops
    <3> QED BY <1>1, <1>2, <3>1, <3>2, <3>3 DEF TypeOK
  <2> QED BY <2>1, <2>2
<1>8. LostWereBorn'
  <2> SUFFICES ASSUME NEW n \in lost PROVE state'[n] # "unborn"
    BY DEF LostWereBorn
  <2>1. n \in TaskIds \ {k} /\ state[n] # "unborn"
    BY <1>1 DEF TypeOK, LostWereBorn
  <2> QED BY <1>2, <2>1 DEF Cancelled
<1> QED BY <1>3, <1>5, <1>6, <1>7, <1>8 DEF RegistryExact

\* Popping keys and cancelling their tasks keeps it exact.
LEMMA CancelKeysKeepsInv ==
    ASSUME SchedulerInv, NEW c \in Callers, NEW keys \in SUBSET TaskKey,
           pc[c] = "idle", CancelKeys(c, keys),
           stopped' \subseteq Tenants, quiet' \subseteq Tenants
    PROVE  SchedulerInv'
<1> DEFINE running == {k \in Registered(keys) : state[k] \in Live}
<1>1. TypeOK /\ RegistryExact /\ LostWereBorn
  BY DEF SchedulerInv
<1>2. running \subseteq TaskIds
  BY <1>1 DEF Registered, TypeOK
<1>3. \A k \in TaskIds : k \in running <=> \E key \in keys : tasks[key] = k
  BY <1>1, <1>2, SchedulerAssumption DEF Registered, RegistryExact, Live
<1>4. /\ tasks' = [key \in TaskKey |-> IF key \in keys THEN NoTask ELSE tasks[key]]
      /\ state' = [k \in TaskIds |-> IF k \in running THEN Cancelled(state[k]) ELSE state[k]]
      /\ awaited' = [awaited EXCEPT ![c] = running]
      /\ pc' = [pc EXCEPT ![c] = IF running = {} THEN "idle" ELSE "gather"]
      /\ UNCHANGED <<owner, tenant, lost>>
  BY DEF CancelKeys, Popped
<1> HIDE DEF running
<1>5. \A k \in TaskIds : state'[k] \in Live \cup {"unborn", "done"}
  BY <1>1, <1>4, CancelledIsUnwinding DEF TypeOK
<1>6. TypeOK'
  <2>1. state' \in [TaskIds -> Live \cup {"unborn", "done"}]
    BY <1>4, <1>5
  <2> QED BY <1>1, <1>2, <1>4, <2>1 DEF TypeOK
<1>7. StartsHaveTenant'
  BY <1>1, <1>4 DEF SchedulerInv, StartsHaveTenant, TypeOK
<1>8. \A k \in TaskIds \ lost : state'[k] \in Loops =>
         owner'[k] \in TaskKey /\ tasks'[owner'[k]] = k
  <2> SUFFICES ASSUME NEW k \in TaskIds \ lost, state'[k] \in Loops
               PROVE  owner'[k] \in TaskKey /\ tasks'[owner'[k]] = k
    OBVIOUS
  <2>1. k \notin running /\ state[k] \in Loops
    BY <1>1, <1>3, <1>4, CancelledIsUnwinding, SchedulerAssumption
       DEF RegistryExact, Loops, Unwinding, Live, TypeOK
  <2>2. owner[k] \in TaskKey /\ tasks[owner[k]] = k /\ owner[k] \notin keys
    BY <1>1, <1>3, <2>1 DEF RegistryExact
  <2> QED BY <1>4, <2>2
<1>9. \A q \in TaskKey :
         tasks'[q] # NoTask =>
            state'[tasks'[q]] \in Loops /\ owner'[tasks'[q]] = q /\ tasks'[q] \notin lost
  <2> SUFFICES ASSUME NEW q \in TaskKey, tasks'[q] # NoTask
               PROVE  state'[tasks'[q]] \in Loops /\ owner'[tasks'[q]] = q /\ tasks'[q] \notin lost
    OBVIOUS
  <2>1. q \notin keys /\ tasks'[q] = tasks[q] /\ tasks[q] \in TaskIds
    BY <1>1, <1>4 DEF TypeOK
  <2>2. state[tasks[q]] \in Loops /\ owner[tasks[q]] = q /\ tasks[q] \notin lost
    BY <1>1, <2>1, SchedulerAssumption DEF RegistryExact
  <2>3. tasks[q] \notin running
    BY <1>1, <1>3, <2>1, <2>2, SchedulerAssumption DEF RegistryExact
  <2> QED BY <1>4, <2>1, <2>2, <2>3
<1>10. LostWereBorn'
  BY <1>1, <1>4 DEF LostWereBorn, Cancelled, TypeOK
<1> QED BY <1>4, <1>6, <1>7, <1>8, <1>9, <1>10 DEF SchedulerInv, RegistryExact

LEMMA InitSchedulerInv == Init => SchedulerInv
BY DEF Init, SchedulerInv, TypeOK, StartsHaveTenant, LostWereBorn, RegistryExact, Loops, Live, NoKey

LEMMA CallsKeepInv ==
    ASSUME SchedulerInv, NEW c \in Callers,
           \/ \E t \in Tenants : Start(c, t) \/ Stop(c, t)
           \/ StopAll(c)
           \/ CallStep(c)
    PROVE  SchedulerInv'
<1>1. TypeOK /\ StartsHaveTenant /\ LostWereBorn /\ RegistryExact
  BY DEF SchedulerInv
<1>2. ASSUME NEW t \in Tenants, Start(c, t) PROVE SchedulerInv'
  <2>1. <<t, "decay">> \in TaskKey
    BY KeyOfTenant DEF Jobs
  <2>2. EnsureTask(<<t, "decay">>) /\ lost' = lost
    BY <1>2 DEF Start
  <2> QED BY <1>1, <1>2, <2>1, <2>2, EnsureTaskKeepsRegistry
          DEF Start, SchedulerInv, TypeOK, StartsHaveTenant
<1>3. ASSUME NEW t \in Tenants, Stop(c, t) PROVE SchedulerInv'
  <2>1. KeysOf(t) \in SUBSET TaskKey
    BY DEF KeysOf, TaskKey
  <2> QED BY <1>1, <1>3, <2>1, CancelKeysKeepsInv DEF Stop, Unstarted, TypeOK
<1>4. ASSUME StopAll(c) PROVE SchedulerInv'
  BY <1>1, <1>4, CancelKeysKeepsInv DEF StopAll, Unstarted, TypeOK
<1>5. ASSUME PolicyLoaded(c) PROVE SchedulerInv'
  <2>1. <<tenant[c], "consolidation">> \in TaskKey
    BY <1>1, <1>5, KeyOfTenant DEF PolicyLoaded, StartsHaveTenant, Jobs
  <2>2. CASE EnsureTask(<<tenant[c], "consolidation">>)
    BY <1>1, <1>5, <2>1, <2>2, EnsureTaskKeepsRegistry
       DEF PolicyLoaded, history, SchedulerInv, TypeOK, StartsHaveTenant
  <2>3. CASE UNCHANGED <<tasks, owner, state>>
    BY <1>1, <1>5, <2>3
       DEF PolicyLoaded, history, SchedulerInv, TypeOK, StartsHaveTenant, LostWereBorn, RegistryExact
  <2> QED BY <1>5, <2>2, <2>3 DEF PolicyLoaded
<1>6. ASSUME PolicyRaises(c) \/ Gathered(c) PROVE SchedulerInv'
  BY <1>1, <1>6
     DEF PolicyRaises, Gathered, history, SchedulerInv, TypeOK, StartsHaveTenant, LostWereBorn,
         RegistryExact
<1> QED BY <1>2, <1>3, <1>4, <1>5, <1>6 DEF CallStep

LEMMA TasksKeepInv ==
    ASSUME SchedulerInv, NEW k \in TaskIds, TaskStep(k)
    PROVE  SchedulerInv'
<1>1. TypeOK /\ StartsHaveTenant /\ LostWereBorn /\ RegistryExact
  BY DEF SchedulerInv
<1>2. ASSUME NEW from, NEW to \in Loops, from \subseteq Loops, Move(k, from, to)
      PROVE  SchedulerInv'
  <2>1. /\ state[k] \in Loops /\ state' = [state EXCEPT ![k] = to]
        /\ UNCHANGED <<tasks, owner, pc, tenant, awaited, stopped, quiet, lost>>
    BY <1>2 DEF Move, history
  <2>2. /\ state' \in [TaskIds -> Live \cup {"unborn", "done"}]
        /\ \A n \in TaskIds : state'[n] \in Loops <=> state[n] \in Loops
        /\ to # "unborn"
    BY <1>1, <2>1 DEF TypeOK, Live, Loops
  <2>3. TypeOK' /\ StartsHaveTenant'
    BY <1>1, <2>1, <2>2 DEF TypeOK, StartsHaveTenant
  <2>4. LostWereBorn'
    BY <1>1, <2>1, <2>2 DEF LostWereBorn, TypeOK
  <2>5. RegistryExact'
    BY <1>1, <2>1, <2>2, SchedulerAssumption DEF RegistryExact, TypeOK
  <2> QED BY <2>3, <2>4, <2>5 DEF SchedulerInv
<1>3. ASSUME Move(k, Unwinding, "done")
      PROVE  SchedulerInv'
  BY <1>1, <1>3
     DEF Move, history, SchedulerInv, TypeOK, StartsHaveTenant, LostWereBorn, RegistryExact,
         Unwinding, Loops, Live
<1>4. ASSUME AbortRaises(k)
      PROVE  SchedulerInv'
  BY <1>1, <1>4
     DEF AbortRaises, SchedulerInv, TypeOK, StartsHaveTenant, LostWereBorn, RegistryExact, Loops, Live
<1> QED BY <1>2, <1>3, <1>4 DEF TaskStep, Begin, Wake, SweepReturns, SweepRaises, End, Loops

LEMMA NextSchedulerInv == SchedulerInv /\ [Next]_vars => SchedulerInv'
<1> SUFFICES ASSUME SchedulerInv, [Next]_vars PROVE SchedulerInv'
  OBVIOUS
<1>1. CASE UNCHANGED vars
  BY <1>1 DEF vars, history, SchedulerInv, TypeOK, StartsHaveTenant, LostWereBorn, RegistryExact
<1> QED BY <1>1, CallsKeepInv, TasksKeepInv DEF Next

LEMMA SchedulerInvariant == Spec => []SchedulerInv
BY InitSchedulerInv, NextSchedulerInv, PTL DEF Spec

\* Every variable of the scheduler's model keeps its type.
THEOREM SchedulerTypeCorrect == Spec => []TypeOK
<1>1. SchedulerInv => TypeOK
  BY DEF SchedulerInv
<1> QED BY <1>1, SchedulerInvariant, PTL

\* However starts and stops interleave, the registry holds exactly the loops
\* nobody has cancelled, so at most one per tenant and job, and none is out of
\* reach but those whose sweep raised while its cancellation unwound it.
THEOREM RegistryIsExact == Spec => []RegistryExact
<1>1. SchedulerInv => RegistryExact
  BY DEF SchedulerInv
<1> QED BY <1>1, SchedulerInvariant, PTL

-----------------------------------------------------------------------------
(* Stopping a tenant *)

\* Registering a task for a key starts no loop of another tenant.
LEMMA EnsureTaskStaysQuiet ==
    ASSUME TypeOK, NEW key \in TaskKey, EnsureTask(key),
           NEW k \in TaskIds, NEW t, key[1] # t,
           state[k] \in Loops => owner[k][1] # t
    PROVE  state'[k] \in Loops => owner'[k][1] # t
<1>1. PICK n \in TaskIds :
         /\ state[n] = "unborn"
         /\ owner' = [owner EXCEPT ![n] = key]
         /\ state' = [m \in TaskIds |->
                         IF m = n THEN "created"
                         ELSE IF m = tasks[key] THEN Cancelled(state[m]) ELSE state[m]]
  BY DEF EnsureTask
<1>2. CASE k = n
  BY <1>1, <1>2 DEF TypeOK
<1>3. CASE k # n
  <2>1. owner'[k] = owner[k]
    BY <1>1, <1>3 DEF TypeOK
  <2>2. state'[k] \in Loops => state[k] \in Loops
    BY <1>1, <1>3 DEF Cancelled, Loops
  <2> QED BY <2>1, <2>2
<1> QED BY <1>2, <1>3

\* Cancelling keys leaves none of their loops, and starts none.
LEMMA CancelKeysStaysQuiet ==
    ASSUME SchedulerInv, NEW c \in Callers, NEW keys \in SUBSET TaskKey, CancelKeys(c, keys),
           NEW k \in TaskIds \ lost, state'[k] \in Loops
    PROVE  owner' = owner /\ state[k] \in Loops /\ owner[k] \in TaskKey \ keys
<1>1. TypeOK /\ RegistryExact
  BY DEF SchedulerInv
<1>2. owner' = owner /\ tenant' = tenant
  BY DEF CancelKeys
<1>3. state'[k] = IF k \in Registered(keys) /\ state[k] \in Live
                  THEN Cancelled(state[k]) ELSE state[k]
  BY DEF CancelKeys
<1>4. state[k] \in Loops
  BY <1>3 DEF Cancelled, Loops
<1>5. k \notin Registered(keys)
  BY <1>1, <1>3, <1>4, CancelledIsUnwinding DEF Live, Loops, Unwinding
<1>6. owner[k] \in TaskKey /\ tasks[owner[k]] = k
  BY <1>1, <1>4 DEF RegistryExact
<1>7. owner[k] \notin keys
  BY <1>5, <1>6, SchedulerAssumption DEF Registered
<1> QED BY <1>2, <1>4, <1>6, <1>7

LEMMA CallsKeepQuiet ==
    ASSUME QuietInv, NEW c \in Callers,
           \/ \E t \in Tenants : Start(c, t) \/ Stop(c, t)
           \/ StopAll(c)
           \/ CallStep(c)
    PROVE  QuietIsUnstarted' /\ NoLoopAfterStop'
<1>0. TypeOK /\ StartsHaveTenant /\ SchedulerInv /\ QuietIsUnstarted /\ NoLoopAfterStop
  BY DEF QuietInv, SchedulerInv
<1>1. ASSUME NEW t \in Tenants, Start(c, t) PROVE QuietIsUnstarted' /\ NoLoopAfterStop'
  <2>1. <<t, "decay">> \in TaskKey
    BY KeyOfTenant DEF Jobs
  <2>2. EnsureTask(<<t, "decay">>) /\ quiet' = quiet \ {t} /\ lost' = lost
    BY <1>1 DEF Start
  <2>3. NoLoopAfterStop'
    BY <1>0, <2>1, <2>2, EnsureTaskStaysQuiet DEF NoLoopAfterStop
  <2>4. QuietIsUnstarted'
    BY <1>0, <1>1, <2>2 DEF Start, QuietIsUnstarted, Unstarted, TypeOK
  <2> QED BY <2>3, <2>4
<1>2. ASSUME NEW t \in Tenants, Stop(c, t) PROVE QuietIsUnstarted' /\ NoLoopAfterStop'
  <2>1. /\ KeysOf(t) \in SUBSET TaskKey
        /\ \A key \in TaskKey \ KeysOf(t) : key[1] # t
    BY DEF KeysOf, TaskKey
  <2>2. CancelKeys(c, KeysOf(t)) /\ quiet' = quiet \cup ({t} \cap Unstarted) /\ lost' = lost
    BY <1>2 DEF Stop, CancelKeys
  <2>3. NoLoopAfterStop'
    BY <1>0, <2>1, <2>2, CancelKeysStaysQuiet DEF NoLoopAfterStop
  <2>4. QuietIsUnstarted'
    BY <1>0, <2>2 DEF CancelKeys, QuietIsUnstarted, Unstarted
  <2> QED BY <2>3, <2>4
<1>3. ASSUME StopAll(c) PROVE QuietIsUnstarted' /\ NoLoopAfterStop'
  <2>1. CancelKeys(c, TaskKey) /\ quiet' = quiet \cup Unstarted /\ lost' = lost
    BY <1>3 DEF StopAll, CancelKeys
  <2>2. NoLoopAfterStop'
    BY <1>0, <2>1, CancelKeysStaysQuiet DEF NoLoopAfterStop
  <2>3. QuietIsUnstarted'
    BY <1>0, <2>1 DEF CancelKeys, QuietIsUnstarted, Unstarted
  <2> QED BY <2>2, <2>3
<1>4. ASSUME CallStep(c) PROVE QuietIsUnstarted'
  BY <1>0, <1>4, SchedulerAssumption
     DEF CallStep, PolicyLoaded, PolicyRaises, Gathered, history, QuietIsUnstarted, Unstarted, TypeOK
<1>5. ASSUME PolicyLoaded(c) PROVE NoLoopAfterStop'
  <2>1. <<tenant[c], "consolidation">> \in TaskKey /\ tenant[c] \notin quiet
        /\ quiet' = quiet /\ lost' = lost
    BY <1>0, <1>5, KeyOfTenant
       DEF PolicyLoaded, StartsHaveTenant, Jobs, QuietIsUnstarted, Unstarted, history
  <2>2. CASE EnsureTask(<<tenant[c], "consolidation">>)
    BY <1>0, <2>1, <2>2, EnsureTaskStaysQuiet DEF NoLoopAfterStop
  <2>3. CASE UNCHANGED <<tasks, owner, state>>
    BY <1>0, <2>1, <2>3 DEF NoLoopAfterStop
  <2> QED BY <1>5, <2>2, <2>3 DEF PolicyLoaded
<1>6. ASSUME PolicyRaises(c) \/ Gathered(c) PROVE NoLoopAfterStop'
  BY <1>0, <1>6 DEF PolicyRaises, Gathered, history, NoLoopAfterStop
<1> QED BY <1>1, <1>2, <1>3, <1>4, <1>5, <1>6 DEF CallStep

LEMMA NextQuietInv == QuietInv /\ [Next]_vars => QuietInv'
<1> SUFFICES ASSUME QuietInv, [Next]_vars PROVE QuietInv'
  OBVIOUS
<1>0. SchedulerInv' /\ TypeOK
  BY NextSchedulerInv DEF QuietInv, SchedulerInv
<1>1. CASE UNCHANGED vars
  BY <1>0, <1>1 DEF vars, history, QuietInv, QuietIsUnstarted, Unstarted, NoLoopAfterStop
<1>2. ASSUME NEW k \in TaskIds, TaskStep(k) PROVE QuietIsUnstarted' /\ NoLoopAfterStop'
  BY <1>0, <1>2
     DEF TaskStep, Begin, Wake, SweepReturns, SweepRaises, End, AbortRaises, Move, history, QuietInv,
         QuietIsUnstarted, Unstarted, NoLoopAfterStop, TypeOK, Loops, Unwinding
<1> QED BY <1>0, <1>1, <1>2, CallsKeepQuiet DEF Next, QuietInv

\* However calls and sweeps interleave, a tenant that was stopped while no
\* start() of it was under way has no loop until it is started again, but those
\* whose sweep raised while its cancellation unwound it.
THEOREM StoppedIsQuiet == Spec => []NoLoopAfterStop
<1>1. Init => QuietInv
  BY InitSchedulerInv DEF Init, QuietInv, QuietIsUnstarted, NoLoopAfterStop
<1>2. QuietInv => NoLoopAfterStop
  BY DEF QuietInv
<1> QED BY <1>1, <1>2, NextQuietInv, PTL DEF Spec

-----------------------------------------------------------------------------
\* No sweep ends its loop: a loop is left by cancellation alone.
THEOREM LoopsSurvive == Spec => LoopSurvives
<1> DEFINE Survives(k) == state[k] \in Loops => state'[k] \in Loops \cup Unwinding
<1>1. SchedulerInv /\ [Next]_vars => [\A k \in TaskIds : Survives(k)]_vars
  <2> SUFFICES ASSUME SchedulerInv, Next, NEW k \in TaskIds PROVE Survives(k)
    OBVIOUS
  <2>1. TypeOK
    BY DEF SchedulerInv
  <2>2. ASSUME NEW key \in TaskKey, EnsureTask(key) PROVE Survives(k)
    BY <2>1, <2>2 DEF EnsureTask, Cancelled, TypeOK, Loops, Unwinding
  <2>3. ASSUME NEW c \in Callers, NEW keys \in SUBSET TaskKey, CancelKeys(c, keys)
        PROVE  Survives(k)
    BY <2>1, <2>3 DEF CancelKeys, Cancelled, TypeOK, Loops, Unwinding
  <2>4. ASSUME NEW c \in Callers, NEW t \in Tenants, Start(c, t) PROVE Survives(k)
    BY <2>2, <2>4, KeyOfTenant DEF Start, Jobs
  <2>5. ASSUME NEW c \in Callers, NEW t \in Tenants, Stop(c, t) PROVE Survives(k)
    BY <2>3, <2>5 DEF Stop, KeysOf, TaskKey
  <2>6. ASSUME NEW c \in Callers, StopAll(c) PROVE Survives(k)
    BY <2>3, <2>6 DEF StopAll
  <2>7. ASSUME NEW c \in Callers, CallStep(c) PROVE Survives(k)
    <3>1. <<tenant[c], "consolidation">> \in TaskKey \/ ~PolicyLoaded(c)
      BY KeyOfTenant DEF PolicyLoaded, history, SchedulerInv, StartsHaveTenant, Jobs
    <3> QED BY <2>2, <2>7, <3>1 DEF CallStep, PolicyLoaded, PolicyRaises, Gathered
  <2>8. ASSUME NEW n \in TaskIds, TaskStep(n) PROVE Survives(k)
    BY <2>1, <2>8
       DEF TaskStep, Begin, Wake, SweepReturns, SweepRaises, End, AbortRaises, Move, TypeOK, Loops,
           Unwinding
  <2> QED BY <2>4, <2>5, <2>6, <2>7, <2>8 DEF Next
<1> QED BY <1>1, SchedulerInvariant, PTL DEF Spec, LoopSurvives

-----------------------------------------------------------------------------
(* What a stop() waits for *)

Ended == {"cancelled", "done"}      \* CancelledError found it out of a sweep, or it is done
Over == Unwinding \cup {"done"}

\* stop() and stop_all() gather nothing but tasks that are cancelled, those
\* included that caught their cancellation.
AwaitsCancelled ==
    \A c \in Callers :
        /\ pc[c] # "gather" => awaited[c] = {}
        /\ \A k \in awaited[c] : state[k] \in Over \/ k \in lost

\* No step takes a cancellation back, but a sweep that raises while it unwinds.
LEMMA CancelledStays ==
    ASSUME SchedulerInv, [Next]_vars, NEW k \in TaskIds
    PROVE  /\ k \in lost => k \in lost'
           /\ state[k] \in Over => state'[k] \in Over \/ (state[k] = "aborting" /\ k \in lost')
           /\ state[k] \in Ended => state'[k] \in Ended
           /\ state[k] = "done" => state'[k] = "done"
<1> DEFINE Stays == /\ k \in lost => k \in lost'
                    /\ state[k] \in Over =>
                          state'[k] \in Over \/ (state[k] = "aborting" /\ k \in lost')
                    /\ state[k] \in Ended => state'[k] \in Ended
                    /\ state[k] = "done" => state'[k] = "done"
<1>0. TypeOK
  BY DEF SchedulerInv
<1>1. CASE UNCHANGED <<state, lost>>
  BY <1>1
<1>2. ASSUME NEW key, EnsureTask(key), lost' = lost PROVE Stays
  BY <1>0, <1>2 DEF EnsureTask, Cancelled, TypeOK, Over, Ended, Unwinding
<1>3. ASSUME NEW c, NEW keys, CancelKeys(c, keys) PROVE Stays
  BY <1>0, <1>3 DEF CancelKeys, Cancelled, TypeOK, Over, Ended, Unwinding
<1>4. ASSUME NEW n \in TaskIds, TaskStep(n) PROVE Stays
  BY <1>0, <1>4 DEF TaskStep, Begin, Wake, SweepReturns, SweepRaises, End, AbortRaises, Move,
                    history, TypeOK, Over, Ended, Unwinding
<1>5. ASSUME NEW c \in Callers, NEW t \in Tenants, Start(c, t) \/ Stop(c, t) PROVE Stays
  BY <1>2, <1>3, <1>5 DEF Start, Stop
<1>6. ASSUME NEW c \in Callers, StopAll(c) \/ CallStep(c) PROVE Stays
  BY <1>1, <1>2, <1>3, <1>6 DEF StopAll, CallStep, PolicyLoaded, PolicyRaises, Gathered, history
<1> QED BY <1>1, <1>4, <1>5, <1>6 DEF Next, vars, history

\* What a call adds to awaited it has just cancelled.
LEMMA CancelKeysAwaitsCancelled ==
    ASSUME SchedulerInv, NEW c \in Callers, NEW keys \in SUBSET TaskKey, CancelKeys(c, keys)
    PROVE  /\ pc'[c] # "gather" => awaited'[c] = {}
           /\ \A k \in awaited'[c] : state'[k] \in Over
<1> DEFINE running == {k \in Registered(keys) : state[k] \in Live}
<1>0. TypeOK
  BY DEF SchedulerInv
<1>1. running \in SUBSET TaskIds
  BY <1>0 DEF TypeOK, Registered
<1>2. /\ awaited'[c] = running
      /\ pc'[c] = IF running = {} THEN "idle" ELSE "gather"
      /\ state' = [k \in TaskIds |-> IF k \in running THEN Cancelled(state[k]) ELSE state[k]]
  BY <1>0 DEF CancelKeys, TypeOK
<1> HIDE DEF running
<1>3. ASSUME NEW k \in running PROVE state'[k] \in Over
  <2>1. state[k] \in Live
    BY DEF running
  <2> QED BY <1>1, <1>2, <2>1, CancelledIsUnwinding DEF Over
<1> QED BY <1>2, <1>3

LEMMA NextAwaitsCancelled ==
    SchedulerInv /\ AwaitsCancelled /\ [Next]_vars => AwaitsCancelled'
<1> SUFFICES ASSUME SchedulerInv, AwaitsCancelled, [Next]_vars, NEW c \in Callers
             PROVE  /\ pc'[c] # "gather" => awaited'[c] = {}
                    /\ \A k \in awaited'[c] : state'[k] \in Over \/ k \in lost'
  BY DEF AwaitsCancelled
<1> DEFINE Kept == /\ pc'[c] # "gather" => awaited'[c] = {}
                   /\ \A k \in awaited'[c] : state'[k] \in Over \/ k \in lost'
<1>0. TypeOK /\ awaited[c] \in SUBSET TaskIds
  BY DEF SchedulerInv, TypeOK
<1>1. ASSUME awaited'[c] = awaited[c], pc[c] = "gather" => pc'[c] = "gather" PROVE Kept
  BY <1>0, <1>1, CancelledStays DEF AwaitsCancelled
<1>2. CASE UNCHANGED vars
  BY <1>1, <1>2 DEF vars
<1>3. ASSUME NEW d \in Callers, NEW t \in Tenants, Start(d, t) PROVE Kept
  BY <1>0, <1>1, <1>3 DEF Start, TypeOK
<1>4. ASSUME NEW d \in Callers, NEW keys \in SUBSET TaskKey, CancelKeys(d, keys) PROVE Kept
  <2>1. CASE d = c
    BY <1>4, <2>1, CancelKeysAwaitsCancelled
  <2>2. CASE d # c
    BY <1>0, <1>1, <1>4, <2>2 DEF CancelKeys, TypeOK
  <2> QED BY <2>1, <2>2
<1>5. ASSUME NEW d \in Callers, NEW t \in Tenants, Stop(d, t) PROVE Kept
  BY <1>4, <1>5 DEF Stop, KeysOf, TaskKey
<1>6. ASSUME NEW d \in Callers, StopAll(d) PROVE Kept
  BY <1>4, <1>6 DEF StopAll
<1>7. ASSUME NEW d \in Callers, PolicyLoaded(d) \/ PolicyRaises(d) PROVE Kept
  BY <1>0, <1>1, <1>7 DEF PolicyLoaded, PolicyRaises, TypeOK
<1>8. ASSUME NEW d \in Callers, Gathered(d) PROVE Kept
  <2>1. CASE d = c
    BY <1>0, <1>8, <2>1 DEF Gathered, TypeOK
  <2>2. CASE d # c
    BY <1>0, <1>1, <1>8, <2>2 DEF Gathered, TypeOK
  <2> QED BY <2>1, <2>2
<1>9. ASSUME NEW k \in TaskIds, TaskStep(k) PROVE Kept
  BY <1>1, <1>9 DEF TaskStep, Begin, Wake, SweepReturns, SweepRaises, End, AbortRaises, Move
<1> QED BY <1>2, <1>3, <1>5, <1>6, <1>7, <1>8, <1>9 DEF Next, CallStep

\* Whatever starts, stops and sweeps run beside, a stop() that waits waits for
\* cancelled tasks alone, those that caught their cancellation among them: a loop
\* started meanwhile cannot hold it up.
THEOREM StopsAwaitCancelled == Spec => []AwaitsCancelled
<1>1. Init => AwaitsCancelled
  BY DEF Init, AwaitsCancelled
<1> QED BY <1>1, InitSchedulerInv, NextSchedulerInv, NextAwaitsCancelled, PTL DEF Spec

\* A task cancelled before or between its sweeps takes no step but to be done; one
\* cancelled in a sweep is lost if it does not end; a done one takes none at all.
CancellationFinal ==
    [][\A k \in TaskIds :
          /\ state[k] \in Over => state'[k] \in Over \/ (state[k] = "aborting" /\ k \in lost')
          /\ state[k] \in Ended => state'[k] \in Ended
          /\ state[k] = "done" => state'[k] = "done"]_vars

\* No loop comes back from its cancellation, whatever key its tenant is started
\* with anew, unless it was cancelled in a sweep that then raised.
THEOREM CancellationsAreFinal == Spec => CancellationFinal
<1>1. SchedulerInv /\ [Next]_vars =>
          [\A k \in TaskIds :
              /\ state[k] \in Over => state'[k] \in Over \/ (state[k] = "aborting" /\ k \in lost')
              /\ state[k] \in Ended => state'[k] \in Ended
              /\ state[k] = "done" => state'[k] = "done"]_vars
  BY CancelledStays
<1> QED BY <1>1, SchedulerInvariant, PTL DEF Spec, CancellationFinal
=============================================================================
