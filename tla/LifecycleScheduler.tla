------------------------- MODULE LifecycleScheduler -------------------------
(***************************************************************************)
(* LifecycleScheduler: start(), stop() and stop_all() of any number of     *)
(* callers beside the decay and consolidation loops they create, on one    *)
(* event loop.  An action runs from one resumption of a coroutine to its   *)
(* next await.  A sweep is one phase of its loop: what it does to records  *)
(* is not looked at here, only that it takes awaits to do it.              *)
(*                                                                         *)
(* Bound: TaskIds, the tasks that can be created.                          *)
(***************************************************************************)
EXTENDS FiniteSets

CONSTANTS Tenants, Callers, TaskIds, NoTask, NoTenant

Jobs == {"decay", "consolidation"}
TaskKey == Tenants \X Jobs

ASSUME SchedulerAssumption ==
    /\ NoTask \notin TaskIds
    /\ NoTenant \notin Tenants

VARIABLES
    tasks,      \* self._tasks
    owner,      \* the key each task was created for, once it was
    state,      \* where each task stands
    pc,         \* the await each caller's call stands at
    tenant,     \* the tenant of a start() in progress
    awaited,    \* the tasks a stop() in progress gathers
    stopped,    \* history: tenants stopped and not started since
    quiet,      \* history: those of them no start() was under way for
    lost        \* history: tasks that caught their own cancellation

history == <<stopped, quiet, lost>>
vars == <<tasks, owner, state, pc, tenant, awaited, history>>

Loops == {"created", "sleeping", "sweeping"}    \* nobody has cancelled it
Unwinding == {"cancelled", "aborting"}          \* CancelledError on its way
Live == Loops \cup Unwinding                    \* not task.done()
NoKey == <<NoTenant, "decay">>

TypeOK ==
    /\ tasks \in [TaskKey -> TaskIds \cup {NoTask}]
    /\ owner \in [TaskIds -> TaskKey \cup {NoKey}]
    /\ state \in [TaskIds -> Live \cup {"unborn", "done"}]
    /\ pc \in [Callers -> {"idle", "policy", "gather"}]
    /\ tenant \in [Callers -> Tenants \cup {NoTenant}]
    /\ awaited \in [Callers -> SUBSET TaskIds]
    /\ stopped \subseteq Tenants
    /\ quiet \subseteq Tenants
    /\ lost \subseteq TaskIds

Init ==
    /\ tasks = [key \in TaskKey |-> NoTask]
    /\ owner = [k \in TaskIds |-> NoKey]
    /\ state = [k \in TaskIds |-> "unborn"]
    /\ pc = [c \in Callers |-> "idle"]
    /\ tenant = [c \in Callers |-> NoTenant]
    /\ awaited = [c \in Callers |-> {}]
    /\ stopped = {} /\ quiet = {} /\ lost = {}

-----------------------------------------------------------------------------
(* Task.cancel(), _ensure_task and _cancel_keys *)

\* A cancelled task is done only once its coroutine has run: CancelledError is
\* thrown at its await, and a sweep still has connections to close.
Cancelled(s) ==
    IF s \in {"created", "sleeping"} THEN "cancelled"
    ELSE IF s = "sweeping" THEN "aborting" ELSE s

\* Slip: the task in the way is not cancelled.
EnsureTaskKeepingOld(key) ==
    \E k \in {n \in TaskIds : state[n] = "unborn"} :
        /\ tasks' = [tasks EXCEPT ![key] = k]
        /\ owner' = [owner EXCEPT ![k] = key]
        /\ state' = [state EXCEPT ![k] = "created"]

\* Create and register a task; the one it replaces is cancelled, not awaited.
EnsureTask(key) ==
    \E k \in {n \in TaskIds : state[n] = "unborn"} :
        /\ tasks' = [tasks EXCEPT ![key] = k]
        /\ owner' = [owner EXCEPT ![k] = key]
        /\ state' = [n \in TaskIds |->
                        IF n = k THEN "created"
                        ELSE IF n = tasks[key] THEN Cancelled(state[n]) ELSE state[n]]

Registered(keys) == {tasks[key] : key \in keys} \ {NoTask}

Popped(keys) == [key \in TaskKey |-> IF key \in keys THEN NoTask ELSE tasks[key]]

\* Pop and cancel the tasks of keys, then await those that were not done.
CancelKeys(c, keys) ==
    LET running == {k \in Registered(keys) : state[k] \in Live} IN
    /\ tasks' = Popped(keys)
    /\ state' = [k \in TaskIds |-> IF k \in running THEN Cancelled(state[k]) ELSE state[k]]
    /\ awaited' = [awaited EXCEPT ![c] = running]
    /\ pc' = [pc EXCEPT ![c] = IF running = {} THEN "idle" ELSE "gather"]
    /\ UNCHANGED <<owner, tenant, lost>>

-----------------------------------------------------------------------------
(* start(), stop(), stop_all() *)

\* start(): the decay loop is up before the policies are awaited.  A start whose
\* config is disabled returns at once and changes nothing.
Start(c, t) ==
    /\ pc[c] = "idle"
    /\ EnsureTask(<<t, "decay">>)
    /\ pc' = [pc EXCEPT ![c] = "policy"]
    /\ tenant' = [tenant EXCEPT ![c] = t]
    /\ stopped' = stopped \ {t}
    /\ quiet' = quiet \ {t}
    /\ UNCHANGED <<awaited, lost>>

\* policy_repo.get answers: consolidation loops only under trigger SCHEDULE.
\* Any other trigger leaves a consolidation loop that is there alone.
PolicyLoaded(c) ==
    /\ pc[c] = "policy"
    /\ \/ EnsureTask(<<tenant[c], "consolidation">>)
       \/ UNCHANGED <<tasks, owner, state>>
    /\ pc' = [pc EXCEPT ![c] = "idle"]
    /\ tenant' = [tenant EXCEPT ![c] = NoTenant]
    /\ UNCHANGED <<awaited, history>>

\* policy_repo.get raises out of start(): the decay loop stays up.
PolicyRaises(c) ==
    /\ pc[c] = "policy"
    /\ pc' = [pc EXCEPT ![c] = "idle"]
    /\ tenant' = [tenant EXCEPT ![c] = NoTenant]
    /\ UNCHANGED <<tasks, owner, state, awaited, history>>

\* Slip: only the decay loop is looked up.
DecayKeys(t) == {<<t, "decay">>}

KeysOf(t) == {<<t, j>> : j \in Jobs}

\* The tenants no start() is under way for.
Unstarted == {t \in Tenants : \A c \in Callers : tenant[c] # t}

\* With nothing registered for t, stop returns at once; so does CancelKeys.
Stop(c, t) ==
    /\ pc[c] = "idle"
    /\ CancelKeys(c, KeysOf(t))
    /\ stopped' = stopped \cup {t}
    /\ quiet' = quiet \cup ({t} \cap Unstarted)

StopAll(c) ==
    /\ pc[c] = "idle"
    /\ CancelKeys(c, TaskKey)
    /\ stopped' = Tenants
    /\ quiet' = quiet \cup Unstarted

\* gather() resumes when every task it was given is done.
Gathered(c) ==
    /\ pc[c] = "gather"
    /\ \A k \in awaited[c] : state[k] = "done"
    /\ pc' = [pc EXCEPT ![c] = "idle"]
    /\ awaited' = [awaited EXCEPT ![c] = {}]
    /\ UNCHANGED <<tasks, owner, state, tenant, history>>

-----------------------------------------------------------------------------
(* _decay_loop and _consolidation_loop: sleep, sweep, repeat *)

Move(k, from, to) ==
    /\ state[k] \in from
    /\ state' = [state EXCEPT ![k] = to]
    /\ UNCHANGED <<tasks, owner, pc, tenant, awaited, history>>

\* Slips: the handler stands around the loop, so that a failed sweep ends it; the
\* handler stands around the sleep too and catches CancelledError there.
SweepRaisesEnds(k) == Move(k, {"sweeping"}, "done")
EndSwallowed(k) == Move(k, Unwinding, "sleeping")

Begin(k) == Move(k, {"created"}, "sleeping")
Wake(k) == Move(k, {"sleeping"}, "sweeping")
SweepReturns(k) == Move(k, {"sweeping"}, "sleeping")

\* except Exception: logged, and the loop goes on.
SweepRaises(k) == Move(k, {"sweeping"}, "sleeping")

\* CancelledError leaves the coroutine: never begun, asleep, or mid-sweep.
End(k) == Move(k, Unwinding, "done")

\* A close or a rollback raises while CancelledError unwinds a sweep.  What reaches
\* the loop is an ordinary exception and is caught like any other: the loop goes
\* on, and nothing cancels it again, for the registry has forgotten it.
AbortRaises(k) ==
    /\ state[k] = "aborting"
    /\ state' = [state EXCEPT ![k] = "sleeping"]
    /\ lost' = lost \cup {k}
    /\ UNCHANGED <<tasks, owner, pc, tenant, awaited, stopped, quiet>>

TaskStep(k) ==
    \/ Begin(k) \/ Wake(k) \/ SweepReturns(k) \/ SweepRaises(k)
    \/ End(k) \/ AbortRaises(k)
CallStep(c) == PolicyLoaded(c) \/ PolicyRaises(c) \/ Gathered(c)

Next ==
    \/ \E c \in Callers :
          \/ \E t \in Tenants : Start(c, t) \/ Stop(c, t)
          \/ StopAll(c)
          \/ CallStep(c)
    \/ \E k \in TaskIds : TaskStep(k)

Spec == Init /\ [][Next]_vars

\* The event loop resumes what can run: timers fire, sweeps and policy lookups
\* answer or raise, and a cancelled coroutine gets to unwind.
FairSpec ==
    /\ Spec
    /\ \A c \in Callers : WF_vars(CallStep(c))
    /\ \A k \in TaskIds : WF_vars(TaskStep(k))

-----------------------------------------------------------------------------
(* Properties *)

\* The registry holds exactly the loops nobody has cancelled: no loop leaks
\* out of stop()'s reach but one that caught its cancellation, and none is
\* stopped behind the registry's back.
RegistryExact ==
    /\ \A k \in TaskIds \ lost :
          state[k] \in Loops => owner[k] \in TaskKey /\ tasks[owner[k]] = k
    /\ \A key \in TaskKey :
          tasks[key] # NoTask =>
             /\ state[tasks[key]] \in Loops /\ owner[tasks[key]] = key
             /\ tasks[key] \notin lost

\* A loop ends only by being cancelled, whatever its sweeps raise.
LoopSurvives ==
    [][\A k \in TaskIds : state[k] \in Loops => state'[k] \in Loops \cup Unwinding]_vars

\* A tenant that was stopped and not started since has no loop, whatever calls
\* for other tenants run beside, unless a start() was under way for it or a loop
\* caught its cancellation.
NoLoopAfterStop ==
    \A t \in quiet : \A k \in TaskIds \ lost : state[k] \in Loops => owner[k][1] # t

\* stop() and stop_all() come back, because what they cancelled unwinds: only a
\* sweep that raises while it unwinds can keep them waiting.
StopReturns == \A c \in Callers : pc[c] = "gather" ~> pc[c] = "idle" \/ awaited[c] \cap lost # {}

\* A loop that sleeps comes to sweep, and one that sweeps comes to sleep again,
\* also after a failed sweep: only a cancellation takes it out of that round.
LoopKeepsSweeping ==
    \A k \in TaskIds :
        /\ state[k] \in {"created", "sleeping"} ~> state[k] \in {"sweeping"} \cup Unwinding
        /\ state[k] = "sweeping" ~> state[k] \in {"sleeping"} \cup Unwinding
=============================================================================
