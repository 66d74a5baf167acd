-------------------------------- MODULE Recall --------------------------------
(***************************************************************************)
(* Searches, recalls and explanations of one tenant, side by side with     *)
(* whoever fills the indexes: SearchMemoryService, RecallMemoryService     *)
(* with RetrievalService, and ExplainRecallService.                        *)
(*                                                                         *)
(* A call stands in pc at the await it is about to leave.  What the        *)
(* indexes return is theirs at the moment of their own query: the two      *)
(* queries of a hybrid search see different moments.  The traces table and *)
(* the indexes have no writer in src: an integrator fills them.            *)
(*                                                                         *)
(* Bounds: MaxTraces trace ids, MaxUpsets events from outside (a failed    *)
(* await, a change of the indexes or of the policy).                       *)
(***************************************************************************)
EXTENDS RankFusion

CONSTANTS
    Callers, Tenants, TenantOf,
    Owner,                      \* the tenant whose memories these are
    Requests,                   \* what searches and recalls are made with
    VectorOrder,                \* the documents by similarity to the query
    TextOrders,                 \* ... by keywords: each order tried
    WeightChoices,              \* what the policy may say
    MaxTraces, MaxUpsets

Kinds == {"search", "recall", "explain"}
Request == [kind: Kinds, mode: Modes, k: Nat, limited: BOOLEAN, budget: Nat]
TraceIds == 1..MaxTraces

ASSUME RecallAssumption ==
    /\ Requests \subseteq {r \in Request : r.kind # "explain"}
    /\ IsFiniteSet(Callers) /\ TenantOf \in [Callers -> Tenants]
    /\ Owner \in Tenants /\ "none" \notin Tenants
    /\ \A o \in TextOrders \cup {VectorOrder} : IsOrder(o)
    /\ WeightChoices \subseteq Weights
    /\ MaxTraces \in Nat /\ MaxUpsets \in Nat

VARIABLES
    index,      \* documents in the vector and in the full-text index
    textOrder,
    policy,     \* search_weights of the tenant
    records,    \* documents whose record is in the repository
    traces,     \* memory_traces: tenant and steps of each trace id, or NoRow
    minted,     \* trace ids given out
    pc, req,
    weights,    \* of the call's plan
    pending,    \* indexes the gather still waits for
    fetched,    \* their ranked lists
    found,      \* items of the search result
    items,      \* items of the recall result
    status,     \* of the recall result
    trace,      \* the id in the recall's items, or the one to explain
    shown,      \* record_available of its steps so far
    heard,      \* events of the call
    seen,       \* history: documents that were in an index during the call
    steady,     \* history: documents the vector index had all the time
    upsets

stores == <<index, textOrder, policy, records, traces>>
plan == <<req, weights>>
result == <<found, items, status>>
explaining == <<trace, shown>>
history == <<seen, steady>>
vars == <<stores, minted, pc, plan, pending, fetched, result, explaining, heard, history, upsets>>

NoRow == [tenant |-> "none", steps |-> <<>>]
Phase == {"idle", "policy", "embed", "fetch", "recalled", "no match", "trace", "record",
          "answered", "refused", "missing"}
Silent == [recalled |-> -1, noMatch |-> FALSE]
Idle == [kind |-> "search", mode |-> "SEMANTIC", k |-> 0, limited |-> FALSE, budget |-> 0]
NoLists == [x \in Indexes |-> <<>>]

TypeOK ==
    /\ index \in [{"VECTOR", "FULL_TEXT"} -> SUBSET Documents]
    /\ textOrder \in TextOrders
    /\ policy \in Weights
    /\ records \subseteq Documents
    /\ traces \in [TraceIds -> [tenant: Tenants \cup {"none"}, steps: Seq(Documents)]]
    /\ minted \in 0..MaxTraces
    /\ pc \in [Callers -> Phase]
    /\ req \in [Callers -> Request]
    /\ weights \in [Callers -> Weights]
    /\ pending \in [Callers -> SUBSET Indexes]
    /\ fetched \in [Callers -> [Indexes -> Seq(Documents)]]
    /\ found \in [Callers -> Seq(Documents)]
    /\ items \in [Callers -> Seq(Documents)]
    /\ status \in [Callers -> {"none", "MATCH", "PARTIAL_MATCH", "NO_MATCH"}]
    /\ trace \in [Callers -> 0..MaxTraces]
    /\ shown \in [Callers -> Seq(BOOLEAN)]
    /\ heard \in [Callers -> [recalled: Nat \cup {-1}, noMatch: BOOLEAN]]
    /\ seen \in [Callers -> SUBSET Documents]
    /\ steady \in [Callers -> SUBSET Documents]
    /\ upsets \in 0..MaxUpsets

Init ==
    /\ index \in [{"VECTOR", "FULL_TEXT"} -> SUBSET Documents]
    /\ textOrder \in TextOrders
    /\ policy \in WeightChoices
    /\ records = Documents
    /\ traces = [t \in TraceIds |-> NoRow]
    /\ minted = 0
    /\ pc = [c \in Callers |-> "idle"]
    /\ req = [c \in Callers |-> Idle]
    /\ weights = [c \in Callers |-> [x \in Indexes |-> 0]]
    /\ pending = [c \in Callers |-> {}]
    /\ fetched = [c \in Callers |-> NoLists]
    /\ found = [c \in Callers |-> <<>>]
    /\ items = [c \in Callers |-> <<>>]
    /\ status = [c \in Callers |-> "none"]
    /\ trace = [c \in Callers |-> 0]
    /\ shown = [c \in Callers |-> <<>>]
    /\ heard = [c \in Callers |-> Silent]
    /\ seen = [c \in Callers |-> {}]
    /\ steady = [c \in Callers |-> {}]
    /\ upsets = 0

-----------------------------------------------------------------------------
(* Beginning and ending a call *)

To(c, phase) == pc' = [pc EXCEPT ![c] = phase]

\* The call is over and its answer, if any, taken.
Forget(c) ==
    /\ To(c, "idle")
    /\ req' = [req EXCEPT ![c] = Idle]
    /\ weights' = [weights EXCEPT ![c] = [x \in Indexes |-> 0]]
    /\ pending' = [pending EXCEPT ![c] = {}]
    /\ fetched' = [fetched EXCEPT ![c] = NoLists]
    /\ found' = [found EXCEPT ![c] = <<>>]
    /\ items' = [items EXCEPT ![c] = <<>>]
    /\ status' = [status EXCEPT ![c] = "none"]
    /\ trace' = [trace EXCEPT ![c] = 0]
    /\ shown' = [shown EXCEPT ![c] = <<>>]
    /\ heard' = [heard EXCEPT ![c] = Silent]
    /\ seen' = [seen EXCEPT ![c] = {}]
    /\ steady' = [steady EXCEPT ![c] = {}]

Running(c) == pc[c] \notin {"idle", "answered", "refused", "missing"}

\* A search or a recall under way.
OfIndexes(c) == Running(c) /\ req[c].kind # "explain"

Leave(c) ==
    /\ pc[c] \in {"answered", "refused", "missing"}
    /\ Forget(c)
    /\ UNCHANGED <<stores, minted, upsets>>

\* The bound on trace ids: a recall mints two.
IdsLeft == minted + 2 * Cardinality({c \in Callers : OfIndexes(c)}) + 2 <= MaxTraces

\* SearchMemoryService.execute, RecallMemoryService.execute.
Call(c, r) ==
    /\ pc[c] = "idle" /\ TenantOf[c] = Owner /\ IdsLeft
    /\ To(c, "policy")
    /\ req' = [req EXCEPT ![c] = r]
    /\ seen' = [seen EXCEPT ![c] = index["VECTOR"] \cup index["FULL_TEXT"]]
    /\ steady' = [steady EXCEPT ![c] = index["VECTOR"]]
    /\ UNCHANGED <<stores, minted, weights, pending, fetched, result, explaining, heard, upsets>>

-----------------------------------------------------------------------------
(* SearchMemoryService and RetrievalService *)

Awaited(mode) == Fetched(mode)

\* policy_repo.get and the plan.  No graph is available, so GRAPH raises.
Plan(c) ==
    LET mode == req[c].mode IN
    /\ pc[c] = "policy"
    /\ weights' = [weights EXCEPT ![c] = policy]
    /\ \/ "GRAPH" \in Targets(mode) /\ To(c, "refused") /\ UNCHANGED pending
       \/ /\ "GRAPH" \notin Targets(mode)
          /\ To(c, IF "VECTOR" \in Targets(mode) THEN "embed" ELSE "fetch")
          /\ pending' = [pending EXCEPT ![c] = Awaited(mode)]
    /\ UNCHANGED <<stores, minted, req, fetched, result, explaining, heard, history, upsets>>

\* embed(query): the queries start only after it.
Embed(c) ==
    /\ pc[c] = "embed"
    /\ To(c, "fetch")
    /\ UNCHANGED <<stores, minted, plan, pending, fetched, result, explaining, heard, history,
                   upsets>>

\* One of the gathered queries reads its index.
Query(c, x) ==
    LET order == IF x = "VECTOR" THEN VectorOrder ELSE textOrder IN
    /\ pc[c] = "fetch" /\ x \in pending[c] \cap DOMAIN index
    /\ fetched' = [fetched EXCEPT ![c][x] = Cut(InOrder(index[x], order), Candidates(req[c].k))]
    /\ pending' = [pending EXCEPT ![c] = @ \ {x}]
    /\ UNCHANGED <<stores, minted, pc, plan, result, explaining, heard, history, upsets>>

Ranking(c) == Merged(req[c].mode, fetched[c]["VECTOR"], fetched[c]["FULL_TEXT"], weights[c])

\* The gather is complete: merge, cut, and emit(MemoryRecalled), whatever was
\* found.  A search returns.
Search(c) ==
    LET top == Cut(Ranking(c), FinalK(req[c].k)) IN
    /\ pc[c] = "fetch" /\ pending[c] = {}
    /\ found' = [found EXCEPT ![c] = top]
    /\ heard' = [heard EXCEPT ![c].recalled = Len(top)]
    /\ minted' = minted + 1
    /\ To(c, IF req[c].kind = "search" THEN "answered" ELSE "recalled")
    /\ UNCHANGED <<stores, plan, pending, fetched, items, status, explaining, history, upsets>>

-----------------------------------------------------------------------------
(* RecallMemoryService, after its search *)

\* Slip: the word of AuditOutcome.
Partial(n, shortlist) == IF n = 0 THEN "NO_MATCH"
                         ELSE IF n < Len(shortlist) THEN "PARTIAL" ELSE "MATCH"

\* n of the items fit.
Outcome(n, shortlist) ==
    CASE n = 0 -> "NO_MATCH"
      [] n > 0 /\ n < Len(shortlist) -> "PARTIAL_MATCH"
      [] n > 0 /\ n = Len(shortlist) -> "MATCH"

\* Slip: also told of a recall that the budget only shortened.
TellsShortened(c, n) == n < Len(found[c])

TellsNoMatch(c, n) == n = 0

\* Items are taken in order until one does not fit.  Without any, the
\* result goes out after emit(RecallNoMatch).
Recollect(c) ==
    LET shortlist == Cut(found[c], req[c].k)
        n == IF req[c].limited THEN Fitting(shortlist, req[c].budget) ELSE Len(shortlist)
    IN
    /\ pc[c] = "recalled"
    /\ items' = [items EXCEPT ![c] = Cut(shortlist, n)]
    /\ status' = [status EXCEPT ![c] = Outcome(n, shortlist)]
    /\ \/ found[c] = <<>> /\ UNCHANGED <<minted, trace>>
       \/ /\ found[c] # <<>>
          /\ minted' = minted + 1
          /\ trace' = [trace EXCEPT ![c] = minted + 1]
    /\ To(c, IF TellsNoMatch(c, n) THEN "no match" ELSE "answered")
    /\ UNCHANGED <<stores, plan, pending, fetched, found, shown, heard, history, upsets>>

EmitNoMatch(c) ==
    /\ pc[c] = "no match"
    /\ heard' = [heard EXCEPT ![c].noMatch = TRUE]
    /\ To(c, "answered")
    /\ UNCHANGED <<stores, minted, plan, pending, fetched, result, explaining, history, upsets>>

-----------------------------------------------------------------------------
(* Traces *)

\* TraceRepository.save of a recall's answer: the first row of an id stays.
SaveTrace(c) ==
    LET t == trace[c] IN
    /\ pc[c] = "answered" /\ req[c].kind = "recall" /\ items[c] # <<>>
    /\ traces[t] = NoRow
    /\ traces' = [traces EXCEPT ![t] = [tenant |-> Owner, steps |-> items[c]]]
    /\ UNCHANGED <<index, textOrder, policy, records, minted, pc, plan, pending, fetched, result,
                   explaining, heard, history, upsets>>

\* ExplainRecallService.execute.
Explain(c, t) ==
    /\ pc[c] = "idle" /\ t \in 1..minted
    /\ To(c, "trace")
    /\ req' = [req EXCEPT ![c].kind = "explain"]
    /\ trace' = [trace EXCEPT ![c] = t]
    /\ seen' = [seen EXCEPT ![c] = records]
    /\ steady' = [steady EXCEPT ![c] = records]
    /\ UNCHANGED <<stores, minted, weights, pending, fetched, result, shown, heard, upsets>>

\* Slip: the WHERE of get_by_trace_id without the tenant.
RowOfAnyone(c) == traces[trace[c]] # NoRow

RowVisible(c) == traces[trace[c]].tenant = TenantOf[c]

\* get_by_trace_id, or MemoryNotFoundError.
LoadTrace(c) ==
    /\ pc[c] = "trace"
    /\ \/ ~RowVisible(c) /\ To(c, "missing") /\ UNCHANGED items
       \/ /\ RowVisible(c)
          /\ items' = [items EXCEPT ![c] = traces[trace[c]].steps]
          /\ To(c, "record")
    /\ UNCHANGED <<stores, minted, plan, pending, fetched, found, status, explaining, heard,
                   history, upsets>>

\* get_by_id for the next step of the trace.
LoadRecord(c) ==
    LET n == Len(shown[c]) + 1 IN
    /\ pc[c] = "record"
    /\ shown' = [shown EXCEPT ![c] = Append(@, items[c][n] \in records)]
    /\ To(c, IF n = Len(items[c]) THEN "answered" ELSE "record")
    /\ UNCHANGED <<stores, minted, plan, pending, fetched, result, trace, heard, history, upsets>>

-----------------------------------------------------------------------------
(* From outside *)

Upset == upsets < MaxUpsets /\ upsets' = upsets + 1

\* A document enters or leaves an index.
IndexChanges(x, d) ==
    /\ Upset
    /\ \/ /\ d \notin index[x]
          /\ index' = [index EXCEPT ![x] = @ \cup {d}]
          /\ seen' = [c \in Callers |-> IF OfIndexes(c) THEN seen[c] \cup {d} ELSE seen[c]]
          /\ UNCHANGED steady
       \/ /\ d \in index[x]
          /\ index' = [index EXCEPT ![x] = @ \ {d}]
          /\ steady' = [c \in Callers |-> IF OfIndexes(c) /\ x = "VECTOR" THEN steady[c] \ {d}
                                         ELSE steady[c]]
          /\ UNCHANGED seen
    /\ UNCHANGED <<textOrder, policy, records, traces, minted, pc, plan, pending, fetched, result,
                   explaining, heard>>

\* The record of a document is removed; src has no operation that does.
RecordGone(d) ==
    /\ Upset
    /\ d \in records
    /\ records' = records \ {d}
    /\ steady' = [c \in Callers |-> IF pc[c] \in {"trace", "record"} THEN steady[c] \ {d}
                                   ELSE steady[c]]
    /\ UNCHANGED <<index, textOrder, policy, traces, minted, pc, plan, pending, fetched, result,
                   explaining, heard, seen>>

\* TenantPolicyRepository.save.
SavePolicy ==
    /\ Upset
    /\ policy' \in WeightChoices \ {policy}
    /\ UNCHANGED <<index, textOrder, records, traces, minted, pc, plan, pending, fetched, result,
                   explaining, heard, history>>

\* An await raises: the policies, the embedding, one of the queries (the gather
\* passes it on and drops the other), an observer, a repository.
Fails(c) ==
    /\ Running(c)
    /\ Upset
    /\ Forget(c)
    /\ UNCHANGED <<stores, minted>>

Step(c) ==
    \/ Plan(c) \/ Embed(c) \/ Search(c) \/ Recollect(c) \/ EmitNoMatch(c)
    \/ \E x \in Indexes : Query(c, x)
    \/ LoadTrace(c) \/ LoadRecord(c)

Next ==
    \/ \E c \in Callers :
          \/ \E r \in Requests : Call(c, r)
          \/ \E t \in TraceIds : Explain(c, t)
          \/ Step(c) \/ Leave(c) \/ SaveTrace(c) \/ Fails(c)
    \/ \E d \in Documents :
          \/ \E x \in DOMAIN index : IndexChanges(x, d)
          \/ RecordGone(d)
    \/ SavePolicy

Spec == Init /\ [][Next]_vars

-----------------------------------------------------------------------------
(* Properties *)

Answered(c, kind) == pc[c] = "answered" /\ req[c].kind = kind
Answers == {c \in Callers : pc[c] = "answered"}
Recalls == {c \in Callers : Answered(c, "recall")}
Searches == {c \in Callers : Answered(c, "search")} \cup Recalls

\* What both lists rank higher is ranked higher in the result, whatever the weights:
\* d comes before e when each list that has e has d before it.
EvidenceRules ==
    \A c \in Searches :
        LET lists == {fetched[c][x] : x \in Awaited(req[c].mode)}
            better(d, e) == \A l \in lists :
                e \in Ranked(l) => d \in Ranked(l) /\ RankOf(l, d) < RankOf(l, e)
        IN \A p, q \in DOMAIN found[c] : p < q => ~better(found[c][q], found[c][p])

\* A document that was in the vector index during all of the call is left out only
\* for as many others as were asked for; and nothing comes back that was in
\* neither index, or twice.
NothingLost ==
    \A c \in Searches :
        /\ Ranked(found[c]) \subseteq seen[c]
        /\ Cardinality(Ranked(found[c])) = Len(found[c])
        /\ "VECTOR" \in Targets(req[c].mode) /\ ~(steady[c] \subseteq Ranked(found[c]))
              => Len(found[c]) = FinalK(req[c].k)

\* A recall returns the best items, in order, as many as its limits allow and no
\* more, and its status says whether something was left out for the budget.
BudgetHonest ==
    \A c \in Recalls :
        LET n == Len(items[c])
            m == AtMost(req[c].k, Len(found[c]))
        IN
        /\ items[c] = Cut(found[c], n) /\ n <= m
        /\ req[c].limited => Total(items[c])[n] <= req[c].budget
        /\ n < m => Total(found[c])[n + 1] > req[c].budget
        /\ status[c] = "MATCH" <=> n = m /\ n > 0
        /\ status[c] = "NO_MATCH" <=> n = 0

\* What a search or a recall hands out.
Returned(c) == IF req[c].kind = "recall" THEN items[c] ELSE found[c]

\* Observers hear of every search and recall that returns results, counted before
\* the budget; of every recall that found nothing that it did, and of none with
\* items; and of a refused call nothing.
ObserversKnow ==
    \A c \in Callers :
        /\ c \in Searches /\ Returned(c) # <<>> => heard[c].recalled = Len(found[c])
        /\ c \in Recalls /\ found[c] = <<>> => heard[c].noMatch
        /\ c \in Recalls /\ heard[c].noMatch => items[c] = <<>>
        /\ pc[c] = "refused" => heard[c] = Silent

\* An explanation shows the items of the recall it belongs to, to its own tenant
\* alone, and says of each truthfully whether its record is still there.
ExplanationTrue ==
    \A c \in Callers : Answered(c, "explain") =>
        /\ TenantOf[c] = traces[trace[c]].tenant
        /\ items[c] = traces[trace[c]].steps
        /\ Len(shown[c]) = Len(items[c])
        /\ \A n \in DOMAIN items[c] :
              /\ shown[c][n] => items[c][n] \in seen[c]
              /\ items[c][n] \in steady[c] => shown[c][n]
=============================================================================
