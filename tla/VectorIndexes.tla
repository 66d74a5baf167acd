---------------------------- MODULE VectorIndexes ----------------------------
(***************************************************************************)
(* The three vector indexes behind VectorIndexPort, under calls that run   *)
(* side by side: ChromaVectorIndex, QdrantVectorIndex, PgvectorVectorIndex.*)
(*                                                                         *)
(* Chroma works in threads, one collection per tenant prefix and embedding *)
(* model, and splits a search into count and query and a delete into get   *)
(* and delete.  Qdrant keeps a collection per tenant, made for the vectors *)
(* of the first document.  pgvector is one table.                          *)
(*                                                                         *)
(* A document is its id, tenant, model and lifecycle state; its vector and *)
(* payload go with the id.  A smaller id is nearer to every query, and the *)
(* approximate search of HNSW is taken to be exact.  Ids are the UUIDs of  *)
(* WriteMemoryService: a document has one tenant ever, but a call may name *)
(* any tenant with it.                                                     *)
(*                                                                         *)
(* Bound: MaxUpsets calls that fail or are cancelled, and restarts.        *)
(***************************************************************************)
EXTENDS Integers, FiniteSets

CONSTANTS
    Tenants, Models, Callers,
    M,                      \* documents are numbered by nearness
    TenantOf,               \* of each document
    PrefixOf,               \* the first eight characters of each tenant's id
    DimensionsOf,           \* of each model's vectors
    TableDimensions,        \* of the pgvector column
    K,                      \* how many results a search asks for
    Requests,               \* what calls are made with
    MaxUpsets

Ids == 1..M
Prefixes == {PrefixOf[t] : t \in Tenants}

States == {"ACTIVE", "DECAYED"}
Kinds == {"upsert", "search", "delete"}

\* named: the filters of a search name the embedding model.
Op == [kind: Kinds, id: Ids, tenant: Tenants, model: Models, state: States, named: BOOLEAN]

ASSUME VectorAssumption ==
    /\ M \in Nat \ {0} /\ K \in Nat \ {0} /\ MaxUpsets \in Nat
    /\ TenantOf \in [Ids -> Tenants]
    /\ PrefixOf \in [Tenants -> Prefixes]
    /\ DimensionsOf \in [Models -> Nat]
    /\ Models # {} /\ Models \cap {"__unknown__", "any"} = {}
    /\ Requests \subseteq Op
    /\ \A o \in Requests : o.kind = "upsert" => o.tenant = TenantOf[o.id]

VARIABLES
    backend,        \* "chroma", "qdrant" or "pgvector"
    collections,    \* that exist
    docs,           \* what they hold, or the table
    ensured,        \* the adapter's cache of collections it has opened
    pc,             \* where each call stands
    op,             \* what it was called with
    counted,        \* Chroma's count
    todo,           \* collections a delete has still to look at
    answer,         \* documents a finished search returned
    sure,           \* history: what the answers given so far say of each id
    calm,           \* history: calls no other call on the id has overlapped
    must,           \* history: documents a search in flight has to come across
    swallowed,      \* history: ids whose delete the server refused, unreported
    upsets

call == <<pc, op, counted, todo, answer>>
history == <<sure, calm, must, swallowed>>
vars == <<backend, collections, docs, ensured, call, history, upsets>>

\* Chroma: owner is a prefix; Qdrant: a tenant, and model the one it was made
\* for; pgvector has its table.  "__unknown__" is the model of a search whose
\* filters name none.
Collection == [owner: Prefixes \cup Tenants \cup {"table"},
               model: Models \cup {"__unknown__", "any"}]
Doc == [in: Collection, id: Ids, tenant: Tenants, model: Models, state: States]
Phase == {"idle", "open", "put", "count", "query", "collections", "get", "remove",
          "create", "answered"}
\* What is known of a document: the model and state of its last upsert, or that
\* it is gone, or nothing.
Gone == <<"any", "none">>
Unsure == <<"any", "unsure">>
Known == {Gone, Unsure} \cup (Models \X States)

TypeOK ==
    /\ backend \in {"chroma", "qdrant", "pgvector"}
    /\ collections \subseteq Collection
    /\ docs \subseteq Doc
    /\ ensured \subseteq Collection
    /\ pc \in [Callers -> Phase]
    /\ op \in [Callers -> Op]
    /\ counted \in [Callers -> Nat]
    /\ todo \in [Callers -> SUBSET Collection]
    /\ answer \in [Callers -> SUBSET Doc]
    /\ sure \in [Ids -> Known]
    /\ calm \in [Callers -> BOOLEAN]
    /\ must \in [Callers -> SUBSET Ids]
    /\ swallowed \subseteq Ids
    /\ upsets \in 0..MaxUpsets

\* What an idle caller's op is.
Nothing == [kind |-> "search", id |-> 1,
            tenant |-> CHOOSE t \in Tenants : TRUE, model |-> CHOOSE x \in Models : TRUE,
            state |-> "ACTIVE", named |-> TRUE]

Init ==
    /\ backend \in {"chroma", "qdrant", "pgvector"}
    /\ collections = {} /\ docs = {} /\ ensured = {}
    /\ pc = [c \in Callers |-> "idle"]
    /\ op = [c \in Callers |-> Nothing]
    /\ counted = [c \in Callers |-> 0]
    /\ todo = [c \in Callers |-> {}]
    /\ answer = [c \in Callers |-> {}]
    /\ sure = [i \in Ids |-> Gone]
    /\ calm = [c \in Callers |-> TRUE]
    /\ must = [c \in Callers |-> {}]
    /\ swallowed = {}
    /\ upsets = 0

-----------------------------------------------------------------------------
(* Collections and what a search may return *)

\* _collection_name of Chroma: distinct tenants may share a prefix.
ChromaCollection(o) ==
    [owner |-> PrefixOf[o.tenant],
     model |-> IF o.kind = "search" /\ ~o.named THEN "__unknown__" ELSE o.model]

\* _collection_name of Qdrant, and the collection of that name.
QdrantCollections(o) == {x \in collections : x.owner = o.tenant}

Table == [owner |-> "table", model |-> "any"]

\* Slip: _build_chroma_where without the tenant.
ChromaAnyone(d, o) == TRUE

\* _build_chroma_where: no state, no sector unless the filters name one.
ChromaWhere(d, o) == d.tenant = o.tenant

\* _DEFAULT_LIFECYCLE_STATES.
LiveState(d) == d.state = "ACTIVE"

PgvectorWhere(d, o) == d.tenant = o.tenant /\ LiveState(d)

\* ORDER BY distance LIMIT k, of documents with distinct ids.
Nearest(S, k) == {d \in S : Cardinality({e \in S : e.id < d.id}) < k}

AtMost(a, b) == IF a < b THEN a ELSE b

\* Upsert: insert, or replace what has the same key.
Upserted(d) ==
    {e \in docs : ~(e.in = d.in /\ e.id = d.id /\ (backend = "pgvector" => e.tenant = d.tenant))}
        \cup {d}

DocOf(o, x) == [in |-> x, id |-> o.id, tenant |-> o.tenant, model |-> o.model, state |-> o.state]

-----------------------------------------------------------------------------
(* Beginning and ending a call *)

InFlight(c) == pc[c] \notin {"idle", "answered"}
Changes(o) == o.kind \in {"upsert", "delete"} /\ o.tenant = TenantOf[o.id]
Rivals(c, o) == {d \in Callers \ {c} : InFlight(d) /\ Changes(op[d]) /\ op[d].id = o.id}

\* Documents a search that starts now has to come across.
Findable(o) ==
    {i \in Ids : /\ TenantOf[i] = o.tenant
                 /\ sure[i] = <<o.model, "ACTIVE">>
                 /\ backend = "chroma" => o.named
                 /\ backend = "qdrant" => \A x \in QdrantCollections(o) :
                                              DimensionsOf[x.model] = DimensionsOf[o.model]}

\* On Chroma all of a call runs in one thread; on Qdrant an upsert ensures the
\* collection first.
FirstPhase(o) ==
    CASE backend = "chroma" /\ o.kind # "delete" -> "open"
      [] backend = "chroma" /\ o.kind = "delete" -> "collections"
      [] backend = "qdrant" /\ o.kind = "upsert" -> "open"
      [] backend = "pgvector" /\ o.kind = "upsert" -> "put"
      [] backend # "chroma" /\ o.kind = "search" -> "query"
      [] backend # "chroma" /\ o.kind = "delete" -> "remove"

Call(c, o) ==
    /\ pc[c] = "idle"
    /\ op' = [op EXCEPT ![c] = o]
    /\ pc' = [pc EXCEPT ![c] = FirstPhase(o)]
    /\ calm' = [d \in Callers |->
                  CASE d = c -> Rivals(c, o) = {}
                    [] d # c -> calm[d] /\ ~(Changes(o) /\ d \in Rivals(c, o))]
    /\ sure' = IF Changes(o) THEN [sure EXCEPT ![o.id] = Unsure] ELSE sure
    /\ swallowed' = IF Changes(o) THEN swallowed \ {o.id} ELSE swallowed
    /\ must' = [d \in Callers |->
                  CASE d = c -> IF o.kind = "search" THEN Findable(o) ELSE {}
                    [] d # c -> IF Changes(o) THEN must[d] \ {o.id} ELSE must[d]]
    /\ UNCHANGED <<backend, collections, docs, ensured, counted, todo, answer, upsets>>

To(c, phase) ==
    /\ pc' = [pc EXCEPT ![c] = phase]
    /\ UNCHANGED <<op, counted, todo, answer>>

\* The call is over, whatever its end.
Over(c) ==
    /\ pc' = [pc EXCEPT ![c] = "idle"]
    /\ op' = [op EXCEPT ![c] = Nothing]
    /\ counted' = [counted EXCEPT ![c] = 0]
    /\ todo' = [todo EXCEPT ![c] = {}]
    /\ answer' = [answer EXCEPT ![c] = {}]

\* upsert and delete return to a caller who knows what that means.
Done(c) ==
    /\ Over(c)
    /\ sure' = IF calm[c] /\ Changes(op[c])
               THEN [sure EXCEPT ![op[c].id] = IF op[c].kind = "upsert"
                                               THEN <<op[c].model, op[c].state>> ELSE Gone]
               ELSE sure
    /\ must' = [must EXCEPT ![c] = {}]
    /\ UNCHANGED calm

\* search returns.
Answer(c, found) ==
    /\ pc' = [pc EXCEPT ![c] = "answered"]
    /\ answer' = [answer EXCEPT ![c] = found]
    /\ UNCHANGED <<op, counted, todo>>

Raises(c) ==
    /\ Over(c)
    /\ must' = [must EXCEPT ![c] = {}]
    /\ UNCHANGED <<sure, calm>>

\* The caller is through with its results.
Leave(c) ==
    /\ pc[c] = "answered"
    /\ Raises(c)
    /\ UNCHANGED <<backend, collections, docs, ensured, swallowed, upsets>>

-----------------------------------------------------------------------------
(* ChromaVectorIndex: each step is a call of the client in the thread *)

\* _get_collection: get_or_create, unless it is cached.
ChromaOpen(c) ==
    LET x == ChromaCollection(op[c]) IN
    /\ backend = "chroma" /\ pc[c] = "open"
    /\ collections' = IF x \in ensured THEN collections ELSE collections \cup {x}
    /\ ensured' = ensured \cup {x}
    /\ To(c, IF op[c].kind = "upsert" THEN "put" ELSE "count")
    /\ UNCHANGED <<backend, docs, history, upsets>>

ChromaPut(c) ==
    /\ backend = "chroma" /\ pc[c] = "put"
    /\ docs' = Upserted(DocOf(op[c], ChromaCollection(op[c])))
    /\ Done(c)
    /\ UNCHANGED <<backend, collections, ensured, swallowed, upsets>>

In(x) == {d \in docs : d.in = x}

\* Slip: the count is one short.
OneShort(o) == Cardinality(In(ChromaCollection(o))) - 1

\* collection.count(), of all the tenants in it.
Count(o) == Cardinality(In(ChromaCollection(o)))

ChromaCount(c) ==
    LET n == AtMost(K, Count(op[c])) IN
    /\ backend = "chroma" /\ pc[c] = "count"
    /\ \/ n <= 0 /\ Answer(c, {})
       \/ /\ n > 0
          /\ counted' = [counted EXCEPT ![c] = n]
          /\ pc' = [pc EXCEPT ![c] = "query"]
          /\ UNCHANGED <<op, todo, answer>>
    /\ UNCHANGED <<backend, collections, docs, ensured, history, upsets>>

ChromaQuery(c) ==
    /\ backend = "chroma" /\ pc[c] = "query"
    /\ Answer(c, Nearest({d \in In(ChromaCollection(op[c])) : ChromaWhere(d, op[c])},
                         counted[c]))
    /\ UNCHANGED <<backend, collections, docs, ensured, history, upsets>>

\* Slip: a delete looks through the cached collections only.
CachedOnly(o) == {x \in ensured : x.owner = PrefixOf[o.tenant]}

\* list_collections, those with the tenant's prefix.
OfPrefix(o) == {x \in collections : x.owner = PrefixOf[o.tenant]}

ChromaCollections(c) ==
    /\ backend = "chroma" /\ pc[c] = "collections"
    /\ IF OfPrefix(op[c]) = {}
       THEN Done(c)
       ELSE /\ todo' = [todo EXCEPT ![c] = OfPrefix(op[c])]
            /\ pc' = [pc EXCEPT ![c] = "get"]
            /\ UNCHANGED <<op, counted, answer, sure, calm, must>>
    /\ UNCHANGED <<backend, collections, docs, ensured, swallowed, upsets>>

Looked(c, x) == [todo EXCEPT ![c] = @ \ {x}]

\* On with the next collection, or the return.
NextCollection(c, x) ==
    IF todo[c] = {x}
    THEN Done(c)
    ELSE /\ pc' = [pc EXCEPT ![c] = "get"]
         /\ todo' = Looked(c, x)
         /\ UNCHANGED <<op, counted, answer, sure, calm, must>>

\* The collection a delete is at.
AtCollection(c) == CHOOSE x \in todo[c] : TRUE

\* collection.get with the tenant in its where.
TenantHas(o, x) == \E d \in In(x) : d.id = o.id /\ d.tenant = o.tenant

ChromaGet(c) ==
    LET x == AtCollection(c) IN
    /\ backend = "chroma" /\ pc[c] = "get"
    /\ IF TenantHas(op[c], x)
       THEN To(c, "remove") /\ UNCHANGED <<sure, calm, must>>
       ELSE NextCollection(c, x)
    /\ UNCHANGED <<backend, collections, docs, ensured, swallowed, upsets>>

\* collection.delete, by id alone.
ChromaRemove(c) ==
    LET x == AtCollection(c) IN
    /\ backend = "chroma" /\ pc[c] = "remove"
    /\ docs' = {d \in docs : ~(d.in = x /\ d.id = op[c].id)}
    /\ NextCollection(c, x)
    /\ UNCHANGED <<backend, collections, ensured, swallowed, upsets>>

-----------------------------------------------------------------------------
(* QdrantVectorIndex: each step is a request *)

\* The collection a call finds under the tenant's name.
Exists(o) == QdrantCollections(o) # {}
Own(o) == CHOOSE x \in QdrantCollections(o) : TRUE
Fits(o) == DimensionsOf[Own(o).model] = DimensionsOf[o.model]
CachedFor(o) == \E x \in ensured : x.owner = o.tenant

\* _ensure_collection up to get_collections.
QdrantOpen(c) ==
    /\ backend = "qdrant" /\ pc[c] = "open"
    /\ ensured' = ensured \cup QdrantCollections(op[c])
    /\ To(c, IF CachedFor(op[c]) \/ Exists(op[c]) THEN "put" ELSE "create")
    /\ UNCHANGED <<backend, collections, docs, history, upsets>>

\* The server refuses to create what is there.
CreateRefused(o) == Exists(o)

\* create_collection: the loser of a race raises, and has cached nothing.
QdrantCreate(c) ==
    LET x == [owner |-> op[c].tenant, model |-> op[c].model] IN
    /\ backend = "qdrant" /\ pc[c] = "create"
    /\ \/ /\ CreateRefused(op[c])
          /\ Raises(c)
          /\ UNCHANGED <<collections, ensured>>
       \/ /\ ~CreateRefused(op[c])
          /\ collections' = collections \cup {x}
          /\ ensured' = ensured \cup {x}
          /\ To(c, "put")
          /\ UNCHANGED <<sure, calm, must>>
    /\ UNCHANGED <<backend, docs, swallowed, upsets>>

\* Vectors of another size than the collection's are refused.
QdrantPut(c) ==
    /\ backend = "qdrant" /\ pc[c] = "put"
    /\ \/ Exists(op[c]) /\ Fits(op[c]) /\ docs' = Upserted(DocOf(op[c], Own(op[c]))) /\ Done(c)
       \/ ~(Exists(op[c]) /\ Fits(op[c])) /\ Raises(c) /\ UNCHANGED docs
    /\ UNCHANGED <<backend, collections, ensured, swallowed, upsets>>

\* A refusal is taken for a missing collection: no results.
QdrantQuery(c) ==
    /\ backend = "qdrant" /\ pc[c] = "query"
    /\ Answer(c, IF Exists(op[c]) /\ Fits(op[c])
                 THEN Nearest({d \in In(Own(op[c])) : LiveState(d)}, K) ELSE {})
    /\ UNCHANGED <<backend, collections, docs, ensured, history, upsets>>

\* A missing collection has nothing to delete.
QdrantRemove(c) ==
    /\ backend = "qdrant" /\ pc[c] = "remove"
    /\ docs' = {d \in docs : ~(d.in.owner = op[c].tenant /\ d.id = op[c].id)}
    /\ Done(c)
    /\ UNCHANGED <<backend, collections, ensured, swallowed, upsets>>

-----------------------------------------------------------------------------
(* PgvectorVectorIndex: each step is a statement *)

PgvectorPut(c) ==
    /\ backend = "pgvector" /\ pc[c] = "put"
    /\ \/ /\ DimensionsOf[op[c].model] = TableDimensions
          /\ docs' = Upserted(DocOf(op[c], Table))
          /\ Done(c)
       \/ /\ DimensionsOf[op[c].model] # TableDimensions
          /\ Raises(c)
          /\ UNCHANGED docs
    /\ UNCHANGED <<backend, collections, ensured, swallowed, upsets>>

\* Distances to vectors of another size raise, when there are any to compute.
PgvectorQuery(c) ==
    LET rows == {d \in docs : PgvectorWhere(d, op[c])}
        fits == DimensionsOf[op[c].model] = TableDimensions
    IN
    /\ backend = "pgvector" /\ pc[c] = "query"
    /\ \/ (fits \/ rows = {}) /\ Answer(c, Nearest(rows, K)) /\ UNCHANGED <<sure, calm, must>>
       \/ ~fits /\ docs # {} /\ Raises(c)
    /\ UNCHANGED <<backend, collections, docs, ensured, swallowed, upsets>>

PgvectorRemove(c) ==
    /\ backend = "pgvector" /\ pc[c] = "remove"
    /\ docs' = {d \in docs : ~(d.id = op[c].id /\ d.tenant = op[c].tenant)}
    /\ Done(c)
    /\ UNCHANGED <<backend, collections, ensured, swallowed, upsets>>

-----------------------------------------------------------------------------
(* Failures *)

Upset == upsets < MaxUpsets /\ upsets' = upsets + 1

\* A step raises and does nothing.
StepRaises(c) ==
    /\ InFlight(c) /\ Upset
    /\ Raises(c)
    /\ UNCHANGED <<backend, collections, docs, ensured, swallowed>>

\* The answer to a request or a statement is lost, or the await is cancelled:
\* what it asked for is done.
AnswerLost(c) ==
    /\ backend # "chroma"
    /\ Upset
    /\ \/ /\ pc[c] = "put"
          /\ backend = "qdrant" => Exists(op[c]) /\ Fits(op[c])
          /\ backend = "pgvector" => DimensionsOf[op[c].model] = TableDimensions
          /\ docs' = Upserted(DocOf(op[c], IF backend = "qdrant" THEN Own(op[c]) ELSE Table))
          /\ UNCHANGED collections
       \/ /\ pc[c] = "remove"
          /\ docs' = {d \in docs : ~(d.id = op[c].id /\ d.tenant = op[c].tenant)}
          /\ UNCHANGED collections
       \/ /\ pc[c] = "create" /\ ~CreateRefused(op[c])
          /\ collections' = collections \cup {[owner |-> op[c].tenant, model |-> op[c].model]}
          /\ UNCHANGED docs
    /\ Raises(c)
    /\ UNCHANGED <<backend, ensured, swallowed>>

\* The await of to_thread is cancelled: the caller is told nothing, and the
\* thread goes on.
Cancel(c) ==
    /\ backend = "chroma" /\ InFlight(c) /\ op[c].kind # "search"
    /\ Upset
    /\ calm' = [calm EXCEPT ![c] = FALSE]
    /\ UNCHANGED <<backend, collections, docs, ensured, call, sure, must, swallowed>>

\* The server answers a search or a delete with an error: Qdrant's adapter takes
\* it for a missing collection.
ServerRefuses(c) ==
    /\ backend = "qdrant"
    /\ Upset
    /\ \/ /\ pc[c] = "query"
          /\ Answer(c, {})
          /\ must' = [must EXCEPT ![c] = {}]
          /\ UNCHANGED <<sure, calm, swallowed>>
       \/ /\ pc[c] = "remove"
          /\ Done(c)
          /\ swallowed' = IF Changes(op[c]) THEN swallowed \cup {op[c].id} ELSE swallowed
    /\ UNCHANGED <<backend, collections, docs, ensured>>

\* The process goes down, threads and all; what is stored stays.
Restart ==
    /\ Upset
    /\ ensured' = {}
    /\ pc' = [c \in Callers |-> "idle"]
    /\ op' = [c \in Callers |-> Nothing]
    /\ counted' = [c \in Callers |-> 0]
    /\ todo' = [c \in Callers |-> {}]
    /\ answer' = [c \in Callers |-> {}]
    /\ calm' = [c \in Callers |-> TRUE]
    /\ must' = [c \in Callers |-> {}]
    /\ UNCHANGED <<backend, collections, docs, sure, swallowed>>

ChromaStep(c) ==
    \/ ChromaOpen(c) \/ ChromaPut(c) \/ ChromaCount(c) \/ ChromaQuery(c)
    \/ ChromaCollections(c) \/ ChromaGet(c) \/ ChromaRemove(c)
QdrantStep(c) ==
    \/ QdrantOpen(c) \/ QdrantCreate(c) \/ QdrantPut(c) \/ QdrantQuery(c) \/ QdrantRemove(c)
PgvectorStep(c) == PgvectorPut(c) \/ PgvectorQuery(c) \/ PgvectorRemove(c)

Next ==
    \/ \E c \in Callers :
          \/ \E o \in Requests : Call(c, o)
          \/ ChromaStep(c) \/ QdrantStep(c) \/ PgvectorStep(c)
          \/ Leave(c)
          \/ StepRaises(c) \/ AnswerLost(c) \/ Cancel(c) \/ ServerRefuses(c)
    \/ Restart

Spec == Init /\ [][Next]_vars

-----------------------------------------------------------------------------
(* Properties *)

\* No search returns another tenant's document, also where two tenants share a
\* Chroma collection or the table.
ResultsIsolated ==
    \A c \in Callers : \A d \in answer[c] : d.tenant = op[c].tenant

\* What callers were told is so: a document whose upsert returned is there, in
\* its state and no other; one whose delete returned is gone from every
\* collection, unless Qdrant's adapter swallowed a refusal.  A call of another
\* tenant changes nothing about it.  Calls on one document that overlap, raise
\* or are cancelled leave it open.
AnswersTrue ==
    \A i \in Ids :
        /\ sure[i] = Gone => i \in swallowed \/ \A d \in docs : d.id # i
        /\ \A x \in Models, s \in States :
              sure[i] = <<x, s>> =>
                  /\ \E d \in docs : d.id = i /\ d.tenant = TenantOf[i] /\ d.model = x
                  /\ \A d \in docs : d.id = i /\ d.model = x => d.state = s

\* A search returns the active documents that were there all the time it took, or K
\* documents, and leaves out only what is farther than all it returns, also when
\* documents come and go between Chroma's count and its query.
SearchComplete ==
    \A c \in Callers : pc[c] = "answered" =>
        /\ Cardinality(answer[c]) >= AtMost(K, Cardinality(must[c]))
        /\ \A i \in must[c] \ {d.id : d \in answer[c]} : \A d \in answer[c] : d.id < i
=============================================================================
