-------------------------- MODULE VectorIndexesProofs --------------------------
(***************************************************************************)
(* What holds of the vector indexes for any tenants, models, callers and   *)
(* upsets: types, the isolation of results, the truth of answers and the   *)
(* completeness of searches.                                               *)
(*                                                                         *)
(* AnswersTrue rests on three things: every document is where its adapter  *)
(* puts documents of its tenant and model (Home); a call in flight that    *)
(* changes a document leaves what is known of it open (Placed); and of two *)
(* such calls neither is calm, so that none speaks for the other (Rivalry).*)
(* SearchComplete rests on AnswersTrue: what a search has to come across   *)
(* stays known to be there until it is answered (Due).                     *)
(***************************************************************************)
EXTENDS VectorIndexes, FiniteSetTheorems, TLAPS

LEMMA ConstantFacts ==
    /\ Nothing \in Op /\ Nothing.kind = "search"
    /\ TenantOf \in [Ids -> Tenants] /\ PrefixOf \in [Tenants -> Prefixes]
    /\ Gone \in Known /\ Unsure \in Known /\ Gone # Unsure
    /\ \A x \in Models, s \in States :
          <<x, s>> \in Known /\ <<x, s>> # Gone /\ <<x, s>> # Unsure
<1>1. 1 \in Ids /\ TenantOf \in [Ids -> Tenants] /\ Models # {}
  BY VectorAssumption DEF Ids
<1>2. (CHOOSE t \in Tenants : TRUE) \in Tenants /\ (CHOOSE x \in Models : TRUE) \in Models
  BY <1>1
<1>3. Nothing \in Op /\ Nothing.kind = "search"
  BY <1>1, <1>2 DEF Nothing, Op, Kinds, States
<1>4. PrefixOf \in [Tenants -> Prefixes]
  BY VectorAssumption
<1>5. Gone \in Known /\ Unsure \in Known /\ Gone # Unsure
  BY DEF Gone, Unsure, Known
<1>6. \A x \in Models, s \in States :
         <<x, s>> \in Known /\ <<x, s>> # Gone /\ <<x, s>> # Unsure
  BY DEF Gone, Unsure, Known, States
<1> QED
  BY <1>1, <1>3, <1>4, <1>5, <1>6

-----------------------------------------------------------------------------
(* The invariant *)

\* A document is where its adapter keeps documents of its tenant and model.
Home(d) ==
    /\ d.tenant = TenantOf[d.id]
    /\ backend = "chroma" =>
          /\ d.in \in collections
          /\ d.in = [owner |-> PrefixOf[d.tenant], model |-> d.model]
    /\ backend = "qdrant" => d.in \in collections /\ d.in.owner = d.tenant
    /\ backend = "pgvector" => d.in = Table

Stored ==
    /\ IsFiniteSet(docs)
    /\ \A d \in docs : Home(d)
    /\ backend = "chroma" => ensured \subseteq collections
    /\ backend = "qdrant" => \A x, y \in collections : x.owner = y.owner => x = y

\* What is behind a call, given where it stands.
Placed(c) ==
    /\ pc[c] = "put" => op[c].kind = "upsert"
    /\ pc[c] = "open" /\ backend = "qdrant" => op[c].kind = "upsert"
    /\ pc[c] = "create" => op[c].kind = "upsert" /\ backend = "qdrant"
    /\ pc[c] \in {"collections", "get", "remove"} => op[c].kind = "delete"
    /\ op[c].kind = "upsert" => op[c].tenant = TenantOf[op[c].id]
    /\ backend = "chroma" /\ pc[c] = "put" => ChromaCollection(op[c]) \in collections
    /\ backend = "chroma" /\ pc[c] \in {"get", "remove"} => todo[c] # {}
    /\ backend = "chroma" /\ pc[c] = "remove" => Changes(op[c])
    /\ pc[c] # "answered" => answer[c] = {}
    /\ \A d \in answer[c] : d.tenant = op[c].tenant
    /\ InFlight(c) /\ Changes(op[c]) => sure[op[c].id] = Unsure

\* A calm delete on Chroma has left the document nowhere behind it.
Ahead(c) ==
    backend = "chroma" /\ pc[c] \in {"get", "remove"} /\ calm[c] /\ Changes(op[c]) =>
        \A d \in docs : d.id = op[c].id => d.in \in todo[c]

Rivalry ==
    \A c, d \in Callers :
        /\ c # d /\ InFlight(c) /\ InFlight(d)
        /\ Changes(op[c]) /\ Changes(op[d]) /\ op[c].id = op[d].id
        => ~calm[c]

\* The part of AnswersTrue that is about i.
Told(i) ==
    /\ sure[i] = Gone => i \in swallowed \/ \A d \in docs : d.id # i
    /\ \A x \in Models, s \in States :
          sure[i] = <<x, s>> =>
              /\ \E d \in docs : d.id = i /\ d.tenant = TenantOf[i] /\ d.model = x
              /\ \A d \in docs : d.id = i /\ d.model = x => d.state = s

VInv ==
    /\ TypeOK
    /\ Stored
    /\ \A c \in Callers : Placed(c) /\ Ahead(c)
    /\ Rivalry
    /\ \A i \in Ids : Told(i)

LEMMA InitVInv == Init => VInv
<1> SUFFICES ASSUME Init PROVE VInv
  OBVIOUS
<1>1. TypeOK
  BY ConstantFacts, VectorAssumption DEF Init, TypeOK, Phase
<1>2. Stored
  BY FS_EmptySet DEF Init, Stored
<1>3. \A c \in Callers : Placed(c) /\ Ahead(c)
  BY ConstantFacts DEF Init, Placed, Ahead, InFlight
<1>4. Rivalry
  BY DEF Init, Rivalry, InFlight
<1>5. \A i \in Ids : Told(i)
  BY ConstantFacts DEF Init, Told
<1> QED
  BY <1>1, <1>2, <1>3, <1>4, <1>5 DEF VInv

-----------------------------------------------------------------------------
(* What a step of one call leaves alone *)

Alone(c) ==
    \A d \in Callers \ {c} :
        /\ pc'[d] = pc[d] /\ op'[d] = op[d]
        /\ todo'[d] = todo[d] /\ answer'[d] = answer[d]
        /\ calm'[d] = calm[d]

\* Only documents of the call's id change, and only if the call changes any.
Touches(c) ==
    \/ docs' = docs
    \/ /\ InFlight(c) /\ Changes(op[c])
       /\ \A e \in docs \cup docs' : e.id # op[c].id => (e \in docs <=> e \in docs')

\* What is known changes with a return of a calm call only, and is so then.
Says(c) ==
    \/ sure' = sure
    \/ /\ InFlight(c) /\ Changes(op[c]) /\ calm[c] /\ pc'[c] = "idle"
       /\ \A i \in Ids : IF i = op[c].id THEN Told(i)' ELSE sure'[i] = sure[i]

Moves(c) ==
    /\ Alone(c) /\ Touches(c) /\ Says(c)
    /\ swallowed \subseteq swallowed'
    /\ backend' = backend /\ collections \subseteq collections'
    /\ InFlight(c)' => InFlight(c) /\ op'[c] = op[c]
    /\ calm'[c] => calm[c]

LEMMA OthersStayPlaced ==
    ASSUME VInv, NEW c \in Callers, Moves(c), NEW d \in Callers, d # c
    PROVE  Placed(d)' /\ Ahead(d)'
<1>1. /\ pc'[d] = pc[d] /\ op'[d] = op[d] /\ todo'[d] = todo[d] /\ answer'[d] = answer[d]
      /\ calm'[d] = calm[d] /\ backend' = backend /\ collections \subseteq collections'
  BY DEF Moves, Alone
<1>2. Placed(d) /\ Ahead(d) /\ op[d].id \in Ids
  BY DEF VInv, TypeOK, Op
<1>3. ASSUME InFlight(c), InFlight(d), Changes(op[c]), Changes(op[d]), op[c].id = op[d].id
      PROVE  ~calm[c] /\ ~calm[d]
  BY <1>3 DEF VInv, Rivalry
<1>4. ASSUME InFlight(d), Changes(op[d]) PROVE sure'[op[d].id] = Unsure
  <2>1. sure[op[d].id] = Unsure
    BY <1>2, <1>4 DEF Placed
  <2>2. CASE sure' = sure
    BY <2>1, <2>2
  <2>3. CASE sure' # sure
    <3>1. InFlight(c) /\ Changes(op[c]) /\ calm[c]
          /\ \A i \in Ids \ {op[c].id} : sure'[i] = sure[i]
      BY <2>3 DEF Moves, Says
    <3>2. op[d].id # op[c].id
      BY <1>3, <1>4, <3>1
    <3> QED
      BY <1>2, <2>1, <3>1, <3>2
  <2> QED
    BY <2>2, <2>3
<1>5. Placed(d)'
  <2>1. backend = "chroma" /\ pc[d] = "put" => ChromaCollection(op[d])' \in collections'
    BY <1>1, <1>2 DEF Placed, ChromaCollection
  <2>2. (InFlight(d) <=> InFlight(d)') /\ (Changes(op[d]) <=> Changes(op[d])')
    BY <1>1 DEF InFlight, Changes
  <2> HIDE DEF Changes, InFlight, ChromaCollection
  <2> QED
    BY <1>1, <1>2, <1>4, <2>1, <2>2 DEF Placed
<1>6. ASSUME backend = "chroma", pc[d] \in {"get", "remove"}, calm[d], Changes(op[d]),
             NEW e \in docs', e.id = op[d].id
      PROVE  e \in docs
  <2>1. InFlight(d)
    BY <1>6 DEF InFlight
  <2>2. ~(InFlight(c) /\ Changes(op[c]) /\ op[c].id = op[d].id)
    BY <1>3, <1>6, <2>1
  <2> QED
    BY <1>6, <2>2 DEF Moves, Touches
<1>7. Ahead(d)'
  BY <1>1, <1>2, <1>6 DEF Ahead
<1> QED
  BY <1>5, <1>7

LEMMA AnswersStayTrue ==
    ASSUME VInv, NEW c \in Callers, Moves(c), NEW i \in Ids
    PROVE  Told(i)'
<1>1. CASE sure' # sure /\ i = op[c].id
  BY <1>1 DEF Moves, Says
<1>2. CASE sure' = sure \/ i # op[c].id
  <2>1. sure'[i] = sure[i] /\ Told(i) /\ swallowed \subseteq swallowed'
    <3>1. Says(c) /\ swallowed \subseteq swallowed'
      BY DEF Moves
    <3>2. sure'[i] = sure[i]
      BY <1>2, <3>1 DEF Says
    <3>3. Told(i)
      BY DEF VInv
    <3> QED
      BY <3>1, <3>2, <3>3
  <2>2. CASE sure[i] = Unsure
    BY <2>1, <2>2, ConstantFacts DEF Told
  <2>3. CASE sure[i] # Unsure
    <3>1. ~(InFlight(c) /\ Changes(op[c]) /\ op[c].id = i)
      BY <2>3 DEF VInv, Placed
    <3>2. \A e \in docs \cup docs' : e.id = i => (e \in docs <=> e \in docs')
      BY <3>1 DEF Moves, Touches
    <3> QED
      BY <2>1, <3>2 DEF Told
  <2> QED
    BY <2>2, <2>3
<1> QED
  BY <1>1, <1>2

LEMMA StepKeeps ==
    ASSUME VInv, NEW c \in Callers, Moves(c), TypeOK', Stored', Placed(c)', Ahead(c)'
    PROVE  VInv'
<1>1. \A d \in Callers : Placed(d)' /\ Ahead(d)'
  BY OthersStayPlaced
<1>2. Rivalry'
  <2>1. \A d \in Callers : /\ InFlight(d)' => InFlight(d) /\ op'[d] = op[d]
                           /\ calm'[d] => calm[d]
    BY DEF Moves, Alone, InFlight
  <2>2. Rivalry
    BY DEF VInv
  <2> QED
    BY <2>1, <2>2 DEF Rivalry
<1>3. \A i \in Ids : Told(i)'
  BY AnswersStayTrue
<1> QED
  BY <1>1, <1>2, <1>3 DEF VInv

-----------------------------------------------------------------------------
(* The ends of a call, and its going on *)

CallTyped ==
    /\ pc \in [Callers -> Phase]
    /\ op \in [Callers -> Op]
    /\ counted \in [Callers -> Nat]
    /\ todo \in [Callers -> SUBSET Collection]
    /\ answer \in [Callers -> SUBSET Doc]

StoreTyped ==
    /\ backend \in {"chroma", "qdrant", "pgvector"}
    /\ collections \subseteq Collection /\ ensured \subseteq Collection
    /\ docs \subseteq Doc
    /\ swallowed \subseteq Ids
    /\ upsets \in 0..MaxUpsets

\* The step is taken with these: what is stored keeps its order.
Keeps(c) ==
    /\ StoreTyped' /\ Stored' /\ Touches(c)
    /\ swallowed \subseteq swallowed'
    /\ backend' = backend /\ collections \subseteq collections'

LEMMA IdlePlaced ==
    ASSUME NEW c \in Callers, pc'[c] = "idle", op'[c] = Nothing, answer'[c] = {}
    PROVE  Placed(c)' /\ Ahead(c)'
  BY ConstantFacts DEF Placed, Ahead, InFlight

LEMMA OverFacts ==
    ASSUME TypeOK, NEW c \in Callers, Over(c), calm' = calm
    PROVE  /\ CallTyped' /\ Alone(c) /\ pc'[c] = "idle"
           /\ Placed(c)' /\ Ahead(c)'
<1>1. CallTyped'
  BY ConstantFacts DEF TypeOK, Over, CallTyped, Phase
<1>2. Alone(c)
  BY DEF TypeOK, Over, Alone
<1>3. pc'[c] = "idle" /\ op'[c] = Nothing /\ answer'[c] = {}
  BY DEF TypeOK, Over
<1> QED
  BY <1>1, <1>2, <1>3, IdlePlaced

LEMMA RaisesKeeps ==
    ASSUME VInv, NEW c \in Callers, Raises(c), Keeps(c)
    PROVE  VInv'
<1>1. CallTyped' /\ Alone(c) /\ pc'[c] = "idle" /\ Placed(c)' /\ Ahead(c)'
  BY OverFacts DEF VInv, Raises
<1>2. TypeOK'
  BY <1>1 DEF VInv, TypeOK, Raises, Keeps, StoreTyped, CallTyped
<1>3. Moves(c)
  BY <1>1 DEF Moves, Says, Keeps, Raises, InFlight
<1> QED
  BY <1>1, <1>2, <1>3, StepKeeps DEF Keeps

\* A calm call returns: what it was for is so.
LEMMA DoneKeeps ==
    ASSUME VInv, NEW c \in Callers, Done(c), Keeps(c), InFlight(c),
           NEW i, i = op[c].id,
           calm[c] /\ op[c].kind = "upsert" =>
              /\ \E d \in docs' : d.id = i /\ d.tenant = TenantOf[i] /\ d.model = op[c].model
              /\ \A d \in docs' : d.id = i /\ d.model = op[c].model => d.state = op[c].state,
           calm[c] /\ Changes(op[c]) /\ op[c].kind = "delete" =>
              i \in swallowed' \/ \A d \in docs' : d.id # i
    PROVE  VInv'
<1>1. CallTyped' /\ Alone(c) /\ pc'[c] = "idle" /\ Placed(c)' /\ Ahead(c)'
  BY OverFacts DEF VInv, Done
<1>2. op[c] \in Op /\ op[c].id \in Ids /\ op[c].model \in Models /\ op[c].state \in States
  BY DEF VInv, TypeOK, Op
<1>3. sure' \in [Ids -> Known]
  BY <1>2, ConstantFacts DEF VInv, TypeOK, Done
<1>4. TypeOK'
  BY <1>1, <1>3 DEF VInv, TypeOK, Done, Keeps, StoreTyped, CallTyped
<1>5. Says(c)
  <2>1. CASE ~(calm[c] /\ Changes(op[c]))
    BY <2>1 DEF Done, Says
  <2>2. CASE calm[c] /\ Changes(op[c])
    <3>1. \A j \in Ids \ {i} : sure'[j] = sure[j]
      BY <2>2 DEF Done, VInv, TypeOK
    <3>2. sure'[i] = IF op[c].kind = "upsert" THEN <<op[c].model, op[c].state>> ELSE Gone
      BY <2>2, <1>2 DEF Done, VInv, TypeOK
    <3>3. CASE op[c].kind = "upsert"
      <4>1. \A x \in Models, t \in States :
               sure'[i] = <<x, t>> => x = op[c].model /\ t = op[c].state
        BY <3>2, <3>3
      <4>2. sure'[i] # Gone
        BY <3>2, <3>3, <1>2, ConstantFacts
      <4> QED
        BY <4>1, <4>2, <3>1, <3>3, <2>2, <1>1, <1>2 DEF Says, Told
    <3>4. CASE op[c].kind # "upsert"
      <4>1. op[c].kind = "delete"
        BY <2>2, <3>4 DEF Changes
      <4>2. \A x \in Models, t \in States : sure'[i] # <<x, t>>
        BY <3>2, <3>4, ConstantFacts
      <4> QED
        BY <4>1, <4>2, <3>1, <2>2, <1>1, <1>2 DEF Says, Told
    <3> QED
      BY <3>3, <3>4
  <2> QED
    BY <2>1, <2>2
<1>6. Moves(c)
  BY <1>1, <1>5 DEF Moves, Keeps, Done, InFlight
<1> QED
  BY <1>1, <1>4, <1>6, StepKeeps DEF Keeps

LEMMA AnswerKeeps ==
    ASSUME VInv, NEW c \in Callers, NEW found \in SUBSET docs, Answer(c, found), Keeps(c),
           pc[c] \in {"count", "query"},
           \A d \in found : d.tenant = op[c].tenant,
           sure' = sure, calm' = calm, must' \in [Callers -> SUBSET Ids]
    PROVE  VInv'
<1>1. CallTyped' /\ Alone(c) /\ op'[c] = op[c]
      /\ pc'[c] = "answered" /\ answer'[c] = found
  BY DEF VInv, TypeOK, Answer, CallTyped, Alone, Phase
<1>2. TypeOK'
  BY <1>1 DEF VInv, TypeOK, Keeps, StoreTyped, CallTyped
<1>3. Moves(c)
  BY <1>1 DEF Moves, Says, Keeps, InFlight
<1>4. Placed(c)' /\ Ahead(c)'
  BY <1>1 DEF VInv, Placed, Ahead, InFlight
<1> QED
  BY <1>2, <1>3, <1>4, StepKeeps DEF Keeps

\* A call goes on to its next step.
LEMMA GoesOnKeeps ==
    ASSUME VInv, NEW c \in Callers, InFlight(c), NEW phase \in Phase,
           pc' = [pc EXCEPT ![c] = phase], phase \notin {"idle", "answered"},
           op' = op, answer' = answer, counted' \in [Callers -> Nat],
           todo' \in [Callers -> SUBSET Collection],
           \A d \in Callers \ {c} : todo'[d] = todo[d],
           sure' = sure, calm' = calm, must' = must, Keeps(c),
           phase = "put" => op[c].kind = "upsert",
           phase = "open" /\ backend = "qdrant" => op[c].kind = "upsert",
           phase = "create" => op[c].kind = "upsert" /\ backend = "qdrant",
           phase \in {"collections", "get", "remove"} => op[c].kind = "delete",
           backend = "chroma" /\ phase = "put" => ChromaCollection(op[c]) \in collections',
           backend = "chroma" /\ phase \in {"get", "remove"} => todo'[c] # {},
           backend = "chroma" /\ phase = "remove" => Changes(op[c]),
           backend = "chroma" /\ phase \in {"get", "remove"} /\ calm[c] /\ Changes(op[c]) =>
              \A d \in docs' : d.id = op[c].id => d.in \in todo'[c]
    PROVE  VInv'
<1>1. CallTyped' /\ Alone(c) /\ op'[c] = op[c] /\ pc'[c] = phase /\ answer'[c] = answer[c]
  BY DEF VInv, TypeOK, CallTyped, Alone
<1>2. TypeOK'
  BY <1>1 DEF VInv, TypeOK, Keeps, StoreTyped, CallTyped
<1>3. Moves(c)
  BY <1>1 DEF Moves, Says, Keeps, InFlight
<1>4. backend' = backend /\ InFlight(c)' /\ Placed(c)
  BY <1>1 DEF Keeps, InFlight, VInv
<1>5. pc[c] # "answered"
  BY DEF InFlight
<1>6. ChromaCollection(op[c])' = ChromaCollection(op[c]) /\ (Changes(op[c])' <=> Changes(op[c]))
  BY <1>1 DEF ChromaCollection, Changes
<1>7. Placed(c)'
  <2> HIDE DEF ChromaCollection, Changes
  <2> QED
    BY <1>1, <1>4, <1>5, <1>6 DEF Placed
<1>8. Ahead(c)'
  BY <1>1, <1>4, <1>6 DEF Ahead
<1> QED
  BY <1>2, <1>3, <1>7, <1>8, StepKeeps DEF Keeps

-----------------------------------------------------------------------------
(* What happens to the store *)

LEMMA SameDocs ==
    ASSUME VInv, NEW c \in Callers, docs' = docs, backend' = backend,
           swallowed \subseteq swallowed', swallowed' \subseteq Ids, upsets' \in 0..MaxUpsets,
           collections \subseteq collections', collections' \subseteq Collection,
           ensured' \subseteq Collection,
           backend = "chroma" => ensured' \subseteq collections',
           backend = "qdrant" => \A x, y \in collections' : x.owner = y.owner => x = y
    PROVE  Keeps(c)
<1>1. Stored'
  BY DEF VInv, Stored, Home
<1> QED
  BY <1>1 DEF Keeps, StoreTyped, Touches, VInv, TypeOK

LEMMA NothingStored ==
    ASSUME VInv, NEW c \in Callers,
           UNCHANGED <<backend, collections, docs, ensured, swallowed>>,
           upsets' \in 0..MaxUpsets
    PROVE  Keeps(c)
<1>1. backend = "chroma" => ensured \subseteq collections
  BY DEF VInv, Stored
<1>2. backend = "qdrant" => \A x, y \in collections : x.owner = y.owner => x = y
  BY DEF VInv, Stored
<1> QED
  BY <1>1, <1>2, SameDocs DEF VInv, TypeOK

\* An upsert leaves one document of its id and model.
LEMMA UpsertKeeps ==
    ASSUME VInv, NEW c \in Callers, InFlight(c), Changes(op[c]),
           NEW d \in Doc, d.id = op[c].id, Home(d), docs' = Upserted(d),
           UNCHANGED <<backend, collections, ensured, swallowed>>, upsets' \in 0..MaxUpsets
    PROVE  /\ Keeps(c)
           /\ d \in docs'
           /\ \A e \in docs' : e.id = d.id /\ e.model = d.model => e = d
<1>1. docs' \subseteq docs \cup {d} /\ d \in docs'
      /\ \A e \in docs \cup docs' : e.id # d.id => (e \in docs <=> e \in docs')
  BY DEF Upserted
<1>2. docs \subseteq Doc /\ IsFiniteSet(docs) /\ \A e \in docs : Home(e)
  BY DEF VInv, TypeOK, Stored
<1>3. IsFiniteSet(docs')
  BY <1>1, <1>2, FS_AddElement, FS_Subset
<1>4. \A e \in docs' : Home(e)'
  BY <1>1, <1>2 DEF Home
<1>5. Stored'
  BY <1>3, <1>4 DEF VInv, Stored
<1>6. StoreTyped'
  BY <1>1, <1>2 DEF StoreTyped, VInv, TypeOK
<1>7. Keeps(c)
  BY <1>1, <1>5, <1>6 DEF Keeps, Touches
<1>8. ASSUME NEW e \in docs, e.id = d.id, e.model = d.model
      PROVE  e.in = d.in /\ e.tenant = d.tenant
  <2>1. Home(e) /\ e.tenant = d.tenant
    BY <1>2, <1>8 DEF Home
  <2>2. CASE backend = "chroma"
    BY <2>1, <2>2, <1>8 DEF Home
  <2>3. CASE backend = "qdrant"
    <3>1. e.in \in collections /\ d.in \in collections /\ e.in.owner = d.in.owner
      BY <2>1, <2>3 DEF Home
    <3> QED
      BY <2>1, <2>3, <3>1 DEF VInv, Stored
  <2>4. CASE backend = "pgvector"
    BY <2>1, <2>4 DEF Home
  <2> QED
    BY <2>1, <2>2, <2>3, <2>4 DEF VInv, TypeOK
<1>9. \A e \in docs' : e.id = d.id /\ e.model = d.model => e = d
  BY <1>8 DEF Upserted
<1> QED
  BY <1>1, <1>7, <1>9

LEMMA RemoveKeeps ==
    ASSUME VInv, NEW c \in Callers, docs' \subseteq docs,
           docs' # docs => InFlight(c) /\ Changes(op[c]),
           \A e \in docs : e.id # op[c].id => e \in docs',
           UNCHANGED <<backend, collections, ensured>>,
           swallowed \subseteq swallowed', swallowed' \subseteq Ids,
           upsets' \in 0..MaxUpsets
    PROVE  Keeps(c)
<1>1. Stored'
  BY FS_Subset DEF VInv, Stored, Home
<1>2. Touches(c)
  BY DEF Touches
<1>3. StoreTyped'
  BY DEF StoreTyped, VInv, TypeOK
<1> QED
  BY <1>1, <1>2, <1>3 DEF Keeps

LEMMA OpFacts ==
    ASSUME TypeOK, NEW c \in Callers
    PROVE  /\ op[c] \in Op /\ op[c].id \in Ids /\ op[c].tenant \in Tenants
           /\ op[c].model \in Models /\ op[c].state \in States /\ op[c].kind \in Kinds
           /\ PrefixOf[op[c].tenant] \in Prefixes
  BY ConstantFacts DEF TypeOK, Op

\* What an upsert puts where is a document at home there.
LEMMA NewDocFacts ==
    ASSUME VInv, NEW c \in Callers, op[c].kind = "upsert", Placed(c),
           NEW x \in Collection,
           backend = "chroma" => x = ChromaCollection(op[c]) /\ x \in collections,
           backend = "qdrant" => x \in collections /\ x.owner = op[c].tenant,
           backend = "pgvector" => x = Table,
           NEW d, d = DocOf(op[c], x)
    PROVE  /\ d \in Doc /\ Home(d) /\ Changes(op[c])
           /\ d.id = op[c].id /\ d.tenant = TenantOf[op[c].id]
           /\ d.model = op[c].model /\ d.state = op[c].state
<1>1. op[c].tenant = TenantOf[op[c].id]
  BY DEF Placed
<1>2. /\ d.id = op[c].id /\ d.tenant = op[c].tenant /\ d.in = x
      /\ d.model = op[c].model /\ d.state = op[c].state
  BY DEF DocOf
<1>3. d \in Doc
  BY OpFacts DEF DocOf, Doc, VInv
<1>4. Home(d)
  BY <1>1, <1>2 DEF Home, ChromaCollection
<1> QED
  BY <1>1, <1>2, <1>3, <1>4 DEF Changes

\* An upsert that returns.
LEMMA PutKeeps ==
    ASSUME VInv, NEW c \in Callers, pc[c] = "put", NEW x \in Collection,
           backend = "chroma" => x = ChromaCollection(op[c]) /\ x \in collections,
           backend = "qdrant" => x \in collections /\ x.owner = op[c].tenant,
           backend = "pgvector" => x = Table,
           docs' = Upserted(DocOf(op[c], x)),
           UNCHANGED <<backend, collections, ensured, swallowed>>, upsets' \in 0..MaxUpsets,
           Done(c) \/ Raises(c)
    PROVE  VInv'
<1>1. op[c].kind = "upsert" /\ Placed(c) /\ InFlight(c)
  BY DEF VInv, Placed, InFlight
<1>2. PICK d : d = DocOf(op[c], x)
  OBVIOUS
<1>3. /\ d \in Doc /\ Home(d) /\ Changes(op[c])
      /\ d.id = op[c].id /\ d.tenant = TenantOf[op[c].id]
      /\ d.model = op[c].model /\ d.state = op[c].state
  BY <1>1, <1>2, NewDocFacts
<1>4. /\ Keeps(c) /\ d \in docs'
      /\ \A e \in docs' : e.id = d.id /\ e.model = d.model => e = d
  BY <1>1, <1>2, <1>3, UpsertKeeps
<1>5. CASE Raises(c)
  BY <1>4, <1>5, RaisesKeeps
<1>6. CASE Done(c)
  BY <1>1, <1>3, <1>4, <1>6, DoneKeeps
<1> QED
  BY <1>5, <1>6

-----------------------------------------------------------------------------
(* Calls begin *)

LEMMA FirstPhaseFacts ==
    ASSUME TypeOK, NEW o \in Op
    PROVE  /\ FirstPhase(o) \in {"open", "collections", "put", "query", "remove"}
           /\ FirstPhase(o) = "put" => o.kind = "upsert" /\ backend # "chroma"
           /\ FirstPhase(o) = "open" /\ backend = "qdrant" => o.kind = "upsert"
           /\ FirstPhase(o) \in {"collections", "remove"} => o.kind = "delete"
           /\ FirstPhase(o) = "remove" => backend # "chroma"
  BY DEF FirstPhase, TypeOK, Op, Kinds

LEMMA CallKeeps ==
    ASSUME VInv, NEW c \in Callers, NEW o \in Requests, Call(c, o)
    PROVE  VInv'
<1>1. /\ o \in Op /\ o.id \in Ids
      /\ o.kind = "upsert" => o.tenant = TenantOf[o.id]
  BY VectorAssumption DEF Op
<1>2. /\ pc[c] = "idle" /\ op' = [op EXCEPT ![c] = o] /\ pc' = [pc EXCEPT ![c] = FirstPhase(o)]
      /\ UNCHANGED <<backend, collections, docs, ensured, counted, todo, answer, upsets>>
  BY DEF Call
<1>3. /\ FirstPhase(o) \in {"open", "collections", "put", "query", "remove"}
      /\ FirstPhase(o) = "put" => o.kind = "upsert" /\ backend # "chroma"
      /\ FirstPhase(o) = "open" /\ backend = "qdrant" => o.kind = "upsert"
      /\ FirstPhase(o) \in {"collections", "remove"} => o.kind = "delete"
      /\ FirstPhase(o) = "remove" => backend # "chroma"
  BY <1>1, FirstPhaseFacts DEF VInv
<1>4. /\ pc'[c] = FirstPhase(o) /\ op'[c] = o
      /\ \A d \in Callers \ {c} : pc'[d] = pc[d] /\ op'[d] = op[d]
  BY <1>2 DEF VInv, TypeOK
<1>5. /\ \A i \in Ids : sure'[i] = sure[i] \/ sure'[i] = Unsure
      /\ Changes(o) => sure'[o.id] = Unsure
      /\ \A i \in Ids : i # o.id \/ ~Changes(o) => (i \in swallowed <=> i \in swallowed')
      /\ sure' \in [Ids -> Known]
  BY <1>1, ConstantFacts DEF Call, VInv, TypeOK
<1>6. /\ calm'[c] = (Rivals(c, o) = {})
      /\ \A d \in Callers \ {c} : calm'[d] = (calm[d] /\ ~(Changes(o) /\ d \in Rivals(c, o)))
  BY DEF Call
<1>7. TypeOK'
  <2>1. pc' \in [Callers -> Phase] /\ op' \in [Callers -> Op]
    BY <1>1, <1>2, <1>3 DEF VInv, TypeOK, Phase
  <2>2. must' \in [Callers -> SUBSET Ids]
    BY DEF Call, VInv, TypeOK, Findable
  <2>3. calm' \in [Callers -> BOOLEAN]
    BY <1>6 DEF Call, VInv, TypeOK
  <2>4. swallowed' \subseteq Ids
    BY DEF Call, VInv, TypeOK
  <2> QED
    BY <1>2, <1>5, <2>1, <2>2, <2>3, <2>4 DEF VInv, TypeOK
<1>8. Stored'
  BY <1>2 DEF VInv, Stored, Home
<1>9. ASSUME NEW d \in Callers PROVE Placed(d)' /\ Ahead(d)'
  <2>1. Placed(d) /\ Ahead(d) /\ op[d].id \in Ids /\ answer'[d] = answer[d] /\ todo'[d] = todo[d]
        /\ backend' = backend
    BY <1>2, OpFacts DEF VInv
  <2>2. CASE d = c
    <3>1. answer'[c] = {}
      BY <1>2, <2>1, <2>2 DEF Placed
    <3>2. Placed(c)'
      BY <3>1, <2>1, <1>1, <1>3, <1>4, <1>5 DEF Placed
    <3>3. Ahead(c)'
      BY <2>1, <1>3, <1>4 DEF Ahead
    <3> QED
      BY <2>2, <3>2, <3>3
  <2>3. CASE d # c
    <3>1. pc'[d] = pc[d] /\ op'[d] = op[d] /\ (calm'[d] => calm[d])
      BY <1>4, <1>6, <2>3
    <3>2. InFlight(d) /\ Changes(op[d]) => sure'[op[d].id] = Unsure
      BY <1>5, <2>1 DEF Placed
    <3>3. ChromaCollection(op[d])' = ChromaCollection(op[d]) /\ (Changes(op[d])' <=> Changes(op[d]))
      BY <3>1 DEF ChromaCollection, Changes
    <3>4. (InFlight(d))' <=> InFlight(d)
      BY <3>1 DEF InFlight
    <3>5. Placed(d)'
      <4> HIDE DEF ChromaCollection, Changes, InFlight
      <4> QED
        BY <1>2, <2>1, <3>1, <3>2, <3>3, <3>4 DEF Placed
    <3>6. Ahead(d)'
      BY <1>2, <2>1, <3>1, <3>3 DEF Ahead
    <3> QED
      BY <3>5, <3>6
  <2> QED
    BY <2>2, <2>3
<1>10. Rivalry'
  <2> SUFFICES ASSUME NEW a \in Callers, NEW b \in Callers, a # b,
                      InFlight(a)', InFlight(b)', Changes(op[a])', Changes(op[b])',
                      op'[a].id = op'[b].id
               PROVE  ~calm'[a]
    BY DEF Rivalry
  <2>1. CASE a = c
    <3>1. b \in Rivals(c, o)
      BY <1>4, <2>1 DEF Rivals, InFlight, Changes
    <3> QED
      BY <1>6, <2>1, <3>1
  <2>2. CASE b = c
    <3>1. a \in Rivals(c, o) /\ Changes(o)
      BY <1>4, <2>2 DEF Rivals, InFlight, Changes
    <3> QED
      BY <1>6, <2>2, <3>1
  <2>3. CASE a # c /\ b # c
    <3>1. InFlight(a) /\ InFlight(b) /\ Changes(op[a]) /\ Changes(op[b]) /\ op[a].id = op[b].id
      BY <1>4, <2>3 DEF InFlight, Changes
    <3>2. ~calm[a]
      BY <3>1 DEF VInv, Rivalry
    <3> QED
      BY <1>6, <2>3, <3>2
  <2> QED
    BY <2>1, <2>2, <2>3
<1>11. ASSUME NEW i \in Ids PROVE Told(i)'
  <2>1. Told(i) /\ docs' = docs
    BY <1>2 DEF VInv
  <2>2. CASE sure'[i] = Unsure
    BY <2>2, ConstantFacts DEF Told
  <2>3. CASE sure'[i] # Unsure
    <3>1. sure'[i] = sure[i] /\ (i \in swallowed <=> i \in swallowed')
      BY <1>5, <2>3
    <3> QED
      BY <2>1, <3>1 DEF Told
  <2> QED
    BY <2>2, <2>3
<1> QED
  BY <1>7, <1>8, <1>9, <1>10, <1>11 DEF VInv

LEMMA LeaveKeeps ==
    ASSUME VInv, NEW c \in Callers, Leave(c)
    PROVE  VInv'
<1>1. Keeps(c)
  BY NothingStored DEF Leave, VInv, TypeOK
<1> QED
  BY <1>1, RaisesKeeps DEF Leave

-----------------------------------------------------------------------------
(* Chroma *)

LEMMA ChromaCollectionFacts ==
    ASSUME TypeOK, NEW c \in Callers
    PROVE  ChromaCollection(op[c]) \in Collection
  BY OpFacts DEF ChromaCollection, Collection

LEMMA ChromaOpenKeeps ==
    ASSUME VInv, NEW c \in Callers, ChromaOpen(c)
    PROVE  VInv'
<1> DEFINE x == ChromaCollection(op[c])
<1>1. x \in Collection /\ op[c].kind \in Kinds /\ InFlight(c)
  BY ChromaCollectionFacts, OpFacts DEF VInv, ChromaOpen, InFlight
<1>2. /\ backend = "chroma"
      /\ collections \subseteq collections' /\ collections' \subseteq collections \cup {x}
      /\ ensured' = ensured \cup {x} /\ x \in collections'
      /\ UNCHANGED <<backend, docs, sure, calm, must, swallowed, upsets, op, counted, todo, answer>>
  BY DEF ChromaOpen, To, history, VInv, Stored
<1>3. Keeps(c)
  <2>1. ensured \subseteq collections /\ collections \subseteq Collection /\ swallowed \subseteq Ids
        /\ upsets \in 0..MaxUpsets /\ ensured \subseteq Collection
    BY <1>2 DEF VInv, Stored, TypeOK
  <2>2. collections' \subseteq Collection /\ ensured' \subseteq Collection
        /\ ensured' \subseteq collections'
    BY <2>1, <1>1, <1>2
  <2> HIDE DEF x
  <2> QED
    BY <1>2, <2>1, <2>2, SameDocs
<1>4. PICK phase \in {"put", "count"} :
         pc' = [pc EXCEPT ![c] = phase] /\ (phase = "put" => op[c].kind = "upsert")
  BY DEF ChromaOpen, To
<1>5. phase \in Phase /\ phase \notin {"idle", "answered", "open", "create", "collections", "get", "remove"}
      /\ counted' \in [Callers -> Nat] /\ todo' \in [Callers -> SUBSET Collection]
  BY <1>2, <1>4 DEF Phase, VInv, TypeOK
<1> QED
  BY <1>1, <1>2, <1>3, <1>4, <1>5, GoesOnKeeps

LEMMA ChromaPutKeeps ==
    ASSUME VInv, NEW c \in Callers, ChromaPut(c)
    PROVE  VInv'
<1>1. ChromaCollection(op[c]) \in Collection /\ ChromaCollection(op[c]) \in collections
  BY ChromaCollectionFacts DEF VInv, Placed, ChromaPut
<1> QED
  BY <1>1, PutKeeps DEF ChromaPut, VInv, TypeOK

LEMMA ChromaCountKeeps ==
    ASSUME VInv, NEW c \in Callers, ChromaCount(c)
    PROVE  VInv'
<1> DEFINE n == AtMost(K, Count(op[c]))
<1>1. n \in Nat
  <2>1. IsFiniteSet(In(ChromaCollection(op[c])))
    BY FS_Subset DEF VInv, Stored, In
  <2>2. Count(op[c]) \in Nat
    BY <2>1, FS_CardinalityType DEF Count
  <2> QED
    BY <2>2, VectorAssumption DEF AtMost
<1>2. /\ backend = "chroma" /\ pc[c] = "count" /\ InFlight(c)
      /\ UNCHANGED <<backend, collections, docs, ensured, sure, calm, must, swallowed, upsets>>
  BY DEF ChromaCount, history, InFlight
<1>3. Keeps(c)
  BY <1>2, NothingStored DEF VInv, TypeOK
<1>4. CASE Answer(c, {})
  BY <1>2, <1>3, <1>4, AnswerKeeps DEF VInv, TypeOK
<1>5. CASE /\ counted' = [counted EXCEPT ![c] = n] /\ pc' = [pc EXCEPT ![c] = "query"]
           /\ UNCHANGED <<op, todo, answer>>
  <2>1. counted' \in [Callers -> Nat] /\ todo' \in [Callers -> SUBSET Collection] /\ "query" \in Phase
    BY <1>1, <1>5 DEF VInv, TypeOK, Phase
  <2> QED
    BY <1>2, <1>3, <1>5, <2>1, GoesOnKeeps
<1> QED
  BY <1>4, <1>5 DEF ChromaCount

LEMMA ChromaQueryKeeps ==
    ASSUME VInv, NEW c \in Callers, ChromaQuery(c)
    PROVE  VInv'
<1>1. /\ pc[c] = "query"
      /\ UNCHANGED <<backend, collections, docs, ensured, sure, calm, must, swallowed, upsets>>
  BY DEF ChromaQuery, history
<1>2. Keeps(c)
  BY <1>1, NothingStored DEF VInv, TypeOK
<1>3. PICK found : /\ Answer(c, found)
                   /\ found = Nearest({d \in In(ChromaCollection(op[c])) : ChromaWhere(d, op[c])},
                                      counted[c])
  BY DEF ChromaQuery
<1>4. found \subseteq docs /\ \A d \in found : d.tenant = op[c].tenant
  BY <1>3 DEF Nearest, In, ChromaWhere
<1> QED
  BY <1>1, <1>2, <1>3, <1>4, AnswerKeeps DEF VInv, TypeOK

\* A delete goes on, or is through and the document is nowhere.
LEMMA NextCollectionKeeps ==
    ASSUME VInv, NEW c \in Callers, backend = "chroma", pc[c] \in {"get", "remove"},
           NEW x, x = AtCollection(c), NextCollection(c, x), Keeps(c),
           docs' \subseteq docs,
           Changes(op[c]) => \A d \in docs' : ~(d.id = op[c].id /\ d.in = x)
    PROVE  VInv'
<1>1. /\ Placed(c) /\ Ahead(c) /\ InFlight(c)
      /\ op[c].kind = "delete" /\ todo[c] # {} /\ todo[c] \subseteq Collection
  BY DEF VInv, Placed, InFlight, TypeOK
<1>2. x \in todo[c]
  BY <1>1 DEF AtCollection
<1>3. calm[c] /\ Changes(op[c]) =>
         \A d \in docs' : d.id = op[c].id => d.in \in todo[c] \ {x}
  BY <1>1 DEF Ahead
<1>4. CASE todo[c] = {x}
  <2>1. Done(c)
    BY <1>4 DEF NextCollection
  <2>2. calm[c] /\ Changes(op[c]) => \A d \in docs' : d.id # op[c].id
    BY <1>3, <1>4
  <2> QED
    BY <1>1, <2>1, <2>2, DoneKeeps
<1>5. CASE todo[c] # {x}
  <2>1. /\ pc' = [pc EXCEPT ![c] = "get"]
        /\ todo' = [todo EXCEPT ![c] = @ \ {x}]
        /\ UNCHANGED <<op, counted, answer, sure, calm, must>>
    BY <1>5 DEF NextCollection, Looked
  <2>2. todo'[c] = todo[c] \ {x} /\ todo'[c] # {}
        /\ (\A d \in Callers \ {c} : todo'[d] = todo[d])
        /\ todo' \in [Callers -> SUBSET Collection] /\ counted' \in [Callers -> Nat]
    BY <1>1, <1>2, <1>5, <2>1 DEF VInv, TypeOK
  <2>3. calm[c] /\ Changes(op[c]) => \A d \in docs' : d.id = op[c].id => d.in \in todo'[c]
    BY <1>3, <2>2
  <2> QED
    BY <1>1, <2>1, <2>2, <2>3, GoesOnKeeps DEF Phase
<1> QED
  BY <1>4, <1>5

LEMMA ChromaCollectionsKeeps ==
    ASSUME VInv, NEW c \in Callers, ChromaCollections(c)
    PROVE  VInv'
<1>1. /\ backend = "chroma" /\ pc[c] = "collections" /\ InFlight(c) /\ op[c].kind = "delete"
      /\ UNCHANGED <<backend, collections, docs, ensured, swallowed, upsets>>
  BY DEF ChromaCollections, InFlight, VInv, Placed
<1>2. Keeps(c)
  BY <1>1, NothingStored DEF VInv, TypeOK
<1>3. Changes(op[c]) => \A d \in docs' : d.id = op[c].id => d.in \in OfPrefix(op[c])
  <2> SUFFICES ASSUME Changes(op[c]), NEW d \in docs, d.id = op[c].id
               PROVE  d.in \in OfPrefix(op[c])
    BY <1>1
  <2>1. Home(d) /\ op[c].tenant = TenantOf[d.id]
    BY DEF VInv, Stored, Changes
  <2>2. d.in \in collections /\ d.in.owner = PrefixOf[op[c].tenant]
    BY <1>1, <2>1 DEF Home
  <2> QED
    BY <2>2 DEF OfPrefix
<1>4. CASE OfPrefix(op[c]) = {}
  <2>1. Done(c)
    BY <1>4 DEF ChromaCollections
  <2> QED
    BY <1>1, <1>2, <1>3, <1>4, <2>1, DoneKeeps
<1>5. CASE OfPrefix(op[c]) # {}
  <2>1. /\ todo' = [todo EXCEPT ![c] = OfPrefix(op[c])]
        /\ pc' = [pc EXCEPT ![c] = "get"]
        /\ UNCHANGED <<op, counted, answer, sure, calm, must>>
    BY <1>5 DEF ChromaCollections
  <2>2. OfPrefix(op[c]) \subseteq Collection
    BY DEF OfPrefix, VInv, TypeOK
  <2>3. todo'[c] = OfPrefix(op[c]) /\ (\A d \in Callers \ {c} : todo'[d] = todo[d])
        /\ todo' \in [Callers -> SUBSET Collection] /\ counted' \in [Callers -> Nat]
    BY <2>1, <2>2 DEF VInv, TypeOK
  <2> QED
    BY <1>1, <1>2, <1>3, <1>5, <2>1, <2>3, GoesOnKeeps DEF Phase
<1> QED
  BY <1>4, <1>5

LEMMA ChromaGetKeeps ==
    ASSUME VInv, NEW c \in Callers, ChromaGet(c)
    PROVE  VInv'
<1>1. /\ backend = "chroma" /\ pc[c] = "get" /\ InFlight(c)
      /\ UNCHANGED <<backend, collections, docs, ensured, swallowed, upsets>>
  BY DEF ChromaGet, InFlight
<1>2. /\ Placed(c) /\ Ahead(c) /\ op[c].kind = "delete" /\ todo[c] # {}
  BY <1>1 DEF VInv, Placed
<1>3. Keeps(c)
  BY <1>1, NothingStored DEF VInv, TypeOK
<1>4. PICK x : x = AtCollection(c)
  OBVIOUS
<1>5. ASSUME NEW d \in docs, d.id = op[c].id
      PROVE  (d.tenant = op[c].tenant) <=> Changes(op[c])
  <2>1. d.tenant = TenantOf[op[c].id]
    BY <1>5 DEF VInv, Stored, Home
  <2> QED
    BY <1>2, <2>1 DEF Changes
<1>6. CASE TenantHas(op[c], x)
  <2>1. To(c, "remove") /\ UNCHANGED <<sure, calm, must>>
    BY <1>4, <1>6 DEF ChromaGet
  <2>2. Changes(op[c])
    BY <1>5, <1>6 DEF TenantHas, In
  <2>3. /\ pc' = [pc EXCEPT ![c] = "remove"] /\ UNCHANGED <<op, counted, todo, answer>>
        /\ todo' \in [Callers -> SUBSET Collection] /\ counted' \in [Callers -> Nat]
    BY <2>1 DEF To, VInv, TypeOK
  <2>4. calm[c] /\ Changes(op[c]) => \A d \in docs' : d.id = op[c].id => d.in \in todo'[c]
    BY <1>1, <1>2, <2>3 DEF Ahead
  <2> QED
    BY <1>1, <1>2, <1>3, <2>1, <2>2, <2>3, <2>4, GoesOnKeeps DEF Phase
<1>7. CASE ~TenantHas(op[c], x)
  <2>1. NextCollection(c, x)
    BY <1>4, <1>7 DEF ChromaGet
  <2>2. Changes(op[c]) => \A d \in docs' : ~(d.id = op[c].id /\ d.in = x)
    BY <1>1, <1>5, <1>7 DEF TenantHas, In
  <2> QED
    BY <1>1, <1>3, <1>4, <2>1, <2>2, NextCollectionKeeps
<1> QED
  BY <1>6, <1>7

LEMMA ChromaRemoveKeeps ==
    ASSUME VInv, NEW c \in Callers, ChromaRemove(c)
    PROVE  VInv'
<1>1. PICK x : x = AtCollection(c)
  OBVIOUS
<1>2. /\ backend = "chroma" /\ pc[c] = "remove" /\ InFlight(c)
      /\ docs' = {d \in docs : ~(d.in = x /\ d.id = op[c].id)}
      /\ NextCollection(c, x)
      /\ UNCHANGED <<backend, collections, ensured, swallowed, upsets>>
  BY <1>1 DEF ChromaRemove, InFlight
<1>3. Changes(op[c])
  BY <1>2 DEF VInv, Placed
<1>4. Keeps(c)
  BY <1>2, <1>3, RemoveKeeps DEF VInv, TypeOK
<1> QED
  BY <1>1, <1>2, <1>4, NextCollectionKeeps

-----------------------------------------------------------------------------
(* Qdrant *)

LEMMA OwnFacts ==
    ASSUME VInv, NEW c \in Callers, Exists(op[c])
    PROVE  Own(op[c]) \in collections /\ Own(op[c]) \in Collection /\ Own(op[c]).owner = op[c].tenant
<1>1. Own(op[c]) \in QdrantCollections(op[c])
  BY DEF Exists, Own
<1> QED
  BY <1>1 DEF QdrantCollections, VInv, TypeOK

LEMMA QdrantOpenKeeps ==
    ASSUME VInv, NEW c \in Callers, QdrantOpen(c)
    PROVE  VInv'
<1>1. /\ backend = "qdrant" /\ pc[c] = "open" /\ InFlight(c) /\ op[c].kind = "upsert"
      /\ ensured' \subseteq Collection
      /\ UNCHANGED <<backend, collections, docs, sure, calm, must, swallowed, upsets>>
  BY DEF QdrantOpen, InFlight, VInv, Placed, TypeOK, QdrantCollections, history
<1>2. Keeps(c)
  <2>1. \A x, y \in collections : x.owner = y.owner => x = y
    BY <1>1 DEF VInv, Stored
  <2> QED
    BY <1>1, <2>1, SameDocs DEF VInv, TypeOK
<1>3. PICK phase \in {"put", "create"} : To(c, phase)
  BY DEF QdrantOpen
<1>4. /\ pc' = [pc EXCEPT ![c] = phase] /\ UNCHANGED <<op, counted, todo, answer>>
      /\ todo' \in [Callers -> SUBSET Collection] /\ counted' \in [Callers -> Nat]
  BY <1>3 DEF To, VInv, TypeOK
<1> QED
  BY <1>1, <1>2, <1>3, <1>4, GoesOnKeeps DEF Phase

\* A collection is made where there was none.
LEMMA CreateKeeps ==
    ASSUME VInv, NEW c \in Callers, backend = "qdrant", ~CreateRefused(op[c]),
           NEW x, x = [owner |-> op[c].tenant, model |-> op[c].model],
           collections' = collections \cup {x},
           ensured' \subseteq ensured \cup {x}, upsets' \in 0..MaxUpsets,
           UNCHANGED <<backend, docs, swallowed>>
    PROVE  Keeps(c)
<1>1. x \in Collection
  BY OpFacts DEF Collection, VInv
<1>2. collections \subseteq Collection /\ ensured \subseteq Collection /\ swallowed \subseteq Ids
      /\ \A y, z \in collections : y.owner = z.owner => y = z
  BY DEF VInv, TypeOK, Stored
<1>3. \A y \in collections : y.owner # x.owner
  BY DEF CreateRefused, Exists, QdrantCollections
<1>4. \A y, z \in collections' : y.owner = z.owner => y = z
  BY <1>2, <1>3
<1>5. collections \subseteq collections' /\ collections' \subseteq Collection /\ ensured' \subseteq Collection
  BY <1>1, <1>2
<1> QED
  BY <1>2, <1>4, <1>5, SameDocs

LEMMA QdrantCreateKeeps ==
    ASSUME VInv, NEW c \in Callers, QdrantCreate(c)
    PROVE  VInv'
<1>1. /\ backend = "qdrant" /\ pc[c] = "create" /\ InFlight(c) /\ op[c].kind = "upsert"
      /\ UNCHANGED <<backend, docs, swallowed, upsets>>
  BY DEF QdrantCreate, InFlight, VInv, Placed
<1>2. CASE CreateRefused(op[c])
  <2>1. Raises(c) /\ UNCHANGED <<collections, ensured>>
    BY <1>2 DEF QdrantCreate
  <2>2. Keeps(c)
    BY <1>1, <2>1, NothingStored DEF VInv, TypeOK
  <2> QED
    BY <2>1, <2>2, RaisesKeeps
<1>3. CASE ~CreateRefused(op[c])
  <2>1. PICK x : x = [owner |-> op[c].tenant, model |-> op[c].model]
    OBVIOUS
  <2>2. /\ collections' = collections \cup {x} /\ ensured' = ensured \cup {x}
        /\ To(c, "put") /\ UNCHANGED <<sure, calm, must>>
    BY <1>3, <2>1 DEF QdrantCreate
  <2>3. Keeps(c)
    BY <1>1, <1>3, <2>1, <2>2, CreateKeeps DEF VInv, TypeOK
  <2>4. /\ pc' = [pc EXCEPT ![c] = "put"] /\ UNCHANGED <<op, counted, todo, answer>>
        /\ todo' \in [Callers -> SUBSET Collection] /\ counted' \in [Callers -> Nat]
    BY <2>2 DEF To, VInv, TypeOK
  <2> QED
    BY <1>1, <2>2, <2>3, <2>4, GoesOnKeeps DEF Phase
<1> QED
  BY <1>2, <1>3

LEMMA QdrantPutKeeps ==
    ASSUME VInv, NEW c \in Callers, QdrantPut(c)
    PROVE  VInv'
<1>1. /\ backend = "qdrant" /\ pc[c] = "put" /\ upsets' \in 0..MaxUpsets
      /\ UNCHANGED <<backend, collections, ensured, swallowed, upsets>>
  BY DEF QdrantPut, VInv, TypeOK
<1>2. CASE Exists(op[c]) /\ docs' = Upserted(DocOf(op[c], Own(op[c]))) /\ Done(c)
  BY <1>1, <1>2, OwnFacts, PutKeeps
<1>3. CASE Raises(c) /\ UNCHANGED docs
  <2>1. Keeps(c)
    BY <1>1, <1>3, NothingStored
  <2> QED
    BY <1>3, <2>1, RaisesKeeps
<1> QED
  BY <1>2, <1>3 DEF QdrantPut

LEMMA QdrantQueryKeeps ==
    ASSUME VInv, NEW c \in Callers, QdrantQuery(c)
    PROVE  VInv'
<1>1. /\ pc[c] = "query" /\ backend = "qdrant"
      /\ UNCHANGED <<backend, collections, docs, ensured, sure, calm, must, swallowed, upsets>>
  BY DEF QdrantQuery, history
<1>2. Keeps(c)
  BY <1>1, NothingStored DEF VInv, TypeOK
<1>3. PICK found : /\ Answer(c, found)
                   /\ found = IF Exists(op[c]) /\ Fits(op[c])
                              THEN Nearest({d \in In(Own(op[c])) : LiveState(d)}, K) ELSE {}
  BY DEF QdrantQuery
<1>4. found \subseteq docs /\ \A d \in found : Exists(op[c]) /\ d.in = Own(op[c])
  BY <1>3 DEF Nearest, In
<1>5. \A d \in found : d.tenant = op[c].tenant
  BY <1>1, <1>4, OwnFacts DEF VInv, Stored, Home
<1> QED
  BY <1>1, <1>2, <1>3, <1>4, <1>5, AnswerKeeps DEF VInv, TypeOK

\* A delete by tenant touches the documents of the id's own tenant alone.
LEMMA TenantRemoveFacts ==
    ASSUME VInv, NEW c \in Callers, pc[c] = "remove", backend # "chroma",
           \/ docs' = {d \in docs : ~(d.id = op[c].id /\ d.tenant = op[c].tenant)}
           \/ backend = "qdrant" /\ docs' = {d \in docs : ~(d.in.owner = op[c].tenant /\ d.id = op[c].id)},
           UNCHANGED <<backend, collections, ensured, swallowed>>, upsets' \in 0..MaxUpsets
    PROVE  /\ Keeps(c) /\ InFlight(c) /\ op[c].kind = "delete"
           /\ Changes(op[c]) => \A d \in docs' : d.id # op[c].id
<1>1. InFlight(c) /\ op[c].kind = "delete"
  BY DEF InFlight, VInv, Placed
<1>2. docs' = {d \in docs : ~(d.id = op[c].id /\ d.tenant = op[c].tenant)}
  <2>1. backend = "qdrant" => \A d \in docs : d.in.owner = d.tenant
    BY DEF VInv, Stored, Home
  <2> QED
    BY <2>1
<1>3. \A d \in docs : d.tenant = TenantOf[d.id]
  BY DEF VInv, Stored, Home
<1>4. CASE Changes(op[c])
  <2>1. Keeps(c)
    <3>1. docs' \subseteq docs /\ \A e \in docs : e.id # op[c].id => e \in docs'
      BY <1>2
    <3>2. swallowed' \subseteq Ids
      BY DEF VInv, TypeOK
    <3> QED
      BY <1>1, <1>4, <3>1, <3>2, RemoveKeeps
  <2>2. op[c].tenant = TenantOf[op[c].id]
    BY <1>4 DEF Changes
  <2>3. \A d \in docs' : d.id # op[c].id
    BY <1>2, <1>3, <2>2
  <2> QED
    BY <1>1, <2>1, <2>3
<1>5. CASE ~Changes(op[c])
  <2>1. op[c].tenant # TenantOf[op[c].id]
    BY <1>1, <1>5 DEF Changes
  <2>2. docs' = docs
    BY <1>2, <1>3, <2>1
  <2>3. Keeps(c)
    BY <2>2, NothingStored
  <2> QED
    BY <1>1, <1>5, <2>3
<1> QED
  BY <1>4, <1>5

LEMMA QdrantRemoveKeeps ==
    ASSUME VInv, NEW c \in Callers, QdrantRemove(c)
    PROVE  VInv'
<1>1. /\ Keeps(c) /\ InFlight(c) /\ op[c].kind = "delete"
      /\ Changes(op[c]) => \A d \in docs' : d.id # op[c].id
  BY TenantRemoveFacts DEF QdrantRemove, VInv, TypeOK
<1> QED
  BY <1>1, DoneKeeps DEF QdrantRemove

-----------------------------------------------------------------------------
(* pgvector *)

LEMMA TableIsCollection == Table \in Collection
  BY DEF Table, Collection

LEMMA PgvectorPutKeeps ==
    ASSUME VInv, NEW c \in Callers, PgvectorPut(c)
    PROVE  VInv'
<1>1. /\ backend = "pgvector" /\ pc[c] = "put" /\ upsets' \in 0..MaxUpsets
      /\ UNCHANGED <<backend, collections, ensured, swallowed, upsets>>
  BY DEF PgvectorPut, VInv, TypeOK
<1>2. CASE docs' = Upserted(DocOf(op[c], Table)) /\ Done(c)
  BY <1>1, <1>2, TableIsCollection, PutKeeps
<1>3. CASE Raises(c) /\ UNCHANGED docs
  <2>1. Keeps(c)
    BY <1>1, <1>3, NothingStored
  <2> QED
    BY <1>3, <2>1, RaisesKeeps
<1> QED
  BY <1>2, <1>3 DEF PgvectorPut

LEMMA PgvectorQueryKeeps ==
    ASSUME VInv, NEW c \in Callers, PgvectorQuery(c)
    PROVE  VInv'
<1>1. /\ pc[c] = "query"
      /\ UNCHANGED <<backend, collections, docs, ensured, swallowed, upsets>>
  BY DEF PgvectorQuery
<1>2. Keeps(c)
  BY <1>1, NothingStored DEF VInv, TypeOK
<1>3. CASE Raises(c)
  BY <1>2, <1>3, RaisesKeeps
<1>4. CASE /\ Answer(c, Nearest({d \in docs : PgvectorWhere(d, op[c])}, K))
           /\ UNCHANGED <<sure, calm, must>>
  <2>1. PICK found : found = Nearest({d \in docs : PgvectorWhere(d, op[c])}, K)
    OBVIOUS
  <2>2. found \subseteq docs /\ \A d \in found : d.tenant = op[c].tenant
    BY <2>1 DEF Nearest, PgvectorWhere
  <2> QED
    BY <1>1, <1>2, <1>4, <2>1, <2>2, AnswerKeeps DEF VInv, TypeOK
<1> QED
  BY <1>3, <1>4 DEF PgvectorQuery

LEMMA PgvectorRemoveKeeps ==
    ASSUME VInv, NEW c \in Callers, PgvectorRemove(c)
    PROVE  VInv'
<1>1. /\ Keeps(c) /\ InFlight(c) /\ op[c].kind = "delete"
      /\ Changes(op[c]) => \A d \in docs' : d.id # op[c].id
  BY TenantRemoveFacts DEF PgvectorRemove, VInv, TypeOK
<1> QED
  BY <1>1, DoneKeeps DEF PgvectorRemove

-----------------------------------------------------------------------------
(* Failures *)

LEMMA UpsetFacts ==
    ASSUME TypeOK, Upset
    PROVE  upsets' \in 0..MaxUpsets
  BY VectorAssumption DEF TypeOK, Upset

LEMMA StepRaisesKeeps ==
    ASSUME VInv, NEW c \in Callers, StepRaises(c)
    PROVE  VInv'
<1>1. Keeps(c)
  BY NothingStored, UpsetFacts DEF StepRaises, VInv
<1> QED
  BY <1>1, RaisesKeeps DEF StepRaises

LEMMA AnswerLostKeeps ==
    ASSUME VInv, NEW c \in Callers, AnswerLost(c)
    PROVE  VInv'
<1>1. /\ backend # "chroma" /\ upsets' \in 0..MaxUpsets /\ Raises(c)
      /\ UNCHANGED <<backend, ensured, swallowed>>
  BY UpsetFacts DEF AnswerLost, VInv
<1>2. CASE /\ pc[c] = "put"
           /\ backend = "qdrant" => Exists(op[c]) /\ Fits(op[c])
           /\ docs' = Upserted(DocOf(op[c], IF backend = "qdrant" THEN Own(op[c]) ELSE Table))
           /\ UNCHANGED collections
  <2>1. PICK x : x = IF backend = "qdrant" THEN Own(op[c]) ELSE Table
    OBVIOUS
  <2>2. /\ x \in Collection
        /\ backend = "qdrant" => x \in collections /\ x.owner = op[c].tenant
        /\ backend = "pgvector" => x = Table
    BY <1>2, <2>1, OwnFacts, TableIsCollection
  <2> QED
    BY <1>1, <1>2, <2>1, <2>2, PutKeeps
<1>3. CASE /\ pc[c] = "remove"
           /\ docs' = {d \in docs : ~(d.id = op[c].id /\ d.tenant = op[c].tenant)}
           /\ UNCHANGED collections
  <2>1. Keeps(c)
    BY <1>1, <1>3, TenantRemoveFacts
  <2> QED
    BY <1>1, <2>1, RaisesKeeps
<1>4. CASE /\ pc[c] = "create" /\ ~CreateRefused(op[c])
           /\ collections' = collections \cup {[owner |-> op[c].tenant, model |-> op[c].model]}
           /\ UNCHANGED docs
  <2>1. backend = "qdrant"
    BY <1>4 DEF VInv, Placed
  <2>2. Keeps(c)
    BY <1>1, <1>4, <2>1, CreateKeeps
  <2> QED
    BY <1>1, <2>2, RaisesKeeps
<1> QED
  BY <1>2, <1>3, <1>4 DEF AnswerLost

\* The caller is told nothing: the call is calm no more.
LEMMA CancelKeeps ==
    ASSUME VInv, NEW c \in Callers, Cancel(c)
    PROVE  VInv'
<1>1. /\ calm' = [calm EXCEPT ![c] = FALSE] /\ upsets' \in 0..MaxUpsets
      /\ UNCHANGED <<backend, collections, docs, ensured, pc, op, counted, todo, answer,
                     sure, must, swallowed>>
  BY UpsetFacts DEF Cancel, call, VInv
<1>2. calm' \in [Callers -> BOOLEAN] /\ \A d \in Callers : calm'[d] => calm[d]
  BY <1>1 DEF VInv, TypeOK
<1>3. TypeOK'
  BY <1>1, <1>2 DEF VInv, TypeOK
<1>4. Stored' /\ \A d \in Callers : Placed(d)'
  <2>1. Stored'
    BY <1>1 DEF VInv, Stored, Home
  <2>2. ASSUME NEW d \in Callers PROVE Placed(d)'
    BY <1>1 DEF VInv, Placed, ChromaCollection, Changes, InFlight
  <2> QED
    BY <2>1, <2>2
<1>5. \A d \in Callers : Ahead(d)'
  BY <1>1, <1>2 DEF VInv, Ahead, Changes
<1>6. Rivalry'
  BY <1>1, <1>2 DEF VInv, Rivalry, InFlight, Changes
<1>7. \A i \in Ids : Told(i)'
  BY <1>1 DEF VInv, Told
<1> QED
  BY <1>3, <1>4, <1>5, <1>6, <1>7 DEF VInv

LEMMA ServerRefusesKeeps ==
    ASSUME VInv, NEW c \in Callers, ServerRefuses(c)
    PROVE  VInv'
<1>1. /\ backend = "qdrant" /\ upsets' \in 0..MaxUpsets
      /\ UNCHANGED <<backend, collections, docs, ensured>>
  BY UpsetFacts DEF ServerRefuses, VInv
<1>2. CASE /\ pc[c] = "query" /\ Answer(c, {}) /\ must' = [must EXCEPT ![c] = {}]
           /\ UNCHANGED <<sure, calm, swallowed>>
  <2>1. Keeps(c)
    BY <1>1, <1>2, NothingStored
  <2>2. must' \in [Callers -> SUBSET Ids]
    BY <1>2 DEF VInv, TypeOK
  <2> QED
    BY <1>2, <2>1, <2>2, AnswerKeeps
<1>3. CASE /\ pc[c] = "remove" /\ Done(c)
           /\ swallowed' = IF Changes(op[c]) THEN swallowed \cup {op[c].id} ELSE swallowed
  <2>1. InFlight(c) /\ op[c].kind = "delete" /\ op[c].id \in Ids
    BY <1>3, OpFacts DEF InFlight, VInv, Placed
  <2>2. swallowed \subseteq swallowed' /\ swallowed' \subseteq Ids
    BY <1>3, <2>1 DEF VInv, TypeOK
  <2>3. Keeps(c)
    BY <1>1, <2>2, RemoveKeeps
  <2> QED
    BY <1>3, <2>1, <2>3, DoneKeeps
<1> QED
  BY <1>2, <1>3 DEF ServerRefuses

LEMMA RestartKeeps ==
    ASSUME VInv, Restart
    PROVE  VInv'
<1>1. /\ upsets' \in 0..MaxUpsets /\ ensured' = {}
      /\ UNCHANGED <<backend, collections, docs, sure, swallowed>>
      /\ \A c \in Callers : pc'[c] = "idle" /\ op'[c] = Nothing /\ answer'[c] = {}
  BY UpsetFacts DEF Restart, VInv
<1>2. TypeOK'
  BY <1>1, ConstantFacts DEF Restart, VInv, TypeOK, Phase
<1>3. Stored'
  BY <1>1 DEF VInv, Stored, Home
<1>4. \A c \in Callers : Placed(c)' /\ Ahead(c)'
  BY <1>1, IdlePlaced
<1>5. Rivalry'
  BY <1>1 DEF Rivalry, InFlight
<1>6. \A i \in Ids : Told(i)'
  BY <1>1 DEF VInv, Told
<1> QED
  BY <1>2, <1>3, <1>4, <1>5, <1>6 DEF VInv

LEMMA StutterKeeps ==
    ASSUME VInv, UNCHANGED vars
    PROVE  VInv'
<1>1. UNCHANGED <<backend, collections, docs, ensured, pc, op, counted, todo, answer,
                 sure, calm, must, swallowed, upsets>>
  BY DEF vars, call, history
<1>2. TypeOK'
  BY <1>1 DEF VInv, TypeOK
<1>3. Stored'
  BY <1>1 DEF VInv, Stored, Home
<1>4. ASSUME NEW c \in Callers PROVE Placed(c)' /\ Ahead(c)'
  <2>1. Placed(c)'
    BY <1>1 DEF VInv, Placed, ChromaCollection, Changes, InFlight
  <2>2. Ahead(c)'
    BY <1>1 DEF VInv, Ahead, Changes
  <2> QED
    BY <2>1, <2>2
<1>5. Rivalry'
  BY <1>1 DEF VInv, Rivalry, InFlight, Changes
<1>6. \A i \in Ids : Told(i)'
  BY <1>1 DEF VInv, Told
<1> QED
  BY <1>2, <1>3, <1>4, <1>5, <1>6 DEF VInv

-----------------------------------------------------------------------------
LEMMA NextVInv == VInv /\ [Next]_vars => VInv'
<1> SUFFICES ASSUME VInv, [Next]_vars PROVE VInv'
  OBVIOUS
<1>1. ASSUME NEW c \in Callers, NEW o \in Requests, Call(c, o) PROVE VInv'
  BY <1>1, CallKeeps
<1>2. ASSUME NEW c \in Callers, ChromaStep(c) PROVE VInv'
  BY <1>2, ChromaOpenKeeps, ChromaPutKeeps, ChromaCountKeeps, ChromaQueryKeeps,
     ChromaCollectionsKeeps, ChromaGetKeeps, ChromaRemoveKeeps DEF ChromaStep
<1>3. ASSUME NEW c \in Callers, QdrantStep(c) PROVE VInv'
  BY <1>3, QdrantOpenKeeps, QdrantCreateKeeps, QdrantPutKeeps, QdrantQueryKeeps,
     QdrantRemoveKeeps DEF QdrantStep
<1>4. ASSUME NEW c \in Callers, PgvectorStep(c) PROVE VInv'
  BY <1>4, PgvectorPutKeeps, PgvectorQueryKeeps, PgvectorRemoveKeeps DEF PgvectorStep
<1>5. ASSUME NEW c \in Callers,
             Leave(c) \/ StepRaises(c) \/ AnswerLost(c) \/ Cancel(c) \/ ServerRefuses(c)
      PROVE  VInv'
  BY <1>5, LeaveKeeps, StepRaisesKeeps, AnswerLostKeeps, CancelKeeps, ServerRefusesKeeps
<1>6. CASE Restart
  BY <1>6, RestartKeeps
<1>7. CASE UNCHANGED vars
  BY <1>7, StutterKeeps
<1> QED
  BY <1>1, <1>2, <1>3, <1>4, <1>5, <1>6, <1>7 DEF Next

LEMMA VInvariant == Spec => []VInv
<1>1. VInv /\ [Next]_vars => VInv'
  BY NextVInv
<1> QED
  BY InitVInv, <1>1, PTL DEF Spec

\* Every variable of the vector indexes keeps its type.
THEOREM VectorsTypeCorrect == Spec => []TypeOK
<1>1. VInv => TypeOK
  BY DEF VInv
<1> QED
  BY VInvariant, <1>1, PTL

\* However calls overlap, fail and share collections, no search of any adapter
\* returns another tenant's document.
THEOREM ResultsAreIsolated == Spec => []ResultsIsolated
<1>1. VInv => ResultsIsolated
  BY DEF VInv, Placed, ResultsIsolated
<1> QED
  BY VInvariant, <1>1, PTL

\* What upsert and delete told callers whose calls nothing overlapped is so,
\* except for deletes Qdrant refused and its adapter swallowed.
THEOREM AnswersAreTrue == Spec => []AnswersTrue
<1>1. VInv => AnswersTrue
  BY DEF VInv, Told, AnswersTrue
<1> QED
  BY VInvariant, <1>1, PTL

-----------------------------------------------------------------------------
(* Searches *)

\* The part of SearchComplete for one result.
Full(found, due) ==
    /\ Cardinality(found) >= AtMost(K, Cardinality(due))
    /\ \A i \in due \ {d.id : d \in found} : \A d \in found : d.id < i

\* What a search has to come across is there to be found, and Chroma's count has
\* not lost any of it.
Due(c) ==
    /\ InFlight(c) /\ must[c] # {} =>
          /\ op[c].kind = "search"
          /\ \A i \in must[c] : /\ TenantOf[i] = op[c].tenant
                                /\ sure[i] = <<op[c].model, "ACTIVE">>
          /\ backend = "chroma" => op[c].named
          /\ backend = "qdrant" => Exists(op[c]) /\ Fits(op[c])
    /\ backend = "chroma" /\ pc[c] = "query" =>
          counted[c] >= AtMost(K, Cardinality(must[c]))
    /\ pc[c] = "answered" => IsFiniteSet(answer[c]) /\ Full(answer[c], must[c])

\* A set of natural numbers has a least one.
LEMMA LeastNatural ==
    ASSUME NEW S \in SUBSET Nat, S # {}
    PROVE  \E m \in S : \A n \in S : m <= n
<1> DEFINE R == {de \in Nat \X Nat : de[1] < de[2]}
<1>1. R = OpToRel(<, Nat)
  BY DEF OpToRel
<1>2. IsWellFoundedOn(R, Nat)
  BY <1>1, NatLessThanWellFounded
<1>3. \A m, n \in Nat : <<n, m>> \in R <=> n < m
  OBVIOUS
<1> HIDE DEF R
<1>4. PICK m \in S : \A n \in S : <<n, m>> \notin R
  BY <1>2, WFMin
<1>5. \A n \in S : ~(n < m)
  BY <1>3, <1>4
<1> QED
  BY <1>4, <1>5

\* The k nearest are k, or all there are: in front of the nearest one left out
\* there are k, and none of them is left out.
LEMMA NearestSize ==
    ASSUME NEW S, IsFiniteSet(S), \A d \in S : d.id \in Nat, NEW k \in Nat
    PROVE  /\ IsFiniteSet(Nearest(S, k))
           /\ Cardinality(Nearest(S, k)) \in Nat /\ Cardinality(S) \in Nat
           /\ Cardinality(Nearest(S, k)) >= AtMost(k, Cardinality(S))
<1> DEFINE N == Nearest(S, k)
           C(d) == {e \in S : e.id < d.id}
           I == {d.id : d \in S \ N}
<1>1. N \in SUBSET S /\ \A d \in S : d \in N <=> Cardinality(C(d)) < k
  BY DEF Nearest
<1>2. \A d \in S : C(d) \in SUBSET S
  OBVIOUS
<1>3. \A d, e \in S : e \in C(d) <=> e.id < d.id
  OBVIOUS
<1> HIDE DEF N, C
<1>4. IsFiniteSet(N) /\ Cardinality(N) \in Nat /\ Cardinality(S) \in Nat
  BY <1>1, FS_Subset, FS_CardinalityType
<1>5. CASE N = S
  BY <1>4, <1>5 DEF AtMost, N
<1>6. CASE N # S
  <2>1. I # {} /\ I \in SUBSET Nat
    BY <1>1, <1>6
  <2>2. PICK m \in I : \A n \in I : m <= n
    <3> HIDE DEF I
    <3> QED
      BY <2>1, LeastNatural
  <2>3. PICK d \in S \ N : d.id = m
    BY <2>2
  <2>4. C(d) \in SUBSET N
    <3> SUFFICES ASSUME NEW e \in C(d), e \notin N
                 PROVE  FALSE
      OBVIOUS
    <3>1. e \in S /\ e.id < m /\ e.id \in Nat /\ m \in Nat
      BY <1>2, <1>3, <2>1, <2>3
    <3>2. m <= e.id
      BY <2>2, <3>1
    <3> QED
      BY <3>1, <3>2
  <2>5. Cardinality(C(d)) \in Nat /\ ~(Cardinality(C(d)) < k)
    BY <1>1, <1>2, <2>3, FS_Subset, FS_CardinalityType
  <2>6. Cardinality(C(d)) <= Cardinality(N)
    BY <1>4, <2>4, FS_Subset
  <2> QED
    BY <1>4, <2>5, <2>6 DEF AtMost, N
<1> QED
  BY <1>5, <1>6

LEMMA NearestFull ==
    ASSUME NEW S, IsFiniteSet(S), \A d \in S : d.id \in Nat, NEW k \in Nat,
           NEW due, IsFiniteSet(due), due \subseteq Nat,
           \A i \in due : \E e \in S : e.id = i,
           k >= AtMost(K, Cardinality(due))
    PROVE  Full(Nearest(S, k), due)
<1> DEFINE N == Nearest(S, k)
           C(n) == {e \in S : e.id < n}
           f == [i \in due |-> CHOOSE e \in S : e.id = i]
<1>1. /\ Cardinality(N) \in Nat /\ Cardinality(S) \in Nat
      /\ Cardinality(N) >= AtMost(k, Cardinality(S))
  BY NearestSize
<1>2. \A i \in due : f[i] \in S /\ f[i].id = i
  OBVIOUS
<1>3. f \in Injection(due, S)
  BY <1>2 DEF Injection, IsInjective
<1>4. Cardinality(due) <= Cardinality(S) /\ Cardinality(due) \in Nat
  BY <1>3, FS_Injection, FS_CardinalityType
<1>5. N \in SUBSET S /\ \A d \in S : d \in N <=> Cardinality(C(d.id)) < k
  BY DEF Nearest
<1>6. \A m, n \in Nat : m <= n => C(m) \in SUBSET C(n)
  OBVIOUS
<1>7. \A n \in Nat : IsFiniteSet(C(n)) /\ Cardinality(C(n)) \in Nat
  <2> TAKE n \in Nat
  <2>1. C(n) \in SUBSET S
    OBVIOUS
  <2> HIDE DEF C
  <2> QED
    BY <2>1, FS_Subset, FS_CardinalityType
<1> HIDE DEF N, C, f
<1>8. Cardinality(N) >= AtMost(K, Cardinality(due))
  BY <1>1, <1>4, VectorAssumption DEF AtMost
<1>9. ASSUME NEW i \in due \ {d.id : d \in N}, NEW d \in N
      PROVE  d.id < i
  <2>1. PICK e \in S : e.id = i /\ e \notin N
    BY <1>9
  <2>2. ~(Cardinality(C(i)) < k) /\ Cardinality(C(d.id)) < k /\ d.id \in Nat /\ i \in Nat
    BY <1>5, <2>1
  <2>3. ASSUME i <= d.id
        PROVE  Cardinality(C(i)) <= Cardinality(C(d.id))
    BY <1>6, <1>7, <2>2, <2>3, FS_Subset
  <2>4. ~(i <= d.id)
    BY <1>7, <2>2, <2>3
  <2> QED
    BY <2>2, <2>4
<1> QED
  BY <1>8, <1>9 DEF Full, N

LEMMA FullOfLess ==
    ASSUME NEW found, Cardinality(found) \in Nat, NEW due, IsFiniteSet(due), Full(found, due),
           NEW less \in SUBSET due
    PROVE  Full(found, less)
<1>1. /\ Cardinality(less) <= Cardinality(due) /\ Cardinality(less) \in Nat
      /\ Cardinality(due) \in Nat
  BY FS_Subset, FS_CardinalityType
<1>2. Cardinality(found) >= AtMost(K, Cardinality(less))
  BY <1>1, VectorAssumption DEF Full, AtMost
<1> QED
  BY <1>2 DEF Full

\* What a step of c does not take from searches: documents they have to come across
\* stay known, and collections stay.
Spares(c) ==
    /\ backend' = backend /\ collections \subseteq collections'
    /\ \A d \in Callers \ {c} :
          /\ pc'[d] = pc[d] /\ op'[d] = op[d] /\ counted'[d] = counted[d]
          /\ answer'[d] = answer[d] /\ must'[d] \subseteq must[d]
    /\ \A d \in Callers : \A i \in must'[d] : sure[i] # Unsure => sure'[i] = sure[i]

LEMMA MustFinite ==
    ASSUME TypeOK, NEW c \in Callers
    PROVE  /\ must[c] \in SUBSET Ids /\ IsFiniteSet(must[c]) /\ must[c] \subseteq Nat
           /\ Cardinality(must[c]) \in Nat
           /\ \A S \in SUBSET must[c] : Cardinality(S) \in Nat
                                        /\ Cardinality(S) <= Cardinality(must[c])
<1>1. must[c] \in SUBSET Ids
  BY DEF TypeOK
<1>2. IsFiniteSet(Ids) /\ Ids \subseteq Nat
  BY VectorAssumption, FS_Interval DEF Ids
<1>3. IsFiniteSet(must[c])
  BY <1>1, <1>2, FS_Subset
<1> QED
  BY <1>1, <1>2, <1>3, FS_Subset, FS_CardinalityType

\* On Qdrant a tenant has one collection, also later.
LEMMA OwnStays ==
    ASSUME VInv, VInv', backend' = backend, backend = "qdrant", collections \subseteq collections',
           NEW c, op'[c] = op[c], Exists(op[c]), Fits(op[c])
    PROVE  Exists(op[c])' /\ Fits(op[c])'
<1>1. PICK x : x \in QdrantCollections(op[c])
  BY DEF Exists
<1>2. \A y, z \in collections' : y.owner = z.owner => y = z
  BY DEF VInv, Stored
<1>3. x \in collections /\ x.owner = op[c].tenant
  BY <1>1 DEF QdrantCollections
<1>4. QdrantCollections(op[c]) = {x} /\ QdrantCollections(op[c])' = {x}
  BY <1>2, <1>3 DEF QdrantCollections
<1>5. Own(op[c]) = x /\ Own(op[c])' = x
  BY <1>4 DEF Own
<1> QED
  BY <1>4, <1>5 DEF Exists, Fits

\* A search goes on, or another call takes a step.
LEMMA DueStays ==
    ASSUME VInv, VInv', NEW d \in Callers, Due(d),
           backend' = backend, collections \subseteq collections',
           InFlight(d)' => InFlight(d) /\ op'[d] = op[d] /\ must'[d] \subseteq must[d],
           \A i \in must'[d] : sure[i] # Unsure => sure'[i] = sure[i],
           backend = "chroma" /\ pc'[d] = "query" =>
              counted'[d] >= AtMost(K, Cardinality(must'[d])),
           pc'[d] = "answered" => IsFiniteSet(answer'[d]) /\ Full(answer'[d], must'[d])
    PROVE  Due(d)'
<1>1. ASSUME InFlight(d)', must'[d] # {}
      PROVE  /\ op'[d].kind = "search"
             /\ \A i \in must'[d] : /\ TenantOf[i] = op'[d].tenant
                                    /\ sure'[i] = <<op'[d].model, "ACTIVE">>
             /\ backend' = "chroma" => op'[d].named
             /\ backend' = "qdrant" => Exists(op[d])' /\ Fits(op[d])'
  <2>1. InFlight(d) /\ op'[d] = op[d] /\ must'[d] \subseteq must[d] /\ must[d] # {}
    BY <1>1
  <2>2. /\ op[d].kind = "search"
        /\ \A i \in must[d] : TenantOf[i] = op[d].tenant /\ sure[i] = <<op[d].model, "ACTIVE">>
        /\ backend = "chroma" => op[d].named
        /\ backend = "qdrant" => Exists(op[d]) /\ Fits(op[d])
    BY <2>1 DEF Due
  <2>3. op[d].model \in Models /\ "ACTIVE" \in States
    BY DEF VInv, TypeOK, Op, States
  <2>4. \A i \in must'[d] : sure[i] # Unsure
    BY <2>1, <2>2, <2>3, ConstantFacts
  <2>5. backend = "qdrant" => Exists(op[d])' /\ Fits(op[d])'
    BY <2>1, <2>2, OwnStays
  <2> QED
    BY <2>1, <2>2, <2>4, <2>5
<1> QED
  BY <1>1 DEF Due

LEMMA SparedStay ==
    ASSUME VInv, VInv', NEW c \in Callers, Spares(c), NEW d \in Callers \ {c}, Due(d)
    PROVE  Due(d)'
<1>1. /\ pc'[d] = pc[d] /\ op'[d] = op[d] /\ counted'[d] = counted[d]
      /\ answer'[d] = answer[d] /\ must'[d] \in SUBSET must[d] /\ backend' = backend
      /\ collections \subseteq collections'
      /\ \A i \in must'[d] : sure[i] # Unsure => sure'[i] = sure[i]
  BY DEF Spares
<1>2. /\ IsFiniteSet(must[d]) /\ Cardinality(must[d]) \in Nat
      /\ Cardinality(must'[d]) \in Nat /\ Cardinality(must'[d]) <= Cardinality(must[d])
  BY <1>1, MustFinite DEF VInv
<1>3. InFlight(d)' <=> InFlight(d)
  BY <1>1 DEF InFlight
<1>4. ASSUME backend = "chroma", pc[d] = "query"
      PROVE  counted[d] >= AtMost(K, Cardinality(must'[d]))
  <2>1. counted[d] >= AtMost(K, Cardinality(must[d])) /\ counted[d] \in Nat
    BY <1>4 DEF Due, VInv, TypeOK
  <2> QED
    BY <1>2, <2>1, VectorAssumption DEF AtMost
<1>5. ASSUME pc[d] = "answered"
      PROVE  IsFiniteSet(answer[d]) /\ Full(answer[d], must'[d])
  <2>1. IsFiniteSet(answer[d]) /\ Full(answer[d], must[d])
    BY <1>5 DEF Due
  <2>2. Cardinality(answer[d]) \in Nat
    BY <2>1, FS_CardinalityType
  <2> QED
    BY <1>1, <1>2, <2>1, <2>2, FullOfLess
<1> QED
  BY <1>1, <1>3, <1>4, <1>5, DueStays

\* A call that has ended owes nothing.
LEMMA EndedOwesNothing ==
    ASSUME NEW c, pc'[c] = "idle"
    PROVE  Due(c)'
  BY DEF Due, InFlight

LEMMA OverSpares ==
    ASSUME VInv, NEW c \in Callers, Over(c), backend' = backend,
           collections \subseteq collections', must' = [must EXCEPT ![c] = {}],
           \A i \in Ids : sure[i] # Unsure => sure'[i] = sure[i]
    PROVE  Spares(c) /\ Due(c)'
<1>1. pc'[c] = "idle"
  BY DEF VInv, TypeOK, Over
<1>2. \A d \in Callers : must'[d] \subseteq Ids
  BY DEF VInv, TypeOK
<1>3. \A d \in Callers \ {c} :
          /\ pc'[d] = pc[d] /\ op'[d] = op[d] /\ counted'[d] = counted[d]
          /\ answer'[d] = answer[d] /\ must'[d] = must[d]
  BY DEF VInv, TypeOK, Over
<1> QED
  BY <1>1, <1>2, <1>3, EndedOwesNothing DEF Spares

LEMMA RaisesSpares ==
    ASSUME VInv, NEW c \in Callers, Raises(c), backend' = backend,
           collections \subseteq collections'
    PROVE  Spares(c) /\ Due(c)'
  BY OverSpares DEF Raises

\* A return changes only what was open.
LEMMA DoneSpares ==
    ASSUME VInv, NEW c \in Callers, InFlight(c), Done(c), backend' = backend,
           collections \subseteq collections'
    PROVE  Spares(c) /\ Due(c)'
<1>1. ASSUME NEW i \in Ids, sure[i] # Unsure
      PROVE  sure'[i] = sure[i]
  <2>1. CASE calm[c] /\ Changes(op[c])
    <3>1. sure[op[c].id] = Unsure
      BY <2>1 DEF VInv, Placed
    <3> QED
      BY <1>1, <2>1, <3>1 DEF Done, VInv, TypeOK
  <2>2. CASE ~(calm[c] /\ Changes(op[c]))
    BY <2>2 DEF Done
  <2> QED
    BY <2>1, <2>2
<1> QED
  BY <1>1, OverSpares DEF Done

\* A call that goes on, on Chroma to no query.
LEMMA GoingOnSpares ==
    ASSUME VInv, VInv', NEW c \in Callers, InFlight(c), Due(c), NEW phase,
           pc' = [pc EXCEPT ![c] = phase], phase # "answered",
           backend = "chroma" => phase # "query",
           op' = op, counted' = counted, answer' = answer, must' = must, sure' = sure,
           backend' = backend, collections \subseteq collections'
    PROVE  Spares(c) /\ Due(c)'
<1>1. pc'[c] = phase /\ \A d \in Callers \ {c} : pc'[d] = pc[d]
  BY DEF VInv, TypeOK
<1>2. Spares(c)
  BY <1>1 DEF Spares
<1>3. Due(c)'
  BY <1>1, DueStays
<1> QED
  BY <1>2, <1>3

LEMMA AnswerSpares ==
    ASSUME VInv, VInv', NEW c \in Callers, InFlight(c), Due(c), NEW found, Answer(c, found),
           IsFiniteSet(found), Full(found, must'[c]),
           \A d \in Callers \ {c} : must'[d] = must[d], must'[c] \subseteq must[c],
           sure' = sure, backend' = backend, collections \subseteq collections'
    PROVE  Spares(c) /\ Due(c)'
<1>1. /\ pc'[c] = "answered" /\ answer'[c] = found /\ op' = op /\ counted' = counted
      /\ \A d \in Callers \ {c} : pc'[d] = pc[d] /\ answer'[d] = answer[d]
  BY DEF VInv, TypeOK, Answer
<1>2. Spares(c)
  BY <1>1 DEF Spares
<1>3. Due(c)'
  BY <1>1, DueStays DEF InFlight
<1> QED
  BY <1>2, <1>3

\* Nothing is due of a search without such documents.
LEMMA NothingDue ==
    ASSUME NEW found, IsFiniteSet(found)
    PROVE  Full(found, {})
<1>1. Cardinality(found) \in Nat /\ Cardinality({}) = 0
  BY FS_CardinalityType, FS_EmptySet
<1> QED
  BY <1>1, VectorAssumption DEF Full, AtMost

-----------------------------------------------------------------------------
(* What is stored, for a search *)

\* What a search has to come across is stored where it looks.
LEMMA MustStored ==
    ASSUME VInv, NEW c \in Callers, InFlight(c), Due(c), NEW i \in must[c]
    PROVE  \E d \in docs : /\ d.id = i /\ d.tenant = op[c].tenant /\ LiveState(d)
                           /\ backend = "chroma" => d.in = ChromaCollection(op[c])
                           /\ backend = "qdrant" => d.in = Own(op[c])
<1>1. /\ op[c].kind = "search" /\ TenantOf[i] = op[c].tenant
      /\ sure[i] = <<op[c].model, "ACTIVE">>
      /\ backend = "chroma" => op[c].named
      /\ backend = "qdrant" => Exists(op[c]) /\ Fits(op[c])
  BY DEF Due
<1>2. i \in Ids /\ op[c].model \in Models /\ "ACTIVE" \in States
  BY OpFacts, MustFinite DEF VInv, States
<1>3. PICK d \in docs : d.id = i /\ d.tenant = TenantOf[i] /\ d.model = op[c].model
  BY <1>1, <1>2 DEF VInv, Told
<1>4. LiveState(d)
  BY <1>1, <1>2, <1>3 DEF VInv, Told, LiveState
<1>5. Home(d)
  BY DEF VInv, Stored
<1>6. backend = "chroma" => d.in = ChromaCollection(op[c])
  BY <1>1, <1>3, <1>5 DEF Home, ChromaCollection
<1>7. ASSUME backend = "qdrant" PROVE d.in = Own(op[c])
  <2>1. Own(op[c]) \in collections /\ Own(op[c]).owner = op[c].tenant
    BY <1>1, <1>7, OwnFacts
  <2>2. d.in \in collections /\ d.in.owner = op[c].tenant
    BY <1>1, <1>3, <1>5, <1>7 DEF Home
  <2> QED
    BY <1>7, <2>1, <2>2 DEF VInv, Stored
<1> QED
  BY <1>1, <1>3, <1>4, <1>6, <1>7

\* The nearest k of what is searched are enough, if k is.
LEMMA RowsSuffice ==
    ASSUME VInv, NEW c \in Callers, NEW rows \in SUBSET docs, NEW k \in Nat,
           \A i \in must[c] : \E d \in rows : d.id = i,
           k >= AtMost(K, Cardinality(must[c]))
    PROVE  IsFiniteSet(Nearest(rows, k)) /\ Full(Nearest(rows, k), must[c])
<1>1. IsFiniteSet(rows) /\ \A d \in rows : d.id \in Nat
  BY FS_Subset DEF VInv, TypeOK, Stored, Doc, Ids
<1>2. IsFiniteSet(must[c]) /\ must[c] \subseteq Nat
  BY MustFinite DEF VInv
<1>3. IsFiniteSet(Nearest(rows, k))
  BY <1>1, NearestSize
<1>4. Full(Nearest(rows, k), must[c])
  BY <1>1, <1>2, NearestFull
<1> QED
  BY <1>3, <1>4

LEMMA KSuffices ==
    ASSUME TypeOK, NEW c \in Callers
    PROVE  K \in Nat /\ K >= AtMost(K, Cardinality(must[c]))
  BY MustFinite, VectorAssumption DEF AtMost

-----------------------------------------------------------------------------
(* Each step *)

\* A document that is written to is no more among those searches have to come across.
LEMMA CallDue ==
    ASSUME VInv, VInv', NEW c \in Callers, NEW o \in Requests, Call(c, o)
    PROVE  Spares(c) /\ Due(c)'
<1>1. /\ UNCHANGED <<backend, collections, counted, answer>>
      /\ op'[c] = o /\ pc'[c] = FirstPhase(o) /\ o \in Op
      /\ \A d \in Callers \ {c} : pc'[d] = pc[d] /\ op'[d] = op[d]
  BY VectorAssumption DEF Call, VInv, TypeOK
<1>2. /\ \A d \in Callers \ {c} : must'[d] = IF Changes(o) THEN must[d] \ {o.id} ELSE must[d]
      /\ must'[c] = IF o.kind = "search" THEN Findable(o) ELSE {}
      /\ \A i \in Ids : (Changes(o) /\ i = o.id) \/ sure'[i] = sure[i]
  BY DEF Call, VInv, TypeOK
<1>3. o.kind = "search" => ~Changes(o)
  BY DEF Changes
<1>4. \A d \in Callers : \A i \in must'[d] : sure'[i] = sure[i]
  <2> SUFFICES ASSUME NEW d \in Callers, NEW i \in must'[d] PROVE sure'[i] = sure[i]
    OBVIOUS
  <2>1. i \in Ids
    BY DEF VInv, TypeOK
  <2>2. CASE d = c
    BY <1>2, <1>3, <2>1, <2>2
  <2>3. CASE d # c
    BY <1>2, <2>1, <2>3
  <2> QED
    BY <2>2, <2>3
<1>5. Spares(c)
  BY <1>1, <1>2, <1>4 DEF Spares
<1>6. FirstPhase(o) # "answered" /\ (backend = "chroma" => FirstPhase(o) # "query")
  <2>1. backend \in {"chroma", "qdrant", "pgvector"} /\ o.kind \in Kinds
    BY <1>1 DEF VInv, TypeOK, Op
  <2> QED
    BY <2>1, FirstPhaseFacts, <1>1 DEF FirstPhase, Kinds
<1>7. ASSUME must'[c] # {}
      PROVE  /\ o.kind = "search"
             /\ \A i \in must'[c] : TenantOf[i] = o.tenant /\ sure'[i] = <<o.model, "ACTIVE">>
             /\ backend = "chroma" => o.named
             /\ backend = "qdrant" => Exists(o)' /\ Fits(o)'
  <2>1. o.kind = "search" /\ must'[c] = Findable(o)
    BY <1>2, <1>7
  <2>2. \A i \in must'[c] : TenantOf[i] = o.tenant /\ sure[i] = <<o.model, "ACTIVE">>
    BY <2>1 DEF Findable
  <2>3. backend = "chroma" => o.named
    BY <1>7, <2>1 DEF Findable
  <2>4. ASSUME backend = "qdrant" PROVE Exists(o) /\ Fits(o)
    <3>1. PICK i \in Ids : i \in must'[c]
      BY <1>7, <2>1 DEF Findable
    <3>2. o.model \in Models /\ "ACTIVE" \in States
      BY <1>1 DEF Op, States
    <3>3. PICK d \in docs : d.id = i /\ d.tenant = o.tenant
      BY <2>2, <3>1, <3>2 DEF VInv, Told
    <3>4. d.in \in QdrantCollections(o)
      BY <2>4, <3>3 DEF VInv, Stored, Home, QdrantCollections
    <3>5. Own(o) \in QdrantCollections(o)
      BY <3>4 DEF Own
    <3>6. DimensionsOf[Own(o).model] = DimensionsOf[o.model]
      BY <2>1, <2>4, <3>1, <3>5 DEF Findable
    <3> QED
      BY <3>4, <3>6 DEF Exists, Fits
  <2>5. (Exists(o)' <=> Exists(o)) /\ (Fits(o)' <=> Fits(o))
    BY <1>1 DEF Exists, Fits, Own, QdrantCollections
  <2> QED
    BY <1>4, <2>1, <2>2, <2>3, <2>4, <2>5
<1>8. (Exists(op[c])' <=> Exists(o)') /\ (Fits(op[c])' <=> Fits(o)')
  BY <1>1 DEF Exists, Fits, Own, QdrantCollections
<1> QED
  BY <1>1, <1>5, <1>6, <1>7, <1>8 DEF Due

LEMMA NextCollectionDue ==
    ASSUME VInv, VInv', NEW c \in Callers, Due(c), InFlight(c), NEW x, NextCollection(c, x),
           UNCHANGED <<backend, collections>>
    PROVE  Spares(c) /\ Due(c)'
<1>1. CASE todo[c] = {x}
  BY <1>1, DoneSpares DEF NextCollection
<1>2. CASE todo[c] # {x}
  <2>1. /\ pc' = [pc EXCEPT ![c] = "get"]
        /\ UNCHANGED <<op, counted, answer, sure, calm, must>>
    BY <1>2 DEF NextCollection
  <2> QED
    BY <2>1, GoingOnSpares
<1> QED
  BY <1>1, <1>2

\* Chroma's count is of at least what is due.
LEMMA ChromaCountDue ==
    ASSUME VInv, VInv', NEW c \in Callers, Due(c), ChromaCount(c)
    PROVE  Spares(c) /\ Due(c)'
<1> DEFINE rows == In(ChromaCollection(op[c]))
           n == AtMost(K, Cardinality(rows))
           f == [i \in must[c] |-> CHOOSE d \in rows : d.id = i]
<1>1. /\ backend = "chroma" /\ pc[c] = "count" /\ InFlight(c)
      /\ UNCHANGED <<backend, collections, sure, must>>
  BY DEF ChromaCount, history, InFlight
<1>2. IsFiniteSet(must[c]) /\ Cardinality(must[c]) \in Nat
  BY MustFinite DEF VInv
<1>3. IsFiniteSet(rows) /\ Cardinality(rows) \in Nat
  BY FS_Subset, FS_CardinalityType DEF VInv, Stored, In
<1>4. \A i \in must[c] : f[i] \in rows /\ f[i].id = i
  <2>1. \A i \in must[c] : \E d \in rows : d.id = i
    BY <1>1, MustStored DEF In
  <2> QED
    BY <2>1
<1>5. Cardinality(must[c]) <= Cardinality(rows)
  <2>1. f \in Injection(must[c], rows)
    BY <1>4 DEF Injection, IsInjective
  <2> QED
    BY <1>3, <2>1, FS_Injection
<1>6. n \in Nat /\ n >= AtMost(K, Cardinality(must[c]))
  BY <1>2, <1>3, <1>5, VectorAssumption DEF AtMost
<1>7. \/ n <= 0 /\ Answer(c, {})
      \/ /\ counted' = [counted EXCEPT ![c] = n]
         /\ pc' = [pc EXCEPT ![c] = "query"]
         /\ UNCHANGED <<op, todo, answer>>
  BY DEF ChromaCount, Count
<1> HIDE DEF n, rows
<1>8. CASE n <= 0 /\ Answer(c, {})
  <2>1. Cardinality(must[c]) = 0
    BY <1>2, <1>6, <1>8, VectorAssumption DEF AtMost
  <2>2. must'[c] = {}
    BY <1>1, <1>2, <2>1, FS_EmptySet
  <2>3. IsFiniteSet({}) /\ Full({}, must'[c])
    BY <2>2, NothingDue, FS_EmptySet
  <2> QED
    BY <1>1, <1>8, <2>3, AnswerSpares
<1>9. CASE /\ counted' = [counted EXCEPT ![c] = n]
           /\ pc' = [pc EXCEPT ![c] = "query"]
           /\ UNCHANGED <<op, todo, answer>>
  <2>1. pc'[c] = "query" /\ counted'[c] = n
        /\ \A d \in Callers \ {c} : pc'[d] = pc[d] /\ counted'[d] = counted[d]
    BY <1>9 DEF VInv, TypeOK
  <2>2. Spares(c)
    BY <1>1, <1>9, <2>1 DEF Spares
  <2>3. Due(c)'
    BY <1>1, <1>6, <1>9, <2>1, DueStays
  <2> QED
    BY <2>2, <2>3
<1> QED
  BY <1>7, <1>8, <1>9

LEMMA ChromaQueryDue ==
    ASSUME VInv, VInv', NEW c \in Callers, Due(c), ChromaQuery(c)
    PROVE  Spares(c) /\ Due(c)'
<1>1. /\ backend = "chroma" /\ pc[c] = "query" /\ InFlight(c)
      /\ UNCHANGED <<backend, collections, sure, must>>
  BY DEF ChromaQuery, history, InFlight
<1>2. PICK rows : rows = {d \in In(ChromaCollection(op[c])) : ChromaWhere(d, op[c])}
  OBVIOUS
<1>3. rows \in SUBSET docs /\ Answer(c, Nearest(rows, counted[c]))
  BY <1>2 DEF ChromaQuery, In
<1>4. \A i \in must[c] : \E d \in rows : d.id = i
  BY <1>1, <1>2, MustStored DEF In, ChromaWhere
<1>5. counted[c] \in Nat /\ counted[c] >= AtMost(K, Cardinality(must[c]))
  BY <1>1 DEF Due, VInv, TypeOK
<1>6. PICK found : found = Nearest(rows, counted[c])
  OBVIOUS
<1>7. IsFiniteSet(found) /\ Full(found, must'[c])
  BY <1>1, <1>3, <1>4, <1>5, <1>6, RowsSuffice
<1> QED
  BY <1>1, <1>3, <1>6, <1>7, AnswerSpares

LEMMA ChromaStepDue ==
    ASSUME VInv, VInv', NEW c \in Callers, Due(c), ChromaStep(c)
    PROVE  Spares(c) /\ Due(c)'
<1>1. CASE ChromaOpen(c)
  <2>1. PICK phase : phase = IF op[c].kind = "upsert" THEN "put" ELSE "count"
    OBVIOUS
  <2>2. /\ InFlight(c) /\ collections \subseteq collections' /\ To(c, phase)
        /\ UNCHANGED <<backend, sure, must>>
    BY <1>1, <2>1 DEF ChromaOpen, InFlight, history
  <2>3. phase # "answered" /\ phase # "query"
    BY <2>1
  <2> QED
    BY <2>2, <2>3, GoingOnSpares DEF To
<1>2. CASE ChromaPut(c)
  BY <1>2, DoneSpares DEF ChromaPut, InFlight
<1>3. CASE ChromaCount(c)
  BY <1>3, ChromaCountDue
<1>4. CASE ChromaQuery(c)
  BY <1>4, ChromaQueryDue
<1>5. CASE ChromaCollections(c)
  <2>1. InFlight(c) /\ UNCHANGED <<backend, collections>>
    BY <1>5 DEF ChromaCollections, InFlight
  <2>2. CASE OfPrefix(op[c]) = {}
    BY <1>5, <2>1, <2>2, DoneSpares DEF ChromaCollections
  <2>3. CASE OfPrefix(op[c]) # {}
    <3>1. /\ pc' = [pc EXCEPT ![c] = "get"]
          /\ UNCHANGED <<op, counted, answer, sure, calm, must>>
      BY <1>5, <2>3 DEF ChromaCollections
    <3> QED
      BY <2>1, <3>1, GoingOnSpares
  <2> QED
    BY <2>2, <2>3
<1>6. CASE ChromaGet(c)
  <2>1. InFlight(c) /\ UNCHANGED <<backend, collections>>
    BY <1>6 DEF ChromaGet, InFlight
  <2>2. PICK x : x = AtCollection(c)
    OBVIOUS
  <2>3. CASE TenantHas(op[c], x)
    <3>1. To(c, "remove") /\ UNCHANGED <<sure, calm, must>>
      BY <1>6, <2>2, <2>3 DEF ChromaGet
    <3> QED
      BY <2>1, <3>1, GoingOnSpares DEF To
  <2>4. CASE ~TenantHas(op[c], x)
    <3>1. NextCollection(c, x)
      BY <1>6, <2>2, <2>4 DEF ChromaGet
    <3> QED
      BY <2>1, <3>1, NextCollectionDue
  <2> QED
    BY <2>3, <2>4
<1>7. CASE ChromaRemove(c)
  <2>1. InFlight(c) /\ UNCHANGED <<backend, collections>> /\ NextCollection(c, AtCollection(c))
    BY <1>7 DEF ChromaRemove, InFlight
  <2>2. PICK x : x = AtCollection(c)
    OBVIOUS
  <2> QED
    BY <2>1, <2>2, NextCollectionDue
<1> QED
  BY <1>1, <1>2, <1>3, <1>4, <1>5, <1>6, <1>7 DEF ChromaStep

LEMMA QdrantQueryDue ==
    ASSUME VInv, VInv', NEW c \in Callers, Due(c), QdrantQuery(c)
    PROVE  Spares(c) /\ Due(c)'
<1>1. /\ backend = "qdrant" /\ pc[c] = "query" /\ InFlight(c)
      /\ UNCHANGED <<backend, collections, sure, must>>
  BY DEF QdrantQuery, history, InFlight
<1>2. CASE Exists(op[c]) /\ Fits(op[c])
  <2>1. PICK rows : rows = {d \in In(Own(op[c])) : LiveState(d)}
    OBVIOUS
  <2>2. PICK found : found = Nearest(rows, K)
    OBVIOUS
  <2>3. rows \in SUBSET docs /\ Answer(c, found)
    BY <1>2, <2>1, <2>2 DEF QdrantQuery, In
  <2>4. \A i \in must[c] : \E d \in rows : d.id = i
    BY <1>1, <2>1, MustStored DEF In
  <2>5. IsFiniteSet(found) /\ Full(found, must'[c])
    BY <1>1, <2>2, <2>3, <2>4, RowsSuffice, KSuffices DEF VInv
  <2> QED
    BY <1>1, <2>3, <2>5, AnswerSpares
<1>3. CASE ~(Exists(op[c]) /\ Fits(op[c]))
  <2>1. must'[c] = {}
    BY <1>1, <1>3 DEF Due
  <2>2. Answer(c, {})
    BY <1>3 DEF QdrantQuery
  <2>3. IsFiniteSet({}) /\ Full({}, must'[c])
    BY <2>1, NothingDue, FS_EmptySet
  <2> QED
    BY <1>1, <2>2, <2>3, AnswerSpares
<1> QED
  BY <1>2, <1>3

LEMMA QdrantStepDue ==
    ASSUME VInv, VInv', NEW c \in Callers, Due(c), QdrantStep(c)
    PROVE  Spares(c) /\ Due(c)'
<1>1. CASE QdrantOpen(c)
  <2>1. PICK phase \in {"put", "create"} : To(c, phase)
    BY <1>1 DEF QdrantOpen
  <2>2. backend = "qdrant" /\ InFlight(c) /\ UNCHANGED <<backend, collections, sure, must>>
    BY <1>1 DEF QdrantOpen, InFlight, history
  <2> QED
    BY <2>1, <2>2, GoingOnSpares DEF To
<1>2. CASE QdrantCreate(c)
  <2>1. backend = "qdrant" /\ InFlight(c) /\ UNCHANGED backend
    BY <1>2 DEF QdrantCreate, InFlight
  <2>2. CASE CreateRefused(op[c])
    BY <1>2, <2>2, <2>1, RaisesSpares DEF QdrantCreate
  <2>3. CASE ~CreateRefused(op[c])
    <3>1. collections \subseteq collections' /\ To(c, "put") /\ UNCHANGED <<sure, must>>
      BY <1>2, <2>3 DEF QdrantCreate
    <3> QED
      BY <2>1, <3>1, GoingOnSpares DEF To
  <2> QED
    BY <2>2, <2>3
<1>3. CASE QdrantPut(c)
  <2>1. InFlight(c) /\ UNCHANGED <<backend, collections>> /\ (Done(c) \/ Raises(c))
    BY <1>3 DEF QdrantPut, InFlight
  <2> QED
    BY <2>1, DoneSpares, RaisesSpares
<1>4. CASE QdrantQuery(c)
  BY <1>4, QdrantQueryDue
<1>5. CASE QdrantRemove(c)
  BY <1>5, DoneSpares DEF QdrantRemove, InFlight
<1> QED
  BY <1>1, <1>2, <1>3, <1>4, <1>5 DEF QdrantStep

LEMMA PgvectorStepDue ==
    ASSUME VInv, VInv', NEW c \in Callers, Due(c), PgvectorStep(c)
    PROVE  Spares(c) /\ Due(c)'
<1>1. CASE PgvectorPut(c)
  <2>1. InFlight(c) /\ UNCHANGED <<backend, collections>> /\ (Done(c) \/ Raises(c))
    BY <1>1 DEF PgvectorPut, InFlight
  <2> QED
    BY <2>1, DoneSpares, RaisesSpares
<1>2. CASE PgvectorQuery(c)
  <2>1. PICK rows : rows = {d \in docs : PgvectorWhere(d, op[c])}
    OBVIOUS
  <2>2. /\ backend = "pgvector" /\ InFlight(c) /\ UNCHANGED <<backend, collections>>
        /\ (Answer(c, Nearest(rows, K)) /\ UNCHANGED <<sure, calm, must>>) \/ Raises(c)
    BY <1>2, <2>1 DEF PgvectorQuery, InFlight
  <2>3. CASE Raises(c)
    BY <2>2, <2>3, RaisesSpares
  <2>4. CASE Answer(c, Nearest(rows, K)) /\ UNCHANGED <<sure, calm, must>>
    <3>1. PICK found : found = Nearest(rows, K)
      OBVIOUS
    <3>2. rows \in SUBSET docs /\ \A i \in must[c] : \E d \in rows : d.id = i
      BY <2>1, <2>2, MustStored DEF PgvectorWhere
    <3>3. IsFiniteSet(found) /\ Full(found, must'[c])
      BY <2>4, <3>1, <3>2, RowsSuffice, KSuffices DEF VInv
    <3> QED
      BY <2>2, <2>4, <3>1, <3>3, AnswerSpares
  <2> QED
    BY <2>2, <2>3, <2>4
<1>3. CASE PgvectorRemove(c)
  BY <1>3, DoneSpares DEF PgvectorRemove, InFlight
<1> QED
  BY <1>1, <1>2, <1>3 DEF PgvectorStep

LEMMA CancelDue ==
    ASSUME VInv, VInv', NEW c \in Callers, Due(c), Cancel(c)
    PROVE  Spares(c) /\ Due(c)'
<1>1. UNCHANGED <<backend, collections, pc, op, counted, answer, sure, must>>
  BY DEF Cancel, call
<1>2. Spares(c)
  BY <1>1 DEF Spares
<1>3. Due(c)'
  BY <1>1 DEF Due, InFlight, Exists, Fits, Own, QdrantCollections
<1> QED
  BY <1>2, <1>3

LEMMA ServerRefusesDue ==
    ASSUME VInv, VInv', NEW c \in Callers, Due(c), ServerRefuses(c)
    PROVE  Spares(c) /\ Due(c)'
<1>1. UNCHANGED <<backend, collections>>
  BY DEF ServerRefuses
<1>2. CASE /\ pc[c] = "query" /\ Answer(c, {}) /\ must' = [must EXCEPT ![c] = {}]
           /\ UNCHANGED sure
  <2>1. /\ InFlight(c) /\ must'[c] = {}
        /\ \A d \in Callers \ {c} : must'[d] = must[d]
    BY <1>2 DEF InFlight, VInv, TypeOK
  <2>2. IsFiniteSet({}) /\ Full({}, must'[c])
    BY <2>1, NothingDue, FS_EmptySet
  <2> QED
    BY <1>1, <1>2, <2>1, <2>2, AnswerSpares
<1>3. CASE pc[c] = "remove" /\ Done(c)
  BY <1>1, <1>3, DoneSpares DEF InFlight
<1> QED
  BY <1>2, <1>3 DEF ServerRefuses

LEMMA UpsetDue ==
    ASSUME VInv, VInv', NEW c \in Callers, Due(c),
           Leave(c) \/ StepRaises(c) \/ AnswerLost(c) \/ Cancel(c) \/ ServerRefuses(c)
    PROVE  Spares(c) /\ Due(c)'
<1>1. CASE Leave(c)
  BY <1>1, RaisesSpares DEF Leave
<1>2. CASE StepRaises(c)
  BY <1>2, RaisesSpares DEF StepRaises
<1>3. CASE AnswerLost(c)
  <2>1. Raises(c) /\ backend' = backend /\ collections \subseteq collections'
    BY <1>3 DEF AnswerLost
  <2> QED
    BY <2>1, RaisesSpares
<1> QED
  BY <1>1, <1>2, <1>3, CancelDue, ServerRefusesDue

-----------------------------------------------------------------------------
DueInv == \A c \in Callers : Due(c)

LEMMA InitDue == Init => DueInv
  BY DEF Init, DueInv, Due, InFlight

LEMMA NextDue == VInv /\ VInv' /\ DueInv /\ [Next]_vars => DueInv'
<1> SUFFICES ASSUME VInv, VInv', DueInv, [Next]_vars PROVE DueInv'
  OBVIOUS
<1>1. ASSUME NEW c \in Callers, Spares(c) /\ Due(c)'
      PROVE  DueInv'
  BY <1>1, SparedStay DEF DueInv
<1>2. ASSUME NEW c \in Callers, NEW o \in Requests, Call(c, o) PROVE DueInv'
  BY <1>1, <1>2, CallDue
<1>3. ASSUME NEW c \in Callers, ChromaStep(c) \/ QdrantStep(c) \/ PgvectorStep(c) PROVE DueInv'
  BY <1>1, <1>3, ChromaStepDue, QdrantStepDue, PgvectorStepDue DEF DueInv
<1>4. ASSUME NEW c \in Callers,
             Leave(c) \/ StepRaises(c) \/ AnswerLost(c) \/ Cancel(c) \/ ServerRefuses(c)
      PROVE  DueInv'
  BY <1>1, <1>4, UpsetDue DEF DueInv
<1>5. CASE Restart
  <2>1. \A c \in Callers : pc'[c] = "idle"
    BY <1>5 DEF Restart
  <2> QED
    BY <2>1, EndedOwesNothing DEF DueInv
<1>6. CASE UNCHANGED vars
  <2>1. UNCHANGED <<backend, collections, pc, op, counted, answer, sure, must>>
    BY <1>6 DEF vars, call, history
  <2> QED
    BY <2>1 DEF DueInv, Due, InFlight, Exists, Fits, Own, QdrantCollections
<1> QED
  BY <1>2, <1>3, <1>4, <1>5, <1>6 DEF Next

\* However calls overlap, fail and share collections, a search of any adapter
\* returns every active document that was there all along, or as many as were
\* asked for, none of them farther than one left out.
THEOREM SearchesComplete == Spec => []SearchComplete
<1>1. VInv /\ VInv' /\ DueInv /\ [Next]_vars => DueInv'
  BY NextDue
<1>2. DueInv => SearchComplete
  BY DEF DueInv, Due, Full, SearchComplete
<1> QED
  BY InitDue, VInvariant, <1>1, <1>2, PTL DEF Spec
=============================================================================
