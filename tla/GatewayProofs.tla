----------------------------- MODULE GatewayProofs -----------------------------
(***************************************************************************)
(* What holds at the boundary for any clients, requests, attempts, faults. *)
(*                                                                         *)
(* The invariant says per attempt what it has behind it at each await      *)
(* (Placed), across attempts that none shares an identifier (Distinct) and *)
(* that every row has the attempt that wrote it (Owned), and what a check  *)
(* has seen so far (Watched).                                              *)
(***************************************************************************)
EXTENDS Gateway, TLAPS

\* An attempt is a client and a number.
LEMMA SlotFacts ==
    /\ \A s \in Slots : s[1] \in Clients /\ s[2] \in 1..MaxSends[s[1]] /\ s = <<s[1], s[2]>>
    /\ \A c \in Clients : \A n \in 1..MaxSends[c] : <<c, n>> \in Slots
  BY DEF Slots

\* Whatever the surface, the HTTP request asks for what its caller asked.
LEMMA OnWireKeeps ==
    ASSUME NEW r \in Request, Offered(r)
    PROVE  /\ OnWire(r).op = r.op /\ OnWire(r).tenant = r.tenant
           /\ OnWire(r).adminKey = r.adminKey
           /\ r.op = "write" => OnWire(r).key = r.key
<1>1. CASE r.surface = "http"
  BY <1>1 DEF OnWire
<1>2. CASE r.surface = "sdk"
  BY <1>2 DEF OnWire, Request, Nodes, Queries, SdkWrite, SdkQuery, SdkById
<1>3. CASE r.surface = "mcp"
  BY <1>3 DEF OnWire, Request, Nodes, Queries, McpWrite, McpQuery, McpById, SdkWrite, SdkQuery,
     SdkById
<1>4. CASE r.surface = "node"
  BY <1>4 DEF OnWire, Request, Offered, Nodes, Queries, NodeWrite, NodeQuery, SdkWrite, SdkQuery
<1> QED
  BY <1>1, <1>2, <1>3, <1>4 DEF Request, Surfaces

LEMMA RefusalFacts ==
    ASSUME NEW q
    PROVE  /\ \A a \in Refusals(q) : a.status \in {400, 401, 403, 500} /\ a \in Response
           /\ Refusals(q) = {} => ~Unnamed(q) /\ ~KeyWrong(q)
<1>1. \A a \in Refusals(q) : a.status \in {400, 401, 403, 500} /\ a \in Response
  BY DEF Refusals, Answer, Response, Errors
<1>2. ASSUME Unnamed(q) PROVE Refusals(q) # {}
  <2>1. Answer(403, "TENANT_ISOLATION_VIOLATION") \in Refusals(q)
    BY <1>2 DEF Refusals, Answer
  <2> QED
    BY <2>1
<1>3. ASSUME ~Unnamed(q), KeyWrong(q) PROVE Refusals(q) # {}
  <2>1. Answer(401, "NONE") \in Refusals(q)
    BY <1>3 DEF Refusals, Answer
  <2> QED
    BY <2>1
<1> QED
  BY <1>1, <1>2, <1>3

\* What a statement of the repository can add to the rows.
LEMMA SaveRowAdds ==
    ASSUME NEW R, NEW row
    PROVE  SaveRow(R, row) \subseteq R \cup {row}
  BY DEF SaveRow, SqliteSave, PostgresSave

-----------------------------------------------------------------------------
(* Where an attempt is, and what it has behind it. *)

\* A client that has sent anything asks for something it may ask for.
Wants == \A c \in Clients : sent[c] > 0 => want[c] \in Requests[c]

Writing == {"lookup", "save", "finish"}
Probes == {"health", "ready"}

\* The use case was called for the tenant the caller named, if it had to be.
CalledFor(s) ==
    /\ ran[s] = Asked(s).tenant
    /\ Asked(s).op \in Admin \cup Probes \/ ran[s] \in Tenants
    /\ Asked(s).op = "migrate" /\ AdminKeySet => Asked(s).adminKey

Placed(s) ==
    /\ at[s] # "unsent" => s[2] <= sent[s[1]]
    /\ at[s] \in {"unsent", "wire"} => ran[s] = NoRun /\ \A k \in Components : verdict[s][k] = "pending"
    /\ at[s] \in {"unsent", "wire", "lookup", "running", "probing"} => memoryId[s] = NoId
    /\ at[s] \notin {"replied", "gone"} => reply[s] = Nothing
    /\ at[s] \in Writing => Asked(s).op = "write" /\ CalledFor(s)
    /\ at[s] = "running" => Asked(s).op \in Queries \cup ById \cup Admin
    /\ at[s] = "probing" => Asked(s).op \in Probes
    /\ at[s] \in {"save", "finish"} => memoryId[s] # NoId
    /\ memoryId[s] # NoId => memoryId[s] \in minted /\ Asked(s).op = "write" /\ CalledFor(s)
    /\ ran[s] # NoRun => CalledFor(s)

PInv ==
    /\ TypeOK
    /\ Wants
    /\ \A s \in Slots : Placed(s)

LEMMA InitPInv == Init => PInv
<1> SUFFICES ASSUME Init PROVE PInv
  OBVIOUS
<1>1. TypeOK
  BY GatewayAssumption DEF Init, TypeOK, Phase, Nothing, Answer, Response, Errors
<1>2. Wants /\ \A s \in Slots : Placed(s)
  BY DEF Init, Wants, Placed, Writing
<1> QED
  BY <1>1, <1>2 DEF PInv

LEMMA WantFacts ==
    ASSUME PInv, NEW c \in Clients, sent[c] > 0
    PROVE  /\ want[c] \in Request /\ Offered(want[c])
           /\ want[c] # NoRequest
<1>1. want[c] \in Request /\ Offered(want[c])
  BY GatewayAssumption DEF PInv, Wants
<1>2. want[c] # NoRequest
  BY <1>1 DEF Request, NoRequest, Ops, Queries, ById, Admin
<1> QED
  BY <1>1, <1>2

\* What an attempt under way asks the application for.
LEMMA AskedFacts ==
    ASSUME PInv, NEW s \in Slots, at[s] # "unsent"
    PROVE  /\ want[s[1]] \in Request
           /\ Asked(s).op = want[s[1]].op /\ Asked(s).op \in Ops
           /\ Asked(s).tenant = want[s[1]].tenant /\ Asked(s).tenant \in Tenants \cup {Blank}
           /\ Asked(s).adminKey = want[s[1]].adminKey
           /\ Asked(s).op = "write" =>
                 Asked(s).key = want[s[1]].key /\ Asked(s).key \in Keys \cup {NoKey}
<1>1. s[1] \in Clients /\ s[2] \in 1..MaxSends[s[1]]
  BY SlotFacts
<1>2. sent[s[1]] > 0
  BY <1>1 DEF PInv, Placed, TypeOK
<1>3. want[s[1]] \in Request /\ Offered(want[s[1]])
  BY <1>1, <1>2, WantFacts
<1>4. /\ want[s[1]].op \in Ops /\ want[s[1]].tenant \in Tenants \cup {Blank}
      /\ want[s[1]].key \in Keys \cup {NoKey}
  BY <1>3 DEF Request
<1> QED
  BY <1>3, <1>4, OnWireKeeps DEF Asked

\* What a step leaves of an attempt that is not its own.
Untouched(u) ==
    /\ at'[u] = at[u] /\ reply'[u] = reply[u] /\ memoryId'[u] = memoryId[u]
    /\ ran'[u] = ran[u] /\ verdict'[u] = verdict[u]
    /\ want'[u[1]] = want[u[1]] \/ at[u] = "unsent"
    /\ sent[u[1]] <= sent'[u[1]] /\ sent'[u[1]] \in Nat
    /\ minted \subseteq minted'

LEMMA UntouchedPlaced ==
    ASSUME PInv, NEW u \in Slots, Untouched(u)
    PROVE  Placed(u)'
<1>1. Placed(u) /\ u[1] \in Clients /\ u[2] \in Nat /\ sent[u[1]] \in Nat
  BY SlotFacts, GatewayAssumption DEF PInv, TypeOK
<1>2. CASE at[u] = "unsent"
  BY <1>1, <1>2 DEF Untouched, Placed, Writing
<1>3. CASE at[u] # "unsent"
  <2>1. Asked(u)' = Asked(u)
    BY <1>3 DEF Untouched, Asked
  <2>2. CalledFor(u) => CalledFor(u)'
    BY <2>1 DEF CalledFor, Untouched
  <2> QED
    BY <1>1, <1>3, <2>1, <2>2 DEF Untouched, Placed
<1> QED
  BY <1>2, <1>3

\* A step of one attempt keeps PInv if it leaves that one placed.
LEMMA OnePlaced ==
    ASSUME PInv, TypeOK', Wants', NEW s \in Slots, Placed(s)',
           \A u \in Slots \ {s} : Untouched(u)
    PROVE  PInv'
  BY UntouchedPlaced DEF PInv

LEMMA AnswerFacts ==
    /\ Nothing \in Response /\ Answer(0, "VALUE_ERROR") \in Response
    /\ Answer(0, "TRANSPORT") \in Response
    /\ Answer(200, "NONE") \in Response /\ Answer(503, "NONE") \in Response
    /\ StorageFailure \in Response /\ StorageFailure.status \in {400, 500}
    /\ StorageFailure.status = 400 => StorageFailure.error = "DOMAIN_ERROR"
    /\ \A m \in MemoryIds : Written(m) \in Response /\ Written(m).status = 200 /\ Written(m).id = m
    /\ \A a \in Response : Reading(a) \in Response
  BY DEF Nothing, Answer, Response, Errors, StorageFailure, Written, Reading

LEMMA EndingFacts ==
    ASSUME NEW op \in Queries \cup ById \cup Admin, NEW a \in Endings(op)
    PROVE  a \in Response /\ a.status \in {200, 202, 204, 404, 409, 500}
<1>1. CASE op \in Queries
  BY <1>1 DEF Endings, Queries, Answer, Response, Errors
<1>2. CASE op \in ById
  BY <1>2 DEF Endings, Queries, ById, Admin, Answer, Response, Errors
<1>3. CASE op \in Admin
  BY <1>3 DEF Endings, Queries, ById, Admin, Answer, Response, Errors
<1> QED
  BY <1>1, <1>2, <1>3

LEMMA RespondsFacts ==
    ASSUME TypeOK, NEW s \in Slots, NEW a \in Response, Responds(s, a)
    PROVE  /\ at' \in [Slots -> Phase] /\ reply' \in [Slots -> Response]
           /\ at'[s] = "replied" /\ reply'[s] = a
           /\ \A u \in Slots \ {s} : at'[u] = at[u] /\ reply'[u] = reply[u]
  BY DEF TypeOK, Responds, Phase

LEMMA SendPlaced ==
    ASSUME PInv, NEW c \in Clients, NEW r \in Requests[c], Send(c, r)
    PROVE  PInv'
<1>1. /\ r = want[c] \/ want[c] = NoRequest
      /\ sent[c] < MaxSends[c]
      /\ want' = [want EXCEPT ![c] = r]
      /\ sent' = [sent EXCEPT ![c] = sent[c] + 1]
      /\ UNCHANGED <<store, reply, memoryId, ran, verdict, health, upsets>>
      /\ sent[c] \in Nat /\ MaxSends[c] \in Nat
      /\ r \in Request
  BY GatewayAssumption DEF Send, PInv, TypeOK
<1>2. PICK s \in Slots : s = <<c, sent[c] + 1>> /\ s[1] = c /\ s[2] = sent[c] + 1
  <2>1. sent[c] + 1 \in 1..MaxSends[c]
    BY <1>1
  <2> QED
    BY <2>1, SlotFacts
<1>3. \/ at' = at /\ got' = [got EXCEPT ![s] = Answer(0, "VALUE_ERROR")]
      \/ at' = [at EXCEPT ![s] = "wire"] /\ got' = got
  BY <1>2 DEF Send
<1>4. TypeOK'
  <2>1. want' \in [Clients -> Request \cup {NoRequest}] /\ sent' \in [Clients -> Nat]
    BY <1>1 DEF PInv, TypeOK
  <2>2. \A d \in Clients : sent'[d] <= MaxSends[d]
    BY <1>1 DEF PInv, TypeOK
  <2>3. at' \in [Slots -> Phase] /\ got' \in [Slots -> Response]
    <3>1. Answer(0, "VALUE_ERROR") \in Response
      BY AnswerFacts
    <3>2. at \in [Slots -> Phase] /\ got \in [Slots -> Response] /\ "wire" \in Phase
      BY DEF PInv, TypeOK, Phase
    <3> QED
      BY <1>2, <1>3, <3>1, <3>2
  <2> QED
    BY <1>1, <2>1, <2>2, <2>3 DEF PInv, TypeOK, store, health
<1>5. Wants'
  BY <1>1 DEF PInv, TypeOK, Wants
<1>6. \A u \in Slots : want'[u[1]] = want[u[1]] \/ at[u] = "unsent"
  <2> SUFFICES ASSUME NEW u \in Slots, at[u] # "unsent" PROVE want'[u[1]] = want[u[1]]
    OBVIOUS
  <2>1. u[1] \in Clients /\ sent[u[1]] > 0
    BY SlotFacts, GatewayAssumption DEF PInv, TypeOK, Placed
  <2>2. want[u[1]] # NoRequest
    BY <2>1, WantFacts
  <2> QED
    BY <1>1, <2>1, <2>2 DEF PInv, TypeOK
<1>7. \A u \in Slots : sent[u[1]] <= sent'[u[1]] /\ sent'[u[1]] \in Nat
  BY <1>1, SlotFacts DEF PInv, TypeOK
<1>8. \A u \in Slots \ {s} : Untouched(u)
  <2>1. \A u \in Slots \ {s} : at'[u] = at[u]
    BY <1>2, <1>3 DEF PInv, TypeOK
  <2> QED
    BY <1>1, <1>6, <1>7, <2>1 DEF Untouched, store
<1>9. Placed(s)'
  <2>1. at[s] = "unsent"
    BY <1>1, <1>2 DEF PInv, Placed
  <2>2. at'[s] \in {"unsent", "wire"} /\ sent'[s[1]] = s[2]
    BY <1>1, <1>2, <1>3, <2>1 DEF PInv, TypeOK
  <2>3. s[2] <= sent'[s[1]]
    BY <1>1, <1>2, <2>2
  <2>4. /\ reply'[s] = Nothing /\ memoryId'[s] = NoId /\ ran'[s] = NoRun
        /\ \A k \in Components : verdict'[s][k] = "pending"
    BY <1>1, <1>2, <2>1 DEF PInv, Placed
  <2> QED
    BY <2>2, <2>3, <2>4 DEF Placed, Writing
<1> QED
  BY <1>2, <1>4, <1>5, <1>8, <1>9, OnePlaced

LEMMA ReceivePlaced ==
    ASSUME PInv, NEW c \in Clients, Receipt(c) \/ TransportError(c)
    PROVE  PInv'
<1>1. UNCHANGED <<store, want, sent, server, health, upsets>>
  BY DEF Receipt, TransportError
<1>2. Last(c) \in Slots
  <2>1. sent[c] > 0
    BY DEF Receipt, TransportError, Waiting
  <2>2. sent[c] \in 1..MaxSends[c]
    BY <2>1, GatewayAssumption DEF PInv, TypeOK
  <2> QED
    BY <2>2, SlotFacts DEF Last
<1>3. got' \in [Slots -> Response]
  <2>1. reply[Last(c)] \in Response
    BY <1>2 DEF PInv, TypeOK
  <2>2. PICK a \in Response : got' = [got EXCEPT ![Last(c)] = a]
    BY <2>1, AnswerFacts DEF Receipt, TransportError
  <2> QED
    BY <1>2, <2>2 DEF PInv, TypeOK
<1>4. TypeOK' /\ Wants'
  BY <1>1, <1>3 DEF PInv, TypeOK, Wants, store, server, health
<1>5. \A u \in Slots : Untouched(u)
  BY <1>1, SlotFacts DEF PInv, TypeOK, Untouched, store, server
<1> QED
  BY <1>4, <1>5, UntouchedPlaced DEF PInv

LEMMA UntouchedElse ==
    ASSUME PInv, NEW s \in Slots, UNCHANGED client, minted \subseteq minted',
           \A u \in Slots \ {s} :
              /\ at'[u] = at[u] /\ reply'[u] = reply[u] /\ memoryId'[u] = memoryId[u]
              /\ ran'[u] = ran[u] /\ verdict'[u] = verdict[u]
    PROVE  /\ \A u \in Slots \ {s} : Untouched(u)
           /\ Wants' /\ Asked(s)' = Asked(s)
<1>1. want' = want /\ sent' = sent /\ \A c \in Clients : sent[c] \in Nat
  BY DEF client, PInv, TypeOK
<1>2. \A u \in Slots \ {s} : Untouched(u)
  BY <1>1, SlotFacts DEF Untouched
<1> QED
  BY <1>1, <1>2 DEF PInv, Wants, Asked

\* An attempt that is answered keeps what it has done.
LEMMA AnsweredPlaced ==
    ASSUME PInv, NEW s \in Slots, NEW a \in Response, Responds(s, a), at[s] # "unsent",
           UNCHANGED <<minted, client, memoryId, ran, verdict, health>>,
           rows' \subseteq Row, upsets' \in 0..MaxUpsets
    PROVE  PInv'
<1>1. /\ at' \in [Slots -> Phase] /\ reply' \in [Slots -> Response]
      /\ at'[s] = "replied"
      /\ \A u \in Slots \ {s} : at'[u] = at[u] /\ reply'[u] = reply[u]
  BY RespondsFacts DEF PInv
<1>2. TypeOK'
  BY <1>1 DEF PInv, TypeOK, client, health
<1>3. /\ \A u \in Slots \ {s} : Untouched(u)
      /\ Wants' /\ Asked(s)' = Asked(s)
  BY <1>1, UntouchedElse
<1>4. Placed(s)'
  <2>1. CalledFor(s) => CalledFor(s)'
    BY <1>3 DEF CalledFor
  <2> QED
    BY <1>1, <1>3, <2>1 DEF PInv, Placed, Writing, client
<1> QED
  BY <1>2, <1>3, <1>4, OnePlaced

\* A use case is entered for a tenant that passed the checks.
LEMMA EnteredPlaced ==
    ASSUME PInv, NEW s \in Slots, NEW ph \in {"lookup", "save", "running", "probing"},
           at[s] = "wire", Enters(s, ph), UNCHANGED <<rows, client, verdict, upsets>>,
           health' = health \/ TypeOK',
           minted \subseteq minted', minted' \subseteq MemoryIds,
           \/ memoryId' = memoryId /\ ph # "save"
           \/ \E m \in minted' : ph = "save" /\ memoryId' = [memoryId EXCEPT ![s] = m],
           ph \in {"lookup", "save"} => Asked(s).op = "write",
           ph = "running" => Asked(s).op \in Queries \cup ById \cup Admin,
           ph = "probing" => Asked(s).op \in Probes
    PROVE  PInv'
<1>1. /\ at' = [at EXCEPT ![s] = ph] /\ ran' = [ran EXCEPT ![s] = Asked(s).tenant]
      /\ reply' = reply /\ ~Unnamed(Asked(s)) /\ ~KeyWrong(Asked(s))
  BY RefusalFacts DEF Enters
<1>2. /\ Asked(s).tenant \in Tenants \cup {Blank}
      /\ Asked(s).op \in Ops
  BY AskedFacts
<1>3. TypeOK'
  <2>1. CASE TypeOK'
    BY <2>1
  <2>2. CASE health' = health
    <3>1. memoryId' \in [Slots -> MemoryIds \cup {NoId}]
      BY DEF PInv, TypeOK
    <3>2. at' \in [Slots -> Phase] /\ ran' \in [Slots -> Tenants \cup {Blank, NoRun}]
      BY <1>1, <1>2 DEF PInv, TypeOK, Phase
    <3> QED
      BY <1>1, <2>2, <3>1, <3>2 DEF PInv, TypeOK, client, health
  <2> QED
    BY <2>1, <2>2
<1>4. /\ \A u \in Slots \ {s} : Untouched(u)
      /\ Wants' /\ Asked(s)' = Asked(s)
  <2>1. \A u \in Slots \ {s} : at'[u] = at[u] /\ ran'[u] = ran[u] /\ memoryId'[u] = memoryId[u]
    BY <1>1 DEF PInv, TypeOK
  <2> QED
    BY <1>1, <2>1, UntouchedElse
<1>5. at'[s] = ph /\ ran'[s] = Asked(s).tenant
  BY <1>1 DEF PInv, TypeOK
<1>6. CalledFor(s)'
  BY <1>1, <1>2, <1>4, <1>5 DEF CalledFor, Unnamed, KeyWrong, Probes
<1>7. Placed(s)'
  <2>1. /\ s[2] <= sent[s[1]] /\ memoryId[s] = NoId /\ reply[s] = Nothing
    BY DEF PInv, Placed
  <2>2. ph # "save" => memoryId'[s] = NoId
    BY <2>1
  <2>3. ph = "save" => memoryId'[s] \in minted' /\ memoryId'[s] # NoId
    BY GatewayAssumption DEF PInv, TypeOK
  <2> QED
    BY <1>1, <1>4, <1>5, <1>6, <2>1, <2>2, <2>3 DEF Placed, Writing, client
<1> QED
  BY <1>3, <1>4, <1>7, OnePlaced

LEMMA RefusePlaced ==
    ASSUME PInv, NEW s \in Slots, Refuse(s)
    PROVE  PInv'
<1>1. PICK a \in Response : Responds(s, a)
  BY RefusalFacts DEF Refuse
<1>2. /\ at[s] # "unsent" /\ rows' \subseteq Row /\ upsets' \in 0..MaxUpsets
      /\ UNCHANGED <<minted, client, memoryId, ran, verdict, health>>
  BY DEF Refuse, store, PInv, TypeOK
<1> QED
  BY <1>1, <1>2, AnsweredPlaced

LEMMA WriteEndpointPlaced ==
    ASSUME PInv, NEW s \in Slots, WriteEndpoint(s)
    PROVE  PInv'
<1>1. /\ at[s] = "wire" /\ Asked(s).op = "write"
      /\ UNCHANGED <<rows, client, verdict, health, upsets>>
      /\ minted \subseteq MemoryIds
  BY DEF WriteEndpoint, PInv, TypeOK
<1>2. CASE Enters(s, "lookup") /\ UNCHANGED <<minted, memoryId>>
  BY <1>1, <1>2, EnteredPlaced
<1>3. CASE Enters(s, "save") /\ Mints(s)
  BY <1>1, <1>3, EnteredPlaced DEF Mints
<1> QED
  BY <1>2, <1>3 DEF WriteEndpoint

LEMMA EndpointPlaced ==
    ASSUME PInv, NEW s \in Slots, Endpoint(s)
    PROVE  PInv'
<1>1. /\ at[s] = "wire" /\ Asked(s).op \in Queries \cup ById \cup Admin
      /\ Enters(s, "running")
      /\ UNCHANGED <<rows, client, verdict, health, upsets, minted, memoryId>>
      /\ minted \subseteq MemoryIds
  BY DEF Endpoint, store, PInv, TypeOK
<1> QED
  BY <1>1, EnteredPlaced

LEMMA HealthEndpointPlaced ==
    ASSUME PInv, NEW s \in Slots, HealthEndpoint(s)
    PROVE  PInv'
<1>1. /\ at[s] = "wire" /\ Asked(s).op \in Probes
      /\ Enters(s, "probing")
      /\ UNCHANGED <<rows, client, verdict, upsets, minted, memoryId>>
      /\ minted \subseteq MemoryIds
  BY DEF HealthEndpoint, store, Probes, PInv, TypeOK
<1>2. TypeOK'
  <2>1. at' \in [Slots -> Phase] /\ ran' \in [Slots -> Tenants \cup {Blank, NoRun}] /\ reply' = reply
    BY <1>1, AskedFacts DEF Enters, PInv, TypeOK, Phase
  <2>2. /\ wasUp' \in [Slots -> SUBSET Components] /\ wasDown' \in [Slots -> SUBSET Components]
        /\ up' = up
    BY DEF HealthEndpoint, PInv, TypeOK
  <2> QED
    BY <1>1, <2>1, <2>2 DEF PInv, TypeOK, client
<1> QED
  BY <1>1, <1>2, EnteredPlaced

\* What a writing attempt knows.
LEMMA WritingFacts ==
    ASSUME PInv, NEW s \in Slots, at[s] \in Writing
    PROVE  /\ Asked(s).op = "write" /\ ran[s] = want[s[1]].tenant
           /\ want[s[1]].op = "write"
           /\ Asked(s).key = want[s[1]].key
           /\ Asked(s).key \in Keys \cup {NoKey} /\ ran[s] \in Tenants
<1>1. at[s] # "unsent" /\ Asked(s).op = "write" /\ CalledFor(s)
  BY DEF PInv, Placed, Writing
<1>2. Asked(s).op \notin Admin \cup Probes
  BY <1>1 DEF Admin, Probes
<1> QED
  BY <1>1, <1>2, AskedFacts DEF CalledFor

LEMMA NewRowFacts ==
    ASSUME PInv, NEW s \in Slots, at[s] = "save"
    PROVE  /\ NewRow(s) \in Row
           /\ NewRow(s).id = memoryId[s] /\ NewRow(s).tenant = want[s[1]].tenant
           /\ NewRow(s).key = want[s[1]].key
           /\ SaveRow(rows, NewRow(s)) \subseteq Row
<1>1. /\ memoryId[s] \in MemoryIds
  BY DEF PInv, TypeOK, Placed
<1>2. /\ ran[s] = want[s[1]].tenant /\ Asked(s).key = want[s[1]].key
      /\ Asked(s).key \in Keys \cup {NoKey} /\ ran[s] \in Tenants
  BY WritingFacts DEF Writing
<1>3. NewRow(s) \in Row /\ NewRow(s).id = memoryId[s] /\ NewRow(s).tenant = ran[s]
      /\ NewRow(s).key = Asked(s).key
  BY <1>1, <1>2 DEF NewRow, Row, PipelineStatuses
<1> QED
  BY <1>2, <1>3, SaveRowAdds DEF PInv, TypeOK

LEMMA LookupPlaced ==
    ASSUME PInv, NEW s \in Slots, Lookup(s)
    PROVE  PInv'
<1>1. /\ at[s] = "lookup" /\ rows \subseteq Row /\ upsets \in 0..MaxUpsets
      /\ UNCHANGED <<rows, client, ran, verdict, health, upsets>>
  BY DEF Lookup, PInv, TypeOK
<1>2. ASSUME NEW r \in RowsWithKey(rows, Asked(s).key, ran[s]), Responds(s, Written(r.id)),
             UNCHANGED <<minted, memoryId>>
      PROVE  PInv'
  <2>1. Written(r.id) \in Response
    BY <1>1, AnswerFacts DEF RowsWithKey, Row
  <2> QED
    BY <1>1, <1>2, <2>1, AnsweredPlaced
<1>3. ASSUME NEW m \in MemoryIds \ minted,
             minted' = minted \cup {m}, memoryId' = [memoryId EXCEPT ![s] = m],
             at' = [at EXCEPT ![s] = "save"], UNCHANGED reply
      PROVE  PInv'
  <2>1. TypeOK'
    BY <1>1, <1>3 DEF PInv, TypeOK, client, health, Phase
  <2>2. /\ \A u \in Slots \ {s} : Untouched(u)
        /\ Wants' /\ Asked(s)' = Asked(s)
    <3>1. \A u \in Slots \ {s} : at'[u] = at[u] /\ memoryId'[u] = memoryId[u]
      BY <1>3 DEF PInv, TypeOK
    <3> QED
      BY <1>1, <1>3, <3>1, UntouchedElse
  <2>3. /\ at'[s] = "save" /\ memoryId'[s] = m /\ m # NoId
    BY <1>3, GatewayAssumption DEF PInv, TypeOK
  <2>4. CalledFor(s)'
    BY <1>1, <2>2 DEF PInv, Placed, Writing, CalledFor
  <2>5. Placed(s)'
    BY <1>1, <1>3, <2>2, <2>3, <2>4 DEF PInv, Placed, Writing, client
  <2> QED
    BY <2>1, <2>2, <2>5, OnePlaced
<1> QED
  BY <1>2, <1>3 DEF Lookup, Mints

LEMMA SavePlaced ==
    ASSUME PInv, NEW s \in Slots, Save(s)
    PROVE  PInv'
<1>1. /\ at[s] = "save" /\ rows \subseteq Row /\ upsets \in 0..MaxUpsets
      /\ UNCHANGED <<minted, client, memoryId, ran, verdict, health, upsets>>
  BY DEF Save, PInv, TypeOK
<1>2. CASE /\ rows' = SaveRow(rows, NewRow(s))
           /\ at' = [at EXCEPT ![s] = "finish"]
           /\ UNCHANGED reply
  <2>1. TypeOK'
    <3>1. rows' \subseteq Row
      BY <1>1, <1>2, NewRowFacts
    <3> QED
      BY <1>1, <1>2, <3>1 DEF PInv, TypeOK, client, health, Phase
  <2>2. /\ \A u \in Slots \ {s} : Untouched(u)
        /\ Wants' /\ Asked(s)' = Asked(s)
    <3>1. \A u \in Slots \ {s} : at'[u] = at[u]
      BY <1>2 DEF PInv, TypeOK
    <3> QED
      BY <1>1, <1>2, <3>1, UntouchedElse
  <2>3. at'[s] = "finish"
    BY <1>2 DEF PInv, TypeOK
  <2>4. CalledFor(s)'
    BY <1>1, <2>2 DEF PInv, Placed, Writing, CalledFor
  <2>5. Placed(s)'
    BY <1>1, <1>2, <2>2, <2>3, <2>4 DEF PInv, Placed, Writing, client
  <2> QED
    BY <2>1, <2>2, <2>5, OnePlaced
<1>3. CASE Responds(s, StorageFailure) /\ UNCHANGED rows
  BY <1>1, <1>3, AnswerFacts, AnsweredPlaced
<1> QED
  BY <1>2, <1>3 DEF Save

LEMMA FinishPlaced ==
    ASSUME PInv, NEW s \in Slots, Finish(s)
    PROVE  PInv'
<1>1. /\ at[s] = "finish" /\ rows' \subseteq Row /\ upsets' \in 0..MaxUpsets
      /\ UNCHANGED <<minted, client, memoryId, ran, verdict, health>>
      /\ memoryId[s] \in MemoryIds /\ Responds(s, Written(memoryId[s]))
  BY DEF Finish, store, PInv, TypeOK, Placed
<1> QED
  BY <1>1, AnswerFacts, AnsweredPlaced

LEMMA RunPlaced ==
    ASSUME PInv, NEW s \in Slots, Run(s)
    PROVE  PInv'
<1>1. /\ at[s] = "running" /\ rows' \subseteq Row /\ upsets' \in 0..MaxUpsets
      /\ UNCHANGED <<minted, client, memoryId, ran, verdict, health>>
      /\ Asked(s).op \in Queries \cup ById \cup Admin
  BY DEF Run, store, PInv, TypeOK, Placed
<1>2. PICK a \in Endings(Asked(s).op) : Responds(s, a)
  BY DEF Run
<1>3. a \in Response
  BY <1>1, EndingFacts
<1> QED
  BY <1>1, <1>2, <1>3, AnsweredPlaced

LEMMA ProbePlaced ==
    ASSUME PInv, NEW s \in Slots, NEW k \in Components, Probe(s, k)
    PROVE  PInv'
<1>1. /\ at[s] = "probing"
      /\ verdict' = [verdict EXCEPT ![s][k] = IF k \in up THEN "ok" ELSE "down"]
      /\ UNCHANGED <<store, client, at, reply, memoryId, ran, health, upsets>>
  BY DEF Probe
<1>2. TypeOK'
  BY <1>1 DEF PInv, TypeOK, store, client, health
<1>3. /\ \A u \in Slots \ {s} : Untouched(u)
      /\ Wants' /\ Asked(s)' = Asked(s)
  <2>1. \A u \in Slots \ {s} : verdict'[u] = verdict[u]
    BY <1>1 DEF PInv, TypeOK
  <2> QED
    BY <1>1, <2>1, UntouchedElse DEF store
<1>4. Placed(s)'
  BY <1>1, <1>3 DEF PInv, Placed, Writing, CalledFor, store, client
<1> QED
  BY <1>2, <1>3, <1>4, OnePlaced

LEMMA ReportPlaced ==
    ASSUME PInv, NEW s \in Slots, Report(s)
    PROVE  PInv'
<1>1. /\ at[s] = "probing" /\ rows' \subseteq Row /\ upsets' \in 0..MaxUpsets
      /\ UNCHANGED <<minted, client, memoryId, ran, verdict, health>>
  BY DEF Report, store, PInv, TypeOK
<1>2. PICK a \in Response : Responds(s, a)
  BY AnswerFacts DEF Report
<1> QED
  BY <1>1, <1>2, AnsweredPlaced

LEMMA UseCaseRaisesPlaced ==
    ASSUME PInv, NEW s \in Slots, UseCaseRaises(s)
    PROVE  PInv'
<1>1. /\ at[s] # "unsent" /\ upsets' \in 0..MaxUpsets
      /\ Responds(s, StorageFailure)
      /\ UNCHANGED <<minted, client, memoryId, ran, verdict, health>>
  BY GatewayAssumption DEF UseCaseRaises, Upset, PInv, TypeOK
<1>2. rows' \subseteq Row
  BY NewRowFacts DEF UseCaseRaises, PInv, TypeOK
<1> QED
  BY <1>1, <1>2, AnswerFacts, AnsweredPlaced

LEMMA CrashPlaced ==
    ASSUME PInv, Crash
    PROVE  PInv'
<1>1. /\ at' = [s \in Slots |-> IF at[s] \in OnServer THEN "gone" ELSE at[s]]
      /\ UNCHANGED <<store, client, reply, memoryId, ran, verdict, health>>
      /\ upsets' \in 0..MaxUpsets
  BY GatewayAssumption DEF Crash, Upset, PInv, TypeOK
<1>2. TypeOK'
  BY <1>1 DEF PInv, TypeOK, store, client, health, Phase
<1>3. Wants'
  BY <1>1 DEF PInv, Wants, client
<1>4. ASSUME NEW s \in Slots PROVE Placed(s)'
  <2>1. Asked(s)' = Asked(s)
    BY <1>1 DEF Asked, client
  <2>2. at'[s] = at[s] \/ (at'[s] = "gone" /\ at[s] # "unsent")
    BY <1>1 DEF OnServer
  <2>3. Placed(s) /\ (CalledFor(s) => CalledFor(s)')
    BY <1>1, <2>1 DEF PInv, CalledFor
  <2> QED
    BY <1>1, <2>1, <2>2, <2>3 DEF Placed, Writing, store, client
<1> QED
  BY <1>2, <1>3, <1>4 DEF PInv

\* Attempts where they are, by a step that touches none.
LEMMA NonePlaced ==
    ASSUME PInv, TypeOK', UNCHANGED <<store, client, server>>
    PROVE  PInv'
<1>1. \A u \in Slots : Untouched(u)
  BY SlotFacts DEF PInv, TypeOK, Untouched, store, client, server
<1>2. Wants'
  BY DEF PInv, Wants, client
<1> QED
  BY <1>1, <1>2, UntouchedPlaced DEF PInv

LEMMA ComponentChangesPlaced ==
    ASSUME PInv, NEW k \in Components, ComponentChanges(k)
    PROVE  PInv'
<1>1. up' \subseteq Components
  BY DEF ComponentChanges, PInv, TypeOK
<1>2. wasUp' \in [Slots -> SUBSET Components] /\ wasDown' \in [Slots -> SUBSET Components]
  BY <1>1 DEF ComponentChanges, PInv, TypeOK
<1>3. TypeOK'
  BY <1>1, <1>2, GatewayAssumption DEF ComponentChanges, Upset, PInv, TypeOK, store, client, server
<1> QED
  BY <1>3, NonePlaced DEF ComponentChanges

LEMMA NextPInv == PInv /\ [Next]_vars => PInv'
<1> SUFFICES ASSUME PInv, [Next]_vars PROVE PInv'
  OBVIOUS
<1>1. CASE UNCHANGED vars
  BY <1>1, NonePlaced DEF vars, PInv, TypeOK, store, client, server, health
<1>2. ASSUME NEW s \in Slots,
             \/ Refuse(s) \/ WriteEndpoint(s) \/ Endpoint(s) \/ HealthEndpoint(s)
             \/ Lookup(s) \/ Save(s) \/ Finish(s) \/ Run(s)
             \/ \E k \in Components : Probe(s, k)
             \/ Report(s) \/ UseCaseRaises(s)
      PROVE  PInv'
  BY <1>2, RefusePlaced, WriteEndpointPlaced, EndpointPlaced, HealthEndpointPlaced, LookupPlaced,
     SavePlaced, FinishPlaced, RunPlaced, ProbePlaced, ReportPlaced, UseCaseRaisesPlaced
<1> QED
  BY <1>1, <1>2, SendPlaced, ReceivePlaced, CrashPlaced, ComponentChangesPlaced DEF Next

LEMMA PInvariant == Spec => []PInv
  BY InitPInv, NextPInv, PTL DEF Spec

-----------------------------------------------------------------------------
(* Whose the rows are. *)

Distinct ==
    \A s, u \in Slots : memoryId[s] = memoryId[u] /\ memoryId[s] # NoId => s = u

Owned ==
    \A r \in rows : \E s \in Slots :
        memoryId[s] = r.id /\ want[s[1]].tenant = r.tenant /\ want[s[1]].key = r.key

Unsaved == \A s \in Slots : at[s] = "save" => \A r \in rows : r.id # memoryId[s]

RInv == Distinct /\ Owned /\ Unsaved

LEMMA InitRInv == Init => RInv
  BY DEF Init, RInv, Distinct, Owned, Unsaved

\* Steps that write no row and hand out no identifier.
LEMMA RowsKept ==
    ASSUME PInv, RInv, rows' = rows, memoryId' = memoryId,
           \A s \in Slots : want'[s[1]] = want[s[1]] \/ at[s] = "unsent",
           \A s \in Slots : at'[s] = "save" => at[s] = "save"
    PROVE  RInv'
<1>1. \A r \in rows : r.id # NoId
  BY GatewayAssumption DEF PInv, TypeOK, Row
<1>2. Distinct' /\ Unsaved'
  BY DEF RInv, Distinct, Unsaved
<1>3. Owned'
  <2> SUFFICES ASSUME NEW r \in rows
               PROVE  \E s \in Slots : /\ memoryId[s] = r.id
                                       /\ want'[s[1]].tenant = r.tenant /\ want'[s[1]].key = r.key
    BY DEF Owned
  <2>1. PICK s \in Slots : /\ memoryId[s] = r.id
                           /\ want[s[1]].tenant = r.tenant /\ want[s[1]].key = r.key
    BY DEF RInv, Owned
  <2>2. at[s] # "unsent"
    BY <1>1, <2>1 DEF PInv, Placed
  <2> QED
    BY <2>1, <2>2
<1> QED
  BY <1>2, <1>3 DEF RInv

LEMMA MintKeepsRows ==
    ASSUME PInv, RInv, NEW s \in Slots, memoryId[s] = NoId, Mints(s),
           rows' = rows, want' = want,
           \A u \in Slots \ {s} : at'[u] = at[u]
    PROVE  RInv'
<1>1. PICK m \in MemoryIds \ minted : memoryId' = [memoryId EXCEPT ![s] = m]
  BY DEF Mints
<1>2. /\ memoryId'[s] = m /\ \A u \in Slots \ {s} : memoryId'[u] = memoryId[u]
      /\ m # NoId
  BY <1>1, GatewayAssumption DEF PInv, TypeOK
<1>3. \A u \in Slots : memoryId[u] = NoId \/ memoryId[u] \in minted
  BY DEF PInv, Placed
<1>4. \A r \in rows : r.id # m /\ r.id # NoId
  BY <1>3, <1>1, <1>2, GatewayAssumption DEF RInv, Owned, PInv, TypeOK, Row
<1>5. Distinct'
  BY <1>1, <1>2, <1>3 DEF RInv, Distinct
<1>6. Owned'
  <2> SUFFICES ASSUME NEW r \in rows
               PROVE  \E u \in Slots : /\ memoryId'[u] = r.id
                                       /\ want[u[1]].tenant = r.tenant /\ want[u[1]].key = r.key
    BY DEF Owned
  <2>1. PICK u \in Slots : /\ memoryId[u] = r.id
                           /\ want[u[1]].tenant = r.tenant /\ want[u[1]].key = r.key
    BY DEF RInv, Owned
  <2> QED
    BY <1>2, <1>4, <2>1
<1>7. Unsaved'
  BY <1>2, <1>4 DEF RInv, Unsaved
<1> QED
  BY <1>5, <1>6, <1>7 DEF RInv

LEMMA SaveKeepsRows ==
    ASSUME PInv, RInv, NEW s \in Slots, at[s] = "save", at'[s] # "save",
           rows' = SaveRow(rows, NewRow(s)), want' = want, memoryId' = memoryId,
           \A u \in Slots \ {s} : at'[u] = at[u]
    PROVE  RInv'
<1>1. /\ rows' \subseteq rows \cup {NewRow(s)}
      /\ NewRow(s).id = memoryId[s] /\ NewRow(s).tenant = want[s[1]].tenant
      /\ NewRow(s).key = want[s[1]].key /\ memoryId[s] # NoId
  BY SaveRowAdds, NewRowFacts DEF PInv, Placed
<1>2. \A u \in Slots \ {s} : memoryId[u] # NewRow(s).id
  BY <1>1 DEF RInv, Distinct
<1>3. Distinct' /\ Owned'
  BY <1>1 DEF RInv, Distinct, Owned
<1>4. Unsaved'
  BY <1>1, <1>2 DEF RInv, Unsaved
<1> QED
  BY <1>3, <1>4 DEF RInv

\* Answering an attempt without touching the table.
LEMMA AnswerKeepsRows ==
    ASSUME PInv, RInv, NEW s \in Slots, NEW a \in Response, Responds(s, a),
           UNCHANGED <<rows, client, memoryId>>
    PROVE  RInv'
<1>1. /\ at'[s] = "replied"
      /\ \A u \in Slots \ {s} : at'[u] = at[u]
  BY RespondsFacts DEF PInv
<1>2. /\ want' = want
      /\ \A u \in Slots : at'[u] = "save" => at[u] = "save"
  BY <1>1 DEF client
<1> QED
  BY <1>2, RowsKept

LEMMA EntersKeepsRows ==
    ASSUME PInv, RInv, NEW s \in Slots, NEW ph \in {"lookup", "running", "probing"}, Enters(s, ph),
           UNCHANGED <<rows, client, memoryId>>
    PROVE  RInv'
<1>1. want' = want /\ \A u \in Slots : at'[u] = "save" => at[u] = "save"
  BY DEF Enters, client, PInv, TypeOK
<1> QED
  BY <1>1, RowsKept

LEMMA SendKeepsRows ==
    ASSUME PInv, RInv, NEW c \in Clients, NEW r \in Requests[c], Send(c, r)
    PROVE  RInv'
<1>1. /\ UNCHANGED <<store, reply, memoryId>>
      /\ r = want[c] \/ want[c] = NoRequest
      /\ want' = [want EXCEPT ![c] = r]
      /\ at' = at \/ at' = [at EXCEPT ![<<c, sent[c] + 1>>] = "wire"]
  BY DEF Send
<1>2. \A u \in Slots : want'[u[1]] = want[u[1]] \/ at[u] = "unsent"
  <2> SUFFICES ASSUME NEW u \in Slots, at[u] # "unsent" PROVE want'[u[1]] = want[u[1]]
    OBVIOUS
  <2>1. u[1] \in Clients /\ sent[u[1]] > 0
    BY SlotFacts, GatewayAssumption DEF PInv, TypeOK, Placed
  <2>2. want[u[1]] # NoRequest
    BY <2>1, WantFacts
  <2> QED
    BY <1>1, <2>1, <2>2 DEF PInv, TypeOK
<1>3. \A u \in Slots : at'[u] = "save" => at[u] = "save"
  BY <1>1 DEF PInv, TypeOK
<1> QED
  BY <1>1, <1>2, <1>3, RowsKept DEF store

LEMMA WriteEndpointKeepsRows ==
    ASSUME PInv, RInv, NEW s \in Slots, WriteEndpoint(s)
    PROVE  RInv'
<1>1. at[s] = "wire" /\ UNCHANGED <<rows, client, verdict, health, upsets>> /\ memoryId[s] = NoId
  BY DEF WriteEndpoint, PInv, Placed
<1>2. CASE Enters(s, "lookup") /\ UNCHANGED <<minted, memoryId>>
  BY <1>1, <1>2, EntersKeepsRows
<1>3. CASE Enters(s, "save") /\ Mints(s)
  BY <1>1, <1>3, MintKeepsRows DEF Enters, client, PInv, TypeOK
<1> QED
  BY <1>2, <1>3 DEF WriteEndpoint

LEMMA LookupKeepsRows ==
    ASSUME PInv, RInv, NEW s \in Slots, Lookup(s)
    PROVE  RInv'
<1>1. at[s] = "lookup" /\ UNCHANGED <<rows, client>> /\ memoryId[s] = NoId /\ rows \subseteq Row
  BY DEF Lookup, PInv, TypeOK, Placed
<1>2. ASSUME NEW r \in RowsWithKey(rows, Asked(s).key, ran[s]), Responds(s, Written(r.id)),
             UNCHANGED memoryId
      PROVE  RInv'
  <2>1. Written(r.id) \in Response
    BY <1>1, AnswerFacts DEF RowsWithKey, Row
  <2> QED
    BY <1>1, <1>2, <2>1, AnswerKeepsRows
<1>3. CASE Mints(s) /\ at' = [at EXCEPT ![s] = "save"] /\ UNCHANGED reply
  BY <1>1, <1>3, MintKeepsRows DEF client, PInv, TypeOK
<1> QED
  BY <1>2, <1>3 DEF Lookup

LEMMA SaveStepKeepsRows ==
    ASSUME PInv, RInv, NEW s \in Slots, Save(s)
    PROVE  RInv'
<1>1. at[s] = "save" /\ UNCHANGED <<client, memoryId>>
  BY DEF Save
<1>2. CASE /\ rows' = SaveRow(rows, NewRow(s))
           /\ at' = [at EXCEPT ![s] = "finish"]
           /\ UNCHANGED reply
  <2>1. at'[s] = "finish" /\ \A u \in Slots \ {s} : at'[u] = at[u]
    BY <1>1, <1>2 DEF PInv, TypeOK
  <2> QED
    BY <1>1, <1>2, <2>1, SaveKeepsRows DEF client
<1>3. CASE Responds(s, StorageFailure) /\ UNCHANGED rows
  BY <1>1, <1>3, AnswerFacts, AnswerKeepsRows
<1> QED
  BY <1>2, <1>3 DEF Save

LEMMA UseCaseRaisesKeepsRows ==
    ASSUME PInv, RInv, NEW s \in Slots, UseCaseRaises(s)
    PROVE  RInv'
<1>1. Responds(s, StorageFailure) /\ UNCHANGED <<client, memoryId>>
  BY DEF UseCaseRaises
<1>2. CASE UNCHANGED rows
  BY <1>1, <1>2, AnswerFacts, AnswerKeepsRows
<1>3. CASE at[s] = "save" /\ rows' = SaveRow(rows, NewRow(s))
  <2>1. at'[s] = "replied" /\ \A u \in Slots \ {s} : at'[u] = at[u]
    BY <1>1, AnswerFacts, RespondsFacts DEF PInv
  <2> QED
    BY <1>1, <1>3, <2>1, SaveKeepsRows DEF client
<1> QED
  BY <1>2, <1>3 DEF UseCaseRaises

LEMMA StepKeepsRows ==
    ASSUME PInv, RInv, NEW s \in Slots,
           \/ Refuse(s) \/ Endpoint(s) \/ HealthEndpoint(s) \/ Finish(s) \/ Run(s)
           \/ \E k \in Components : Probe(s, k)
           \/ Report(s)
    PROVE  RInv'
<1>1. CASE Refuse(s)
  <2>1. PICK a \in Response : Responds(s, a)
    BY <1>1, RefusalFacts DEF Refuse
  <2>2. memoryId[s] = NoId /\ UNCHANGED <<rows, client, memoryId>>
    BY <1>1 DEF Refuse, PInv, Placed, store
  <2> QED
    BY <2>1, <2>2, AnswerKeepsRows
<1>2. CASE Endpoint(s) \/ HealthEndpoint(s)
  BY <1>2, EntersKeepsRows DEF Endpoint, HealthEndpoint, store
<1>3. CASE Finish(s)
  <2>1. memoryId[s] \in MemoryIds /\ UNCHANGED <<rows, client, memoryId>>
    BY <1>3 DEF Finish, PInv, TypeOK, Placed, store
  <2> QED
    BY <1>3, <2>1, AnswerFacts, AnswerKeepsRows DEF Finish
<1>4. CASE Run(s)
  <2>1. PICK a \in Endings(Asked(s).op) : Responds(s, a)
    BY <1>4 DEF Run
  <2>2. a \in Response
    BY <1>4, EndingFacts DEF Run, PInv, Placed
  <2>3. memoryId[s] = NoId /\ UNCHANGED <<rows, client, memoryId>>
    BY <1>4 DEF Run, PInv, Placed, store
  <2> QED
    BY <2>1, <2>2, <2>3, AnswerKeepsRows
<1>5. CASE \E k \in Components : Probe(s, k)
  BY <1>5, RowsKept DEF Probe, store, client
<1>6. CASE Report(s)
  <2>1. PICK a \in Response : Responds(s, a)
    BY <1>6, AnswerFacts DEF Report
  <2>2. memoryId[s] = NoId /\ UNCHANGED <<rows, client, memoryId>>
    BY <1>6 DEF Report, PInv, Placed, store
  <2> QED
    BY <2>1, <2>2, AnswerKeepsRows
<1> QED
  BY <1>1, <1>2, <1>3, <1>4, <1>5, <1>6

LEMMA NextRInv == PInv /\ RInv /\ [Next]_vars => RInv'
<1> SUFFICES ASSUME PInv, RInv, [Next]_vars PROVE RInv'
  OBVIOUS
<1>1. CASE UNCHANGED vars
  BY <1>1, RowsKept DEF vars, store, client, server
<1>2. ASSUME NEW c \in Clients, Receipt(c) \/ TransportError(c) PROVE RInv'
  BY <1>2, RowsKept DEF Receipt, TransportError, store, server
<1>3. CASE Crash
  <2>1. \A s \in Slots : at'[s] = "save" => at[s] = "save"
    BY <1>3 DEF Crash
  <2> QED
    BY <1>3, <2>1, RowsKept DEF Crash, store, client
<1>4. ASSUME NEW k \in Components, ComponentChanges(k) PROVE RInv'
  BY <1>4, RowsKept DEF ComponentChanges, store, client, server
<1> QED
  BY <1>1, <1>2, <1>3, <1>4, SendKeepsRows, WriteEndpointKeepsRows, LookupKeepsRows,
     SaveStepKeepsRows, UseCaseRaisesKeepsRows, StepKeepsRows DEF Next

LEMMA RInvariant == Spec => [](PInv /\ RInv)
<1>1. Init => PInv /\ RInv
  BY InitPInv, InitRInv
<1>2. PInv /\ RInv /\ [Next]_vars => (PInv /\ RInv)'
  BY NextPInv, NextRInv
<1> QED
  BY <1>1, <1>2, PTL DEF Spec

-----------------------------------------------------------------------------
\* Every variable keeps its type, for any clients, requests and components.
THEOREM GatewayTypeCorrect == Spec => []TypeOK
<1>1. PInv => TypeOK
  BY DEF PInv
<1> QED
  BY PInvariant, <1>1, PTL

\* Use cases run for the tenant the caller named, migrations with the admin key,
\* and rows belong to the tenant their writer named.
THEOREM UseCasesRunForTheirCaller == Spec => []RunsForItsCaller
<1>1. PInv /\ RInv => RunsForItsCaller
  <2> SUFFICES ASSUME PInv, RInv PROVE RunsForItsCaller
    OBVIOUS
  <2>1. ASSUME NEW s \in Slots, ran[s] # NoRun, Asked(s).op \notin {"health", "ready"}
        PROVE  /\ ran[s] = want[s[1]].tenant
               /\ Asked(s).op \in Admin \/ ran[s] # Blank
               /\ Asked(s).op = "migrate" /\ AdminKeySet => want[s[1]].adminKey
    <3>1. at[s] # "unsent" /\ CalledFor(s)
      BY <2>1 DEF PInv, Placed
    <3> QED
      BY <2>1, <3>1, AskedFacts, GatewayAssumption DEF CalledFor, Probes
  <2> QED
    BY <2>1 DEF RunsForItsCaller, RInv, Owned
<1> QED
  BY RInvariant, <1>1, PTL

-----------------------------------------------------------------------------
(* What a check of the components sees. *)

Watched(s) ==
    /\ at[s] = "probing" =>
          /\ up \subseteq wasUp[s] /\ Components \ up \subseteq wasDown[s]
          /\ \A k \in Components :
                /\ verdict[s][k] = "ok" => k \in wasUp[s]
                /\ verdict[s][k] = "down" => k \in wasDown[s]
    /\ at[s] = "replied" /\ Asked(s).op = "ready" =>
          /\ reply[s].status = 200 => wasUp[s] = Components
          /\ reply[s].status = 503 => wasDown[s] # {}

HInv == \A s \in Slots : Watched(s)

LEMMA InitHInv == Init => HInv
  BY DEF Init, HInv, Watched

\* Steps that leave the components and the attempts that are watching them alone.
LEMMA WatchKept ==
    ASSUME PInv, HInv, UNCHANGED health,
           \A s \in Slots : want'[s[1]] = want[s[1]] \/ at[s] = "unsent",
           \A s \in Slots : at'[s] = "probing" => at[s] = "probing" /\ verdict'[s] = verdict[s],
           \A s \in Slots : at'[s] = "replied" =>
              \/ at[s] = "replied" /\ reply'[s] = reply[s]
              \/ at[s] # "unsent" /\ Asked(s).op # "ready"
              \/ reply'[s].status \notin {200, 503}
    PROVE  HInv'
<1> SUFFICES ASSUME NEW s \in Slots PROVE Watched(s)'
  BY DEF HInv
<1>1. Watched(s) /\ up' = up /\ wasUp' = wasUp /\ wasDown' = wasDown
  BY DEF HInv, health
<1>2. CASE at[s] = "unsent"
  BY <1>2 DEF Watched
<1>3. CASE at[s] # "unsent"
  <2>1. Asked(s)' = Asked(s)
    BY <1>3 DEF Asked
  <2> QED
    BY <1>1, <1>3, <2>1 DEF Watched
<1> QED
  BY <1>2, <1>3

\* Answering an attempt that is not a check, or refusing it.
LEMMA AnswerKeepsWatch ==
    ASSUME PInv, HInv, NEW s \in Slots, NEW a \in Response, Responds(s, a), at[s] # "unsent",
           UNCHANGED <<client, verdict, health>>,
           Asked(s).op # "ready" \/ a.status \notin {200, 503}
    PROVE  HInv'
<1>1. /\ at'[s] = "replied" /\ reply'[s] = a
      /\ \A u \in Slots \ {s} : at'[u] = at[u] /\ reply'[u] = reply[u]
  BY RespondsFacts DEF PInv
<1> QED
  BY <1>1, WatchKept DEF client

LEMMA SendKeepsWatch ==
    ASSUME PInv, HInv, NEW c \in Clients, NEW r \in Requests[c], Send(c, r)
    PROVE  HInv'
<1>1. /\ UNCHANGED <<reply, verdict, health>>
      /\ r = want[c] \/ want[c] = NoRequest
      /\ want' = [want EXCEPT ![c] = r]
      /\ at' = at \/ at' = [at EXCEPT ![<<c, sent[c] + 1>>] = "wire"]
  BY DEF Send
<1>2. \A u \in Slots : want'[u[1]] = want[u[1]] \/ at[u] = "unsent"
  <2> SUFFICES ASSUME NEW u \in Slots, at[u] # "unsent" PROVE want'[u[1]] = want[u[1]]
    OBVIOUS
  <2>1. u[1] \in Clients /\ sent[u[1]] > 0
    BY SlotFacts, GatewayAssumption DEF PInv, TypeOK, Placed
  <2>2. want[u[1]] # NoRequest
    BY <2>1, WantFacts
  <2> QED
    BY <1>1, <2>1, <2>2 DEF PInv, TypeOK
<1>3. \A u \in Slots : at'[u] \in {"probing", "replied"} => at'[u] = at[u]
  BY <1>1 DEF PInv, TypeOK
<1> QED
  BY <1>1, <1>2, <1>3, WatchKept

LEMMA HealthEndpointKeepsWatch ==
    ASSUME PInv, HInv, NEW s \in Slots, HealthEndpoint(s)
    PROVE  HInv'
<1>1. /\ at' = [at EXCEPT ![s] = "probing"] /\ reply' = reply /\ at[s] = "wire"
      /\ UNCHANGED <<client, verdict, up>>
      /\ wasUp' = [wasUp EXCEPT ![s] = up] /\ wasDown' = [wasDown EXCEPT ![s] = Components \ up]
  BY DEF HealthEndpoint, Enters
<1>2. /\ at'[s] = "probing" /\ wasUp'[s] = up /\ wasDown'[s] = Components \ up
      /\ \A u \in Slots \ {s} :
            at'[u] = at[u] /\ wasUp'[u] = wasUp[u] /\ wasDown'[u] = wasDown[u]
  BY <1>1 DEF PInv, TypeOK
<1>3. \A k \in Components : verdict[s][k] = "pending"
  BY <1>1 DEF PInv, Placed
<1>4. ASSUME NEW u \in Slots PROVE Watched(u)'
  <2>1. Asked(u)' = Asked(u)
    BY <1>1 DEF Asked, client
  <2> QED
    BY <1>1, <1>2, <1>3, <2>1 DEF HInv, Watched
<1> QED
  BY <1>4 DEF HInv

LEMMA ProbeKeepsWatch ==
    ASSUME PInv, HInv, NEW s \in Slots, NEW k \in Components, Probe(s, k)
    PROVE  HInv'
<1>1. /\ at[s] = "probing"
      /\ verdict' = [verdict EXCEPT ![s][k] = IF k \in up THEN "ok" ELSE "down"]
      /\ UNCHANGED <<client, at, reply, up, wasUp, wasDown>>
  BY DEF Probe, health
<1>2. /\ verdict'[s][k] = IF k \in up THEN "ok" ELSE "down"
      /\ \A j \in Components \ {k} : verdict'[s][j] = verdict[s][j]
      /\ \A u \in Slots \ {s} : verdict'[u] = verdict[u]
  BY <1>1 DEF PInv, TypeOK
<1>3. ASSUME NEW u \in Slots PROVE Watched(u)'
  <2>1. Asked(u)' = Asked(u)
    BY <1>1 DEF Asked, client
  <2>2. CASE u # s
    BY <1>1, <1>2, <2>1, <2>2 DEF HInv, Watched
  <2>3. CASE u = s
    <3>1. up \subseteq wasUp[s] /\ Components \ up \subseteq wasDown[s]
      BY <1>1 DEF HInv, Watched
    <3>2. ASSUME NEW j \in Components
          PROVE  /\ verdict'[s][j] = "ok" => j \in wasUp[s]
                 /\ verdict'[s][j] = "down" => j \in wasDown[s]
      BY <1>1, <1>2, <3>1 DEF HInv, Watched
    <3> QED
      BY <1>1, <2>3, <3>1, <3>2 DEF Watched
  <2> QED
    BY <2>2, <2>3
<1> QED
  BY <1>3 DEF HInv

LEMMA ReportKeepsWatch ==
    ASSUME PInv, HInv, NEW s \in Slots, Report(s)
    PROVE  HInv'
<1>1. /\ at[s] = "probing" /\ \A k \in Components : verdict[s][k] # "pending"
      /\ UNCHANGED <<client, verdict, up, wasUp, wasDown>>
  BY DEF Report, health
<1>2. PICK a \in Response :
         /\ Responds(s, a)
         /\ a.status = IF Asked(s).op = "ready" /\ Down(s) THEN 503 ELSE 200
  BY AnswerFacts DEF Report, Answer
<1>3. /\ at'[s] = "replied" /\ reply'[s] = a
      /\ \A u \in Slots \ {s} : at'[u] = at[u] /\ reply'[u] = reply[u]
  BY <1>2, RespondsFacts DEF PInv
<1>4. Asked(s).op = "ready" =>
         /\ a.status = 200 => wasUp[s] = Components
         /\ a.status = 503 => wasDown[s] # {}
  <2>1. /\ wasUp[s] \subseteq Components
        /\ \A k \in Components : verdict[s][k] \in {"pending", "ok", "down"}
    BY DEF PInv, TypeOK
  <2>2. \A k \in Components :
           /\ verdict[s][k] = "ok" => k \in wasUp[s]
           /\ verdict[s][k] = "down" => k \in wasDown[s]
    BY <1>1 DEF HInv, Watched
  <2>3. Down(s) => wasDown[s] # {}
    BY <2>2 DEF Down
  <2>4. ~Down(s) => wasUp[s] = Components
    BY <1>1, <2>1, <2>2 DEF Down
  <2> QED
    BY <1>2, <2>3, <2>4
<1>5. ASSUME NEW u \in Slots PROVE Watched(u)'
  <2>1. Asked(u)' = Asked(u)
    BY <1>1 DEF Asked, client
  <2> QED
    BY <1>1, <1>3, <1>4, <2>1 DEF HInv, Watched
<1> QED
  BY <1>5 DEF HInv

LEMMA ComponentChangesKeepsWatch ==
    ASSUME PInv, HInv, NEW k \in Components, ComponentChanges(k)
    PROVE  HInv'
<1>1. /\ UNCHANGED <<client, at, reply, verdict>>
      /\ \A s \in Slots :
            /\ wasUp'[s] = IF s \in Checking THEN wasUp[s] \cup up' ELSE wasUp[s]
            /\ wasDown'[s] = IF s \in Checking THEN wasDown[s] \cup (Components \ up')
                             ELSE wasDown[s]
  BY DEF ComponentChanges, server
<1>2. ASSUME NEW u \in Slots PROVE Watched(u)'
  <2>1. Asked(u)' = Asked(u)
    BY <1>1 DEF Asked, client
  <2>2. Watched(u) /\ (u \in Checking <=> at[u] = "probing")
    BY DEF HInv, Checking
  <2>3. CASE at[u] = "probing"
    BY <1>1, <2>1, <2>2, <2>3 DEF Watched
  <2>4. CASE at[u] # "probing"
    <3>1. wasUp'[u] = wasUp[u] /\ wasDown'[u] = wasDown[u] /\ at' = at /\ reply' = reply
      BY <1>1, <2>2, <2>4
    <3> QED
      BY <2>1, <2>2, <2>4, <3>1 DEF Watched
  <2> QED
    BY <2>3, <2>4
<1> QED
  BY <1>2 DEF HInv

LEMMA NextHInv == PInv /\ HInv /\ [Next]_vars => HInv'
<1> SUFFICES ASSUME PInv, HInv, [Next]_vars PROVE HInv'
  OBVIOUS
<1>1. CASE UNCHANGED vars
  BY <1>1, WatchKept DEF vars, store, client, server
<1>2. ASSUME NEW c \in Clients, Receipt(c) \/ TransportError(c) PROVE HInv'
  BY <1>2, WatchKept DEF Receipt, TransportError, server
<1>3. CASE Crash
  <2>1. \A s \in Slots : at'[s] \in {"probing", "replied"} => at'[s] = at[s]
    BY <1>3 DEF Crash
  <2> QED
    BY <1>3, <2>1, WatchKept DEF Crash, client
<1>4. ASSUME NEW s \in Slots, Refuse(s) PROVE HInv'
  <2>1. PICK a \in Response : Responds(s, a) /\ a.status \notin {200, 503}
    BY <1>4, RefusalFacts DEF Refuse
  <2> QED
    BY <1>4, <2>1, AnswerKeepsWatch DEF Refuse
<1>5. ASSUME NEW s \in Slots, WriteEndpoint(s) \/ Endpoint(s) PROVE HInv'
  <2>1. /\ \A u \in Slots : at'[u] \in {"probing", "replied"} => at'[u] = at[u]
        /\ UNCHANGED <<reply, client, verdict, health>>
    BY <1>5 DEF WriteEndpoint, Endpoint, Enters, PInv, TypeOK
  <2> QED
    BY <2>1, WatchKept DEF client
<1>6. ASSUME NEW s \in Slots, Lookup(s) \/ Save(s) \/ Finish(s) \/ Run(s) \/ UseCaseRaises(s)
      PROVE  HInv'
  <2>1. /\ at[s] \in Writing \cup {"running"} /\ UNCHANGED <<client, verdict, health>>
        /\ rows \subseteq Row
    BY <1>6 DEF Lookup, Save, Finish, Run, UseCaseRaises, Writing, PInv, TypeOK
  <2>2. at[s] # "unsent" /\ Asked(s).op # "ready"
    BY <2>1 DEF PInv, Placed, Writing, Queries, ById, Admin
  <2>3. CASE \E a \in Response : Responds(s, a)
    BY <2>1, <2>2, <2>3, AnswerKeepsWatch
  <2>4. CASE (\E ph \in {"save", "finish"} : at' = [at EXCEPT ![s] = ph]) /\ reply' = reply
    <3>1. \A u \in Slots : at'[u] \in {"probing", "replied"} => at'[u] = at[u]
      BY <2>4 DEF PInv, TypeOK
    <3> QED
      BY <2>1, <2>4, <3>1, WatchKept DEF client
  <2>5. Lookup(s) => (\E a \in Response : Responds(s, a)) \/ (at' = [at EXCEPT ![s] = "save"] /\ reply' = reply)
    BY <2>1, AnswerFacts DEF Lookup, RowsWithKey, Row
  <2>6. Save(s) => (\E a \in Response : Responds(s, a)) \/ (at' = [at EXCEPT ![s] = "finish"] /\ reply' = reply)
    BY AnswerFacts DEF Save
  <2>7. Finish(s) => \E a \in Response : Responds(s, a)
    BY AnswerFacts DEF Finish, PInv, TypeOK, Placed
  <2>8. Run(s) => \E a \in Response : Responds(s, a)
    BY EndingFacts DEF Run, PInv, Placed
  <2>9. UseCaseRaises(s) => \E a \in Response : Responds(s, a)
    BY AnswerFacts DEF UseCaseRaises
  <2> QED
    BY <1>6, <2>3, <2>4, <2>5, <2>6, <2>7, <2>8, <2>9
<1> QED
  BY <1>1, <1>2, <1>3, <1>4, <1>5, <1>6, SendKeepsWatch, HealthEndpointKeepsWatch,
     ProbeKeepsWatch, ReportKeepsWatch, ComponentChangesKeepsWatch DEF Next

\* /readyz speaks the truth about the components it watched, for any number of
\* them, whatever comes and goes during the check.
THEOREM ReadyIsTruthful == Spec => []ReadyTruthful
<1>1. Init => PInv /\ HInv
  BY InitPInv, InitHInv
<1>2. PInv /\ HInv /\ [Next]_vars => (PInv /\ HInv)'
  BY NextPInv, NextHInv
<1>3. HInv => ReadyTruthful
  BY DEF HInv, Watched, ReadyTruthful
<1> QED
  BY <1>1, <1>2, <1>3, PTL DEF Spec

-----------------------------------------------------------------------------
(* What is acknowledged over the wire, while no INSERT OR REPLACE deletes a row *)

Entry(s, m) == [id |-> m, tenant |-> want[s[1]].tenant, key |-> want[s[1]].key]

Unique == \A r, q \in rows : r.id = q.id \/ SameKey(r, q) => r = q

\* The record a write was told of, or is about to be told of, is stored.
Kept(s) ==
    /\ at[s] = "finish" => Entry(s, memoryId[s]) \in Accepted
    /\ reply[s].status = 200 /\ want[s[1]].op = "write" => Entry(s, reply[s].id) \in Accepted
    /\ got[s].status = 200 => at[s] # "unsent"
    /\ HasWritten(s) => Entry(s, got[s].id) \in Accepted

KInv == Unique /\ \A s \in Slots : Kept(s)

\* Two attempts have both found one tenant's key free, and neither has saved yet:
\* an attempt that timed out and the one that repeats it, say.
Contested ==
    \E s, u \in Slots :
        s # u /\ at[s] = "save" /\ at[u] = "save" /\ SameKey(NewRow(s), NewRow(u))

\* PostgreSQL's unique index settles a contest, SQLite's INSERT OR REPLACE does not.
Settled == Backend = "postgres" \/ ~Contested

\* A record of the attempt's tenant has its key.
Taken(s) ==
    \E r \in rows :
        r.key # NoKey /\ r.key = want[s[1]].key /\ r.tenant = want[s[1]].tenant

\* An attempt about to save over SQLite has its key for itself.
FreeAtSave == Backend = "sqlite" => \A s \in Slots : at[s] = "save" => ~Taken(s)

LEMMA InitKInv == Init => KInv
  BY DEF Init, KInv, Unique, Kept, HasWritten, Nothing, Answer

\* What was stored stays stored, and so what was said of it.
LEMMA KeptStays ==
    ASSUME PInv, KInv, NEW s \in Slots, rows \subseteq rows',
           want'[s[1]] = want[s[1]] \/ at[s] = "unsent",
           at'[s] # "unsent" \/ at[s] = "unsent",
           at'[s] = "finish" =>
              \/ at[s] = "finish" /\ memoryId'[s] = memoryId[s]
              \/ at[s] # "unsent" /\ Entry(s, memoryId'[s]) \in Accepted',
           \/ reply'[s] = reply[s] \/ reply'[s].status # 200
           \/ at[s] # "unsent" /\ (want[s[1]].op # "write" \/ Entry(s, reply'[s].id) \in Accepted'),
           \/ got'[s] = got[s] \/ got'[s].status # 200
           \/ at[s] # "unsent" /\ got'[s] = reply[s]
    PROVE  Kept(s)'
<1>1. Kept(s) /\ Accepted \subseteq Accepted'
  BY DEF KInv, Accepted
<1>2. CASE at[s] = "unsent"
  <2>1. reply[s].status # 200 /\ got[s].status # 200
    BY <1>1, <1>2 DEF PInv, Placed, Kept, Nothing, Answer
  <2> QED
    BY <1>2, <2>1 DEF Kept, HasWritten
<1>3. CASE at[s] # "unsent"
  <2>1. want'[s[1]] = want[s[1]]
    BY <1>3
  <2>2. \A m : Entry(s, m)' = Entry(s, m)
    BY <2>1 DEF Entry
  <2>3. at'[s] = "finish" => Entry(s, memoryId'[s]) \in Accepted'
    BY <1>1 DEF Kept
  <2>4. reply'[s].status = 200 /\ want[s[1]].op = "write" => Entry(s, reply'[s].id) \in Accepted'
    BY <1>1 DEF Kept
  <2>5. got'[s].status = 200 /\ want[s[1]].op = "write" => Entry(s, got'[s].id) \in Accepted'
    BY <1>1 DEF Kept, HasWritten
  <2> QED
    BY <1>3, <2>1, <2>2, <2>3, <2>4, <2>5 DEF Kept, HasWritten, Entry
<1> QED
  BY <1>2, <1>3

\* Steps of the server that answer an attempt, or move it on, and store nothing.
LEMMA AnswerKeepsKept ==
    ASSUME PInv, KInv, NEW s \in Slots, NEW a \in Response, Responds(s, a), at[s] # "unsent",
           UNCHANGED <<rows, client, memoryId>>,
           a.status # 200 \/ Asked(s).op # "write" \/ Entry(s, a.id) \in Accepted
    PROVE  KInv'
<1>1. /\ at'[s] = "replied" /\ reply'[s] = a
      /\ \A u \in Slots \ {s} : at'[u] = at[u] /\ reply'[u] = reply[u]
      /\ want' = want /\ got' = got
  BY RespondsFacts DEF PInv, client
<1>2. Asked(s).op = want[s[1]].op
  BY AskedFacts
<1>3. Accepted' = Accepted
  BY DEF Accepted
<1>4. \A u \in Slots : Kept(u)'
  <2> SUFFICES ASSUME NEW u \in Slots PROVE Kept(u)'
    OBVIOUS
  <2> QED
    BY <1>1, <1>2, <1>3, KeptStays
<1> QED
  BY <1>4 DEF KInv, Unique

LEMMA MoveKeepsKept ==
    ASSUME PInv, KInv, UNCHANGED <<rows, client, reply>>,
           \A u \in Slots :
              /\ at'[u] = "finish" => at[u] = "finish" /\ memoryId'[u] = memoryId[u]
              /\ at'[u] = "unsent" => at[u] = "unsent"
    PROVE  KInv'
<1>1. want' = want /\ got' = got
  BY DEF client
<1>2. \A u \in Slots : Kept(u)'
  <2> SUFFICES ASSUME NEW u \in Slots PROVE Kept(u)'
    OBVIOUS
  <2> QED
    BY <1>1, KeptStays
<1> QED
  BY <1>2 DEF KInv, Unique

\* The row an attempt adds is new in its id and in its tenant's key.
LEMMA SaveAdds ==
    ASSUME FreeAtSave, PInv, RInv, KInv, NEW s \in Slots, at[s] = "save",
           ~SaveRaises(rows, NewRow(s)), rows' = SaveRow(rows, NewRow(s))
    PROVE  /\ rows' = rows \cup {NewRow(s)}
           /\ \A r \in rows : r.id # NewRow(s).id /\ ~SameKey(r, NewRow(s))
           /\ Unique'
<1>1. \A r \in rows : r.id # NewRow(s).id
  BY NewRowFacts DEF RInv, Unsaved
<1>2. \A r \in rows : ~SameKey(r, NewRow(s))
  <2>1. CASE Backend = "postgres"
    BY <1>1, <2>1 DEF SaveRaises, PostgresSaveRaises
  <2>2. CASE Backend = "sqlite"
    <3>1. NewRow(s).tenant = want[s[1]].tenant /\ NewRow(s).key = want[s[1]].key
      BY NewRowFacts
    <3> QED
      BY <2>2, <3>1 DEF FreeAtSave, Taken, SameKey
  <2> QED
    BY <2>1, <2>2, RecordStoreAssumption
<1>3. rows' = rows \cup {NewRow(s)}
  BY <1>1, <1>2, RecordStoreAssumption DEF SaveRow, PostgresSave, SqliteSave
<1>4. \A r \in rows : ~SameKey(NewRow(s), r)
  BY <1>2 DEF SameKey
<1> QED
  BY <1>1, <1>2, <1>3, <1>4 DEF KInv, Unique

LEMMA AddKeepsKept ==
    ASSUME FreeAtSave, PInv, RInv, KInv, NEW s \in Slots, at[s] = "save",
           ~SaveRaises(rows, NewRow(s)), rows' = SaveRow(rows, NewRow(s)),
           UNCHANGED <<client, memoryId>>,
           \A u \in Slots \ {s} : at'[u] = at[u],
           at'[s] # "unsent",
           \A u \in Slots : reply'[u] = reply[u] \/ reply'[u].status # 200
    PROVE  KInv'
<1>1. rows' = rows \cup {NewRow(s)} /\ Unique'
  BY SaveAdds
<1>2. Entry(s, memoryId[s]) \in Accepted'
  <2>1. /\ NewRow(s) \in rows'
        /\ NewRow(s).id = memoryId[s] /\ NewRow(s).tenant = want[s[1]].tenant
        /\ NewRow(s).key = want[s[1]].key
    BY <1>1, NewRowFacts
  <2> QED
    BY <2>1 DEF Accepted, Entry
<1>3. want' = want /\ got' = got /\ memoryId' = memoryId
  BY DEF client
<1>4. \A u \in Slots : Kept(u)'
  <2> SUFFICES ASSUME NEW u \in Slots PROVE Kept(u)'
    OBVIOUS
  <2>1. at'[u] = "finish" => \/ at[u] = "finish"
                             \/ at[u] # "unsent" /\ Entry(u, memoryId'[u]) \in Accepted'
    BY <1>2, <1>3
  <2>2. at'[u] # "unsent" \/ at[u] = "unsent"
    OBVIOUS
  <2>3. rows \subseteq rows' /\ want'[u[1]] = want[u[1]] /\ got'[u] = got[u]
    BY <1>1, <1>3
  <2>4. memoryId'[u] = memoryId[u] /\ (reply'[u] = reply[u] \/ reply'[u].status # 200)
    BY <1>3
  <2> QED
    BY <2>1, <2>2, <2>3, <2>4, KeptStays
<1> QED
  BY <1>1, <1>4 DEF KInv

LEMMA SendKeepsKept ==
    ASSUME PInv, KInv, NEW c \in Clients, NEW r \in Requests[c], Send(c, r)
    PROVE  KInv' /\ UNCHANGED <<Accepted, Acknowledged>>
<1>1. /\ UNCHANGED <<store, reply, memoryId>>
      /\ r = want[c] \/ want[c] = NoRequest
      /\ want' = [want EXCEPT ![c] = r]
      /\ \/ at' = at /\ got' = [got EXCEPT ![<<c, sent[c] + 1>>] = Answer(0, "VALUE_ERROR")]
         \/ at' = [at EXCEPT ![<<c, sent[c] + 1>>] = "wire"] /\ got' = got
  BY DEF Send
<1>2. \A u \in Slots : want'[u[1]] = want[u[1]] \/ at[u] = "unsent"
  <2> SUFFICES ASSUME NEW u \in Slots, at[u] # "unsent" PROVE want'[u[1]] = want[u[1]]
    OBVIOUS
  <2>1. u[1] \in Clients /\ sent[u[1]] > 0
    BY SlotFacts, GatewayAssumption DEF PInv, TypeOK, Placed
  <2>2. want[u[1]] # NoRequest
    BY <2>1, WantFacts
  <2> QED
    BY <1>1, <2>1, <2>2 DEF PInv, TypeOK
<1>3. \A u \in Slots :
         /\ got'[u] = got[u] \/ (got'[u].status = 0 /\ at[u] = "unsent")
         /\ at'[u] = at[u] \/ at'[u] = "wire"
  <2> SUFFICES ASSUME NEW u \in Slots
               PROVE  /\ got'[u] = got[u] \/ (got'[u].status = 0 /\ at[u] = "unsent")
                      /\ at'[u] = at[u] \/ at'[u] = "wire"
    OBVIOUS
  <2>1. u = <<c, sent[c] + 1>> => at[u] = "unsent"
    <3>1. sent[c] \in Nat /\ (at[u] # "unsent" => u[2] <= sent[u[1]])
      BY DEF PInv, TypeOK, Placed
    <3>2. u = <<c, sent[c] + 1>> => u[1] = c /\ u[2] = sent[c] + 1
      OBVIOUS
    <3> QED
      BY <3>1, <3>2
  <2>2. got \in [Slots -> Response] /\ at \in [Slots -> Phase]
    BY DEF PInv, TypeOK
  <2>3. at'[u] = at[u] \/ at'[u] = "wire"
    BY <1>1, <2>2
  <2>4. got'[u] = got[u] \/ (u = <<c, sent[c] + 1>> /\ got'[u] = Answer(0, "VALUE_ERROR"))
    BY <1>1, <2>2
  <2> QED
    BY <2>1, <2>3, <2>4 DEF Answer
<1>4. \A u \in Slots : Kept(u)'
  <2> SUFFICES ASSUME NEW u \in Slots PROVE Kept(u)'
    OBVIOUS
  <2> QED
    BY <1>1, <1>2, <1>3, KeptStays DEF store
<1>5. Accepted' = Accepted
  BY <1>1 DEF Accepted, store
<1>6. \A u \in Slots : HasWritten(u)' <=> HasWritten(u)
  <2> SUFFICES ASSUME NEW u \in Slots PROVE HasWritten(u)' <=> HasWritten(u)
    OBVIOUS
  <2>1. CASE at[u] = "unsent"
    BY <1>3, <2>1 DEF KInv, Kept, HasWritten
  <2>2. CASE at[u] # "unsent"
    BY <1>2, <1>3, <2>2 DEF HasWritten
  <2> QED
    BY <2>1, <2>2
<1>7. \A u \in Slots : HasWritten(u) => want'[u[1]] = want[u[1]] /\ got'[u] = got[u]
  BY <1>2, <1>3 DEF KInv, Kept, HasWritten
<1>8. Acknowledged' = Acknowledged
  BY <1>6, <1>7 DEF Acknowledged
<1> QED
  BY <1>1, <1>4, <1>5, <1>8 DEF KInv, Unique, store

\* What a client reads off an answer is what it is then told of.
LEMMA ReceiptKeepsKept ==
    ASSUME PInv, KInv, NEW c \in Clients, Receipt(c)
    PROVE  KInv' /\ [Contract!Next]_<<Accepted, Acknowledged>>
<1>1. PICK s \in Slots : s = Last(c)
  <2>1. sent[c] > 0
    BY DEF Receipt, Waiting
  <2>2. sent[c] \in 1..MaxSends[c]
    BY <2>1, GatewayAssumption DEF PInv, TypeOK
  <2> QED
    BY <2>2, SlotFacts DEF Last
<1>2. /\ at[s] = "replied" /\ got[s] = Nothing
      /\ got' = [got EXCEPT ![s] = Reading(reply[s])]
      /\ UNCHANGED <<store, want, sent, server, health, upsets>>
  BY <1>1 DEF Receipt, Waiting
<1>3. /\ got'[s] = reply[s] \/ got'[s].status # 200
      /\ \A u \in Slots \ {s} : got'[u] = got[u]
      /\ got[s].status # 200
      /\ got'[s].status = reply[s].status
  <2>1. reply[s] \in Response
    BY DEF PInv, TypeOK
  <2>2. got'[s] = Reading(reply[s]) /\ \A u \in Slots \ {s} : got'[u] = got[u]
    BY <1>2 DEF PInv, TypeOK
  <2>3. Reading(reply[s]) = reply[s] \/ reply[s].status \in 400..599
    BY DEF Reading
  <2>4. Reading(reply[s]).status = reply[s].status
    BY <2>1 DEF Reading, Response
  <2> QED
    BY <1>2, <2>2, <2>3, <2>4 DEF Nothing, Answer
<1>4. rows' = rows /\ want' = want /\ at' = at /\ reply' = reply /\ memoryId' = memoryId
  BY <1>2 DEF store, server
<1>5. \A u \in Slots : Kept(u)'
  <2> SUFFICES ASSUME NEW u \in Slots PROVE Kept(u)'
    OBVIOUS
  <2>1. got'[u] = got[u] \/ got'[u].status # 200 \/ (at[u] # "unsent" /\ got'[u] = reply[u])
    BY <1>2, <1>3
  <2> QED
    BY <1>4, <2>1, KeptStays
<1>6. Accepted' = Accepted /\ \A u \in Slots, m \in MemoryIds : Entry(u, m)' = Entry(u, m)
  BY <1>4 DEF Accepted, Entry
<1>7. CASE HasWritten(s)'
  <2>1. got'[s] = reply[s] /\ reply[s].status = 200 /\ want[s[1]].op = "write"
    BY <1>3, <1>4, <1>7 DEF HasWritten
  <2>2. Entry(s, reply[s].id) \in Accepted
    BY <2>1 DEF KInv, Kept
  <2>3. Acknowledged' = Acknowledged \cup {Entry(s, reply[s].id)}
    <3>1. \A u \in Slots \ {s} : HasWritten(u)' <=> HasWritten(u)
      BY <1>3, <1>4 DEF HasWritten
    <3>2. ~HasWritten(s)
      BY <1>3 DEF HasWritten
    <3>3. Acknowledged = {Entry(u, got[u].id) : u \in {v \in Slots : HasWritten(v)}}
      BY DEF Acknowledged, Entry
    <3>4. Acknowledged' = {Entry(u, got'[u].id) : u \in {v \in Slots : HasWritten(v)'}}
      BY <1>4 DEF Acknowledged, Entry
    <3> QED
      BY <1>3, <1>7, <2>1, <3>1, <3>2, <3>3, <3>4
  <2>4. Entry(s, reply[s].id) \in Contract!Record
    <3>1. reply[s].id \in MemoryIds
      BY <2>2, <1>4 DEF Accepted, Entry, PInv, TypeOK, Row
    <3>2. want[s[1]].tenant \in Tenants /\ want[s[1]].key \in Keys \cup {NoKey}
      BY <2>2 DEF Accepted, Entry, PInv, TypeOK, Row
    <3> QED
      BY <3>1, <3>2 DEF Entry, Contract!Record
  <2>5. Contract!Acknowledge(Entry(s, reply[s].id))
    BY <1>6, <2>2, <2>3 DEF Contract!Acknowledge
  <2> QED
    BY <1>4, <1>5, <2>4, <2>5 DEF KInv, Unique, Contract!Next
<1>8. CASE ~HasWritten(s)'
  <2>1. \A u \in Slots : HasWritten(u)' <=> HasWritten(u)
    BY <1>3, <1>4, <1>8 DEF HasWritten
  <2>2. \A u \in Slots : HasWritten(u) => got'[u] = got[u]
    BY <1>3 DEF HasWritten
  <2>3. Acknowledged' = Acknowledged
    BY <1>4, <2>1, <2>2 DEF Acknowledged
  <2> QED
    BY <1>4, <1>5, <1>6, <2>3 DEF KInv, Unique
<1> QED
  BY <1>7, <1>8

LEMMA TransportErrorKeepsKept ==
    ASSUME PInv, KInv, NEW c \in Clients, TransportError(c)
    PROVE  KInv' /\ UNCHANGED <<Accepted, Acknowledged>>
<1>1. /\ got[Last(c)] = Nothing
      /\ got' = [got EXCEPT ![Last(c)] = Answer(0, "TRANSPORT")]
      /\ UNCHANGED <<store, want, sent, server, health, upsets>>
  BY DEF TransportError, Waiting
<1>2. \A u \in Slots : got'[u] = got[u] \/ (got'[u].status = 0 /\ got[u].status = 0)
  <2>1. got \in [Slots -> Response]
    BY DEF PInv, TypeOK
  <2> QED
    BY <1>1, <2>1 DEF Nothing, Answer
<1>3. rows' = rows /\ want' = want /\ at' = at /\ reply' = reply /\ memoryId' = memoryId
  BY <1>1 DEF store, server
<1>4. \A u \in Slots : Kept(u)'
  <2> SUFFICES ASSUME NEW u \in Slots PROVE Kept(u)'
    OBVIOUS
  <2> QED
    BY <1>2, <1>3, KeptStays
<1>5. Accepted' = Accepted
  BY <1>3 DEF Accepted
<1>6. Acknowledged' = Acknowledged
  BY <1>2, <1>3 DEF Acknowledged, HasWritten
<1> QED
  BY <1>3, <1>4, <1>5, <1>6 DEF KInv, Unique

LEMMA SameRecords ==
    ASSUME UNCHANGED <<rows, client>>
    PROVE  UNCHANGED <<Accepted, Acknowledged>>
  BY DEF client, Accepted, Acknowledged, HasWritten

\* Storing a row accepts one record.
LEMMA AddAccepts ==
    ASSUME FreeAtSave, PInv, RInv, KInv, NEW s \in Slots, at[s] = "save",
           ~SaveRaises(rows, NewRow(s)), rows' = SaveRow(rows, NewRow(s)), UNCHANGED client
    PROVE  Contract!Next
<1> DEFINE e == [id |-> NewRow(s).id, tenant |-> NewRow(s).tenant, key |-> NewRow(s).key]
<1>1. /\ rows' = rows \cup {NewRow(s)}
      /\ \A r \in rows : r.id # NewRow(s).id /\ ~SameKey(r, NewRow(s))
  BY SaveAdds
<1>2. e \in Contract!Record
  BY NewRowFacts DEF Row, Contract!Record
<1>3. Accepted' = Accepted \cup {e}
  BY <1>1 DEF Accepted
<1>4. Acknowledged' = Acknowledged
  BY DEF client, Acknowledged, HasWritten
<1>5. \A d \in Accepted : d.id # e.id
  BY <1>1 DEF Accepted
<1>6. e.key # NoKey => \A d \in Accepted : ~(d.tenant = e.tenant /\ d.key = e.key)
  BY <1>1 DEF Accepted, SameKey
<1>7. Contract!Accept(e)
  BY <1>3, <1>4, <1>5, <1>6 DEF Contract!Accept
<1> QED
  BY <1>2, <1>7 DEF Contract!Next

LEMMA LookupKeepsKept ==
    ASSUME PInv, KInv, NEW s \in Slots, Lookup(s)
    PROVE  KInv'
<1>1. /\ at[s] = "lookup" /\ UNCHANGED <<rows, client>> /\ rows \subseteq Row
      /\ Asked(s).key = want[s[1]].key /\ ran[s] = want[s[1]].tenant
      /\ memoryId[s] = NoId
  BY WritingFacts DEF Lookup, Writing, PInv, TypeOK, Placed
<1>2. ASSUME NEW r \in RowsWithKey(rows, Asked(s).key, ran[s]), Responds(s, Written(r.id)),
             UNCHANGED memoryId
      PROVE  KInv'
  <2>1. Written(r.id) \in Response /\ Written(r.id).id = r.id
    BY <1>1, AnswerFacts DEF RowsWithKey, Row
  <2>2. Entry(s, r.id) \in Accepted
    BY <1>1 DEF RowsWithKey, Entry, Accepted
  <2> QED
    BY <1>1, <1>2, <2>1, <2>2, AnswerKeepsKept
<1>3. CASE Mints(s) /\ at' = [at EXCEPT ![s] = "save"] /\ UNCHANGED reply
  <2>1. PICK m \in MemoryIds : memoryId' = [memoryId EXCEPT ![s] = m]
    BY <1>3 DEF Mints
  <2>2. \A u \in Slots :
           /\ at'[u] = "finish" => at[u] = "finish" /\ memoryId'[u] = memoryId[u]
           /\ at'[u] = "unsent" => at[u] = "unsent"
    BY <1>1, <1>3, <2>1 DEF PInv, TypeOK
  <2> QED
    BY <1>1, <1>3, <2>2, MoveKeepsKept
<1> QED
  BY <1>2, <1>3 DEF Lookup

LEMMA EndpointKeepsKept ==
    ASSUME PInv, KInv, NEW s \in Slots, WriteEndpoint(s) \/ Endpoint(s) \/ HealthEndpoint(s)
    PROVE  KInv' /\ UNCHANGED <<Accepted, Acknowledged>>
<1>1. /\ at[s] = "wire" /\ UNCHANGED <<rows, client, reply>>
      /\ \E ph \in {"lookup", "save", "running", "probing"} : at' = [at EXCEPT ![s] = ph]
      /\ \E m : memoryId' = memoryId \/ memoryId' = [memoryId EXCEPT ![s] = m]
  BY DEF WriteEndpoint, Endpoint, HealthEndpoint, Enters, Mints, store
<1>2. \A u \in Slots :
         /\ at'[u] = "finish" => at[u] = "finish" /\ memoryId'[u] = memoryId[u]
         /\ at'[u] = "unsent" => at[u] = "unsent"
  BY <1>1 DEF PInv, TypeOK
<1> QED
  BY <1>1, <1>2, MoveKeepsKept, SameRecords

LEMMA AnswersKeepKept ==
    ASSUME PInv, KInv, NEW s \in Slots, Refuse(s) \/ Finish(s) \/ Run(s) \/ Report(s)
    PROVE  KInv' /\ UNCHANGED <<Accepted, Acknowledged>>
<1>1. at[s] # "unsent" /\ UNCHANGED <<rows, client, memoryId>>
  BY DEF Refuse, Finish, Run, Report, store
<1>2. PICK a \in Response :
         /\ Responds(s, a)
         /\ a.status # 200 \/ Asked(s).op # "write" \/ Entry(s, a.id) \in Accepted
  <2>1. CASE Refuse(s)
    BY <2>1, RefusalFacts DEF Refuse
  <2>2. CASE Finish(s)
    <3>1. memoryId[s] \in MemoryIds /\ Entry(s, memoryId[s]) \in Accepted
      BY <2>2 DEF Finish, PInv, TypeOK, Placed, KInv, Kept
    <3>2. /\ Written(memoryId[s]) \in Response /\ Written(memoryId[s]).id = memoryId[s]
          /\ Responds(s, Written(memoryId[s]))
      BY <2>2, <3>1, AnswerFacts DEF Finish
    <3> QED
      BY <3>1, <3>2
  <2>3. CASE Run(s)
    <3>1. Asked(s).op \in Queries \cup ById \cup Admin
      BY <2>3 DEF Run, PInv, Placed
    <3>2. Asked(s).op # "write"
      BY <3>1 DEF Queries, ById, Admin
    <3> QED
      BY <2>3, <3>1, <3>2, EndingFacts DEF Run
  <2>4. CASE Report(s)
    <3>1. Asked(s).op # "write"
      BY <2>4 DEF Report, PInv, Placed, Probes
    <3> QED
      BY <2>4, <3>1, AnswerFacts DEF Report
  <2> QED
    BY <2>1, <2>2, <2>3, <2>4
<1> QED
  BY <1>1, <1>2, AnswerKeepsKept, SameRecords

LEMMA SaveKeepsContract ==
    ASSUME FreeAtSave, PInv, RInv, KInv, NEW s \in Slots, Save(s)
    PROVE  KInv' /\ [Contract!Next]_<<Accepted, Acknowledged>>
<1>1. at[s] = "save" /\ UNCHANGED <<client, memoryId>>
  BY DEF Save
<1>2. CASE /\ ~SaveRaises(rows, NewRow(s))
           /\ rows' = SaveRow(rows, NewRow(s))
           /\ at' = [at EXCEPT ![s] = "finish"]
           /\ UNCHANGED reply
  <2>1. at'[s] = "finish" /\ \A u \in Slots \ {s} : at'[u] = at[u]
    BY <1>2 DEF PInv, TypeOK
  <2>2. KInv'
    BY <1>1, <1>2, <2>1, AddKeepsKept
  <2> QED
    BY <1>1, <1>2, <2>2, AddAccepts
<1>3. CASE Responds(s, StorageFailure) /\ UNCHANGED rows
  <2>1. StorageFailure \in Response /\ StorageFailure.status # 200
    BY AnswerFacts
  <2> QED
    BY <1>1, <1>3, <2>1, AnswerKeepsKept, SameRecords
<1> QED
  BY <1>2, <1>3 DEF Save

LEMMA UseCaseRaisesKeepsContract ==
    ASSUME FreeAtSave, PInv, RInv, KInv, NEW s \in Slots, UseCaseRaises(s)
    PROVE  KInv' /\ [Contract!Next]_<<Accepted, Acknowledged>>
<1>1. /\ Responds(s, StorageFailure) /\ UNCHANGED <<client, memoryId>> /\ at[s] # "unsent"
      /\ StorageFailure \in Response /\ StorageFailure.status # 200
  BY AnswerFacts DEF UseCaseRaises
<1>2. CASE UNCHANGED rows
  BY <1>1, <1>2, AnswerKeepsKept, SameRecords
<1>3. CASE /\ at[s] = "save" /\ ~SaveRaises(rows, NewRow(s))
           /\ rows' = SaveRow(rows, NewRow(s))
  <2>1. /\ at'[s] = "replied" /\ reply'[s] = StorageFailure
        /\ \A u \in Slots \ {s} : at'[u] = at[u] /\ reply'[u] = reply[u]
    BY <1>1, RespondsFacts DEF PInv
  <2>2. KInv'
    BY <1>1, <1>3, <2>1, AddKeepsKept
  <2> QED
    BY <1>1, <1>3, <2>2, AddAccepts
<1> QED
  BY <1>2, <1>3 DEF UseCaseRaises

LEMMA NextKeepsContract ==
    FreeAtSave /\ PInv /\ RInv /\ KInv /\ [Next]_vars =>
        KInv' /\ [Contract!Next]_<<Accepted, Acknowledged>>
<1> SUFFICES ASSUME FreeAtSave, PInv, RInv, KInv, [Next]_vars
             PROVE  KInv' /\ [Contract!Next]_<<Accepted, Acknowledged>>
  OBVIOUS
<1>1. CASE UNCHANGED vars
  BY <1>1, MoveKeepsKept, SameRecords DEF vars, store, server
<1>2. CASE Crash
  <2>1. \A u \in Slots :
           /\ at'[u] = "finish" => at[u] = "finish" /\ memoryId'[u] = memoryId[u]
           /\ at'[u] = "unsent" => at[u] = "unsent"
    BY <1>2 DEF Crash
  <2> QED
    BY <1>2, <2>1, MoveKeepsKept, SameRecords DEF Crash, store
<1>3. ASSUME NEW k \in Components, ComponentChanges(k) PROVE KInv' /\ UNCHANGED <<Accepted, Acknowledged>>
  BY <1>3, MoveKeepsKept, SameRecords DEF ComponentChanges, store, server
<1>4. ASSUME NEW s \in Slots, NEW k \in Components, Probe(s, k)
      PROVE  KInv' /\ UNCHANGED <<Accepted, Acknowledged>>
  BY <1>4, MoveKeepsKept, SameRecords DEF Probe, store
<1>5. ASSUME NEW s \in Slots, Lookup(s) PROVE KInv' /\ UNCHANGED <<Accepted, Acknowledged>>
  BY <1>5, LookupKeepsKept, SameRecords DEF Lookup
<1> QED
  BY <1>1, <1>2, <1>3, <1>4, <1>5, SendKeepsKept, ReceiptKeepsKept, TransportErrorKeepsKept,
     EndpointKeepsKept, AnswersKeepKept, SaveKeepsContract, UseCaseRaisesKeepsContract DEF Next

\* Only a lookup, or a write without a key, leads to a save, and only another attempt
\* for the key, which found it free as well, could take it in between.
LEMMA NextFreeAtSave ==
    ASSUME FreeAtSave, PInv, RInv, KInv, Settled, [Next]_vars
    PROVE  FreeAtSave'
<1> SUFFICES ASSUME Backend = "sqlite", NEW s \in Slots, at'[s] = "save" PROVE ~Taken(s)'
  BY DEF FreeAtSave
<1>0. Backend # "postgres" /\ ~Contested /\ at \in [Slots -> Phase] /\ s[1] \in Clients
  BY SlotFacts DEF Settled, PInv, TypeOK
<1>1. ASSUME at[s] = "save", rows' = rows, want'[s[1]] = want[s[1]] PROVE ~Taken(s)'
  BY <1>0, <1>1 DEF FreeAtSave, Taken
<1>2. ASSUME NEW c \in Clients, NEW r \in Requests[c], Send(c, r) PROVE ~Taken(s)'
  <2>1. at[s] = "save"
    BY <1>0, <1>2 DEF Send
  <2>2. want[s[1]] # NoRequest
    BY <2>1, SlotFacts, GatewayAssumption, WantFacts DEF PInv, TypeOK, Placed
  <2>3. want'[s[1]] = want[s[1]] /\ rows' = rows
    BY <1>2, <2>2 DEF Send, PInv, TypeOK, store
  <2> QED
    BY <1>1, <2>1, <2>3
<1>3. ASSUME NEW u \in Slots, Save(u) PROVE ~Taken(s)'
  <2>1. at[u] = "save" /\ rows' = SaveRow(rows, NewRow(u)) /\ at' = [at EXCEPT ![u] = "finish"]
    BY <1>0, <1>3 DEF Save, SaveRaises
  <2>2. u # s /\ at[s] = "save" /\ want' = want
    BY <1>0, <1>3, <2>1 DEF Save, client
  <2>3. rows' = rows \cup {NewRow(u)}
    BY <1>0, <2>1, SaveAdds DEF SaveRaises
  <2>4. ~SameKey(NewRow(u), NewRow(s))
    BY <1>0, <2>1, <2>2 DEF Contested
  <2>5. NewRow(s).tenant = want[s[1]].tenant /\ NewRow(s).key = want[s[1]].key
    BY <2>2, NewRowFacts
  <2>6. ~Taken(s)
    BY <1>0, <2>2 DEF FreeAtSave
  <2> QED
    BY <2>2, <2>3, <2>4, <2>5, <2>6 DEF Taken, SameKey
<1>4. ASSUME NEW u \in Slots, Lookup(u) PROVE ~Taken(s)'
  <2>1. rows' = rows /\ want' = want /\ at[u] = "lookup"
    BY <1>4 DEF Lookup, client
  <2>2. CASE u # s
    <3>1. at[s] = "save"
      BY <1>0, <1>4, <2>2 DEF Lookup, Responds
    <3> QED
      BY <1>1, <2>1, <3>1
  <2>3. CASE u = s
    <3>1. RowsWithKey(rows, Asked(s).key, ran[s]) = {}
      BY <1>0, <1>4, <2>3 DEF Lookup, Responds
    <3>2. Asked(s).key = want[s[1]].key /\ ran[s] = want[s[1]].tenant
      BY <2>1, <2>3, WritingFacts DEF Writing
    <3> QED
      BY <2>1, <3>1, <3>2 DEF RowsWithKey, Taken
  <2> QED
    BY <2>2, <2>3
<1>5. ASSUME NEW u \in Slots, WriteEndpoint(u) PROVE ~Taken(s)'
  <2>1. rows' = rows /\ want' = want /\ at[u] = "wire" /\ Asked(u).op = "write"
    BY <1>5 DEF WriteEndpoint, client
  <2>2. CASE u # s
    <3>1. at[s] = "save"
      BY <1>0, <1>5, <2>2 DEF WriteEndpoint, Enters
    <3> QED
      BY <1>1, <2>1, <3>1
  <2>3. CASE u = s
    <3>1. Asked(s).key = NoKey
      BY <1>0, <1>5, <2>3 DEF WriteEndpoint, Enters
    <3>2. want[s[1]].key = NoKey
      BY <2>1, <2>3, <3>1, AskedFacts
    <3> QED
      BY <2>1, <3>2 DEF Taken
  <2> QED
    BY <2>2, <2>3
<1>6. ASSUME NEW u \in Slots,
             Refuse(u) \/ Finish(u) \/ Run(u) \/ Report(u) \/ UseCaseRaises(u)
      PROVE  ~Taken(s)'
  <2>1. rows' = rows /\ want' = want /\ at' = [at EXCEPT ![u] = "replied"]
    BY <1>0, <1>6 DEF Refuse, Finish, Run, Report, UseCaseRaises, Responds, client, store
  <2>2. at[s] = "save"
    BY <1>0, <2>1
  <2> QED
    BY <1>1, <2>1, <2>2
<1>7. ASSUME NEW u \in Slots, Endpoint(u) \/ HealthEndpoint(u) PROVE ~Taken(s)'
  <2>1. rows' = rows /\ want' = want /\ at[s] = "save"
    BY <1>0, <1>7 DEF Endpoint, HealthEndpoint, Enters, client, store
  <2> QED
    BY <1>1, <2>1
<1>8. ASSUME \/ \E c \in Clients : Receipt(c) \/ TransportError(c)
             \/ \E u \in Slots, k \in Components : Probe(u, k)
             \/ \E k \in Components : ComponentChanges(k)
             \/ UNCHANGED vars
      PROVE  ~Taken(s)'
  <2>1. rows' = rows /\ want' = want /\ at' = at
    BY <1>8 DEF Receipt, TransportError, Probe, ComponentChanges, vars, client, store, server
  <2> QED
    BY <1>1, <2>1
<1>9. ASSUME Crash PROVE FALSE
  BY <1>0, <1>9 DEF Crash, OnServer
<1> QED
  BY <1>2, <1>3, <1>4, <1>5, <1>6, <1>7, <1>8, <1>9 DEF Next

\* What holds of the boundary while nobody contests a key over SQLite.
LEMMA SettledInvariant ==
    Spec /\ []Settled => [](FreeAtSave /\ PInv /\ RInv /\ KInv)
<1>1. Init => FreeAtSave /\ PInv /\ RInv /\ KInv
  BY InitPInv, InitRInv, InitKInv DEF Init, FreeAtSave
<1>2. Settled /\ FreeAtSave /\ PInv /\ RInv /\ KInv /\ [Next]_vars =>
         (FreeAtSave /\ PInv /\ RInv /\ KInv)'
  BY NextPInv, NextRInv, NextKeepsContract, NextFreeAtSave
<1> QED
  BY <1>1, <1>2, PTL DEF Spec

\* On either backend the whole boundary implements the abstract write contract, for
\* any surfaces, timeouts, repeats and crashes, unless over SQLite two attempts have
\* found one tenant's key free at once.
THEOREM SettledBoundary == Spec /\ []Settled => KeepsContract
<1>1. Init => Contract!Init
  BY DEF Init, Contract!Init, Accepted, Acknowledged, HasWritten, Nothing, Answer
<1> QED
  BY <1>1, SettledInvariant, NextKeepsContract, PTL DEF Spec, KeepsContract, Contract!Spec

\* On PostgreSQL it does so whatever attempts race.
THEOREM BoundaryImplementsContract ==
    ASSUME Backend = "postgres"
    PROVE  Spec => KeepsContract
<1>1. Settled
  BY DEF Settled
<1> QED
  BY <1>1, SettledBoundary, PTL

\* On either backend, unless attempts contest a key over SQLite, a tenant is told of
\* one record however often its keyed write is repeated.
THEOREM SettledRepeats == Spec /\ []Settled => []RepeatsYieldOne
<1>1. KInv => RepeatsYieldOne
  <2> SUFFICES ASSUME KInv, NEW s \in Slots, NEW u \in Slots,
                      HasWritten(s), HasWritten(u),
                      want[s[1]].key # NoKey, want[s[1]].key = want[u[1]].key,
                      want[s[1]].tenant = want[u[1]].tenant
               PROVE  got[s].id = got[u].id
    BY DEF RepeatsYieldOne
  <2>1. Entry(s, got[s].id) \in Accepted /\ Entry(u, got[u].id) \in Accepted
    BY DEF KInv, Kept
  <2>2. PICK r \in rows : r.id = got[s].id /\ r.tenant = want[s[1]].tenant /\ r.key = want[s[1]].key
    BY <2>1 DEF Entry, Accepted
  <2>3. PICK q \in rows : q.id = got[u].id /\ q.tenant = want[u[1]].tenant /\ q.key = want[u[1]].key
    BY <2>1 DEF Entry, Accepted
  <2>4. SameKey(r, q)
    BY <2>2, <2>3 DEF SameKey
  <2> QED
    BY <2>2, <2>3, <2>4 DEF KInv, Unique
<1> QED
  BY <1>1, SettledInvariant, PTL

\* However often a keyed write is repeated on PostgreSQL, its tenant is told of
\* one record.
THEOREM RepeatsNameOneRecord ==
    ASSUME Backend = "postgres"
    PROVE  Spec => []RepeatsYieldOne
<1>1. Settled
  BY DEF Settled
<1> QED
  BY <1>1, SettledRepeats, PTL

-----------------------------------------------------------------------------
(* What a client that was told of a failure may do *)

\* The write of s was answered with a failure, has a key, and left its record.
Told(s) ==
    /\ got[s] = StorageFailure /\ want[s[1]].key # NoKey
    /\ \E r \in rows : r.id = memoryId[s]

\* Attempt u writes nothing, and is answered with nothing but the record of s.
Spares(u, s) == memoryId[u] = NoId /\ reply[u].id \in {NoId, memoryId[s]}

Repeats(u, s) == u[1] = s[1] /\ u[2] > s[2]

\* An attempt whose failure was heard is over, and its repeats spare it.
FInv ==
    /\ Unique
    /\ \A s \in Slots : got[s] = StorageFailure => at[s] \in {"replied", "gone"}
    /\ \A s, u \in Slots : Repeats(u, s) /\ Told(s) => Spares(u, s)

LEMMA FailureIsNoOther ==
    /\ StorageFailure # Nothing
    /\ StorageFailure # Answer(0, "VALUE_ERROR") /\ StorageFailure # Answer(0, "TRANSPORT")
    /\ StorageFailure.id = NoId /\ Nothing.id = NoId
    /\ \A status, error : Answer(status, error).id = NoId
  BY DEF StorageFailure, Nothing, Answer

LEMMA InitFInv == Init => FInv
<1> SUFFICES ASSUME Init PROVE FInv
  OBVIOUS
<1>1. \A s \in Slots : got[s] # StorageFailure
  BY FailureIsNoOther DEF Init
<1>2. Unique
  BY DEF Init, Unique
<1> QED
  BY <1>1, <1>2 DEF FInv, Told

\* INSERT OR REPLACE deletes what the new row conflicts with, and PostgreSQL raises.
LEMMA SaveUnique ==
    ASSUME PInv, RInv, Unique, NEW s \in Slots, at[s] = "save", ~SaveRaises(rows, NewRow(s)),
           rows' = SaveRow(rows, NewRow(s))
    PROVE  Unique'
<1> DEFINE row == NewRow(s)
<1>1. \A r, q \in rows : r.id = q.id \/ SameKey(r, q) => r = q
  BY DEF Unique
<1>2. \A r \in rows : r.id # row.id
  BY NewRowFacts DEF RInv, Unsaved
<1>3. \A r \in rows' : r = row \/ (r \in rows /\ ~SameKey(r, row))
  <2>1. CASE Backend = "sqlite"
    BY <2>1 DEF SaveRow, SqliteSave
  <2>2. CASE Backend = "postgres"
    BY <1>2, <2>2 DEF SaveRow, PostgresSave, SaveRaises, PostgresSaveRaises
  <2> QED
    BY <2>1, <2>2, RecordStoreAssumption
<1>4. \A r \in rows' : r # row => ~SameKey(row, r)
  BY <1>3 DEF SameKey
<1> QED
  BY <1>1, <1>2, <1>3, <1>4 DEF Unique

\* A row under the id of an attempt that is over was there before.
LEMMA LeftBefore ==
    ASSUME PInv, RInv, NEW v \in Slots, at[v] = "save", rows' = SaveRow(rows, NewRow(v)),
           NEW s \in Slots, s # v, \E r \in rows' : r.id = memoryId[s]
    PROVE  \E r \in rows : r.id = memoryId[s]
<1>1. NewRow(v).id = memoryId[v] /\ memoryId[v] # NoId
  BY NewRowFacts DEF PInv, Placed
<1>2. memoryId[s] # memoryId[v]
  BY <1>1 DEF RInv, Distinct
<1> QED
  BY <1>1, <1>2, SaveRowAdds

\* Steps of one attempt that is not over.
LEMMA StepSpares ==
    ASSUME PInv, RInv, FInv, NEW v \in Slots, at[v] \notin {"replied", "gone"},
           UNCHANGED client,
           \A u \in Slots \ {v} : at'[u] = at[u] /\ reply'[u] = reply[u] /\ memoryId'[u] = memoryId[u],
           \/ rows' = rows
           \/ at[v] = "save" /\ ~SaveRaises(rows, NewRow(v)) /\ rows' = SaveRow(rows, NewRow(v)),
           \A s \in Slots : Repeats(v, s) /\ Told(s) =>
                memoryId'[v] = NoId /\ reply'[v].id \in {NoId, memoryId[s]}
    PROVE  FInv'
<1>1. Unique'
  <2>1. CASE rows' = rows
    BY <2>1 DEF FInv, Unique
  <2> QED
    BY <2>1, SaveUnique DEF FInv
<1>2. \A s \in Slots : got[s] = StorageFailure => s # v /\ at'[s] \in {"replied", "gone"}
  BY DEF FInv
<1>3. \A s \in Slots : Told(s)' => Told(s) /\ s # v /\ memoryId'[s] = memoryId[s]
  BY <1>2, LeftBefore DEF Told, client
<1>4. ASSUME NEW s \in Slots, NEW u \in Slots, Repeats(u, s), Told(s)' PROVE Spares(u, s)'
  BY <1>3, <1>4 DEF FInv, Spares
<1> QED
  BY <1>1, <1>2, <1>4 DEF FInv, Repeats, client

\* One that answers without a record, of an attempt that has minted no id.
LEMMA IdlessSpares ==
    ASSUME PInv, RInv, FInv, NEW v \in Slots, at[v] \notin {"replied", "gone"},
           UNCHANGED <<rows, client>>,
           \A u \in Slots \ {v} : at'[u] = at[u] /\ reply'[u] = reply[u] /\ memoryId'[u] = memoryId[u],
           memoryId'[v] = NoId, reply'[v].id = NoId
    PROVE  FInv'
  BY StepSpares

\* One of an attempt that has minted an id: it repeats nobody who was told.
LEMMA WriterSpares ==
    ASSUME PInv, RInv, FInv, NEW v \in Slots, at[v] \in {"save", "finish"},
           UNCHANGED <<client, memoryId>>,
           \A u \in Slots \ {v} : at'[u] = at[u] /\ reply'[u] = reply[u],
           \/ rows' = rows
           \/ at[v] = "save" /\ ~SaveRaises(rows, NewRow(v)) /\ rows' = SaveRow(rows, NewRow(v))
    PROVE  FInv'
<1>1. memoryId[v] # NoId
  BY DEF PInv, Placed
<1>2. \A s \in Slots : ~(Repeats(v, s) /\ Told(s))
  BY <1>1 DEF FInv, Spares
<1> QED
  BY <1>2, StepSpares

LEMMA LookupSpares ==
    ASSUME PInv, RInv, FInv, NEW v \in Slots, Lookup(v)
    PROVE  FInv'
<1>1. /\ at[v] = "lookup" /\ UNCHANGED <<rows, client, ran>> /\ memoryId[v] = NoId
      /\ reply[v].id = NoId
  BY FailureIsNoOther DEF Lookup, PInv, Placed
<1>2. \A u \in Slots \ {v} : at'[u] = at[u] /\ reply'[u] = reply[u] /\ memoryId'[u] = memoryId[u]
  BY DEF Lookup, Responds, Mints, PInv, TypeOK
<1>3. ASSUME NEW s \in Slots, Repeats(v, s), Told(s)
      PROVE  memoryId'[v] = NoId /\ reply'[v].id \in {NoId, memoryId[s]}
  <2>1. PICK q \in rows : q.id = memoryId[s]
    BY <1>3 DEF Told
  <2>2. PICK w \in Slots : memoryId[w] = q.id /\ want[w[1]].tenant = q.tenant /\ want[w[1]].key = q.key
    BY DEF RInv, Owned
  <2>3. w = s
    <3>1. q.id # NoId
      BY GatewayAssumption DEF PInv, TypeOK, Row
    <3> QED
      BY <2>1, <2>2, <3>1 DEF RInv, Distinct
  <2>4. q.key = Asked(v).key /\ q.tenant = ran[v] /\ q.key # NoKey
    BY <1>1, <1>3, <2>2, <2>3, WritingFacts DEF Repeats, Told, Writing
  <2>5. q \in RowsWithKey(rows, Asked(v).key, ran[v])
    BY <2>4 DEF RowsWithKey
  <2>6. PICK r \in RowsWithKey(rows, Asked(v).key, ran[v]) : Responds(v, Written(r.id))
    BY <2>5 DEF Lookup
  <2>7. r \in rows /\ SameKey(r, q)
    BY <2>4, <2>6 DEF RowsWithKey, SameKey
  <2>8. r = q
    BY <2>7 DEF FInv, Unique
  <2>9. memoryId' = memoryId
    BY <2>5 DEF Lookup
  <2>10. reply'[v] = Written(r.id) /\ Written(r.id).id = r.id
    <3>1. r.id \in MemoryIds
      BY <2>7 DEF PInv, TypeOK, Row
    <3> QED
      BY <2>6, <3>1, AnswerFacts, RespondsFacts DEF PInv
  <2> QED
    BY <1>1, <2>1, <2>8, <2>9, <2>10
<1> QED
  BY <1>1, <1>2, <1>3, StepSpares

LEMMA WriteEndpointSpares ==
    ASSUME PInv, RInv, FInv, NEW v \in Slots, WriteEndpoint(v)
    PROVE  FInv'
<1>1. /\ at[v] = "wire" /\ Asked(v).op = "write" /\ UNCHANGED <<rows, client, reply>>
      /\ memoryId[v] = NoId /\ reply[v].id = NoId
  BY FailureIsNoOther DEF WriteEndpoint, Enters, PInv, Placed
<1>2. \A u \in Slots \ {v} : at'[u] = at[u] /\ reply'[u] = reply[u] /\ memoryId'[u] = memoryId[u]
  BY DEF WriteEndpoint, Enters, Mints, PInv, TypeOK
<1>3. ASSUME NEW s \in Slots, Repeats(v, s), Told(s) PROVE memoryId'[v] = NoId
  <2>1. Asked(v).key # NoKey
    BY <1>1, <1>3, AskedFacts DEF Repeats, Told
  <2> QED
    BY <1>1, <2>1 DEF WriteEndpoint
<1> QED
  BY <1>1, <1>2, <1>3, StepSpares

LEMMA AnswerSpares ==
    ASSUME PInv, RInv, FInv, NEW v \in Slots,
           Refuse(v) \/ Finish(v) \/ Run(v) \/ Report(v) \/ Save(v) \/ UseCaseRaises(v)
    PROVE  FInv'
<1>1. CASE Refuse(v) \/ Run(v) \/ Report(v)
  <2>1. /\ at[v] \in {"wire", "running", "probing"} /\ memoryId[v] = NoId
        /\ UNCHANGED <<rows, client, memoryId>>
    BY <1>1 DEF Refuse, Run, Report, PInv, Placed, store
  <2>2. PICK a \in Response : Responds(v, a) /\ a.id = NoId
    <3>1. CASE Refuse(v)
      <4>1. PICK a \in Refusals(Asked(v)) : Responds(v, a)
        BY <3>1 DEF Refuse
      <4>2. a \in Response
        BY RefusalFacts
      <4>3. a.id = NoId
        BY FailureIsNoOther DEF Refusals
      <4> QED
        BY <4>1, <4>2, <4>3
    <3>2. CASE Run(v)
      <4>1. PICK a \in Endings(Asked(v).op) : Responds(v, a)
        BY <3>2 DEF Run
      <4>2. Asked(v).op \in Queries \cup ById \cup Admin
        BY <3>2 DEF Run, PInv, Placed
      <4>3. a \in Response
        BY <4>2, EndingFacts
      <4>4. a.id = NoId
        BY <4>2, FailureIsNoOther DEF Endings, Queries, ById, Admin
      <4> QED
        BY <4>1, <4>3, <4>4
    <3>3. CASE Report(v)
      BY <3>3, AnswerFacts, FailureIsNoOther DEF Report
    <3> QED
      BY <1>1, <3>1, <3>2, <3>3
  <2>3. /\ reply'[v] = a
        /\ \A u \in Slots \ {v} : at'[u] = at[u] /\ reply'[u] = reply[u]
    BY <2>2, RespondsFacts DEF PInv
  <2> QED
    BY <2>1, <2>2, <2>3, IdlessSpares
<1>2. CASE Finish(v)
  <2>1. /\ at[v] = "finish" /\ UNCHANGED <<rows, client, memoryId>>
        /\ Responds(v, Written(memoryId[v])) /\ memoryId[v] \in MemoryIds
    BY <1>2 DEF Finish, PInv, TypeOK, Placed, store
  <2>2. \A u \in Slots \ {v} : at'[u] = at[u] /\ reply'[u] = reply[u]
    BY <2>1, AnswerFacts, RespondsFacts DEF PInv
  <2> QED
    BY <2>1, <2>2, WriterSpares
<1>3. CASE Save(v)
  <2>1. at[v] = "save" /\ UNCHANGED <<client, memoryId>>
    BY <1>3 DEF Save
  <2>2. \A u \in Slots \ {v} : at'[u] = at[u] /\ reply'[u] = reply[u]
    BY <1>3, AnswerFacts, RespondsFacts DEF Save, PInv, TypeOK
  <2>3. \/ rows' = rows
        \/ ~SaveRaises(rows, NewRow(v)) /\ rows' = SaveRow(rows, NewRow(v))
    BY <1>3 DEF Save
  <2> QED
    BY <2>1, <2>2, <2>3, WriterSpares
<1>4. CASE UseCaseRaises(v)
  <2>1. /\ at[v] \in {"lookup", "save", "finish", "running"} /\ UNCHANGED <<client, memoryId>>
        /\ reply'[v] = StorageFailure
        /\ \A u \in Slots \ {v} : at'[u] = at[u] /\ reply'[u] = reply[u]
    BY <1>4, AnswerFacts, RespondsFacts DEF UseCaseRaises, PInv
  <2>2. CASE at[v] \in {"lookup", "running"}
    <3>1. memoryId[v] = NoId /\ rows' = rows
      BY <1>4, <2>2 DEF UseCaseRaises, PInv, Placed
    <3> QED
      BY <2>1, <2>2, <3>1, FailureIsNoOther, IdlessSpares
  <2>3. CASE at[v] \in {"save", "finish"}
    <3>1. \/ rows' = rows
          \/ at[v] = "save" /\ ~SaveRaises(rows, NewRow(v)) /\ rows' = SaveRow(rows, NewRow(v))
      BY <1>4 DEF UseCaseRaises
    <3> QED
      BY <2>1, <2>3, <3>1, WriterSpares
  <2> QED
    BY <2>1, <2>2, <2>3
<1> QED
  BY <1>1, <1>2, <1>3, <1>4

LEMMA EndpointSpares ==
    ASSUME PInv, RInv, FInv, NEW v \in Slots,
           Endpoint(v) \/ HealthEndpoint(v) \/ \E k \in Components : Probe(v, k)
    PROVE  FInv'
<1>1. /\ at[v] \in {"wire", "probing"} /\ UNCHANGED <<rows, client, reply, memoryId>>
      /\ \A u \in Slots \ {v} : at'[u] = at[u]
  BY DEF Endpoint, HealthEndpoint, Enters, Probe, PInv, TypeOK, store
<1>2. memoryId[v] = NoId /\ reply[v].id = NoId
  BY <1>1, FailureIsNoOther DEF PInv, Placed
<1> QED
  BY <1>1, <1>2, IdlessSpares

\* A new attempt has told nobody anything, and what is wanted stays.
LEMMA SendSpares ==
    ASSUME PInv, RInv, FInv, NEW c \in Clients, NEW r \in Requests[c], Send(c, r)
    PROVE  FInv'
<1>1. /\ UNCHANGED <<rows, reply, memoryId>>
      /\ r = want[c] \/ want[c] = NoRequest
      /\ want' = [want EXCEPT ![c] = r]
      /\ \/ at' = at /\ got' = [got EXCEPT ![<<c, sent[c] + 1>>] = Answer(0, "VALUE_ERROR")]
         \/ at' = [at EXCEPT ![<<c, sent[c] + 1>>] = "wire"] /\ got' = got
  BY DEF Send, store
<1>2. \A s \in Slots : got'[s] = StorageFailure => got[s] = StorageFailure
  BY <1>1, FailureIsNoOther DEF PInv, TypeOK
<1>3. ASSUME NEW s \in Slots, got[s] = StorageFailure PROVE at'[s] = at[s] /\ want'[s[1]] = want[s[1]]
  <2>1. at[s] \in {"replied", "gone"} /\ s[1] \in Clients
    BY <1>3, SlotFacts DEF FInv
  <2>2. s[2] <= sent[s[1]] /\ sent[s[1]] \in Nat /\ s[2] \in Nat \ {0}
    BY <2>1, SlotFacts, GatewayAssumption DEF PInv, TypeOK, Placed
  <2>3. s # <<c, sent[c] + 1>>
    BY <2>2
  <2>4. want[s[1]] # NoRequest
    BY <2>1, <2>2, WantFacts
  <2> QED
    BY <1>1, <2>1, <2>3, <2>4 DEF PInv, TypeOK
<1>4. \A s \in Slots : Told(s)' => Told(s)
  BY <1>1, <1>2, <1>3 DEF Told
<1>5. \A s \in Slots : got'[s] = StorageFailure => at'[s] \in {"replied", "gone"}
  BY <1>2, <1>3 DEF FInv
<1>6. Unique' /\ \A u, s \in Slots : Spares(u, s) => Spares(u, s)'
  BY <1>1 DEF FInv, Unique, Spares
<1> QED
  BY <1>4, <1>5, <1>6 DEF FInv, Repeats

\* Whoever is told now has not been repeated yet.
LEMMA ReceiptSpares ==
    ASSUME PInv, RInv, FInv, NEW c \in Clients, Receipt(c) \/ TransportError(c)
    PROVE  FInv'
<1> DEFINE l == Last(c)
<1>1. l \in Slots /\ l[1] = c /\ l[2] = sent[c] /\ sent[c] \in Nat
  <2>1. sent[c] > 0 /\ sent[c] \in 1..MaxSends[c]
    BY GatewayAssumption DEF Receipt, TransportError, Waiting, PInv, TypeOK
  <2> QED
    BY <2>1, SlotFacts DEF Last
<1>2. /\ UNCHANGED <<rows, want, at, reply, memoryId>>
      /\ \A s \in Slots \ {l} : got'[s] = got[s]
  BY <1>1 DEF Receipt, TransportError, store, server, PInv, TypeOK
<1>3. got'[l] = StorageFailure => at[l] = "replied"
  BY <1>1, FailureIsNoOther DEF Receipt, TransportError, PInv, TypeOK
<1>4. ASSUME NEW u \in Slots, Repeats(u, l) PROVE \A s \in Slots : Spares(u, s)
  <2>1. at[u] = "unsent"
    BY <1>1, <1>4, SlotFacts, GatewayAssumption DEF Repeats, PInv, TypeOK, Placed
  <2> QED
    BY <2>1, FailureIsNoOther DEF Spares, PInv, Placed
<1>5. ASSUME NEW s \in Slots, NEW u \in Slots, Repeats(u, s), Told(s)' PROVE Spares(u, s)
  <2>1. CASE s = l
    BY <1>4, <1>5, <2>1
  <2>2. CASE s # l
    BY <1>2, <1>5, <2>2 DEF Told, FInv
  <2> QED
    BY <2>1, <2>2
<1> QED
  BY <1>2, <1>3, <1>5 DEF FInv, Unique, Spares, Repeats

LEMMA NextFInv == PInv /\ RInv /\ FInv /\ [Next]_vars => FInv'
<1> SUFFICES ASSUME PInv, RInv, FInv, [Next]_vars PROVE FInv'
  OBVIOUS
<1>1. ASSUME UNCHANGED <<rows, want, got, reply, memoryId>>,
             \A s \in Slots : at'[s] \in {at[s], "gone"}
      PROVE  FInv'
  BY <1>1 DEF FInv, Unique, Told, Spares, Repeats
<1>2. CASE UNCHANGED vars
  BY <1>1, <1>2 DEF vars, store, client, server
<1>3. CASE Crash
  <2>1. \A s \in Slots : at'[s] \in {at[s], "gone"}
    BY <1>3 DEF Crash
  <2> QED
    BY <1>1, <1>3, <2>1 DEF Crash, store, client
<1>4. ASSUME NEW k \in Components, ComponentChanges(k) PROVE FInv'
  BY <1>1, <1>4 DEF ComponentChanges, store, client, server
<1> QED
  BY <1>2, <1>3, <1>4, SendSpares, ReceiptSpares, WriteEndpointSpares, EndpointSpares,
     LookupSpares, AnswerSpares DEF Next

\* On either backend, a write repeated after its failure was answered spares the
\* record the failed attempt left, whatever other attempts race with it.
THEOREM FailuresAreRepeatable == Spec => []FailuresRepeatable
<1>1. Init => PInv /\ RInv /\ FInv
  BY InitPInv, InitRInv, InitFInv
<1>2. PInv /\ RInv /\ FInv /\ [Next]_vars => (PInv /\ RInv /\ FInv)'
  BY NextPInv, NextRInv, NextFInv
<1>3. FInv => FailuresRepeatable
  BY DEF FInv, FailuresRepeatable, Repeats, Told, Spares
<1> QED
  BY <1>1, <1>2, <1>3, PTL DEF Spec
=============================================================================
