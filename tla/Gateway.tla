------------------------------- MODULE Gateway -------------------------------
(***************************************************************************)
(* A call on its way through the boundary: an SDK method, MCP tool or      *)
(* LangGraph node, the network, the FastAPI application with its tenant    *)
(* middleware, providers, endpoints and exception handlers, and back.      *)
(*                                                                         *)
(* The client waits no longer than its timeout, the server knows nothing   *)
(* of that: an attempt that was given up travels on, runs, and answers     *)
(* nobody, beside the attempt that repeats it.  A slot <<c, n>> is the     *)
(* n-th attempt of client c, and `at' the await it is about to leave.      *)
(* What a write awaits after its row, WritePipeline's subject, is one      *)
(* step; the other use cases are one step, or their module's.              *)
(*                                                                         *)
(* Bounds: MaxSends[c] attempts of the call of client c, MaxUpsets events  *)
(* from outside (a failed await, a crash of the server, a component that   *)
(* goes or comes).                                                         *)
(***************************************************************************)
EXTENDS Naturals, FiniteSets, RecordStore

CONSTANTS
    Clients,
    Requests,       \* what each client may ask for
    Blank,          \* X-Tenant-Id absent or blank
    Configured,     \* operations an integrator has supplied the provider of
    AdminKeySet,    \* is MEMORY_LAYER_ADMIN_KEY set?
    Components,     \* names of the probes registered with the HealthChecker
    NoId, MaxSends, MaxUpsets

Surfaces == {"sdk", "mcp", "node", "http"}
Queries == {"search", "recall"}
ById == {"get", "delete", "explain", "end"}
Admin == {"decay", "consolidate", "migrate"}
Ops == {"write"} \cup Queries \cup ById \cup Admin \cup {"health", "ready"}

\* complete: the schema accepts the body; for a node, the state has its keys.
Request == [surface: Surfaces, op: Ops, tenant: Tenants \cup {Blank},
            key: Keys \cup {NoKey}, complete: BOOLEAN, adminKey: BOOLEAN]

SdkMethods == {"write"} \cup Queries \cup ById \cup {"health"}
McpTools == {"write"} \cup Queries \cup ById
Nodes == {"write"} \cup Queries

\* Nothing in a LangGraph state is read as a key.
Offered(r) ==
    \/ r.surface = "sdk" /\ r.op \in SdkMethods
    \/ r.surface = "mcp" /\ r.op \in McpTools
    \/ r.surface = "node" /\ r.op \in Nodes /\ r.key = NoKey
    \/ r.surface = "http"

ASSUME GatewayAssumption ==
    /\ \A c \in Clients : \A r \in Requests[c] : r \in Request /\ Offered(r)
    /\ Blank \notin Tenants /\ NoId \notin MemoryIds
    /\ Configured \subseteq Ops
    /\ AdminKeySet \in BOOLEAN
    /\ MaxSends \in [Clients -> Nat] /\ MaxUpsets \in Nat

VARIABLES
    rows,       \* memory_records
    minted,     \* identifiers new_memory_id() has handed out
    want,       \* what each client asks for, NoRequest before that
    sent,       \* attempts of each client
    at, reply, got,
    memoryId,   \* the id of the record a write is writing
    ran,        \* the tenant the use case was called for
    verdict,    \* of the probes of a check
    up,         \* components that answer
    wasUp, wasDown, \* history: components that did, and did not, during a check
    upsets

store == <<rows, minted>>
client == <<want, sent, got>>
server == <<at, reply, memoryId, ran, verdict>>
health == <<up, wasUp, wasDown>>
vars == <<store, client, server, health, upsets>>

Slots == UNION {{c} \X (1..MaxSends[c]) : c \in Clients}
Phase == {"unsent", "wire", "lookup", "save", "finish", "running", "probing", "replied", "gone"}
OnServer == {"lookup", "save", "finish", "running", "probing", "replied"}

NoRequest == [op |-> "none"]
NoRun == "nobody"
Errors == {"NONE", "UNKNOWN", "MEMORY_NOT_FOUND", "TENANT_ISOLATION_VIOLATION",
           "CAPABILITY_NOT_AVAILABLE", "VALIDATION_ERROR", "DOMAIN_ERROR",
           "INTERNAL_SERVER_ERROR",
           "TRANSPORT", "VALUE_ERROR"}      \* raised on the client's side
Response == [status: 0..599, error: Errors, id: MemoryIds \cup {NoId}]

Answer(status, error) == [status |-> status, error |-> error, id |-> NoId]
Nothing == Answer(0, "NONE")

TypeOK ==
    /\ rows \subseteq Row
    /\ minted \subseteq MemoryIds
    /\ want \in [Clients -> Request \cup {NoRequest}]
    /\ sent \in [Clients -> Nat] /\ \A c \in Clients : sent[c] <= MaxSends[c]
    /\ at \in [Slots -> Phase]
    /\ reply \in [Slots -> Response] /\ got \in [Slots -> Response]
    /\ memoryId \in [Slots -> MemoryIds \cup {NoId}]
    /\ ran \in [Slots -> Tenants \cup {Blank, NoRun}]
    /\ verdict \in [Slots -> [Components -> {"pending", "ok", "down"}]]
    /\ up \subseteq Components
    /\ wasUp \in [Slots -> SUBSET Components] /\ wasDown \in [Slots -> SUBSET Components]
    /\ upsets \in 0..MaxUpsets

Init ==
    /\ rows = {} /\ minted = {}
    /\ want = [c \in Clients |-> NoRequest]
    /\ sent = [c \in Clients |-> 0]
    /\ at = [s \in Slots |-> "unsent"]
    /\ reply = [s \in Slots |-> Nothing] /\ got = [s \in Slots |-> Nothing]
    /\ memoryId = [s \in Slots |-> NoId]
    /\ ran = [s \in Slots |-> NoRun]
    /\ verdict = [s \in Slots |-> [k \in Components |-> "pending"]]
    /\ up = Components
    /\ wasUp = [s \in Slots |-> {}] /\ wasDown = [s \in Slots |-> {}]
    /\ upsets = 0

-----------------------------------------------------------------------------
(* The client: SDK, MCP tools, LangGraph nodes *)

\* Slip: the tool does not pass its idempotency_key on.
KeyDropped(r) == IF r.surface = "mcp" THEN [r EXCEPT !.key = NoKey] ELSE r

\* MemoryLayerClient.write: the key goes into the payload unless it is None.
SdkWrite(r) == [r EXCEPT !.surface = "http"]

\* search, recall; get_memory, delete_memory, explain, end_session, healthz.
SdkQuery(r) == [r EXCEPT !.surface = "http", !.key = NoKey]
SdkById(r) == [r EXCEPT !.surface = "http", !.key = NoKey]

\* Every tool builds a client for its tenant and calls one of its methods.
McpWrite(r) == SdkWrite(r)
McpQuery(r) == SdkQuery(r)
McpById(r) == SdkById(r)

\* The nodes share the client they were built with.
NodeWrite(r) == SdkWrite([r EXCEPT !.key = NoKey])
NodeQuery(r) == SdkQuery(r)

\* _require: a node raises ValueError before it calls the client.
Unready(r) == r.surface = "node" /\ ~r.complete

\* The HTTP request a call becomes.
OnWire(r) ==
    CASE r.surface = "http" -> r
      [] r.surface = "sdk" /\ r.op = "write" -> SdkWrite(r)
      [] r.surface = "sdk" /\ r.op \in Queries -> SdkQuery(r)
      [] r.surface = "sdk" /\ r.op \notin Nodes -> SdkById(r)
      [] r.surface = "mcp" /\ r.op = "write" -> McpWrite(r)
      [] r.surface = "mcp" /\ r.op \in Queries -> McpQuery(r)
      [] r.surface = "mcp" /\ r.op \notin Nodes -> McpById(r)
      [] r.surface = "node" /\ r.op = "write" -> NodeWrite(r)
      [] r.surface = "node" /\ r.op \in Queries -> NodeQuery(r)

Last(c) == <<c, sent[c]>>
Waiting(c) == sent[c] > 0 /\ got[Last(c)] = Nothing

\* A call, made for the first time or again: nothing in src repeats one, so it
\* is up to the application.
Send(c, r) ==
    LET s == <<c, sent[c] + 1>> IN
    /\ r = want[c] \/ want[c] = NoRequest
    /\ ~Waiting(c) /\ sent[c] < MaxSends[c]
    /\ want' = [want EXCEPT ![c] = r]
    /\ sent' = [sent EXCEPT ![c] = @ + 1]
    /\ \/ /\ Unready(r)
          /\ got' = [got EXCEPT ![s] = Answer(0, "VALUE_ERROR")]
          /\ UNCHANGED at
       \/ /\ ~Unready(r)
          /\ at' = [at EXCEPT ![s] = "wire"]
          /\ UNCHANGED got
    /\ UNCHANGED <<store, reply, memoryId, ran, verdict, health, upsets>>

\* _request and _raise_http_error: 2xx is a result; a body without error_code,
\* that of HTTPException or of a health report, is an UNKNOWN error.
Reading(a) ==
    IF a.status \in 400..599 /\ a.error = "NONE" THEN [a EXCEPT !.error = "UNKNOWN"] ELSE a

Receipt(c) ==
    /\ Waiting(c) /\ at[Last(c)] = "replied"
    /\ got' = [got EXCEPT ![Last(c)] = Reading(reply[Last(c)])]
    /\ UNCHANGED <<store, want, sent, server, health, upsets>>

\* httpx raises: the timeout, a refused or a broken connection.
TransportError(c) ==
    /\ Waiting(c)
    /\ got' = [got EXCEPT ![Last(c)] = Answer(0, "TRANSPORT")]
    /\ UNCHANGED <<store, want, sent, server, health, upsets>>

-----------------------------------------------------------------------------
(* The application, up to the use case *)

Asked(s) == OnWire(want[s[1]])

\* Slip: resolve_tenant_id hands out what the header says.
Unchecked(q) == FALSE

\* resolve_tenant_id; probes and admin routes are none of the middleware's business.
Unnamed(q) == q.op \notin Admin \cup {"health", "ready"} /\ q.tenant = Blank

\* _require_admin_key guards the migrations route alone.
KeyWrong(q) == q.op = "migrate" /\ AdminKeySet /\ ~q.adminKey

Unconfigured(q) == q.op \notin Configured \cup {"health", "ready"}

\* Why a request does not get as far as its use case, by what looks first:
\* middleware, route dependency, provider, request schema.
Refusals(q) ==
    {a \in {Answer(403, "TENANT_ISOLATION_VIOLATION"), Answer(401, "NONE"),
            Answer(500, "INTERNAL_SERVER_ERROR"), Answer(400, "VALIDATION_ERROR")} :
        \/ a.status = 403 /\ Unnamed(q)
        \/ a.status = 401 /\ ~Unnamed(q) /\ KeyWrong(q)
        \/ a.status = 500 /\ ~Unnamed(q) /\ ~KeyWrong(q) /\ Unconfigured(q)
        \/ a.status = 400 /\ ~Unnamed(q) /\ ~KeyWrong(q) /\ ~Unconfigured(q) /\ ~q.complete}

Responds(s, a) ==
    /\ at' = [at EXCEPT ![s] = "replied"]
    /\ reply' = [reply EXCEPT ![s] = a]

Refuse(s) ==
    /\ at[s] = "wire"
    /\ \E a \in Refusals(Asked(s)) : Responds(s, a)
    /\ UNCHANGED <<store, client, memoryId, ran, verdict, health, upsets>>

\* The use case is called for the tenant of the header, on an admin route for
\* that of the path.
Enters(s, phase) ==
    /\ Refusals(Asked(s)) = {}
    /\ at' = [at EXCEPT ![s] = phase]
    /\ ran' = [ran EXCEPT ![s] = Asked(s).tenant]
    /\ UNCHANGED reply

\* new_memory_id(), on the way to record_repo.save.
Mints(s) ==
    \E m \in MemoryIds \ minted :
        /\ minted' = minted \cup {m}
        /\ memoryId' = [memoryId EXCEPT ![s] = m]

\* POST /v1/memories:write.
WriteEndpoint(s) ==
    /\ at[s] = "wire" /\ Asked(s).op = "write"
    /\ \/ Asked(s).key # NoKey /\ Enters(s, "lookup") /\ UNCHANGED <<minted, memoryId>>
       \/ Asked(s).key = NoKey /\ Enters(s, "save") /\ Mints(s)
    /\ UNCHANGED <<rows, client, verdict, health, upsets>>

\* The other routes under /v1.
Endpoint(s) ==
    /\ at[s] = "wire" /\ Asked(s).op \in Queries \cup ById \cup Admin
    /\ Enters(s, "running")
    /\ UNCHANGED <<store, client, memoryId, verdict, health, upsets>>

\* /healthz and /readyz: HealthChecker.check gathers the probes.
HealthEndpoint(s) ==
    /\ at[s] = "wire" /\ Asked(s).op \in {"health", "ready"}
    /\ Enters(s, "probing")
    /\ wasUp' = [wasUp EXCEPT ![s] = up]
    /\ wasDown' = [wasDown EXCEPT ![s] = Components \ up]
    /\ UNCHANGED <<store, client, memoryId, verdict, up, upsets>>

-----------------------------------------------------------------------------
(* Use cases *)

Written(m) == [Answer(200, "NONE") EXCEPT !.id = m]

Lookup(s) ==
    LET found == RowsWithKey(rows, Asked(s).key, ran[s]) IN
    /\ at[s] = "lookup"
    /\ \/ /\ \E r \in found : Responds(s, Written(r.id))
          /\ UNCHANGED <<minted, memoryId>>
       \/ /\ found = {}
          /\ Mints(s)
          /\ at' = [at EXCEPT ![s] = "save"]
          /\ UNCHANGED reply
    /\ UNCHANGED <<rows, client, ran, verdict, health, upsets>>

NewRow(s) == [id |-> memoryId[s], tenant |-> ran[s], key |-> Asked(s).key, status |-> "PENDING"]

\* The SQLite repositories raise StorageError, a domain error and so a 400 to the
\* handlers; what asyncpg raises comes through, a 500.
StorageFailure ==
    IF Backend = "sqlite" THEN Answer(400, "DOMAIN_ERROR") ELSE Answer(500, "INTERNAL_SERVER_ERROR")

Save(s) ==
    /\ at[s] = "save"
    /\ \/ /\ ~SaveRaises(rows, NewRow(s))
          /\ rows' = SaveRow(rows, NewRow(s))
          /\ at' = [at EXCEPT ![s] = "finish"]
          /\ UNCHANGED reply
       \/ /\ SaveRaises(rows, NewRow(s))
          /\ Responds(s, StorageFailure)
          /\ UNCHANGED rows
    /\ UNCHANGED <<minted, client, memoryId, ran, verdict, health, upsets>>

\* Audit entry, event, enrichment.
Finish(s) ==
    /\ at[s] = "finish"
    /\ Responds(s, Written(memoryId[s]))
    /\ UNCHANGED <<store, client, memoryId, ran, verdict, health, upsets>>

\* How the other use cases end: a graph search is refused; a trace that is found
\* breaks the endpoint, which reads attributes RecallTrace does not have.
Endings(op) ==
    CASE op \in Queries -> {Answer(200, "NONE"), Answer(409, "CAPABILITY_NOT_AVAILABLE")}
      [] op = "explain" -> {Answer(404, "MEMORY_NOT_FOUND"), Answer(500, "INTERNAL_SERVER_ERROR")}
      [] op = "get" -> {Answer(200, "NONE"), Answer(404, "MEMORY_NOT_FOUND")}
      [] op = "delete" -> {Answer(204, "NONE"), Answer(404, "MEMORY_NOT_FOUND")}
      [] op = "end" -> {Answer(202, "NONE")}
      [] op \in Admin -> {Answer(200, "NONE")}

Run(s) ==
    /\ at[s] = "running"
    /\ \E a \in Endings(Asked(s).op) : Responds(s, a)
    /\ UNCHANGED <<store, client, memoryId, ran, verdict, health, upsets>>

\* One of the gathered probes; it turns any exception into "down".
Probe(s, k) ==
    /\ at[s] = "probing" /\ verdict[s][k] = "pending"
    /\ verdict' = [verdict EXCEPT ![s][k] = IF k \in up THEN "ok" ELSE "down"]
    /\ UNCHANGED <<store, client, at, reply, memoryId, ran, health, upsets>>

\* Slip: down when everything is.
AllDown(s) == \A k \in Components : verdict[s][k] = "down"

\* The overall status; no shipped probe says "degraded".
Down(s) == \E k \in Components : verdict[s][k] = "down"

Report(s) ==
    /\ at[s] = "probing" /\ \A k \in Components : verdict[s][k] # "pending"
    /\ Responds(s, Answer(IF Asked(s).op = "ready" /\ Down(s) THEN 503 ELSE 200, "NONE"))
    /\ UNCHANGED <<store, client, memoryId, ran, verdict, health, upsets>>

-----------------------------------------------------------------------------
(* From outside *)

Upset == upsets < MaxUpsets /\ upsets' = upsets + 1

\* An await of a use case raises.  Over a connection to PostgreSQL the row may have
\* been committed all the same.
UseCaseRaises(s) ==
    /\ at[s] \in {"lookup", "save", "finish", "running"}
    /\ Upset
    /\ Responds(s, StorageFailure)
    /\ \/ UNCHANGED rows
       \/ /\ at[s] = "save" /\ Backend = "postgres" /\ ~SaveRaises(rows, NewRow(s))
          /\ rows' = SaveRow(rows, NewRow(s))
    /\ UNCHANGED <<minted, client, memoryId, ran, verdict, health>>

\* The server process dies with everything it was doing and is started again.
Crash ==
    /\ Upset
    /\ at' = [s \in Slots |-> IF at[s] \in OnServer THEN "gone" ELSE at[s]]
    /\ UNCHANGED <<store, client, reply, memoryId, ran, verdict, health>>

Checking == {s \in Slots : at[s] = "probing"}

ComponentChanges(k) ==
    /\ Upset
    /\ up' = IF k \in up THEN up \ {k} ELSE up \cup {k}
    /\ wasUp' = [s \in Slots |-> IF s \in Checking THEN wasUp[s] \cup up' ELSE wasUp[s]]
    /\ wasDown' = [s \in Slots |->
                     IF s \in Checking THEN wasDown[s] \cup (Components \ up') ELSE wasDown[s]]
    /\ UNCHANGED <<store, client, server>>

Next ==
    \/ \E c \in Clients :
          \/ \E r \in Requests[c] : Send(c, r)
          \/ Receipt(c) \/ TransportError(c)
    \/ \E s \in Slots :
          \/ Refuse(s) \/ WriteEndpoint(s) \/ Endpoint(s) \/ HealthEndpoint(s)
          \/ Lookup(s) \/ Save(s) \/ Finish(s) \/ Run(s)
          \/ \E k \in Components : Probe(s, k)
          \/ Report(s) \/ UseCaseRaises(s)
    \/ Crash
    \/ \E k \in Components : ComponentChanges(k)

Spec == Init /\ [][Next]_vars

-----------------------------------------------------------------------------
(* Properties *)

\* A use case runs only for a tenant that was named, migrations only with the
\* admin key, and every row belongs to the tenant its writer named.
RunsForItsCaller ==
    /\ \A s \in Slots : ran[s] # NoRun /\ Asked(s).op \notin {"health", "ready"} =>
          /\ ran[s] = want[s[1]].tenant
          /\ Asked(s).op \in Admin \/ ran[s] # Blank
          /\ Asked(s).op = "migrate" /\ AdminKeySet => want[s[1]].adminKey
    /\ \A r \in rows : \E s \in Slots : memoryId[s] = r.id /\ want[s[1]].tenant = r.tenant

HasWritten(s) == want[s[1]].op = "write" /\ got[s].status = 200

\* However often a write with a key is repeated, by whomever, through whatever
\* surface, after timeouts, errors and crashes: its tenant is told of one record.
RepeatsYieldOne ==
    \A s, u \in Slots :
        /\ HasWritten(s) /\ HasWritten(u)
        /\ want[s[1]].key # NoKey /\ want[s[1]].key = want[u[1]].key
        /\ want[s[1]].tenant = want[u[1]].tenant
        => got[s].id = got[u].id

\* A client that was told that its write failed cannot see whether the record was
\* written, least of all from SQLite's DOMAIN_ERROR, which looks like a refusal: the
\* write repeated with its key writes no other record while that one is there, and
\* is answered with no other.
FailuresRepeatable ==
    \A s, u \in Slots :
        /\ u[1] = s[1] /\ u[2] > s[2]
        /\ got[s] = StorageFailure /\ want[s[1]].key # NoKey
        /\ \E r \in rows : r.id = memoryId[s]
        => memoryId[u] = NoId /\ reply[u].id \in {NoId, memoryId[s]}

\* "Ready" was true of every component, and "not ready" of some component, at some
\* moment of the check.
ReadyTruthful ==
    \A s \in Slots : at[s] = "replied" /\ Asked(s).op = "ready" =>
        /\ reply[s].status = 200 => wasUp[s] = Components
        /\ reply[s].status = 503 => wasDown[s] # {}

\* Over HTTP too, writing keeps the contract of IdempotentWrite.
Accepted == {[id |-> r.id, tenant |-> r.tenant, key |-> r.key] : r \in rows}
Acknowledged ==
    {[id |-> got[s].id, tenant |-> want[s[1]].tenant, key |-> want[s[1]].key] :
        s \in {u \in Slots : HasWritten(u)}}

Contract == INSTANCE IdempotentWrite WITH accepted <- Accepted, acknowledged <- Acknowledged
KeepsContract == Contract!Spec
=============================================================================
