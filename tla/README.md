# A verification development of AILooM's memory layer

AILooM stores what agents remember: a record is written durably, enriched with
facts in the background, retrieved, consolidated and decayed. This directory
holds TLA+ models of the parts of `src/src/memory_layer` where steps of several
coroutines, faults and crashes meet; the TLC configurations that check them on
small instances; and TLAPS proofs of the main properties for every value of the
constants.

- `tlc -config <run>.cfg <module>` runs a check (module and properties of every
  run: table below).
- `tlapm <module>Proofs.tla` checks the proofs.

Paths below are relative to `src/src/memory_layer` unless they start with
`src/`, `README.md`, `prd/` or `tasks/`.

## 1. The system

Everything runs on one asyncio event loop per process, so a coroutine runs
undisturbed from one await to the next, and everything can happen in between.
Every repository statement opens a connection of its own and commits before the
awaiting coroutine goes on: a statement is atomic, two of them never are.

| part | state it keeps | operations | meets |
|---|---|---|---|
| Write pipeline `engine/ingestion.py` | coroutines only; a background task nobody holds | `execute`, `_enrich` | record store, audit log, observers, extraction |
| Record repositories `storage/sqlite/record_repo.py`, `adapters/postgres/record_repo.py` | table `memory_records` with a partial unique index on (tenant, idempotency key) | `save`, `get_by_idempotency_key`, `update_pipeline_status`, `update_lifecycle`, lists | everyone |
| Fact extraction `engine/extraction.py` | `saved_facts` of a call | `extract`, `_resolve_contradiction` | language model, fact store, observers |
| Fact repositories `storage/sqlite/fact_repo.py`, `adapters/postgres/fact_repo.py` | table `facts` | `save`, `close_fact`, `get_active_facts_by_entity_predicate` | extraction |
| Scheduler `engine/scheduler.py` | `_tasks`: one asyncio task per tenant and job | `start`, `stop`, `stop_all`, two loops | policies, consolidation, decay |
| Consolidation, decay, session end `engine/{consolidation,decay,session}.py` | none | an `execute` each | record store, policies, audit log, language model, observers |
| Audit logs | append-only table | `append`, lists | write pipeline, consolidation |
| Schema migration `storage/sqlite/migration_runner.py`, `adapters/postgres/migrator.py` | version table, the schema itself | run pending scripts | start-up, observers |
| Vector indexes `storage/vector`, `adapters/qdrant`, `adapters/postgres/vector_index.py` | collections of documents, a cache of known ones | `upsert`, `search`, `delete` | retrieval |
| Search and recall `engine/{planner,retrieval,recall,explain}.py` | none | plan, search, recall, explain | indexes, policies, traces, record store, observers |
| Policies, traces | a row per tenant; rows written once | get, save | scheduler, sweeps, search; explanations |
| HTTP API `api/`, SDK `sdk/`, MCP server `mcp/`, LangGraph nodes `langgraph/` | the calls under way | translate calls and errors, time out, check health | the services |

The services are wired by no composition root yet (`api/app.py`'s providers
raise `NotImplementedError`, nothing in the source fills an index or saves a
recall trace); the models take the wiring the constructors ask for, with either
backend, and let the integrator do what only an integrator can.

What is hard about it, and what each part owes:

- **Write pipeline.** Two calls with one key both look it up before either
  saves. A statement commits and its answer is lost. The audit append or the
  event fails after the record was saved, and a retry is then acknowledged as
  idempotent. The enrichment runs beside later calls, its `except` clause
  covers the success path's own update and event, and a crash takes it away for
  good. It owes: no acknowledged record is lost, one record per key, nothing is
  enriched that was not written, observers hear what the table says, every call
  comes back, and an announced write settles.
- **Fact extraction.** Lookup, close and save are three statements; in between
  others look up the same facts, and a crash may leave a fact ended without a
  successor. It owes: history is never rewritten, nothing is superseded
  silently, what a topic is known for stays known.
- **Scheduler.** `start()` awaits the policies with its decay loop already up;
  `stop()` may run meanwhile. A cancelled task unwinds later, perhaps mid-sweep, and
  a connection that fails to close on the way hides the cancellation from the loop.
  It owes: a stopped tenant has no loop, no loop escapes the registry, a loop goes on
  sweeping until it is cancelled, and `stop()` comes back.
- **Sweeps.** They work through a list read earlier, beside other sweeps, decay
  and session end over the same records, and save a summary before changing its
  sources one by one. They owe: no source without its summary, no source
  summarised twice without an overlap or a failure, an audit entry for each
  change, one owner per summary, and progress through a backlog although runs
  fail half-way.
- **Migration.** A script commits before its version is recorded; processes of
  two releases start at once and die anywhere. It owes: the version table tells
  the truth, running a script again does no harm, a version is announced once,
  everyone comes up.
- **Vector indexes.** Check-then-create, a cache that is never invalidated,
  collections found by a shortened tenant id, a count before a query, threads
  that outlive their await. They owe: no other tenant's document, a returned
  upsert or delete is true, a search misses nothing it should find.
- **Search and recall.** Two indexes are read at two moments, one failure takes
  the whole call, a budget cuts the list, events are sent on the way. They owe:
  agreed evidence decides the order, nothing steady is lost, the budget and its
  status are honest, observers hear of what was found, an explanation is its own
  tenant's and true.
- **Boundary.** A client that times out repeats a call that still runs. Errors
  become status codes, the same one for a refusal and for a write that failed half-way.
  The probes of a health check are gathered side by side. It owes: a call runs for the
  tenant it names, an answer about health was true at some moment, a write that failed
  can be repeated, and a write repeated with its key is one write.

`PROJECT.json` lists these hazards one by one, at the line where each bites,
with the properties that would catch it.

## 2. The modules

```
IdempotentWrite            what a write promises, without steps
   ^ implemented by             ^ implemented by
WritePipeline                Gateway               over the network
   |                            |
   +------- extend -------------+--> RecordStore   one table, either repository

Recall -- extends --> RankFusion        ranks, weights and budgets as operators
FactLedger   LifecycleScheduler   LifecycleSweeps   SchemaMigration   VectorIndexes
```

`MC<module>` gives a module an instance for TLC, `<module>Proofs` holds its
theorems. RecordStore, RankFusion and IdempotentWrite are used by the others;
LifecycleScheduler is checked as it is.

**RecordStore** gives each repository statement as an operator on a set of rows.
`Backend` chooses between the two: SQLite's `INSERT OR REPLACE` deletes every
row that conflicts, on the primary key or on the unique index; PostgreSQL's
`ON CONFLICT (memory_id, tenant_id) DO NOTHING` raises on a conflict over the
index. Both updates are silent when no row matches; SQLite checks first.

**WritePipeline** has `pc[c]`, the await at which client `c`'s call of `execute`
stands, and `job[m]`, the await at which record `m`'s enrichment stands. An
action runs from one resumption to the next await: `Call` to the key lookup or
directly to the save, `Lookup`, `Save`, `AppendAudit`, `EmitWritten` (which also
starts the enrichment, awaited or not), and for the enrichment `Extract`,
`CheckExists`, `UpdateStatus`, `EmitOutcome`. `CallRaises` and `EnrichRaises`
let any awaited operation raise; over PostgreSQL's network connection a
statement may have committed all the same. `Raise` is Python's `except` clause:
the first exception enters it (`handler`), one raised inside it leaves the
coroutine and reaches the call awaiting it, or nobody. A client may call again
and again with the same request: that is a retry. `Crash` takes all coroutines.
Extraction appears through its three outcomes (facts, a result with `error`
set, an exception) and the ids it has left facts for.

**IdempotentWrite** is the abstract promise: a set of accepted records, at most
one per tenant and key and never taken back, and acknowledgements of accepted
records only. `KeepsContract` states that WritePipeline implements it, with the
rows of the table for what is accepted.

**FactLedger** has `pc[x]`, the await at which the extraction of record `x`
stands, its current candidate, the fact it is out to close, and the facts table.
A topic stands for a tenant, entity and predicate group. The actions are
`Begin`, `Answer` (the model's), `Lookup`, `Close`, `Announce`, `Flag`, `Save`,
`EmitExtracted`, `Raises` and `Crash`; `NextItem` is the loop over the model's
answer, as a part of the action that comes back to it. `supersedes` is one
column, which SQLite fills in the new row and PostgreSQL in both.

**LifecycleScheduler** has the registry `tasks`, the state of every task ever
created, and for each caller the await of its call. A task that was cancelled is
done only after it has run once more; `gather` waits for that. `Begin`, `Wake`,
`SweepReturns`, `SweepRaises` and `End` are the steps of both loops, which have
the same shape; a sweep is one phase. `AbortRaises` is the exception that takes the
place of a `CancelledError` while it unwinds a sweep: the loop's `except Exception`
catches it and the loop goes on. `stopped`, `quiet` and `lost` (the tasks that caught
their cancellation like that) are history variables for the properties and guard
nothing.

**LifecycleSweeps** puts every worker that may be at work on one tenant's records
side by side: the two loops of the scheduler and the end of a session, as `Role`
says. `pc[w]` is the await it is about to leave; `batch`, `todo` and `sector` are
the locals of `ConsolidationService.execute` and `DecayService.execute`. Records are
numbered by time, which is all the lists order by. `ports` chooses between what
`src` ships (whose audit log refuses the keywords the sweeps pass, and whose
repositories lack what decay calls) and ports that have all of it. `Fails` lets any
await raise, `Crash` takes all workers, `SavePolicy` changes the policy under them.
A summary is a row that no list returns, so it is kept in a set of its own; each
save mints an id, here the number of the rows that batch has already (`RowsOf`), so
that an exact repeat is one row more. `excused` is history: records two sweeps held
at once, or a sweep was cut off with.

**SchemaMigration** runs `run_migrations` statement by statement (SQLite's
scripts commit as they go) and `SchemaMigrator.run` transaction by transaction.
`schema` says in which form each table is; `Known` gives each process's release.
A process that dies or raises goes back to `down` and may start again.
`SaveFact` is the service at work with a schema its release knows.

**VectorIndexes** has the three adapters at the grain at which others may come
in between: a call of the Chroma client in its thread, a request to Qdrant, a
SQL statement. `docs` holds documents, `collections` what exists, `ensured` the
adapter's cache. A call in flight may raise, lose its answer after the fact
(`AnswerLost`), be cancelled while its thread goes on (`Cancel`), be refused by the
server (`ServerRefuses`) or go down with the process. `sure`, `calm`, `must` and
`swallowed` are history: what callers have been told of each document, whether a
call has been alone on its document, and what a search has to come across.

**RankFusion** has the planner's targets and sizes, reciprocal rank fusion in
integers (scores times `Common`; floats' rounding left out) with the order of
insertion as tie-break, and the cut of `RecallMemoryService` at its budget.
**Recall** puts searches, recalls and explanations beside an index and a policy
that change: `Plan`, `Embed`, one `Query` per index in any order, `Search`,
`Recollect`, `EmitNoMatch`, then `LoadTrace` and `LoadRecord` for explanations.

**Gateway** is one call from an SDK method, MCP tool or LangGraph node through
the HTTP application and back. A slot `<<c, n>>` is the `n`-th attempt of client
`c`; its `at` goes on whether or not the client still waits. `OnWire` is what the
SDK makes of the call, `Refusals` are middleware, validation and providers in
their order, `Lookup`, `Save` and `Finish` are a write against RecordStore, `Run`
the other use cases with all their endings, `Probe` and `Report` the health
checks, `Receipt` and `TransportError` the client's side.

Definitions under a comment "Slip" are not part of any specification: each is a
plausible mistake in the code, and `PROJECT.json` pairs it with the property
that must fail when it is put in.

## 3. What is checked

| run | module | instance | properties |
|---|---|---|---|
| `race_postgres` | MCWritePipeline | PostgreSQL, 2 clients for one key (one awaiting its enrichment), 2 calls each, 4 ids, 2 faults, 1 crash | `EnrichmentFollowsWrite` `OutcomeEventsAgree` `StatusOnlyAdvances` `KeepsContract` |
| `race_sqlite` | MCWritePipeline | SQLite, the same race with one call each, a third client of another tenant with the same key, 2 faults, fair | `OneRecordPerKey` `OutcomeEventsAgree` `AckedFindable` `CallsReturn` `WrittenSettles` |
| `scheduler` | LifecycleScheduler | 2 tenants, 2 callers, 3 tasks, fair | `RegistryExact` `NoLoopAfterStop` `StopReturns` `LoopKeepsSweeping` |
| `facts_postgres` | MCFactLedger | PostgreSQL, 3 records, 4 candidates of 2 topics, one of low confidence, 2 at a time, 1 fault, 1 crash | `EventsTruthful` `NothingSilent` `CurrentUnlessCutOff` `HistoryKept` |
| `sweeps` | MCLifecycleSweeps | either backend and kind of ports, 3 records of 2 principals, a sweep, a session's end and a decay pass, 1 failure, crash or policy change, fair | `LineageKept` `RepeatsExcused` `TransitionsAudited` `SqliteSummariesPrivate` `BacklogWorkedOff` |
| `migrations` | MCSchemaMigration | either database, 2 processes of the release with V2 and one of the release before, 2 deaths, fair | `VersionsTruthful` `HeardOnce` `SchemaOnlyAdvances` `StartsEventually` |
| `vectors` | MCVectorIndexes | each of the three indexes, 3 documents of 2 tenants with one prefix, 2 models of two sizes, 2 callers, 1 upset | `ResultsIsolated` `AnswersTrue` `SearchComplete` |
| `recall` | MCRecall | 3 documents, 2 callers of 2 tenants, two keyword orders and weightings, five modes, budgets from none to enough, 1 upset | `TypeOK` `EvidenceRules` `NothingLost` `BudgetHonest` `ObserversKnow` `ExplanationTrue` |
| `gateway` | MCGateway | PostgreSQL, a writer with 2 attempts beside a second call of any kind from any surface, 1 upset | `RunsForItsCaller` `ReadyTruthful` `KeepsContract` |
| `gateway_sqlite` | MCGateway | SQLite, otherwise the same with 2 upsets | `FailuresRepeatable` |

Each property's comment says what it is about. What the runs show, in short:

- Over PostgreSQL the unique index makes the loser of a race raise, and with that
  the pipeline keeps its whole contract, also when answers get lost and clients
  retry; seen through the network, with timeouts and attempts that overtake each
  other, it still does. Over SQLite the loser's row is replaced: one record per key
  remains, another tenant is never touched, and what is left of the durability of
  an acknowledgement is that its client finds *a* record by the id or the key.
- An enrichment may run its `except` clause after its own success; then and only
  then a record falls from ENRICHED to PARTIAL_ENRICHMENT_FAILED, and the events
  still agree with the table.
- The registry is exact under any interleaving of starts and stops, and a loop
  sweeps again after every failed sweep. A stopped tenant can have a loop for two
  reasons only: a `start()` was under way, or the loop caught its own cancellation; the
  second is also all that can keep `stop()` from coming back.
- Fact events and table tell the same story through races, and a topic loses its
  current fact only to an extraction between `close_fact` and `save`, or cut off
  there. On SQLite not even then, because `close_fact` rolls back: that is a theorem
  (`SqliteKeepsKnown`), and `never_resolved` shows the price of it.
- Sweeps lose no lineage whatever they overlap with; a record is in two summaries,
  be it the same summary twice, only after an overlap or a failure. Even with the
  shipped audit log, with which every sweep stops at its first record, a backlog
  gets worked off.
- The two releases' processes bring one database up to date from any death; the
  price is that a start may raise and has to be repeated.
- Over SQLite a write that failed half-way answers like a refusal. Its client can
  repeat it with its key all the same: while the record of the failed attempt is
  there, the repeated one finds it and writes no other.
- The three indexes keep tenants apart also where they share a collection, and
  what callers were told stays true except for deletes Qdrant's adapter takes for
  done. Chroma's clamp of a search to an earlier count hides nothing that was
  there all the time: what comes in between can only push out what is farther.
- A recall's order respects evidence both lists agree on for any weights, and its
  status tells whether the budget cut something. Observers hear of every recall that
  returns something, and of some that return nothing.

### Where a document and the code differ

Two runs check a sentence of the documentation that the code does not keep; TLC
finds each violated. `PROJECT.json` quotes the sentences.

| run | what happens |
|---|---|
| `lost_ack_sqlite` (`AckedStored`) | On SQLite the second `save` of a race deletes the record whose `memory_id` was acknowledged. |
| `never_resolved` (`ContradictionResolved`) | On SQLite `close_fact` needs the new fact's row, which is saved only afterwards: every confident contradiction raises. |

Seen while modelling; the models do what the code does, and no run is spent on them:

- *Writes.* `_enrich` ignores `result.error`, so a record whose extraction failed
  is ENRICHED (`engine/ingestion.py:171`, against `README.md:143`); a call that
  waits for its enrichment is told PENDING (`engine/ingestion.py:162`).
- *Facts.* PostgreSQL's lookup returns PROPOSED facts, and one may be closed in
  place of the ACTIVE fact (`adapters/postgres/fact_repo.py:172`, against
  `storage/sqlite/fact_repo.py:11` and `tasks/M2-T3.md:71`); two extractions at once
  leave two current facts (`engine/extraction.py:126`); two facts may name each
  other in `superseded_by` (`adapters/postgres/fact_repo.py:121`); a late extraction
  of an older record supersedes a newer fact (`engine/extraction.py:138`);
  `effective_to` is the current time, not the successor's `effective_from` as
  ADR-011 says (`engine/extraction.py:139`); facts of a replaced record stay
  without it (`storage/sqlite/migrations/V2`).
- *Scheduler and sweeps.* `start()` may return from the policies after `stop()`
  and start a loop (`engine/scheduler.py:69`, against `:85` and `:39`); a close or
  a rollback that raises while a cancelled sweep unwinds is taken for a failed
  sweep (`:111`), so that the loop sweeps on outside the registry, `is_running()`
  denies it and `stop()` waits for it (against `:39` and `:96`); `stop_all()` does
  not wait for a loop that a restart replaced (`:148`); PostgreSQL's
  `list_by_scope` ignores the principal, so summaries mix principals; a threshold
  above the list's limit of 100, as the default of 500, is never reached
  (`engine/consolidation.py:132`), and one of 0 ends in an `IndexError` on an
  empty sector (`:148`).
- *Migration.* `storage/sqlite/migration_runner.py:8-9` says that each script runs
  in a transaction of its own and is rolled back when it fails; `executescript`
  commits it statement by statement, and a script that fails keeps its first half. A
  death between a version's commit and its event leaves it unannounced
  (`adapters/postgres/migrator.py:106`); a newer schema goes unnoticed when the
  recorded versions have a gap
  (`prd/framework_agnostic_ai_memory_layer_prd_final.md:178` asks to refuse).
- *Search.* Qdrant's adapter takes any refused delete for a missing collection
  (`adapters/qdrant/vector_index.py:179`) and sizes a tenant's collection for the
  first model it meets (`:195`); empty filters make Chroma search `__unknown__`
  (`engine/retrieval.py:94`); lifecycle and sector of a result are constants
  (`engine/retrieval.py:147`); recall saves no trace; `MemoryRecalledEvent` is sent
  by the search inside a recall, whatever it found (`engine/recall.py:58`, against
  `domain/events.py:159`), and `RecallNoMatchEvent` also when records match and the
  budget leaves none of them (`engine/recall.py:145`, against `domain/events.py:174`), and `items_returned` of
  `MemoryRecalledEvent` counts what there was before the budget; pgvector's `SET
  LOCAL` runs outside a transaction (`adapters/postgres/vector_index.py:169`).
- *Boundary.* The explain endpoint ends in a 500 for every trace it finds
  (`api/app.py:343-355`); SQLite's `StorageError` is a 400 `DOMAIN_ERROR`; `/readyz`
  without probes says ok; a LangGraph node sends no idempotency key, so its
  repeated writes are new records.

### Bounds, and why they are enough

- *Clients and calls.* The hazards of a write come from two calls that overlap
  and from one that follows a failure: two clients with two calls each have
  both, and four ids let every call write a record of its own if it gets that far.
  The third client of `race_sqlite` is there for the other tenant.
- *Faults and crashes.* Two faults reach the second exception, the one inside the
  `except` clause; one crash separates what is durable from what is not, and a
  second finds nothing the first does not. `race_sqlite` has no crash, as nothing
  has to return from one; `race_postgres` has.
- *Facts.* Two extractions at a time are a race; the third record comes after it;
  the fourth candidate belongs to another topic, which must stay untouched; one
  of low confidence takes the other branch.
- *Scheduler.* Three tasks allow a restart of a loop, and a second tenant shows that
  stopping one leaves the other alone. `TaskIds` bounds how many loops are created in
  a behaviour.
- *Sweeps.* Three records give a batch of two beside a third, written during a sweep;
  three workers give every pair of sweeps; one upset cuts a sweep off anywhere. The
  empty sector comes first in the policy, so that a sweep has to get past it.
- *Migrations.* Three processes give a race of two with an older release between,
  two deaths one during the recovery from the other.
- *Vectors.* `K` is 2 of 3 documents, so that a search has to leave one out; the
  nearest and the farthest are one tenant's and the other's lies between, in a
  shared collection. Two callers are a race; one upset is one cause of doubt.
- *Recall.* Three documents in opposite and in nearly equal orders give ties,
  agreement and conflict; `Common` is a multiple of 61 to 63 and 2, as far as the
  lists reach. One caller is a stranger to the traces.
- *Gateway.* Two attempts of one write and one other call; three ids let each
  write a row. The upset is a failed await, a crash, or a component that goes;
  `gateway_sqlite` has two of them, one for the first attempt and one for the second.
- `CHECK_DEADLOCK FALSE` is said for the pipeline, the facts and the gateway only:
  there, calls, candidates, faults and crashes are bounded, and with all of them
  spent the model stops as an idle process does.
- The identifiers of records are interchangeable (`IdSymmetry`), and in `vectors`
  the callers; only runs without liveness properties use that.

### Fairness

Only liveness needs it: `CallsReturn`, `WrittenSettles`, `StopReturns`,
`LoopKeepsSweeping`, `BacklogWorkedOff` and `StartsEventually`. It is weak fairness
of each coroutine's own steps: the event loop resumes every coroutine whose await
has completed, and an adapter answers or raises (a timer fires). No client has to
call, no fault or crash has to happen, no caller has to start or stop anything, and
no coroutine is preferred to another. Two more assumptions are named where they
are made: the scheduler's loops begin a sweep again and again (which
`LoopKeepsSweeping` shows of them), and whatever runs the service starts a process
again that did not come up. `WrittenSettles` excludes what the code does not
promise: an enrichment whose `except` clause itself raised, or that a crash took.

## 4. What is proved

All theorems hold for any number of clients, records, keys, tenants, candidates,
callers, tasks, workers, processes, attempts, faults and crashes, under the
`ASSUME` of their module (the constants are of their kinds and the "none" values
are none of the others). Each module's `TypeOK` is proved, only Recall's is run as well;
proved rather than run are also
`LoopSurvives`, `KnownStaysKnown`, `UpMeansCurrent`, `CompletedMeansDone` and
`RepeatsYieldOne`.

Every safety property a run checks is a theorem. Model-checked only are the six
liveness properties (`CallsReturn`, `WrittenSettles`, `StopReturns`,
`LoopKeepsSweeping`, `BacklogWorkedOff`, `StartsEventually`): fairness speaks of what
is enabled, which is beyond the prover. What they rest on besides fairness is proved,
and no run repeats it: what is waited for is under way and is not taken back, and it
takes a bounded number of steps of its own.

| liveness property | what is proved of it |
| --- | --- |
| `CallsReturn` | `CallsAdvance`, and of the enrichment a call may await `WaitersAreServed`, `EnrichmentsAdvance` |
| `WrittenSettles` | `WritesStayInHand`, `EnrichmentsAdvance` |
| `StopReturns` | `StopsAwaitCancelled`, `CancellationsAreFinal` |
| `LoopKeepsSweeping` | `LoopsSurvive` |
| `BacklogWorkedOff` | `SweepsGetOn`, `GoneForGood` |
| `StartsEventually` | `StartsGetOn` |

Some theorems have a hypothesis `[]Settled`: over SQLite no two calls (over the boundary:
attempts) have found the same tenant's key free before either has saved. It names what
`INSERT OR REPLACE` cannot settle and PostgreSQL's unique index does: over PostgreSQL
`Settled` holds of every state, so each of them has a corollary without it. That SQLite
needs it is what `lost_ack_sqlite` shows, whose counterexample is such a contest.

Where a proof needs what a recursive function or a cardinality comes to for *every*
argument, it goes by the least number for which it would fail (`LeastNatural`, from the
well-foundedness of `<`): the step that leads there contradicts its being the least.

**WritePipelineProofs.** `TypeCorrect`, `RecordPerKey`, `AnnouncedIsRecorded`,
`StatusAdvances`, `AckFindable`, `WaitersAreServed`, `WritesStayInHand`,
`EnrichmentsAdvance` and `CallsAdvance` hold on either backend, `SettledAckDurable`,
`SettledImplementsContract` and `SettledPromise` on either backend as long as it is
`Settled`, and so `AckDurable`, `EnrichmentIsOfWrites`, `ImplementsContract` and
`PromiseKept` on PostgreSQL. The argument:

- `TableInv`: types; an id is minted before anything carries it, and while a call
  is writing no other holds its id (`OwnsId`, `RowsMinted`), which is not in the
  table before its save (`FreshAtSave`); one record per key.
  Without the ownership of ids a save could meet a row of the same id and neither
  add nor raise.
- `JobInv` adds where the enrichment of each record stands and what its row can say
  there: nothing before its write is announced (`NotBegun`), PENDING until the
  update unless the `except` clause was entered, the status it wrote when it
  announces (`StatusFollowsJob`), and an announcement only as its last step
  (`AnnouncedAtEnd`). The events and the order of statuses follow, faults whose
  statement was committed included.
- `HandInv`: a call that awaits an enrichment awaits a live one, and the enrichment of
  an announced write was begun. From it and `JobInv`: no write that asked for extraction
  is left PENDING with nobody at work on it, unless its `except` clause raised or a
  crash took it. `Stage` orders the statements of an enrichment, twice through those of
  an update at most; every step raises it, so it is over after eight. A call has a
  `Place` in the same sense, and is over after five.
- `FindInv`: a row is only ever replaced by one of its tenant and key
  (`RowsSucceeded`), which is what an acknowledgement is worth on SQLite.
- `FreeAtSave`: over SQLite a call about to save has its key for itself. It found the
  key free, and while it is `Settled` nobody else is about to take it.
- `RowsKept`: where that holds no step deletes a row or changes its id, tenant or key.
  It is a step property, proved from `TableInv` and `FreeAtSave`.
- `DurableInv` adds that a call past its save has its record in the table and is
  audited when it emits. With `RowsKept` it is inductive while it is `Settled`, and
  durability and the refinement of `IdempotentWrite` follow: every step of the
  pipeline accepts a record, acknowledges one that is accepted, or does neither.
- The contract by itself keeps its `Promise` (acknowledged records are accepted, and
  one key names one record); with the refinement so does the pipeline
  (`SettledPromise`, `PromiseKept`).

**LifecycleSchedulerProofs.** `SchedulerTypeCorrect`, `RegistryIsExact`,
`StoppedIsQuiet`, `LoopsSurvive`, `StopsAwaitCancelled` and `CancellationsAreFinal`.
`RegistryExact` is inductive with the types
(`SchedulerInv`): a new task takes the registry's place of the one it cancels. `QuietInv`
adds that no `start()` is under way for a quiet tenant; since the registry is
exact, popping a tenant's keys cancels all of its loops, and none comes back
without a `start()`. What a `stop()` awaits it has cancelled itself, and a cancelled
task has one step left, to be done or, out of a sweep that raises, to be `lost`: a loop
registered meanwhile cannot hold it up. A lost loop was created once and is in no place
of the registry, so it stays the only kind of exception.

**FactLedgerProofs.** `FactTypeCorrect`, `HistoryIsKept`, `EventsAreTruthful`,
`NothingIsSilent`, `CurrentIsKept` on either backend, `SqliteKeepsKnown` on
SQLite. The invariant `Inv` says: ids are unique and minted once; what an
extraction is about to save is not in the table, and flagged exactly if it will
be PROPOSED (`Fresh`); a fact an extraction is past closing has ended, and is
announced once the extraction is about to save (`Pursuit`). `CurrentInv` adds that a
candidate and its target share a topic, so a close leaves the topic to an
extraction that `CutOff` counts until its save makes it known again. On SQLite
`Fresh` implies that `close_fact` always rolls back.

**SchemaMigrationProofs.** `VersionsAreTruthful`, `UpIsCurrent`, `HeardAtMostOnce`,
`SchemaAdvances`, `MigrationTypeCorrect`, `StartsGetOn`. The invariant `IInv` adds to the
properties: where each process stands fits the database it runs on (`Place`); how
far its script is, is what the schema shows at least (`Progress`), so whoever
records a version has done it, whoever else did it too; and a version's
announcement is due to one process at most, the one whose transaction recorded it
(`Unheard`). `StartsGetOn` measures how far a start is (`Way`), by the versions that are
recorded before all else: a start that raises goes back only because another process
has recorded the version it was at (`Doomed`), and that is never undone. So no two
releases can keep each other from coming up. V2's `ALTER TABLE` finds its table
whoever has created it.

**LifecycleSweepsProofs.** `LineageIsKept`, `RepeatsAreExcused`,
`TransitionsAreAudited`, `SqliteSummariesArePrivate`, `CompletedIsDone`,
`SweepsTypeCorrect`, `SweepsGetOn`, `GoneForGood`, `EverySaveIsARow`. `IInv` says of
each worker that what it holds fits where it stands (`Sound`): what it is about to
save is in no other summary unexcused and on SQLite of one principal, once saved its
batch is some summary's sources, and what it is through with has changed state and
is in the audit log. Two workers that hold one record are excused (`Apart`). A
summarised record that is still ACTIVE is in a worker's hands or excused
(`Pending`), without which a second summary could repeat it unnoticed. That it could
not go unnoticed for want of an id is `EverySaveIsARow`: the rows of a batch are
numbered without gaps (`RowsNumbered`), so the one a save adds is new. `SweepsGetOn`
measures a sweep by its sector and, within it, by the records it has still to do
(`Way`), a set that was fixed when the batch was listed; `GoneForGood` says that
what it has done no stale list of another worker undoes.

**GatewayProofs.** `UseCasesRunForTheirCaller`, `FailuresAreRepeatable`,
`ReadyIsTruthful` and `GatewayTypeCorrect` on either backend; `SettledBoundary` and
`SettledRepeats` on either while it is `Settled`, so `BoundaryImplementsContract`
and `RepeatsNameOneRecord` on PostgreSQL. Five invariants, each from the one before:
an attempt has passed what guards the place it has come to (`Placed`, `Wants`);
minted ids are distinct and owned by one attempt, whose tenant and key a row of that
id has (`Distinct`, `Owned`, `Unsaved`); a probe's verdict was observed (`Watched`);
rows are unique by key and stay while no key is contested, and an answer that names
an id has its row (`Unique`, `Kept`); and a client is told of a failure once its
attempt is over, so that a later one looks up the key when its row is in the table
or is not to come (`FInv`). An attempt that timed out is still at work in the
server, and the one that repeats it may overtake it: over SQLite that is the contest
`Settled` excludes, and with a repetition that waits for the first to be over it
cannot arise.

**VectorIndexesProofs.** `ResultsAreIsolated`, `AnswersAreTrue`, `VectorsTypeCorrect`, for
all three indexes at once. `VInv` says: every document is where its adapter keeps
documents of its tenant and model, and Qdrant has one collection per tenant
(`Stored`), so that an upsert cannot leave an older form beside it; a call in flight
that changes a document leaves what is known of it open (`Placed`); a calm delete on
Chroma has the document only in collections it has still to look at (`Ahead`); and of two
calls in flight that change one document neither is calm (`Rivalry`), so that neither
speaks for the other.

`SearchesComplete` rests on that invariant. `Due` says of a search in flight that the
documents it has to come across are known to be active, so that by `VInv` each is stored
where the adapter looks; that Qdrant's collection is there and of the right size; and
that Chroma's count, once taken, is at least what is due. A step of another call
`Spares` it: what that call starts to change is no more due, and what it ends tells of
a document that was open. For the answer itself, `NearestSize` and `NearestFull` show by
counting that the `k` nearest of a finite set are `k` or all of it, and that what they
leave out is farther than all of them.

**RecallProofs.** `RankingSound`, `NothingLostEver`, `BudgetKept`, `ObserversInformed`,
`ExplanationsTrue`, `RecallTypeCorrect`, for any documents, orders, budgets, weights and
numbers of calls. What is assumed of the constants is that an index returns its
documents in some order without repetitions, that weights and lengths are natural
numbers, and `DefaultK` is positive.

- *Operators.* A set ordered by a strict total order is listed by counting what comes
  before (`EveryPlaceTaken`, `Enumeration`); `Before`, the order of fused scores with
  ties in the order of insertion, is such an order (`BeforeFacts`), so `Fusion` lists
  every fetched document once (`FusionFacts`). A document that each of the lists of
  another ranks higher has no smaller share in any of them, and where its scores tie it
  was inserted first (`AheadComesFirst`): that is why `RankingSound` needs nothing of
  the weights, zero included. `Total`, a recursive function, is the sum it is meant to
  be (`SumsExist`, `TotalFacts`), and grows along a list, so the longest run within the
  budget is the one the loop stops at (`FittingFacts`).
- *Invariant.* `RInv` has a clause for each place where a call can stand: nothing held
  while at rest (`AtRest`), fetched lists without repetitions and with all that was
  there since the call began (`BeforeResult`), a result that follows from them
  (`AfterResult`), a trace of the caller's tenant and truthful rows (`Explaining`), and
  histories that say what they are to (`Watching`). A stored trace has steps
  (`RowsHaveSteps`), and the ids given out leave enough for the calls still to answer
  (`Enough`).

## 5. What is not modelled

- Payloads, confidence values, texts, metrics and logging: no step modelled
  here chooses by them, except confidence, which is a set, and length, which is a
  number of tokens.
- Validity intervals: a fact is open or ended.
- Prompt and answer of the language model: `Answer` and `NextItem` give every
  sequence of candidates, an unusable answer, and an unusable item; a summary is
  its sources.
- Similarity: documents have an order, and HNSW is taken to be exact.
- Observability (`observability/`): no behaviour depends on it. Configuration
  (`config/`): settings are values read once; of the container only what start-up
  does to the schema is modelled.
- Of the audit log the reading, of the policies the sections nothing in `src` reads,
  of the domain what the modelled parts do not tell apart.

## 6. What could follow

- FactLedger in the place of WritePipeline's `Extract`, to state across both what a
  replaced record means for its facts.
- LifecycleScheduler with LifecycleSweeps, for a sweep cancelled by `stop()`; today
  `Fails` cuts a sweep off at the same awaits.
