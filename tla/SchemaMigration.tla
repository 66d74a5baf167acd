--------------------------- MODULE SchemaMigration ---------------------------
(***************************************************************************)
(* Processes of different releases that start on one database and bring    *)
(* its schema up to date: run_migrations of the SQLite runner and          *)
(* SchemaMigrator.run of PostgreSQL.                                       *)
(*                                                                         *)
(* SQLite: a script commits as it goes and its version is recorded after   *)
(* it, in a transaction of its own.  V1 creates the tables one by one, V2  *)
(* rebuilds the facts table in a transaction.  PostgreSQL: a version's DDL *)
(* and its row are one transaction, which checks first.  Whoever finds the *)
(* row taken raises and has to be started again.                           *)
(*                                                                         *)
(* Bound: MaxDeaths processes that die or whose start raises.              *)
(***************************************************************************)
EXTENDS Naturals, Sequences

CONSTANTS
    Processes,
    Known,          \* the highest version each process's release comes with
    Facts,          \* facts the service may save
    MaxDeaths

Versions == 1..2

ASSUME MigrationAssumption ==
    /\ Known \in [Processes -> Versions]
    /\ MaxDeaths \in Nat

VARIABLES
    backend,    \* "sqlite" or "postgres"
    schema,     \* the form each table has
    versions,   \* schema_version, schema_migrations
    facts,      \* rows of the facts table
    heard,      \* how often each version's SchemaMigrated was emitted
    pc,         \* where the start of each process stands
    version,    \* the version it is at
    statement,  \* the statement of its script it is at
    deaths

process == <<pc, version, statement>>
vars == <<backend, schema, versions, facts, heard, process, deaths>>

Tables == {"versions", "memory_records", "facts", "audit_log", "other"}
Phase == {"down", "read", "script", "record",        \* SQLite
          "table", "check", "apply", "emit",         \* PostgreSQL
          "up", "refused"}

TypeOK ==
    /\ backend \in {"sqlite", "postgres"}
    /\ schema \in [Tables -> 0..2]      \* 0: not there
    /\ versions \subseteq Versions
    /\ facts \subseteq Facts
    /\ heard \in [Versions -> Nat]
    /\ pc \in [Processes -> Phase]
    /\ version \in [Processes -> 0..2]
    /\ statement \in [Processes -> 0..5]
    /\ deaths \in 0..MaxDeaths

Init ==
    /\ backend \in {"sqlite", "postgres"}
    /\ schema = [t \in Tables |-> 0]
    /\ versions = {} /\ facts = {}
    /\ heard = [v \in Versions |-> 0]
    /\ pc = [p \in Processes |-> "down"]
    /\ version = [p \in Processes |-> 0]
    /\ statement = [p \in Processes |-> 0]
    /\ deaths = 0

-----------------------------------------------------------------------------
(* The scripts *)

\* V1 creates a table per statement ("other": the policies, in PostgreSQL the
\* traces and the vector index); V2 is one transaction.
V1 == <<"versions", "memory_records", "facts", "audit_log", "other">>
Script(v) == IF v = 1 THEN V1 ELSE <<"facts">>

\* Slip: CREATE TABLE in place of CREATE TABLE IF NOT EXISTS, which raises or,
\* after a DROP, starts over.
CreateStartsOver(t) == schema' = [schema EXCEPT ![t] = 1]

CreateTable(t) == schema' = [schema EXCEPT ![t] = IF @ = 0 THEN 1 ELSE @]

\* Create facts_new, copy every row, drop, rename.
RebuildFacts ==
    /\ schema' = [schema EXCEPT !["facts"] = 2]
    /\ UNCHANGED facts

Execute(v, t) ==
    IF v = 1 THEN CreateTable(t) /\ UNCHANGED facts ELSE RebuildFacts

\* Slip: a CREATE TABLE of a table that is there raises.
ExistingRaises(v, t) == IF v = 1 THEN schema[t] # 0 ELSE schema["facts"] = 0

\* Copying needs the table.
StatementRaises(v, t) == v = 2 /\ schema["facts"] = 0

\* Slip: INSERT ... ON CONFLICT DO NOTHING.
NeverTaken(v) == FALSE

\* The primary key of the version table.
Taken(v) == v \in versions

-----------------------------------------------------------------------------
(* Starting and stopping *)

To(p, phase) == pc' = [pc EXCEPT ![p] = phase]

\* The start raises, and the process with it.
GiveUp(p) ==
    /\ To(p, "down")
    /\ version' = [version EXCEPT ![p] = 0]
    /\ statement' = [statement EXCEPT ![p] = 0]

\* ensure_schema opens the database; SchemaMigrator.run.
Start(p) ==
    /\ pc[p] = "down"
    /\ To(p, IF backend = "sqlite" THEN "read" ELSE "table")
    /\ UNCHANGED <<backend, schema, versions, facts, heard, version, statement, deaths>>

ToScript(p, v) ==
    /\ To(p, "script")
    /\ version' = [version EXCEPT ![p] = v]
    /\ statement' = [statement EXCEPT ![p] = 1]

MorePending(p, v) == v < Known[p]

-----------------------------------------------------------------------------
(* SQLite *)

\* MAX(version), 0 without the table or a row.
Current == IF 2 \in versions THEN 2 ELSE IF 1 \in versions THEN 1 ELSE 0

\* get_current_version, read once.  A database ahead of the release is refused.
ReadVersion(p) ==
    /\ pc[p] = "read"
    /\ \/ Current > Known[p] /\ To(p, "refused") /\ UNCHANGED <<version, statement>>
       \/ Current = Known[p] /\ To(p, "up") /\ UNCHANGED <<version, statement>>
       \/ Current < Known[p] /\ ToScript(p, Current + 1)
    /\ UNCHANGED <<backend, schema, versions, facts, heard, deaths>>

\* Slip: execute in place of executescript, which runs one statement.
ScriptEndsAtOnce(p) == TRUE

ScriptEnds(p) == statement[p] = Len(Script(version[p]))

\* The next statement of executescript.
RunStatement(p) ==
    LET v == version[p]
        t == Script(v)[statement[p]]
    IN
    /\ pc[p] = "script"
    /\ IF StatementRaises(v, t)
       THEN GiveUp(p) /\ UNCHANGED <<schema, facts>>
       ELSE /\ Execute(v, t)
            /\ IF ScriptEnds(p)
               THEN To(p, "record") /\ UNCHANGED <<version, statement>>
               ELSE /\ statement' = [statement EXCEPT ![p] = @ + 1]
                    /\ UNCHANGED <<pc, version>>
    /\ UNCHANGED <<backend, versions, heard, deaths>>

RecordVersion(p) ==
    LET v == version[p] IN
    /\ pc[p] = "record"
    /\ \/ Taken(v) /\ GiveUp(p) /\ UNCHANGED versions
       \/ /\ ~Taken(v)
          /\ versions' = versions \cup {v}
          /\ \/ MorePending(p, v) /\ ToScript(p, v + 1)
             \/ ~MorePending(p, v) /\ To(p, "up") /\ UNCHANGED <<version, statement>>
    /\ UNCHANGED <<backend, schema, facts, heard, deaths>>

-----------------------------------------------------------------------------
(* PostgreSQL *)

\* CREATE TABLE IF NOT EXISTS schema_migrations.
EnsureTable(p) ==
    /\ pc[p] = "table"
    /\ CreateTable("versions")
    /\ To(p, "check")
    /\ version' = [version EXCEPT ![p] = 1]
    /\ UNCHANGED <<backend, versions, facts, heard, statement, deaths>>

\* On to the next version of MIGRATIONS, or done.
NextVersion(p) ==
    \/ /\ MorePending(p, version[p])
       /\ To(p, "check")
       /\ version' = [version EXCEPT ![p] = @ + 1]
    \/ /\ ~MorePending(p, version[p])
       /\ To(p, "up")
       /\ UNCHANGED version

\* The transaction begins with _is_applied: an applied version is skipped.
CheckApplied(p) ==
    /\ pc[p] = "check"
    /\ \/ version[p] \in versions /\ NextVersion(p)
       \/ version[p] \notin versions /\ To(p, "apply") /\ UNCHANGED version
    /\ UNCHANGED <<backend, schema, versions, facts, heard, statement, deaths>>

\* The effect of the transaction when it commits: the DDL and the row.
Commit(p) ==
    /\ ~Taken(version[p])
    /\ versions' = versions \cup {version[p]}
    /\ schema' = IF version[p] = 1
                 THEN [t \in Tables |-> IF schema[t] = 0 THEN 1 ELSE schema[t]]
                 ELSE [schema EXCEPT !["facts"] = 2]
    /\ UNCHANGED facts

\* _apply: the INSERT of a version another process committed meanwhile raises,
\* and the transaction is rolled back.
Apply(p) ==
    /\ pc[p] = "apply"
    /\ \/ Taken(version[p]) /\ GiveUp(p) /\ UNCHANGED <<schema, versions, facts>>
       \/ Commit(p) /\ To(p, "emit") /\ UNCHANGED <<version, statement>>
    /\ UNCHANGED <<backend, heard, deaths>>

\* emit(SchemaMigrated), after the transaction.
EmitMigrated(p) ==
    /\ pc[p] = "emit"
    /\ heard' = [heard EXCEPT ![version[p]] = @ + 1]
    /\ NextVersion(p)
    /\ UNCHANGED <<backend, schema, versions, facts, statement, deaths>>

-----------------------------------------------------------------------------
\* A process that is up saves facts.
SaveFact(p, f) ==
    /\ pc[p] = "up"
    /\ facts' = facts \cup {f}
    /\ UNCHANGED <<backend, schema, versions, heard, process, deaths>>

\* A process dies, a statement raises (a lock that is not released in time), or
\* the answer of a commit is lost.
Dies(p) ==
    /\ pc[p] \notin {"down", "refused"}
    /\ deaths < MaxDeaths
    /\ deaths' = deaths + 1
    /\ \/ UNCHANGED <<schema, versions, facts>>
       \/ pc[p] = "apply" /\ Commit(p)
    /\ GiveUp(p)
    /\ UNCHANGED <<backend, heard>>

Step(p) ==
    \/ ReadVersion(p) \/ RunStatement(p) \/ RecordVersion(p)
    \/ EnsureTable(p) \/ CheckApplied(p) \/ Apply(p) \/ EmitMigrated(p)

Next ==
    \E p \in Processes :
        \/ Start(p) \/ Step(p) \/ Dies(p)
        \/ \E f \in Facts : SaveFact(p, f)

Spec == Init /\ [][Next]_vars

\* A start gets on with its statements, and whatever did not come up is started
\* again.  Nothing has to die.
Fairness == \A p \in Processes : WF_vars(Step(p)) /\ WF_vars(Start(p))

FairSpec == Spec /\ Fairness

-----------------------------------------------------------------------------
(* Properties *)

\* The version table claims only what was done: the script of every recorded
\* version has run to its end, and that of every version before it, whoever ran
\* them, raced for them or died in between.
VersionsTruthful ==
    /\ 1 \in versions => \A t \in Tables : schema[t] # 0
    /\ 2 \in versions => 1 \in versions /\ schema["facts"] = 2

\* A process that came up has all the versions its release knows.
UpMeansCurrent == \A p \in Processes : pc[p] = "up" => 1..Known[p] \subseteq versions

\* Running a script once more, as a crash before its record or a race makes
\* happen, neither loses a fact nor takes a table back to an earlier form.
SchemaOnlyAdvances ==
    [][facts \subseteq facts' /\ \A t \in Tables : schema[t] <= schema'[t]]_vars

\* Observers hear of a version at most once, and only of one that is applied.
HeardOnce == \A v \in Versions : heard[v] <= 1 /\ (heard[v] = 1 => v \in versions)

\* However processes race and die, each one comes up in the end, or is refused
\* as too old.
StartsEventually == \A p \in Processes : <>[](pc[p] \in {"up", "refused"})
=============================================================================
