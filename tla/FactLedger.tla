------------------------------ MODULE FactLedger ------------------------------
(***************************************************************************)
(* FactLedger: LLMExtractionService.extract() for a number of memory       *)
(* records at once, over the facts table.  Each candidate the model's      *)
(* answer holds is looked up, may close the fact it contradicts, and is    *)
(* saved: three statements, each on a connection of its own, with awaits   *)
(* in between that other extractions run in.  An action runs from one      *)
(* resumption of extract() to its next await.                              *)
(*                                                                         *)
(* A candidate's topic stands for its tenant, entity and predicate group.  *)
(* SQLite's lookup returns the latest fact first; the one extract() takes  *)
(* is any here, as in PostgreSQL: SQLite fails to close whichever it is.   *)
(*                                                                         *)
(* Bounds: Facts, the candidates there can be; MaxConcurrent extractions   *)
(* under way, MaxFaults operations that raise, MaxCrashes crashes.         *)
(***************************************************************************)
EXTENDS Naturals, FiniteSets

CONSTANTS
    Backend,        \* "sqlite" or "postgres"
    Records,        \* the memory records, numbered in the order of recorded_at
    Facts, NoFact, Topics,
    TopicOf,        \* the topic of each candidate
    Confident,      \* the candidates at or above low_confidence_threshold
    MaxConcurrent, MaxFaults, MaxCrashes

ASSUME FactLedgerAssumption ==
    /\ Backend \in {"sqlite", "postgres"}
    /\ Records \subseteq Nat
    /\ NoFact \notin Facts
    /\ TopicOf \in [Facts -> Topics]
    /\ Confident \subseteq Facts
    /\ MaxConcurrent \in Nat /\ MaxFaults \in Nat /\ MaxCrashes \in Nat

VARIABLES
    ledger,         \* the facts table
    pc,             \* the await the extraction of each record stands at
    minted,         \* candidates built so far
    candidate,      \* the candidate each extraction is at
    existing,       \* the fact it found and is out to close
    saved,          \* saved_facts of each extraction
    superseded,     \* <<new, old>> of the ContradictionDetected events
    flagged,        \* facts of the ContradictionLowConfidence events
    extracted,      \* facts of the FactsExtracted events
    faults, crashes

told == <<superseded, flagged, extracted>>
local == <<pc, minted, candidate, existing, saved>>
vars == <<ledger, local, told, faults, crashes>>

\* open: effective_to IS NULL.  supersedes is the column behind Fact.supersedes,
\* which PostgreSQL calls superseded_by.
Fact == [id: Facts, record: Records, state: {"ACTIVE", "PROPOSED"}, open: BOOLEAN,
         supersedes: Facts \cup {NoFact}]

\* save and propose await the same call, with lifecycle_state ACTIVE and PROPOSED.
Live == {"llm", "lookup", "close", "announce", "flag", "save", "propose", "emit"}
Phase == Live \cup {"idle",
                    "returned", "error",    \* with result.error None, or set
                    "raised",
                    "lost"}                 \* gone with the process

TypeOK ==
    /\ ledger \subseteq Fact
    /\ pc \in [Records -> Phase]
    /\ minted \subseteq Facts
    /\ candidate \in [Records -> Facts \cup {NoFact}]
    /\ existing \in [Records -> Facts \cup {NoFact}]
    /\ saved \in [Records -> SUBSET Facts]
    /\ superseded \subseteq Facts \X Facts
    /\ flagged \subseteq Facts
    /\ extracted \subseteq Facts
    /\ faults \in 0..MaxFaults
    /\ crashes \in 0..MaxCrashes

Init ==
    /\ ledger = {} /\ minted = {}
    /\ pc = [x \in Records |-> "idle"]
    /\ candidate = [x \in Records |-> NoFact]
    /\ existing = [x \in Records |-> NoFact]
    /\ saved = [x \in Records |-> {}]
    /\ superseded = {} /\ flagged = {} /\ extracted = {}
    /\ faults = 0 /\ crashes = 0

-----------------------------------------------------------------------------
(* The fact repositories *)

Ids == {r.id : r \in ledger}

\* A fact is current when it is ACTIVE and its validity has no end.
Current(topic) ==
    {r \in ledger : TopicOf[r.id] = topic /\ r.state = "ACTIVE" /\ r.open}

\* Slip: the predicate group is left out.
ActiveFactsOfAll(topic) == {r \in ledger : r.open}

\* get_active_facts_by_entity_predicate: PostgreSQL does not look at the state.
ActiveFacts(topic) ==
    {r \in ledger : TopicOf[r.id] = topic /\ r.open
                        /\ (Backend = "sqlite" => r.state = "ACTIVE")}

\* Slip: any candidate of the topic replaces what is there.
SaveByTopic(x, f, state, old) ==
    {r \in ledger : TopicOf[r.id] # TopicOf[f]}
        \cup {[id |-> f, record |-> x, state |-> state, open |-> TRUE, supersedes |-> old]}

\* save: identifiers are fresh, so neither REPLACE nor DO NOTHING ever applies.
SaveFact(x, f, state, old) ==
    ledger \cup {[id |-> f, record |-> x, state |-> state, open |-> TRUE,
                  supersedes |-> old]}

\* Slip: no row matches.
CloseNothing(old, new) == ledger

\* close_fact ends the old fact.  SQLite then links the new one to it, while
\* PostgreSQL writes the successor into the old row.
CloseFact(old, new) ==
    {IF r.id = old
     THEN [r EXCEPT !.open = FALSE,
                    !.supersedes = IF Backend = "sqlite" THEN @ ELSE new]
     ELSE IF r.id = new /\ Backend = "sqlite" THEN [r EXCEPT !.supersedes = old] ELSE r
        : r \in ledger}

\* SQLite rolls back and raises when there is no row of the new fact to link.
CloseRaises(old, new) == Backend = "sqlite" /\ {old, new} \ Ids # {}

-----------------------------------------------------------------------------
(* extract(): the extraction of record x *)

To(x, phase) == pc' = [pc EXCEPT ![x] = phase]

\* The loop moves on to the next item of the answer, ends, or meets an item no
\* candidate can be built from, which raises.
NextItem(x) ==
    /\ existing' = [existing EXCEPT ![x] = NoFact]
    /\ \/ \E f \in Facts \ minted :
             /\ minted' = minted \cup {f}
             /\ candidate' = [candidate EXCEPT ![x] = f]
             /\ To(x, "lookup")
       \/ /\ To(x, "emit") \/ To(x, "raised")
          /\ UNCHANGED <<minted, candidate>>

Begin(x) ==
    /\ pc[x] = "idle"
    /\ Cardinality({y \in Records : pc[y] \in Live}) < MaxConcurrent
    /\ To(x, "llm")
    /\ UNCHANGED <<ledger, minted, candidate, existing, saved, told, faults, crashes>>

\* The model answers; no answer, or one that is no JSON array, is an error result.
Answer(x) ==
    /\ pc[x] = "llm"
    /\ \/ NextItem(x)
       \/ /\ To(x, "error")
          /\ UNCHANGED <<minted, candidate, existing>>
    /\ UNCHANGED <<ledger, saved, told, faults, crashes>>

\* A confident candidate is out to close the fact it contradicts.
Lookup(x) ==
    LET f == candidate[x]
        found == ActiveFacts(TopicOf[f])
    IN
    /\ pc[x] = "lookup"
    /\ \/ /\ found = {}
          /\ To(x, "save")
          /\ UNCHANGED existing
       \/ /\ f \in Confident
          /\ \E r \in found : existing' = [existing EXCEPT ![x] = r.id]
          /\ To(x, "close")
       \/ /\ f \notin Confident /\ found # {}
          /\ To(x, "flag")
          /\ UNCHANGED existing
    /\ UNCHANGED <<ledger, minted, candidate, saved, told, faults, crashes>>

\* Slip: the event is left to whoever calls.
CloseUnannounced(x) ==
    /\ pc[x] = "close"
    /\ IF CloseRaises(existing[x], candidate[x])
       THEN To(x, "raised") /\ UNCHANGED ledger
       ELSE To(x, "save") /\ ledger' = CloseFact(existing[x], candidate[x])
    /\ UNCHANGED <<minted, candidate, existing, saved, told, faults, crashes>>

Close(x) ==
    /\ pc[x] = "close"
    /\ IF CloseRaises(existing[x], candidate[x])
       THEN To(x, "raised") /\ UNCHANGED ledger
       ELSE To(x, "announce") /\ ledger' = CloseFact(existing[x], candidate[x])
    /\ UNCHANGED <<minted, candidate, existing, saved, told, faults, crashes>>

\* emit(ContradictionDetectedEvent)
Announce(x) ==
    /\ pc[x] = "announce"
    /\ superseded' = superseded \cup {<<candidate[x], existing[x]>>}
    /\ To(x, "save")
    /\ UNCHANGED <<ledger, minted, candidate, existing, saved, flagged, extracted,
                   faults, crashes>>

\* emit(ContradictionLowConfidenceEvent)
Flag(x) ==
    /\ pc[x] = "flag"
    /\ flagged' = flagged \cup {candidate[x]}
    /\ To(x, "propose")
    /\ UNCHANGED <<ledger, minted, candidate, existing, saved, superseded, extracted,
                   faults, crashes>>

Saved(x) ==
    SaveFact(x, candidate[x], IF pc[x] = "propose" THEN "PROPOSED" ELSE "ACTIVE", existing[x])

Save(x) ==
    /\ pc[x] \in {"save", "propose"}
    /\ ledger' = Saved(x)
    /\ saved' = [saved EXCEPT ![x] = @ \cup {candidate[x]}]
    /\ NextItem(x)
    /\ UNCHANGED <<told, faults, crashes>>

\* emit(FactsExtractedEvent) and return.
EmitExtracted(x) ==
    /\ pc[x] = "emit"
    /\ extracted' = extracted \cup saved[x]
    /\ To(x, "returned")
    /\ UNCHANGED <<ledger, minted, candidate, existing, saved, superseded, flagged,
                   faults, crashes>>

\* An awaited operation raises out of extract().  Over a network connection
\* the statement may have been committed all the same.
Raises(x) ==
    /\ pc[x] \in Live \ {"llm"}
    /\ faults < MaxFaults
    /\ faults' = faults + 1
    /\ \/ UNCHANGED ledger
       \/ /\ Backend = "postgres" /\ pc[x] = "close"
          /\ ledger' = CloseFact(existing[x], candidate[x])
       \/ /\ Backend = "postgres" /\ pc[x] \in {"save", "propose"}
          /\ ledger' = Saved(x)
    /\ To(x, "raised")
    /\ UNCHANGED <<minted, candidate, existing, saved, told, crashes>>

\* The process goes down with its coroutines and comes back with the table.
Crash ==
    /\ crashes < MaxCrashes
    /\ crashes' = crashes + 1
    /\ pc' = [x \in Records |-> IF pc[x] \in Live THEN "lost" ELSE pc[x]]
    /\ UNCHANGED <<ledger, minted, candidate, existing, saved, told, faults>>

Step(x) ==
    \/ Answer(x) \/ Lookup(x) \/ Close(x) \/ Announce(x) \/ Flag(x) \/ Save(x)
    \/ EmitExtracted(x)

Next ==
    \/ \E x \in Records : Begin(x) \/ Step(x) \/ Raises(x)
    \/ Crash

Spec == Init /\ [][Next]_vars

-----------------------------------------------------------------------------
(* Properties *)

\* The extraction of x ended what is to be superseded and has not saved its
\* successor; once it was raised out of or lost, it never will.
CutOff(x) ==
    /\ existing[x] # NoFact /\ candidate[x] \notin Ids
    /\ pc[x] \in {"announce", "save", "raised", "lost"}

\* Observers are told what the table says: a fact announced as superseded has
\* ended, a flagged one is nowhere ACTIVE, and extracted facts are stored.
EventsTruthful ==
    /\ \A e \in superseded, r \in ledger : r.id = e[2] => ~r.open
    /\ \A r \in ledger : r.id \in flagged => r.state = "PROPOSED"
    /\ extracted \subseteq Ids

\* And nothing happens to the table silently: a fact that was ended names the
\* successor it was announced with, or whoever ended it for that successor has
\* not got there or never will.
NothingSilent ==
    \A r \in ledger :
        /\ ~r.open =>
              \/ <<r.supersedes, r.id>> \in superseded
              \/ \E x \in Records :
                    /\ <<candidate[x], existing[x]>> = <<r.supersedes, r.id>>
                    /\ pc[x] \in {"announce", "raised", "lost"}
        /\ r.state = "PROPOSED" => r.id \in flagged

\* Facts are superseded, not updated in place: no fact leaves the table, comes
\* back to validity or changes its source and state, whoever races for it.
HistoryKept ==
    [][\A r \in ledger : \E q \in ledger' :
          /\ q.id = r.id /\ q.record = r.record /\ q.state = r.state
          /\ q.open => r.open]_vars

\* What a topic is known for stays known: it has a current fact as long as it
\* has any, but for an extraction between close_fact and save, or cut off there.
CurrentUnlessCutOff ==
    \A r \in ledger :
        Current(TopicOf[r.id]) # {} \/ \E x \in Records :
            CutOff(x) /\ TopicOf[candidate[x]] = TopicOf[r.id]

\* A topic that has a current fact keeps having one.
KnownStaysKnown ==
    [][\A t \in Topics : Current(t) # {} => Current(t)' # {}]_vars

-----------------------------------------------------------------------------
(* What the documentation says and the code does not do *)

\* A confident candidate that meets a current fact ends it: the extraction
\* gets no further without having closed what it contradicts.
ContradictionResolved ==
    \A x \in Records : pc[x] \in {"raised", "returned"} /\ existing[x] # NoFact =>
        \A r \in ledger : r.id = existing[x] => ~r.open
=============================================================================
