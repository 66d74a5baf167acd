--------------------------- MODULE FactLedgerProofs ---------------------------
(***************************************************************************)
(* What FactLedger keeps for any number of records, facts, faults and      *)
(* crashes, on either repository unless a theorem names one.               *)
(***************************************************************************)
EXTENDS FactLedger, TLAPS

-----------------------------------------------------------------------------
(* The two statements that change the table *)

\* q is what becomes of fact r when old is closed.
Carries(r, q, old) ==
    /\ q.id = r.id /\ q.record = r.record /\ q.state = r.state
    /\ q.open <=> r.open /\ r.id # old

\* close_fact maps every row to one of the same id, source and state, and ends
\* the validity of the old fact only.
LEMMA CloseCarries ==
    ASSUME ledger \subseteq Fact, NEW old \in Facts, NEW new \in Facts
    PROVE  /\ CloseFact(old, new) \subseteq Fact
           /\ \A r \in ledger : \E q \in CloseFact(old, new) : Carries(r, q, old)
           /\ \A q \in CloseFact(old, new) : \E r \in ledger : Carries(r, q, old)
<1> DEFINE image(r) ==
        IF r.id = old
        THEN [r EXCEPT !.open = FALSE,
                       !.supersedes = IF Backend = "sqlite" THEN @ ELSE new]
        ELSE IF r.id = new /\ Backend = "sqlite" THEN [r EXCEPT !.supersedes = old] ELSE r
<1>1. CloseFact(old, new) = {image(r) : r \in ledger}
  BY DEF CloseFact
<1>2. ASSUME NEW r \in ledger
      PROVE  image(r) \in Fact /\ Carries(r, image(r), old)
  <2>1. r \in Fact
    OBVIOUS
  <2>2. CASE r.id = old
    BY <2>1, <2>2 DEF Fact, Carries
  <2>3. CASE r.id # old
    BY <2>1, <2>3 DEF Fact, Carries
  <2> QED BY <2>2, <2>3
<1> HIDE DEF image
<1> QED BY <1>1, <1>2

\* On PostgreSQL the old row is linked to its successor and no other changes.
LEMMA CloseLinks ==
    ASSUME ledger \subseteq Fact, NEW old \in Facts, NEW new \in Facts,
           Backend = "postgres"
    PROVE  \A q \in CloseFact(old, new) : \E r \in ledger :
               /\ Carries(r, q, old)
               /\ q.supersedes = IF r.id = old THEN new ELSE r.supersedes
<1> DEFINE image(r) == IF r.id = old THEN [r EXCEPT !.open = FALSE, !.supersedes = new] ELSE r
<1>1. CloseFact(old, new) = {image(r) : r \in ledger}
  BY DEF CloseFact
<1>2. ASSUME NEW r \in ledger
      PROVE  /\ Carries(r, image(r), old)
             /\ image(r).supersedes = IF r.id = old THEN new ELSE r.supersedes
  <2>1. r \in Fact
    OBVIOUS
  <2> QED BY <2>1 DEF Fact, Carries
<1> HIDE DEF image
<1> QED BY <1>1, <1>2

\* close_fact keeps the ids of a table apart.
LEMMA CloseUnique ==
    ASSUME ledger \subseteq Fact, NEW old \in Facts, NEW new \in Facts,
           \A r, q \in ledger : r.id = q.id => r = q
    PROVE  \A r, q \in CloseFact(old, new) : r.id = q.id => r = q
<1> DEFINE image(r) ==
        IF r.id = old
        THEN [r EXCEPT !.open = FALSE,
                       !.supersedes = IF Backend = "sqlite" THEN @ ELSE new]
        ELSE IF r.id = new /\ Backend = "sqlite" THEN [r EXCEPT !.supersedes = old] ELSE r
<1>1. CloseFact(old, new) = {image(r) : r \in ledger}
  BY DEF CloseFact
<1>2. ASSUME NEW r \in ledger
      PROVE  image(r).id = r.id
  <2>1. r \in Fact
    OBVIOUS
  <2> QED BY <2>1 DEF Fact
<1> HIDE DEF image
<1> QED BY <1>1, <1>2

\* save adds one row: the candidate's, valid from now on.
LEMMA SaveAdds ==
    ASSUME NEW x \in Records, candidate[x] \in Facts,
           existing[x] \in Facts \cup {NoFact}
    PROVE  \E q \in Fact :
               /\ Saved(x) = ledger \cup {q}
               /\ q.id = candidate[x] /\ q.record = x /\ q.open
               /\ q.state = IF pc[x] = "propose" THEN "PROPOSED" ELSE "ACTIVE"
<1> DEFINE q == [id |-> candidate[x], record |-> x,
                 state |-> IF pc[x] = "propose" THEN "PROPOSED" ELSE "ACTIVE",
                 open |-> TRUE, supersedes |-> existing[x]]
<1>1. Saved(x) = ledger \cup {q}
  BY DEF Saved, SaveFact
<1>2. q \in Fact
  BY DEF Fact
<1> QED BY <1>1, <1>2

-----------------------------------------------------------------------------
(* Type correctness *)

\* The awaits between building a candidate and saving it.
Facing(x) == pc[x] \in {"lookup", "close", "announce", "flag", "save", "propose"}

\* The variables keep their types.  An extraction facing a save or a close has
\* a candidate, and one that closes has something to close.
Typed ==
    /\ TypeOK
    /\ \A x \in Records :
          /\ Facing(x) => candidate[x] \in Facts
          /\ pc[x] \in {"close", "announce"} => existing[x] \in Facts

LEMMA TypedInit == Init => Typed
<1> SUFFICES ASSUME Init PROVE Typed
  OBVIOUS
<1>1. TypeOK
  <2>1. "idle" \in Phase
    BY DEF Phase
  <2>2. 0 \in 0..MaxFaults /\ 0 \in 0..MaxCrashes
    BY FactLedgerAssumption
  <2> QED BY <2>1, <2>2 DEF Init, TypeOK
<1>2. \A x \in Records : pc[x] = "idle"
  BY DEF Init
<1> QED BY <1>1, <1>2 DEF Typed, Facing

LEMMA TypedNext == Typed /\ [Next]_vars => Typed'
<1> SUFFICES ASSUME Typed, [Next]_vars PROVE Typed'
  OBVIOUS
<1> USE FactLedgerAssumption
<1>1. ASSUME NEW x \in Records, Begin(x) PROVE Typed'
  BY <1>1 DEF Begin, To, Typed, Facing, TypeOK, Phase, Live, told
<1>2. ASSUME NEW x \in Records, Answer(x) PROVE Typed'
  BY <1>2 DEF Answer, NextItem, To, Typed, Facing, TypeOK, Phase, Live, told
<1>3. ASSUME NEW x \in Records, Lookup(x) PROVE Typed'
  BY <1>3 DEF Lookup, ActiveFacts, Fact, To, Typed, Facing, TypeOK, Phase, Live, told
<1>4. ASSUME NEW x \in Records, Close(x) PROVE Typed'
  BY <1>4, CloseCarries DEF Close, To, Typed, Facing, TypeOK, Phase, Live, told
<1>5. ASSUME NEW x \in Records, Announce(x) PROVE Typed'
  BY <1>5 DEF Announce, To, Typed, Facing, TypeOK, Phase, Live
<1>6. ASSUME NEW x \in Records, Flag(x) PROVE Typed'
  BY <1>6 DEF Flag, To, Typed, Facing, TypeOK, Phase, Live
<1>7. ASSUME NEW x \in Records, Save(x) PROVE Typed'
  <2>1. PICK q \in Fact : Saved(x) = ledger \cup {q}
    BY <1>7, SaveAdds DEF Save, Typed, Facing, TypeOK
  <2>2. ledger' \subseteq Fact
    BY <1>7, <2>1 DEF Save, Typed, Facing, TypeOK
  <2> QED BY <1>7, <2>2 DEF Save, NextItem, To, Typed, Facing, TypeOK, Phase, Live, told
<1>8. ASSUME NEW x \in Records, EmitExtracted(x) PROVE Typed'
  BY <1>8 DEF EmitExtracted, To, Typed, Facing, TypeOK, Phase, Live
<1>9. ASSUME NEW x \in Records, Raises(x) PROVE Typed'
  <2>1. ledger' \subseteq Fact
    BY <1>9, CloseCarries, SaveAdds DEF Raises, Typed, Facing, TypeOK
  <2> QED BY <1>9, <2>1 DEF Raises, To, Typed, Facing, TypeOK, Phase, Live, told
<1>10. ASSUME Crash PROVE Typed'
  BY <1>10 DEF Crash, Typed, Facing, TypeOK, Phase, Live, told
<1>11. CASE UNCHANGED vars
  BY <1>11 DEF vars, local, told, Typed, Facing, TypeOK
<1> QED BY <1>1, <1>2, <1>3, <1>4, <1>5, <1>6, <1>7, <1>8, <1>9, <1>10, <1>11
        DEF Next, Step

\* Type correctness of the fact ledger.
THEOREM FactTypeCorrect == Spec => []TypeOK
<1>1. Spec => []Typed
  BY TypedInit, TypedNext, PTL DEF Spec
<1>2. Typed => TypeOK
  BY DEF Typed
<1> QED BY <1>1, <1>2, PTL

-----------------------------------------------------------------------------
(* History *)

\* Facts are superseded, never removed, reopened or changed, on either
\* repository: the append-only temporal model of ADR-002.
THEOREM HistoryIsKept == Spec => HistoryKept
<1> DEFINE Kept == \A r \in ledger : \E q \in ledger' :
                      /\ q.id = r.id /\ q.record = r.record /\ q.state = r.state
                      /\ q.open => r.open
<1>1. Typed /\ [Next]_vars => [Kept]_vars
  <2> SUFFICES ASSUME Typed, [Next]_vars PROVE Kept
    OBVIOUS
  <2>1. CASE ledger \subseteq ledger'
    <3> TAKE r \in ledger
    <3> r \in ledger'
      BY <2>1
    <3> WITNESS r \in ledger'
    <3> QED OBVIOUS
  <2>2. ASSUME NEW x \in Records, ledger' = CloseFact(existing[x], candidate[x]), pc[x] = "close"
        PROVE  Kept
    <3> SUFFICES ASSUME NEW r \in ledger
                 PROVE  \E q \in ledger' : /\ q.id = r.id /\ q.record = r.record
                                           /\ q.state = r.state
                                           /\ q.open => r.open
      OBVIOUS
    <3>1. PICK q \in ledger' : Carries(r, q, existing[x])
      BY <2>2, CloseCarries DEF Typed, Facing, TypeOK
    <3>2. q.open => r.open
      BY <3>1 DEF Carries
    <3> QED BY <3>1, <3>2 DEF Carries
  <2>3. ASSUME NEW x \in Records, Begin(x) \/ Step(x) \/ Raises(x)
        PROVE  ledger \subseteq ledger' \/ (pc[x] = "close" /\ ledger' = CloseFact(existing[x], candidate[x]))
    BY <2>3 DEF Begin, Step, Answer, Lookup, Close, Announce, Flag, Save, Saved, SaveFact,
                EmitExtracted, Raises
  <2>4. Crash \/ UNCHANGED vars => ledger \subseteq ledger'
    BY DEF Crash, vars
  <2> QED BY <2>1, <2>2, <2>3, <2>4 DEF Next
<1>2. Spec => []Typed
  BY TypedInit, TypedNext, PTL DEF Spec
<1> QED BY <1>1, <1>2, PTL DEF Spec, HistoryKept

-----------------------------------------------------------------------------
(* The inductive invariant *)

IdUnique == \A r, q \in ledger : r.id = q.id => r = q

\* An id is minted before anything is known of it, and for one extraction.
Minting ==
    /\ Ids \subseteq minted
    /\ flagged \subseteq minted
    /\ \A x \in Records : candidate[x] # NoFact => candidate[x] \in minted
    /\ \A x, y \in Records : candidate[x] # NoFact /\ candidate[x] = candidate[y] => x = y

\* What an extraction is about to save is not in the table yet, and it is going
\* to be PROPOSED exactly if it was flagged.
Fresh ==
    \A x \in Records : Facing(x) =>
        /\ candidate[x] \notin Ids
        /\ candidate[x] \in flagged <=> pc[x] = "propose"

\* How far an extraction is with the fact it is out to close.
Pursuit ==
    \A x \in Records : existing[x] # NoFact =>
        /\ pc[x] \in {"close", "announce", "save", "raised", "lost"}
        /\ existing[x] \in Ids
        /\ pc[x] \in {"announce", "save"} =>
              \A r \in ledger : r.id = existing[x] => ~r.open
        /\ pc[x] = "save" => \E e \in superseded : e[2] = existing[x]

\* What was announced or returned as saved is in the table.
Told ==
    /\ \A e \in superseded : e[2] \in Ids
    /\ \A x \in Records : saved[x] \subseteq Ids

Inv ==
    /\ Typed /\ IdUnique /\ Minting /\ Fresh /\ Pursuit /\ Told
    /\ EventsTruthful /\ NothingSilent

LEMMA InvInit == Init => Inv
<1> SUFFICES ASSUME Init PROVE Inv
  OBVIOUS
<1>1. Typed
  BY TypedInit
<1>2. ledger = {} /\ Ids = {}
  BY DEF Init, Ids
<1> QED
  BY <1>1, <1>2 DEF Init, Inv, IdUnique, Minting, Fresh, Facing, Pursuit, Told,
                    EventsTruthful, NothingSilent

\* A step that leaves the table alone leaves its ids alone.
LEMMA SameIds == ledger' = ledger => Ids' = Ids
  BY DEF Ids

\* Save adds the candidate's id and closing adds none.
LEMMA SavedIds ==
    ASSUME NEW q, ledger' = ledger \cup {q}
    PROVE  Ids' = Ids \cup {q.id}
  BY DEF Ids

LEMMA ClosedIds ==
    ASSUME ledger \subseteq Fact, NEW old \in Facts, NEW new \in Facts,
           ledger' = CloseFact(old, new)
    PROVE  Ids' = Ids
<1>1. \A r \in ledger : \E q \in ledger' : q.id = r.id
  BY CloseCarries DEF Carries
<1>2. \A q \in ledger' : \E r \in ledger : q.id = r.id
  BY CloseCarries DEF Carries
<1> QED BY <1>1, <1>2 DEF Ids

\* A row the table may gain without an event to come.
Plain(q) == q.open /\ (q.state = "PROPOSED" => q.id \in flagged)

\* The step that adds open facts only, and forgets no announcement and no
\* extraction that owes one, keeps the table and the events in step.
LEMMA SilentStays ==
    ASSUME NothingSilent, superseded \subseteq superseded', flagged \subseteq flagged',
           \A q \in ledger' : q \in ledger \/ Plain(q)',
           \A y \in Records : pc[y] \in {"announce", "raised", "lost"} =>
               /\ pc'[y] \in {"announce", "raised", "lost"}
               /\ candidate'[y] = candidate[y] /\ existing'[y] = existing[y]
    PROVE  NothingSilent'
<1>0. \A q \in ledger' : q \in ledger \/
            (q.open /\ (q.state = "PROPOSED" => q.id \in flagged'))
  BY DEF Plain
<1> SUFFICES ASSUME NEW q \in ledger, q \in ledger'
             PROVE  /\ ~q.open =>
                          \/ <<q.supersedes, q.id>> \in superseded'
                          \/ \E y \in Records :
                                /\ <<candidate'[y], existing'[y]>> = <<q.supersedes, q.id>>
                                /\ pc'[y] \in {"announce", "raised", "lost"}
                    /\ q.state = "PROPOSED" => q.id \in flagged'
  BY <1>0 DEF NothingSilent
<1>1. CASE q.open \/ <<q.supersedes, q.id>> \in superseded
  BY <1>1 DEF NothingSilent
<1>2. CASE \E y \in Records : /\ <<candidate[y], existing[y]>> = <<q.supersedes, q.id>>
                              /\ pc[y] \in {"announce", "raised", "lost"}
  <2>1. PICK y \in Records : /\ <<candidate[y], existing[y]>> = <<q.supersedes, q.id>>
                             /\ pc[y] \in {"announce", "raised", "lost"}
    BY <1>2
  <2>2. <<candidate'[y], existing'[y]>> = <<q.supersedes, q.id>>
    BY <2>1
  <2> QED BY <2>1, <2>2 DEF NothingSilent
<1> QED BY <1>1, <1>2 DEF NothingSilent

\* The awaits a step without a table write leads between.
LEMMA InvBegin == ASSUME Inv, NEW x \in Records, Begin(x), Typed' PROVE Inv'
<1> USE DEF Inv, Begin, To, told
<1>1. Ids' = Ids
  BY SameIds
<1>2. existing[x] = NoFact
  BY DEF Pursuit
<1>3. IdUnique' /\ Minting' /\ Told' /\ EventsTruthful'
  BY <1>1 DEF IdUnique, Minting, Told, EventsTruthful
<1>4. Fresh'
  BY <1>1 DEF Fresh, Facing, Typed, TypeOK
<1>5. Pursuit'
  BY <1>1, <1>2 DEF Pursuit, Typed, TypeOK
<1>6. NothingSilent'
  BY DEF NothingSilent, Typed, TypeOK
<1> QED BY <1>3, <1>4, <1>5, <1>6

LEMMA InvAnswer == ASSUME Inv, NEW x \in Records, Answer(x), Typed' PROVE Inv'
<1> USE DEF Inv, Answer, To, told, NextItem
<1>1. Ids' = Ids
  BY SameIds
<1>2. IdUnique' /\ Told'
  BY <1>1 DEF IdUnique, Told
<1>3. Minting'
  BY <1>1 DEF Minting, Typed, TypeOK, Fresh, Facing
<1>4. Fresh'
  BY <1>1 DEF Fresh, Facing, Minting, Typed, TypeOK
<1>5. Pursuit'
  BY <1>1 DEF Pursuit, Facing, Typed, TypeOK
<1>6. EventsTruthful'
  BY <1>1 DEF EventsTruthful, Told, Fresh, Facing, Pursuit, Typed
<1>7. NothingSilent'
  <2>1. \A y \in Records : pc[y] \in {"announce", "raised", "lost"} =>
            /\ pc'[y] \in {"announce", "raised", "lost"}
            /\ candidate'[y] = candidate[y] /\ existing'[y] = existing[y]
    BY DEF Typed, TypeOK
  <2>2. /\ superseded \subseteq superseded' /\ flagged \subseteq flagged'
        /\ \A q \in ledger' : q \in ledger
    OBVIOUS
  <2>3. NothingSilent
    OBVIOUS
  <2> HIDE DEF Inv, Answer, NextItem
  <2> QED BY <2>1, <2>2, <2>3, SilentStays
<1> QED BY <1>2, <1>3, <1>4, <1>5, <1>6, <1>7

LEMMA InvLookup == ASSUME Inv, NEW x \in Records, Lookup(x), Typed' PROVE Inv'
<1> USE DEF Inv, Lookup, To, told
<1>1. Ids' = Ids
  BY SameIds
<1>2. IdUnique' /\ Told'
  BY <1>1 DEF IdUnique, Told
<1>3. Minting'
  BY <1>1 DEF Minting, Typed, TypeOK, Fresh, Facing
<1>4. Fresh'
  BY <1>1 DEF Fresh, Facing, Minting, Typed, TypeOK
<1>5. Pursuit'
  <2>1. existing[x] = NoFact
    BY DEF Pursuit
  <2>2. existing'[x] # NoFact => pc'[x] = "close" /\ existing'[x] \in Ids
    BY <2>1 DEF ActiveFacts, Ids, Typed, TypeOK
  <2> QED BY <1>1, <2>2 DEF Pursuit, Typed, TypeOK
<1>6. EventsTruthful'
  BY <1>1 DEF EventsTruthful, Told, Fresh, Facing, Pursuit, Typed
<1>7. NothingSilent'
  <2>1. pc[x] = "lookup" /\ existing[x] = NoFact
    BY DEF Pursuit
  <2>2. \A y \in Records : pc[y] \in {"announce", "raised", "lost"} =>
            /\ pc'[y] \in {"announce", "raised", "lost"}
            /\ candidate'[y] = candidate[y] /\ existing'[y] = existing[y]
    BY <2>1 DEF Typed, TypeOK
  <2>3. /\ superseded \subseteq superseded' /\ flagged \subseteq flagged'
        /\ \A q \in ledger' : q \in ledger
    OBVIOUS
  <2>4. NothingSilent
    OBVIOUS
  <2> HIDE DEF Inv, Lookup
  <2> QED BY <2>2, <2>3, <2>4, SilentStays
<1> QED BY <1>2, <1>3, <1>4, <1>5, <1>6, <1>7

LEMMA InvAnnounce == ASSUME Inv, NEW x \in Records, Announce(x), Typed' PROVE Inv'
<1> USE DEF Inv, Announce, To, told
<1>1. Ids' = Ids
  BY SameIds
<1>2. /\ existing[x] \in Ids
      /\ \A r \in ledger : r.id = existing[x] => ~r.open
  BY FactLedgerAssumption DEF Pursuit, Typed
<1> \E e \in superseded' : e[2] = existing[x]
  <2> <<candidate[x], existing[x]>>[2] = existing[x]
    OBVIOUS
  <2> QED OBVIOUS
<1>3. IdUnique' /\ Minting'
  BY <1>1 DEF IdUnique, Minting
<1>4. Told'
  BY <1>1, <1>2 DEF Told
<1>5. Fresh'
  BY <1>1 DEF Fresh, Facing, Typed, TypeOK
<1>6. Pursuit'
  <2> SUFFICES ASSUME NEW y \in Records, existing'[y] # NoFact
               PROVE  /\ pc'[y] \in {"close", "announce", "save", "raised", "lost"}
                      /\ existing'[y] \in Ids'
                      /\ pc'[y] \in {"announce", "save"} =>
                            \A r \in ledger' : r.id = existing'[y] => ~r.open
                      /\ pc'[y] = "save" => \E e \in superseded' : e[2] = existing'[y]
    BY DEF Pursuit
  <2>1. CASE y = x
    BY <1>1, <1>2, <2>1 DEF Typed, TypeOK
  <2>2. CASE y # x
    BY <1>1, <2>2 DEF Pursuit, Typed, TypeOK
  <2> QED BY <2>1, <2>2
<1>7. EventsTruthful'
  BY <1>1, <1>2 DEF EventsTruthful
<1>8. NothingSilent'
  <2> SUFFICES ASSUME NEW r \in ledger
               PROVE  /\ ~r.open =>
                            \/ <<r.supersedes, r.id>> \in superseded'
                            \/ \E y \in Records :
                                  /\ <<candidate[y], existing[y]>> = <<r.supersedes, r.id>>
                                  /\ pc'[y] \in {"announce", "raised", "lost"}
                      /\ r.state = "PROPOSED" => r.id \in flagged'
    BY DEF NothingSilent
  <2>1. CASE <<candidate[x], existing[x]>> = <<r.supersedes, r.id>>
    BY <2>1 DEF NothingSilent
  <2>2. CASE <<candidate[x], existing[x]>> # <<r.supersedes, r.id>>
    BY <2>2 DEF NothingSilent, Typed, TypeOK
  <2> QED BY <2>1, <2>2
<1> QED BY <1>3, <1>4, <1>5, <1>6, <1>7, <1>8

LEMMA InvFlag == ASSUME Inv, NEW x \in Records, Flag(x), Typed' PROVE Inv'
<1> USE DEF Inv, Flag, To, told
<1>1. Ids' = Ids
  BY SameIds
<1>2. IdUnique' /\ Told'
  BY <1>1 DEF IdUnique, Told
<1> candidate[x] \in Facts /\ candidate[x] # NoFact /\ candidate[x] \notin Ids
  BY FactLedgerAssumption DEF Typed, Fresh, Facing
<1>3. Minting'
  BY <1>1 DEF Minting
<1>4. Fresh'
  <2> SUFFICES ASSUME NEW y \in Records, Facing(y)'
               PROVE  /\ candidate[y] \notin Ids
                      /\ candidate[y] \in flagged' <=> pc'[y] = "propose"
    BY <1>1 DEF Fresh
  <2>1. CASE y = x
    BY <2>1 DEF Typed, TypeOK
  <2>2. CASE y # x
    <3>1. Facing(y) /\ pc'[y] = pc[y]
      BY <2>2 DEF Facing, Typed, TypeOK
    <3>2. candidate[y] # candidate[x]
      BY <2>2 DEF Minting
    <3> QED BY <3>1, <3>2 DEF Fresh
  <2> QED BY <2>1, <2>2
<1>5. Pursuit'
  BY <1>1 DEF Pursuit, Facing, Typed, TypeOK
<1>6. EventsTruthful'
  BY <1>1 DEF EventsTruthful, Ids
<1>7. NothingSilent'
  BY DEF NothingSilent, Pursuit, Typed, TypeOK
<1> QED BY <1>2, <1>3, <1>4, <1>5, <1>6, <1>7

LEMMA InvEmitExtracted == ASSUME Inv, NEW x \in Records, EmitExtracted(x), Typed' PROVE Inv'
<1> USE DEF Inv, EmitExtracted, To, told
<1>1. Ids' = Ids
  BY SameIds
<1>2. IdUnique' /\ Told'
  BY <1>1 DEF IdUnique, Told
<1>3. Minting'
  BY <1>1 DEF Minting, Typed, TypeOK, Fresh, Facing
<1>4. Fresh'
  BY <1>1 DEF Fresh, Facing, Minting, Typed, TypeOK
<1>5. Pursuit'
  BY <1>1 DEF Pursuit, Facing, Typed, TypeOK
<1>6. EventsTruthful'
  BY <1>1 DEF EventsTruthful, Told, Fresh, Facing, Pursuit, Typed
<1>7. NothingSilent'
  BY DEF NothingSilent, Pursuit, Typed, TypeOK
<1> QED BY <1>2, <1>3, <1>4, <1>5, <1>6, <1>7

LEMMA InvCrash == ASSUME Inv, Crash, Typed' PROVE Inv'
<1> USE DEF Inv, Crash, told
<1>1. Ids' = Ids
  BY SameIds
<1>2. IdUnique' /\ Told' /\ Minting' /\ EventsTruthful'
  BY <1>1 DEF IdUnique, Told, Minting, EventsTruthful
<1>3. Fresh'
  BY <1>1 DEF Fresh, Facing, Live, Typed, TypeOK
<1>4. Pursuit'
  BY <1>1 DEF Pursuit, Live, Typed, TypeOK
<1>5. NothingSilent'
  BY DEF NothingSilent, Live, Typed, TypeOK
<1> QED BY <1>2, <1>3, <1>4, <1>5

\* close_fact, with the extraction going on, or raised out of.
LEMMA InvClosing ==
    ASSUME Inv, NEW x \in Records, pc[x] = "close", Typed', Backend = "postgres",
           ledger' = CloseFact(existing[x], candidate[x]),
           \/ pc' = [pc EXCEPT ![x] = "announce"]
           \/ pc' = [pc EXCEPT ![x] = "raised"],
           UNCHANGED <<minted, candidate, existing, saved, told>>
    PROVE  Inv'
<1> USE DEF told
<1>0. /\ Typed /\ IdUnique /\ Minting /\ Fresh /\ Pursuit /\ Told
      /\ EventsTruthful /\ NothingSilent
  BY DEF Inv
<1>1. existing[x] \in Facts /\ candidate[x] \in Facts /\ ledger \subseteq Fact
  BY <1>0 DEF Typed, TypeOK, Facing
<1>2. Ids' = Ids
  BY <1>1, ClosedIds
<1>3. \A q \in ledger' : \E r \in ledger : Carries(r, q, existing[x])
  BY <1>1, CloseCarries
<1>4. \A q \in ledger' : q.id = existing[x] => ~q.open
  BY <1>3 DEF Carries
<1>5. IdUnique'
  BY <1>0, <1>1, CloseUnique DEF IdUnique
<1>6. Minting' /\ Told'
  BY <1>0, <1>2 DEF Minting, Told
<1>7. Fresh'
  BY <1>0, <1>2 DEF Fresh, Facing, Typed, TypeOK
<1>8. \A i \in Facts : (\A r \in ledger : r.id = i => ~r.open) =>
                         (\A q \in ledger' : q.id = i => ~q.open)
  BY <1>3 DEF Carries
<1>9. Pursuit'
  <2> SUFFICES ASSUME NEW y \in Records, existing'[y] # NoFact
               PROVE  /\ pc'[y] \in {"close", "announce", "save", "raised", "lost"}
                      /\ existing'[y] \in Ids'
                      /\ pc'[y] \in {"announce", "save"} =>
                            \A r \in ledger' : r.id = existing'[y] => ~r.open
                      /\ pc'[y] = "save" => \E e \in superseded' : e[2] = existing'[y]
    BY DEF Pursuit
  <2>1. existing[y] \in Facts
    BY <1>0 DEF Typed, TypeOK
  <2>2. CASE y = x
    BY <1>0, <1>1, <1>2, <1>4, <2>2 DEF Pursuit, Typed, TypeOK
  <2>3. CASE y # x
    BY <1>0, <1>2, <1>8, <2>1, <2>3 DEF Pursuit, Typed, TypeOK
  <2> QED BY <2>2, <2>3
<1>10. EventsTruthful'
  <2>1. \A e \in superseded, q \in ledger' : q.id = e[2] => ~q.open
    BY <1>0, <1>3 DEF EventsTruthful, Carries
  <2>2. \A q \in ledger' : q.id \in flagged => q.state = "PROPOSED"
    BY <1>0, <1>3 DEF EventsTruthful, Carries
  <2> QED BY <1>0, <1>2, <2>1, <2>2 DEF EventsTruthful
<1>11. NothingSilent'
  <2> SUFFICES ASSUME NEW q \in ledger'
               PROVE  /\ ~q.open =>
                            \/ <<q.supersedes, q.id>> \in superseded
                            \/ \E y \in Records :
                                  /\ <<candidate[y], existing[y]>> = <<q.supersedes, q.id>>
                                  /\ pc'[y] \in {"announce", "raised", "lost"}
                      /\ q.state = "PROPOSED" => q.id \in flagged
    BY DEF NothingSilent
  <2>1. PICK r \in ledger :
            /\ Carries(r, q, existing[x])
            /\ q.supersedes = IF r.id = existing[x] THEN candidate[x] ELSE r.supersedes
    BY <1>1, CloseLinks
  <2>2. q.id = r.id /\ q.state = r.state
    BY <2>1 DEF Carries
  <2>3. pc'[x] \in {"announce", "raised"}
    BY <1>0 DEF Typed, TypeOK
  <2>4. CASE r.id = existing[x]
    BY <1>0, <2>1, <2>2, <2>3, <2>4 DEF NothingSilent
  <2>5. CASE r.id # existing[x]
    <3>1. q.open <=> r.open
      BY <2>1, <2>5 DEF Carries
    <3> QED BY <1>0, <2>1, <2>2, <2>5, <3>1 DEF NothingSilent, Typed, TypeOK
  <2> QED BY <2>4, <2>5
<1> QED
  BY <1>5, <1>6, <1>7, <1>9, <1>10, <1>11 DEF Inv

\* save, before anything is said of what the extraction does next: the table
\* with the candidate in it keeps what the invariant says of the others.
LEMMA SavedRow ==
    ASSUME Inv, NEW x \in Records, pc[x] \in {"save", "propose"}, ledger' = Saved(x)
    PROVE  /\ Ids' = Ids \cup {candidate[x]}
           /\ IdUnique'
           /\ \A q \in ledger' : q \in ledger \/ (q.id = candidate[x] /\ q.open
                  /\ q.state = IF pc[x] = "propose" THEN "PROPOSED" ELSE "ACTIVE")
           /\ candidate[x] \in Facts \ Ids
           /\ candidate[x] \in flagged <=> pc[x] = "propose"
<1>1. candidate[x] \in Facts /\ existing[x] \in Facts \cup {NoFact}
  BY DEF Inv, Typed, TypeOK, Facing
<1>2. candidate[x] \notin Ids /\ (candidate[x] \in flagged <=> pc[x] = "propose")
  BY DEF Inv, Fresh, Facing
<1>3. PICK q \in Fact :
          /\ ledger' = ledger \cup {q}
          /\ q.id = candidate[x] /\ q.open
          /\ q.state = IF pc[x] = "propose" THEN "PROPOSED" ELSE "ACTIVE"
  BY <1>1, SaveAdds
<1>4. Ids' = Ids \cup {candidate[x]}
  BY <1>3, SavedIds
<1>5. IdUnique'
  BY <1>2, <1>3 DEF Inv, IdUnique, Ids
<1> QED BY <1>1, <1>2, <1>3, <1>4, <1>5

LEMMA InvSave == ASSUME Inv, NEW x \in Records, Save(x), Typed' PROVE Inv'
<1> USE FactLedgerAssumption DEF To, told
<1>0. /\ Typed /\ IdUnique /\ Minting /\ Fresh /\ Pursuit /\ Told
      /\ EventsTruthful /\ NothingSilent
  BY DEF Inv
<1>1. /\ pc[x] \in {"save", "propose"} /\ ledger' = Saved(x) /\ NextItem(x)
      /\ saved' = [saved EXCEPT ![x] = @ \cup {candidate[x]}]
      /\ UNCHANGED <<superseded, flagged, extracted>>
  BY DEF Save
<1>2. /\ Ids' = Ids \cup {candidate[x]}
      /\ IdUnique'
      /\ \A q \in ledger' : q \in ledger \/ (q.id = candidate[x] /\ q.open
             /\ q.state = IF pc[x] = "propose" THEN "PROPOSED" ELSE "ACTIVE")
      /\ candidate[x] \in Facts \ Ids
      /\ candidate[x] \in flagged <=> pc[x] = "propose"
  BY <1>1, SavedRow
<1>3. /\ existing'[x] = NoFact
      /\ \A y \in Records \ {x} : existing'[y] = existing[y] /\ pc'[y] = pc[y]
                                   /\ candidate'[y] = candidate[y]
      /\ pc'[x] \in {"lookup", "emit", "raised"}
      /\ pc'[x] = "lookup" => candidate'[x] \in Facts \ minted
  BY <1>0, <1>1 DEF NextItem, Typed, TypeOK
<1>4. Minting'
  BY <1>0, <1>1, <1>2 DEF Minting, NextItem, Typed, TypeOK
<1>5. Fresh'
  <2> SUFFICES ASSUME NEW y \in Records, Facing(y)'
               PROVE  /\ candidate'[y] \notin Ids'
                      /\ candidate'[y] \in flagged' <=> pc'[y] = "propose"
    BY DEF Fresh
  <2>1. CASE y = x
    BY <1>0, <1>1, <1>2, <1>3, <2>1 DEF Facing, Minting
  <2>2. CASE y # x
    <3>1. Facing(y) /\ pc'[y] = pc[y] /\ candidate'[y] = candidate[y]
      BY <1>3, <2>2 DEF Facing
    <3>2. candidate[y] # candidate[x]
      BY <1>0, <1>2, <2>2 DEF Minting
    <3> QED BY <1>0, <1>1, <1>2, <3>1, <3>2 DEF Fresh
  <2> QED BY <2>1, <2>2
<1>6. Pursuit'
  <2> SUFFICES ASSUME NEW y \in Records, existing'[y] # NoFact
               PROVE  /\ pc'[y] \in {"close", "announce", "save", "raised", "lost"}
                      /\ existing'[y] \in Ids'
                      /\ pc'[y] \in {"announce", "save"} =>
                            \A r \in ledger' : r.id = existing'[y] => ~r.open
                      /\ pc'[y] = "save" => \E e \in superseded' : e[2] = existing'[y]
    BY DEF Pursuit
  <2>1. y # x /\ existing'[y] = existing[y] /\ pc'[y] = pc[y] /\ existing[y] # NoFact
    BY <1>3
  <2>2. existing[y] \in Ids
    BY <1>0, <2>1 DEF Pursuit
  <2> QED BY <1>0, <1>1, <1>2, <2>1, <2>2 DEF Pursuit
<1>7. Told'
  BY <1>0, <1>1, <1>2 DEF Told, Typed, TypeOK
<1>8. EventsTruthful'
  BY <1>0, <1>1, <1>2 DEF EventsTruthful, Told
<1>9. NothingSilent'
  <2>0. flagged \subseteq flagged' /\ superseded \subseteq superseded'
    BY <1>1
  <2>1. ASSUME NEW q \in ledger', q \notin ledger
        PROVE  Plain(q)'
    <3>1. /\ q.id = candidate[x] /\ q.open
          /\ q.state = IF pc[x] = "propose" THEN "PROPOSED" ELSE "ACTIVE"
      BY <1>2, <2>1
    <3>2. CASE pc[x] = "propose"
      BY <1>2, <2>0, <3>1, <3>2 DEF Plain
    <3>3. CASE pc[x] # "propose"
      BY <3>1, <3>3 DEF Plain
    <3> QED BY <3>2, <3>3
  <2>2. \A y \in Records : pc[y] \in {"announce", "raised", "lost"} =>
            /\ pc'[y] \in {"announce", "raised", "lost"}
            /\ candidate'[y] = candidate[y] /\ existing'[y] = existing[y]
    BY <1>1, <1>3
  <2> QED BY <1>0, <2>0, <2>1, <2>2, SilentStays
<1> QED BY <1>2, <1>4, <1>5, <1>6, <1>7, <1>8, <1>9 DEF Inv

LEMMA InvRaises == ASSUME Inv, NEW x \in Records, Raises(x), Typed' PROVE Inv'
<1> USE FactLedgerAssumption DEF To, told
<1>0. /\ Typed /\ IdUnique /\ Minting /\ Fresh /\ Pursuit /\ Told
      /\ EventsTruthful /\ NothingSilent
  BY DEF Inv
<1>1. /\ pc' = [pc EXCEPT ![x] = "raised"] /\ pc[x] \in Live \ {"llm"}
      /\ UNCHANGED <<minted, candidate, existing, saved, superseded, flagged, extracted>>
  BY DEF Raises
<1>2. CASE ledger' = ledger
  <2>1. Ids' = Ids
    BY <1>2, SameIds
  <2>2. IdUnique' /\ Minting' /\ Told' /\ EventsTruthful'
    BY <1>0, <1>1, <1>2, <2>1 DEF IdUnique, Minting, Told, EventsTruthful
  <2>3. Fresh' /\ Pursuit'
    BY <1>0, <1>1, <1>2, <2>1 DEF Fresh, Facing, Pursuit, Typed, TypeOK
  <2>4. NothingSilent'
    BY <1>0, <1>1, <1>2 DEF NothingSilent, Typed, TypeOK
  <2> QED BY <2>2, <2>3, <2>4 DEF Inv
<1>3. CASE /\ Backend = "postgres" /\ pc[x] = "close"
           /\ ledger' = CloseFact(existing[x], candidate[x])
  BY <1>1, <1>3, InvClosing
<1>4. CASE pc[x] \in {"save", "propose"} /\ ledger' = Saved(x)
  <2>1. /\ Ids' = Ids \cup {candidate[x]}
        /\ IdUnique'
        /\ \A q \in ledger' : q \in ledger \/ (q.id = candidate[x] /\ q.open
               /\ q.state = IF pc[x] = "propose" THEN "PROPOSED" ELSE "ACTIVE")
        /\ candidate[x] \in Facts \ Ids
        /\ candidate[x] \in flagged <=> pc[x] = "propose"
    BY <1>4, SavedRow
  <2>2. candidate[x] \in minted
    BY <1>0, <2>1 DEF Minting
  <2>3. Minting' /\ Told'
    BY <1>0, <1>1, <2>1, <2>2 DEF Minting, Told
  <2>4. Fresh'
    <3> SUFFICES ASSUME NEW y \in Records, Facing(y)'
                 PROVE  /\ candidate[y] \notin Ids'
                        /\ candidate[y] \in flagged <=> pc'[y] = "propose"
      BY <1>1 DEF Fresh
    <3>1. y # x /\ Facing(y) /\ pc'[y] = pc[y]
      BY <1>0, <1>1 DEF Facing, Typed, TypeOK
    <3>2. candidate[y] # candidate[x]
      BY <1>0, <2>1, <3>1 DEF Minting
    <3> QED BY <1>0, <2>1, <3>1, <3>2 DEF Fresh
  <2>5. Pursuit'
    <3> SUFFICES ASSUME NEW y \in Records, existing[y] # NoFact
                 PROVE  /\ pc'[y] \in {"close", "announce", "save", "raised", "lost"}
                        /\ existing[y] \in Ids'
                        /\ pc'[y] \in {"announce", "save"} =>
                              \A r \in ledger' : r.id = existing[y] => ~r.open
                        /\ pc'[y] = "save" => \E e \in superseded : e[2] = existing[y]
      BY <1>1 DEF Pursuit
    <3>1. existing[y] \in Ids /\ existing[y] # candidate[x]
      BY <1>0, <2>1 DEF Pursuit
    <3>2. pc'[y] = "raised" \/ pc'[y] = pc[y]
      BY <1>0, <1>1 DEF Typed, TypeOK
    <3> QED BY <1>0, <2>1, <3>1, <3>2 DEF Pursuit
  <2>6. EventsTruthful'
    BY <1>0, <1>1, <2>1 DEF EventsTruthful, Told
  <2>7. NothingSilent'
    BY <1>0, <1>1, <2>1 DEF NothingSilent, Typed, TypeOK
  <2> QED BY <2>1, <2>3, <2>4, <2>5, <2>6, <2>7 DEF Inv
<1> QED BY <1>2, <1>3, <1>4 DEF Raises

LEMMA InvNext == Inv /\ [Next]_vars => Inv'
<1> SUFFICES ASSUME Inv, [Next]_vars PROVE Inv'
  OBVIOUS
<1>0. Typed'
  BY TypedNext DEF Inv
<1>1. ASSUME NEW x \in Records, Begin(x) \/ Raises(x) PROVE Inv'
  BY <1>0, <1>1, InvBegin, InvRaises
<1>2. ASSUME NEW x \in Records, Close(x) PROVE Inv'
  <2>1. CASE CloseRaises(existing[x], candidate[x])
    <3>1. Ids' = Ids /\ ledger' = ledger /\ pc' = [pc EXCEPT ![x] = "raised"]
      BY <1>2, <2>1, SameIds DEF Close, To
    <3> QED BY <1>0, <1>2, <3>1 DEF Close, told, Inv, IdUnique, Minting, Fresh, Facing,
               Pursuit, Told, EventsTruthful, NothingSilent, Typed, TypeOK
  <2>2. CASE ~CloseRaises(existing[x], candidate[x])
    <3>1. Backend = "postgres"
      BY <1>2, <2>2, FactLedgerAssumption DEF CloseRaises, Close, Inv, Fresh, Facing
    <3> QED BY <1>0, <1>2, <2>2, <3>1, InvClosing DEF Close, To
  <2> QED BY <2>1, <2>2
<1>3. ASSUME NEW x \in Records, Step(x) PROVE Inv'
  BY <1>0, <1>2, <1>3, InvAnswer, InvLookup, InvAnnounce, InvFlag, InvSave, InvEmitExtracted
     DEF Step
<1>4. CASE Crash
  BY <1>0, <1>4, InvCrash
<1>5. CASE UNCHANGED vars
  BY <1>0, <1>5, SameIds DEF vars, local, told, Inv, IdUnique, Minting, Fresh, Facing, Pursuit,
                   Told, EventsTruthful, NothingSilent
<1> QED BY <1>1, <1>3, <1>4, <1>5 DEF Next

LEMMA SpecInv == Spec => []Inv
  BY InvInit, InvNext, PTL DEF Spec

\* Observers are never told what the table does not say: a superseded fact has
\* ended, a flagged one is not ACTIVE, an extracted one is stored.
THEOREM EventsAreTruthful == Spec => []EventsTruthful
<1>1. Inv => EventsTruthful
  BY DEF Inv
<1> QED BY <1>1, SpecInv, PTL

\* And the table does not change behind their backs, save by an extraction that
\* was cut off between its statement and its event.
THEOREM NothingIsSilent == Spec => []NothingSilent
<1>1. Inv => NothingSilent
  BY DEF Inv
<1> QED BY <1>1, SpecInv, PTL

-----------------------------------------------------------------------------
(* Current truth *)

\* A candidate goes after a fact of its own topic, and one that is to be
\* PROPOSED has met a fact of its topic.
Rivals ==
    \A x \in Records :
        /\ existing[x] # NoFact =>
              candidate[x] \in Facts /\ TopicOf[existing[x]] = TopicOf[candidate[x]]
        /\ pc[x] \in {"flag", "propose"} =>
              \E r \in ledger : TopicOf[r.id] = TopicOf[candidate[x]]

CurrentInv == Inv /\ Rivals /\ CurrentUnlessCutOff

IsCurrent(q, t) == TopicOf[q.id] = t /\ q.state = "ACTIVE" /\ q.open

LEMMA CurrentRows == \A t : Current(t) = {q \in ledger : IsCurrent(q, t)}
  BY DEF Current, IsCurrent

\* The ids of a table never go, so neither do the topics it has facts about.
LEMMA TopicsStay ==
    ASSUME NEW t, Ids \subseteq Ids', \E r \in ledger : TopicOf[r.id] = t
    PROVE  \E r \in ledger' : TopicOf[r.id] = t
  BY DEF Ids

LEMMA IdsGrow == ASSUME Inv, [Next]_vars PROVE Ids \subseteq Ids'
<1>1. ASSUME NEW x \in Records, Begin(x) \/ Step(x) \/ Raises(x)
      PROVE  \/ ledger' = ledger
             \/ pc[x] = "close" /\ ledger' = CloseFact(existing[x], candidate[x])
             \/ pc[x] \in {"save", "propose"} /\ ledger' = Saved(x)
  BY <1>1 DEF Begin, Step, Answer, Lookup, Close, Announce, Flag, Save, EmitExtracted, Raises
<1>2. ASSUME NEW x \in Records, pc[x] = "close",
             ledger' = CloseFact(existing[x], candidate[x])
      PROVE  Ids' = Ids
  BY <1>2, ClosedIds DEF Inv, Typed, TypeOK, Facing
<1>3. ASSUME NEW x \in Records, pc[x] \in {"save", "propose"}, ledger' = Saved(x)
      PROVE  Ids \subseteq Ids'
  BY <1>3, SavedRow
<1>4. Crash \/ UNCHANGED vars => ledger' = ledger
  BY DEF Crash, vars
<1> QED BY <1>1, <1>2, <1>3, <1>4, SameIds DEF Next

LEMMA RivalsNext == ASSUME Inv, Rivals, [Next]_vars, Typed' PROVE Rivals'
<1> USE DEF To, told
<1>0. Typed
  BY DEF Inv
<1>1. Ids \subseteq Ids'
  BY IdsGrow
<1>2. SUFFICES ASSUME NEW y \in Records
               PROVE  /\ existing'[y] # NoFact =>
                            /\ candidate'[y] \in Facts
                            /\ TopicOf[existing'[y]] = TopicOf[candidate'[y]]
                      /\ pc'[y] \in {"flag", "propose"} =>
                            \E r \in ledger : TopicOf[r.id] = TopicOf[candidate'[y]]
  BY <1>1, TopicsStay DEF Rivals
<1>3. ASSUME NEW x \in Records, Begin(x) \/ Answer(x) \/ Save(x)
      PROVE  \/ existing'[y] = NoFact /\ pc'[y] \notin {"flag", "propose"}
             \/ existing'[y] = existing[y] /\ pc'[y] = pc[y] /\ candidate'[y] = candidate[y]
             \/ existing'[y] = existing[y] /\ pc'[y] \in {"llm", "error"} /\ candidate'[y] = candidate[y]
  BY <1>0, <1>3 DEF Begin, Answer, Save, NextItem, Typed, TypeOK
<1>4. ASSUME NEW x \in Records, Lookup(x)
      PROVE  /\ existing'[y] # NoFact =>
                   /\ candidate'[y] \in Facts
                   /\ TopicOf[existing'[y]] = TopicOf[candidate'[y]]
             /\ pc'[y] \in {"flag", "propose"} =>
                   \E r \in ledger : TopicOf[r.id] = TopicOf[candidate'[y]]
  <2>1. CASE y # x
    BY <1>0, <1>4, <2>1 DEF Lookup, Rivals, Typed, TypeOK
  <2>2. CASE y = x
    <3>1. candidate[x] \in Facts /\ candidate' = candidate
      BY <1>0, <1>4 DEF Lookup, Typed, Facing
    <3>2. CASE ActiveFacts(TopicOf[candidate[x]]) = {}
      BY <1>0, <1>4, <2>2, <3>1, <3>2 DEF Lookup, Rivals, Typed, TypeOK
    <3>3. CASE ActiveFacts(TopicOf[candidate[x]]) # {}
      <4>1. \A r \in ActiveFacts(TopicOf[candidate[x]]) :
                r \in ledger /\ TopicOf[r.id] = TopicOf[candidate[x]]
        BY DEF ActiveFacts
      <4> QED BY <1>0, <1>4, <2>2, <3>1, <3>3, <4>1 DEF Lookup, Rivals, Typed, TypeOK
    <3> QED BY <3>2, <3>3
  <2> QED BY <2>1, <2>2
<1>5. ASSUME NEW x \in Records,
             Close(x) \/ Announce(x) \/ Flag(x) \/ EmitExtracted(x) \/ Raises(x)
      PROVE  /\ existing' = existing /\ candidate' = candidate
             /\ pc'[y] = "propose" => pc[y] \in {"flag", "propose"}
             /\ pc'[y] = "flag" => pc[y] = "flag"
  BY <1>0, <1>5 DEF Close, Announce, Flag, EmitExtracted, Raises, Typed, TypeOK
<1>6. Crash \/ UNCHANGED vars =>
          /\ existing' = existing /\ candidate' = candidate
          /\ pc'[y] = pc[y] \/ pc'[y] = "lost"
  BY DEF Crash, vars, local
<1> QED BY <1>3, <1>4, <1>5, <1>6 DEF Next, Step, Rivals

\* A topic stays known when the table only grows, by facts of topics that are
\* known, and no extraction that was cut off is forgotten.
LEMMA KnownCarries ==
    ASSUME CurrentUnlessCutOff, ledger \subseteq ledger',
           \A q \in ledger' \ ledger :
               \/ IsCurrent(q, TopicOf[q.id])
               \/ \E r \in ledger : TopicOf[r.id] = TopicOf[q.id],
           \A y \in Records : CutOff(y) =>
               \/ \E q \in ledger' : IsCurrent(q, TopicOf[candidate[y]])
               \/ CutOff(y)' /\ candidate'[y] = candidate[y]
    PROVE  CurrentUnlessCutOff'
<1> DEFINE Known(t) == \/ \E q \in ledger' : IsCurrent(q, t)
                       \/ \E y \in Records : CutOff(y)' /\ TopicOf[candidate'[y]] = t
<1>1. ASSUME NEW r \in ledger PROVE Known(TopicOf[r.id])
  <2>1. CASE \E c \in ledger : IsCurrent(c, TopicOf[r.id])
    BY <2>1
  <2>2. CASE \E y \in Records : CutOff(y) /\ TopicOf[candidate[y]] = TopicOf[r.id]
    BY <2>2
  <2>3. Current(TopicOf[r.id]) # {} \/ \E y \in Records :
            CutOff(y) /\ TopicOf[candidate[y]] = TopicOf[r.id]
    BY DEF CurrentUnlessCutOff
  <2> QED BY <2>1, <2>2, <2>3, CurrentRows
<1>2. ASSUME NEW q \in ledger' PROVE Known(TopicOf[q.id])
  BY <1>1
<1>3. \A t : Known(t) => \/ Current(t)' # {}
                         \/ \E y \in Records : CutOff(y)' /\ TopicOf[candidate'[y]] = t
  BY DEF Current, IsCurrent
<1> HIDE DEF Known
<1> QED BY <1>2, <1>3 DEF CurrentUnlessCutOff

\* Closing a fact leaves its topic to the extraction that did it.
LEMMA KnownClosing ==
    ASSUME CurrentInv, NEW x \in Records, pc[x] = "close",
           ledger' = CloseFact(existing[x], candidate[x]),
           \/ pc' = [pc EXCEPT ![x] = "announce"]
           \/ pc' = [pc EXCEPT ![x] = "raised"],
           UNCHANGED <<candidate, existing>>
    PROVE  CurrentUnlessCutOff'
<1>1. /\ existing[x] \in Facts /\ candidate[x] \in Facts \ Ids /\ ledger \subseteq Fact
      /\ existing[x] # NoFact /\ TopicOf[existing[x]] = TopicOf[candidate[x]]
  BY FactLedgerAssumption DEF CurrentInv, Inv, Typed, TypeOK, Facing, Fresh, Rivals
<1>2. Ids' = Ids
  BY <1>1, ClosedIds
<1>3. CutOff(x)'
  BY <1>1, <1>2 DEF CutOff, CurrentInv, Inv, Typed, TypeOK
<1>4. ASSUME NEW y \in Records, CutOff(y) PROVE CutOff(y)'
  BY <1>2, <1>4 DEF CutOff, CurrentInv, Inv, Typed, TypeOK
<1> SUFFICES ASSUME NEW q \in ledger'
             PROVE  \/ Current(TopicOf[q.id])' # {}
                    \/ \E y \in Records : CutOff(y)' /\ TopicOf[candidate[y]] = TopicOf[q.id]
  BY DEF CurrentUnlessCutOff
<1>5. PICK r \in ledger : Carries(r, q, existing[x])
  BY <1>1, CloseCarries
<1>6. TopicOf[r.id] = TopicOf[q.id]
  BY <1>5 DEF Carries
<1>7. CASE TopicOf[q.id] = TopicOf[existing[x]]
  BY <1>1, <1>3, <1>7
<1>8. ASSUME TopicOf[q.id] # TopicOf[existing[x]], NEW c \in Current(TopicOf[r.id])
      PROVE  Current(TopicOf[q.id])' # {}
  <2>1. c \in ledger /\ TopicOf[c.id] = TopicOf[q.id] /\ c.state = "ACTIVE" /\ c.open
    BY <1>6 DEF Current
  <2>2. PICK d \in ledger' : Carries(c, d, existing[x])
    BY <1>1, <2>1, CloseCarries
  <2>3. d.id = c.id /\ d.state = "ACTIVE" /\ d.open
    BY <1>8, <2>1, <2>2 DEF Carries
  <2>4. d \in Current(TopicOf[q.id])'
    BY <2>1, <2>3 DEF Current
  <2> QED BY <2>4
<1> QED BY <1>4, <1>6, <1>7, <1>8 DEF CurrentInv, CurrentUnlessCutOff

\* Saving a fact makes it current, or proposes it beside facts of its topic.
LEMMA KnownSaving ==
    ASSUME CurrentInv, NEW x \in Records, pc[x] \in {"save", "propose"},
           ledger' = Saved(x),
           \A y \in Records \ {x} : /\ candidate'[y] = candidate[y]
                                    /\ existing'[y] = existing[y] /\ pc'[y] = pc[y]
    PROVE  CurrentUnlessCutOff'
<1>1. /\ Ids' = Ids \cup {candidate[x]}
      /\ \A q \in ledger' : q \in ledger \/ (q.id = candidate[x] /\ q.open
             /\ q.state = IF pc[x] = "propose" THEN "PROPOSED" ELSE "ACTIVE")
      /\ candidate[x] \in Facts \ Ids
  BY SavedRow DEF CurrentInv
<1>2. ledger \subseteq ledger'
  BY DEF Saved, SaveFact
<1>3. \E q \in ledger' : q.id = candidate[x]
  BY <1>1 DEF Ids
<1>4. \A q \in ledger' \ ledger :
          q.id = candidate[x] /\ (pc[x] = "save" => IsCurrent(q, TopicOf[candidate[x]]))
  BY <1>1 DEF IsCurrent
<1>5. ASSUME NEW q \in ledger' \ ledger
      PROVE  \/ IsCurrent(q, TopicOf[q.id])
             \/ \E r \in ledger : TopicOf[r.id] = TopicOf[q.id]
  <2>1. CASE pc[x] = "save"
    BY <1>4, <2>1
  <2>2. CASE pc[x] = "propose"
    BY <1>4, <2>2 DEF CurrentInv, Rivals
  <2> QED BY <2>1, <2>2
<1>6. ASSUME NEW y \in Records, CutOff(y)
      PROVE  \/ \E q \in ledger' : IsCurrent(q, TopicOf[candidate[y]])
             \/ CutOff(y)' /\ candidate'[y] = candidate[y]
  <2>1. CASE y = x
    <3>1. pc[x] = "save"
      BY <1>6, <2>1 DEF CutOff
    <3>2. PICK q \in ledger' : q.id = candidate[x]
      BY <1>3
    <3>3. q \notin ledger
      BY <1>1, <3>2 DEF Ids
    <3> QED BY <1>4, <2>1, <3>1, <3>2, <3>3
  <2>2. CASE y # x
    <3>1. candidate[y] # candidate[x]
      BY FactLedgerAssumption, <1>1, <2>2 DEF CurrentInv, Inv, Minting
    <3> QED BY <1>1, <1>6, <2>2, <3>1 DEF CutOff
  <2> QED BY <2>1, <2>2
<1> QED BY <1>2, <1>5, <1>6, KnownCarries DEF CurrentInv

LEMMA CurrentNext == CurrentInv /\ [Next]_vars => CurrentInv'
<1> SUFFICES ASSUME CurrentInv, [Next]_vars PROVE CurrentInv'
  OBVIOUS
<1> USE DEF To, told
<1>0. Inv' /\ Typed' /\ Typed /\ Rivals'
  BY InvNext, RivalsNext DEF CurrentInv, Inv
<1>1. ASSUME ledger' = ledger,
             \A y \in Records : CutOff(y) => CutOff(y)' /\ candidate'[y] = candidate[y]
      PROVE  CurrentUnlessCutOff'
  BY <1>1, KnownCarries DEF CurrentInv
<1>2. ASSUME NEW x \in Records,
             Begin(x) \/ Answer(x) \/ Lookup(x) \/ Announce(x) \/ Flag(x) \/ EmitExtracted(x)
      PROVE  CurrentUnlessCutOff'
  <2>1. ledger' = ledger
    BY <1>2 DEF Begin, Answer, Lookup, Announce, Flag, EmitExtracted
  <2>2. ASSUME NEW y \in Records, CutOff(y)
        PROVE  CutOff(y)' /\ candidate'[y] = candidate[y]
    BY <1>0, <1>2, <2>1, <2>2, SameIds
       DEF Begin, Answer, NextItem, Lookup, Announce, Flag, EmitExtracted, CutOff, Typed, TypeOK
  <2> QED BY <1>1, <2>1, <2>2
<1>3. ASSUME NEW x \in Records, Close(x) PROVE CurrentUnlessCutOff'
  <2>1. CASE CloseRaises(existing[x], candidate[x])
    <3>1. ledger' = ledger
      BY <1>3, <2>1 DEF Close
    <3>2. ASSUME NEW y \in Records, CutOff(y)
          PROVE  CutOff(y)' /\ candidate'[y] = candidate[y]
      BY <1>0, <1>3, <3>1, <3>2, SameIds DEF Close, CutOff, Typed, TypeOK
    <3> QED BY <1>1, <3>1, <3>2
  <2>2. CASE ~CloseRaises(existing[x], candidate[x])
    BY <1>3, <2>2, KnownClosing DEF Close
  <2> QED BY <2>1, <2>2
<1>4. ASSUME NEW x \in Records, Save(x) PROVE CurrentUnlessCutOff'
  BY <1>0, <1>4, KnownSaving DEF Save, NextItem, Typed, TypeOK
<1>5. ASSUME NEW x \in Records, Raises(x) PROVE CurrentUnlessCutOff'
  <2>1. pc' = [pc EXCEPT ![x] = "raised"] /\ UNCHANGED <<candidate, existing>>
    BY <1>5 DEF Raises
  <2>2. CASE ledger' = ledger
    <3>1. ASSUME NEW y \in Records, CutOff(y)
          PROVE  CutOff(y)' /\ candidate'[y] = candidate[y]
      BY <1>0, <2>1, <2>2, <3>1, SameIds DEF CutOff, Typed, TypeOK
    <3> QED BY <1>1, <2>2, <3>1
  <2>3. CASE pc[x] = "close" /\ ledger' = CloseFact(existing[x], candidate[x])
    BY <2>1, <2>3, KnownClosing
  <2>4. CASE pc[x] \in {"save", "propose"} /\ ledger' = Saved(x)
    BY <1>0, <2>1, <2>4, KnownSaving DEF Typed, TypeOK
  <2> QED BY <1>5, <2>2, <2>3, <2>4 DEF Raises
<1>6. CASE Crash
  <2>1. ASSUME NEW y \in Records, CutOff(y)
        PROVE  CutOff(y)' /\ candidate'[y] = candidate[y]
    BY <1>0, <1>6, <2>1, SameIds DEF Crash, CutOff, Live, Typed, TypeOK
  <2>2. ledger' = ledger
    BY <1>6 DEF Crash
  <2> QED BY <1>0, <1>1, <2>1, <2>2 DEF CurrentInv
<1>7. CASE UNCHANGED vars
  <2>1. ASSUME NEW y \in Records, CutOff(y)
        PROVE  CutOff(y)' /\ candidate'[y] = candidate[y]
    BY <1>7, <2>1, SameIds DEF vars, local, CutOff
  <2>2. ledger' = ledger
    BY <1>7 DEF vars
  <2> QED BY <1>0, <1>1, <2>1, <2>2 DEF CurrentInv
<1> QED BY <1>0, <1>2, <1>3, <1>4, <1>5, <1>6, <1>7 DEF Next, Step, CurrentInv

\* A topic facts are known about keeps a current one, whatever races, faults and
\* crashes there are, until an extraction is cut off between close_fact and save.
THEOREM CurrentIsKept == Spec => []CurrentUnlessCutOff
<1>1. Init => CurrentInv
  <2> SUFFICES ASSUME Init PROVE CurrentInv
    OBVIOUS
  <2>1. Inv
    BY InvInit
  <2> QED BY <2>1 DEF Init, CurrentInv, Rivals, CurrentUnlessCutOff
<1>2. CurrentInv => CurrentUnlessCutOff
  BY DEF CurrentInv
<1> QED BY <1>1, <1>2, CurrentNext, PTL DEF Spec

\* SQLite never ends a fact on behalf of one it does not hold, so what it knows
\* current truth about stays known through any race, fault and crash.
THEOREM SqliteKeepsKnown ==
    ASSUME Backend = "sqlite"
    PROVE  Spec => KnownStaysKnown
<1>1. Inv /\ [Next]_vars => [\A t \in Topics : Current(t) # {} => Current(t)' # {}]_vars
  <2> SUFFICES ASSUME Inv, [Next]_vars
               PROVE  \A t \in Topics : Current(t) # {} => Current(t)' # {}
    OBVIOUS
  <2>1. ASSUME NEW x \in Records, Begin(x) \/ Step(x) \/ Raises(x)
        PROVE  ledger \subseteq ledger'
    <3>1. pc[x] = "close" => CloseRaises(existing[x], candidate[x])
      BY DEF CloseRaises, Inv, Fresh, Facing
    <3> QED BY <2>1, <3>1 DEF Begin, Step, Answer, Lookup, Close, Announce, Flag, Save, Saved,
                              SaveFact, EmitExtracted, Raises
  <2>2. Crash \/ UNCHANGED vars => ledger \subseteq ledger'
    BY DEF Crash, vars
  <2>3. ledger \subseteq ledger'
    BY <2>1, <2>2 DEF Next
  <2> QED BY <2>3 DEF Current
<1> QED BY <1>1, SpecInv, PTL DEF Spec, KnownStaysKnown
=============================================================================
