------------------------------ MODULE RankFusion ------------------------------
(***************************************************************************)
(* The arithmetic of a recall: what the planner asks of the indexes, how   *)
(* the ranked lists are merged, and how much of the result fits a budget.  *)
(*                                                                         *)
(* Scores are fractions with denominators 60 + rank.  They are kept as     *)
(* integers, multiplied by Common; the rounding of floats is left out.     *)
(***************************************************************************)
EXTENDS Integers, Sequences, FiniteSets

CONSTANTS
    Documents,          \* ids of memory records
    Tokens,             \* len(content) // 4 of each
    DefaultK,           \* 10 in the source
    MinCandidates,      \* 20 in the source
    Common              \* a multiple of 61, 62, ... as far as lists reach

Modes == {"SEMANTIC", "KEYWORD", "HYBRID", "HYBRID_TEMPORAL", "QUALITY", "GRAPH"}
Indexes == {"VECTOR", "FULL_TEXT", "TEMPORAL", "GRAPH"}
Weights == [Indexes -> Nat]

ASSUME FusionAssumption ==
    /\ Tokens \in [Documents -> Nat]
    /\ DefaultK \in Nat \ {0} /\ MinCandidates \in Nat /\ Common \in Nat

AtMost(a, b) == IF a < b THEN a ELSE b
AtLeast(a, b) == IF a < b THEN b ELSE a

-----------------------------------------------------------------------------
(* DefaultQueryPlanner.plan *)

Targets(mode) ==
    CASE mode = "SEMANTIC" -> {"VECTOR"}
      [] mode = "KEYWORD" -> {"FULL_TEXT"}
      [] mode = "HYBRID" -> {"VECTOR", "FULL_TEXT"}
      [] mode \in {"HYBRID_TEMPORAL", "QUALITY"} -> {"VECTOR", "FULL_TEXT", "TEMPORAL"}
      [] mode = "GRAPH" -> {"GRAPH"}

\* The retrieval has no temporal index to ask.
Fetched(mode) == Targets(mode) \cap {"VECTOR", "FULL_TEXT"}

FinalK(k) == IF k = 0 THEN DefaultK ELSE k

\* Slip: each of two indexes is asked for half of the results.
SharedOut(k) == AtLeast(FinalK(k) \div 2, 1)

Candidates(k) == AtLeast(3 * FinalK(k), MinCandidates)

-----------------------------------------------------------------------------
(* Ranked lists are sequences without repetitions. *)

Ranked(l) == {l[p] : p \in DOMAIN l}
RankOf(l, d) == CHOOSE p \in DOMAIN l : l[p] = d
NoRepeats(l) == \A p, q \in DOMAIN l : l[p] = l[q] => p = q

\* An order of all documents.
IsOrder(o) == o \in Seq(Documents) /\ Ranked(o) = Documents /\ NoRepeats(o)

\* The members of S from first to last of an order of all documents.
InOrder(S, order) == [p \in 1..Cardinality(S) |->
    CHOOSE d \in S : Cardinality({e \in S : RankOf(order, e) < RankOf(order, d)}) = p - 1]

Cut(l, n) == SubSeq(l, 1, AtMost(n, Len(l)))

-----------------------------------------------------------------------------
(* reciprocal_rank_fusion *)

\* Slip: a document's rank counts for it, not against it.
BackToFront(l, weight, d) == IF d \in Ranked(l) THEN weight * RankOf(l, d) ELSE 0

Share(l, weight, d) ==
    IF d \in Ranked(l) THEN weight * (Common \div (60 + RankOf(l, d))) ELSE 0

Score(v, f, w, d) == Share(v, w["VECTOR"], d) + Share(f, w["FULL_TEXT"], d)

\* Equal scores keep the order of insertion: the first list, then the second.
Inserted(v, f, d) == IF d \in Ranked(v) THEN RankOf(v, d) ELSE Len(v) + RankOf(f, d)

Before(v, f, w, d, e) ==
    \/ Score(v, f, w, d) > Score(v, f, w, e)
    \/ Score(v, f, w, d) = Score(v, f, w, e) /\ Inserted(v, f, d) < Inserted(v, f, e)

Fusion(v, f, w) ==
    LET S == Ranked(v) \cup Ranked(f) IN
    [p \in 1..Cardinality(S) |->
        CHOOSE d \in S : Cardinality({e \in S : Before(v, f, w, e, d)}) = p - 1]

\* One list keeps its order, and both are fused.
Merged(mode, v, f, w) ==
    CASE Fetched(mode) = {"VECTOR"} -> v
      [] Fetched(mode) = {"FULL_TEXT"} -> f
      [] OTHER -> Fusion(v, f, w)

-----------------------------------------------------------------------------
(* The budget of RecallMemoryService *)

\* _estimate_tokens.
Estimate(d) == AtLeast(1, Tokens[d])

\* total[n]: the tokens of the first n.
Total(l) == LET total[n \in 0..Len(l)] ==
                    IF n = 0 THEN 0 ELSE total[n - 1] + Estimate(l[n])
            IN total

\* Slip: the item that exhausts the budget is still taken.
OneOver(l, budget) ==
    CHOOSE n \in 0..Len(l) :
        /\ \A m \in 0..n - 1 : Total(l)[m] <= budget
        /\ n < Len(l) => Total(l)[n] > budget

\* How many items are taken before one does not fit.
Fitting(l, budget) ==
    CHOOSE n \in 0..Len(l) :
        /\ Total(l)[n] <= budget
        /\ n < Len(l) => Total(l)[n + 1] > budget
=============================================================================
