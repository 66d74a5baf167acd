------------------------------- MODULE MCRecall -------------------------------
(* An instance of Recall for TLC: rankings, budgets and requests. *)
EXTENDS Recall, TLC

CONSTANTS d1, d2, d3, c1, c2, t1, t2

\* The nearest document is the longest; the farthest has less than four
\* characters.
Sizes == d1 :> 3 @@ d2 :> 2 @@ d3 :> 0

Nearness == <<d1, d2, d3>>
\* By keywords the order is reversed, or the first two change places.
Keywords == {<<d3, d2, d1>>, <<d2, d1, d3>>}

\* The default weights times ten, and a policy that turns to keywords.
Policies == {[x \in Indexes |-> IF x = "VECTOR" THEN 5 ELSE 2],
             [x \in Indexes |-> IF x = "VECTOR" THEN 1 ELSE 8]}

Ask(kind, mode, k, limited, budget) ==
    [kind |-> kind, mode |-> mode, k |-> k, limited |-> limited, budget |-> budget]

Asked ==
    {Ask("recall", mode, 2, TRUE, b) : mode \in {"HYBRID", "SEMANTIC"}, b \in {1, 4}}
        \cup {Ask("recall", "QUALITY", 2, FALSE, 0), Ask("recall", "HYBRID_TEMPORAL", 0, FALSE, 0),
              Ask("search", "KEYWORD", 1, FALSE, 0), Ask("search", "HYBRID", 2, FALSE, 0),
              Ask("search", "GRAPH", 2, FALSE, 0)}

OneStranger == c1 :> t1 @@ c2 :> t2
=============================================================================
