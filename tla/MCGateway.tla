------------------------------- MODULE MCGateway -------------------------------
(* An instance of Gateway for TLC: who asks for what. *)
EXTENDS Gateway, TLC

CONSTANTS c1, c2, t1, t2, k1

Ask(surface, op, tenant, key) ==
    [surface |-> surface, op |-> op, tenant |-> tenant, key |-> key,
     complete |-> TRUE, adminKey |-> TRUE]

\* One client writes with a key, the other writes with it too, or asks for anything.
Writers ==
    {Ask(surface, "write", t1, k1) : surface \in {"sdk", "mcp", "http"}}
        \cup {Ask("node", "write", t1, NoKey), Ask("mcp", "write", t2, k1)}

Anything ==
    {Ask("sdk", op, t1, NoKey) : op \in Queries \cup {"explain"}}
        \cup {Ask("mcp", op, t1, NoKey) : op \in ById}
        \cup {Ask("node", "search", t1, NoKey), Ask("http", "ready", Blank, NoKey),
              Ask("sdk", "health", t1, NoKey), Ask("http", "decay", t1, NoKey),
              Ask("http", "write", Blank, k1), Ask("mcp", "recall", Blank, NoKey),
              [Ask("node", "recall", t1, NoKey) EXCEPT !.complete = FALSE],
              [Ask("sdk", "write", t1, k1) EXCEPT !.complete = FALSE]}
        \cup {[Ask("http", "migrate", t1, NoKey) EXCEPT !.adminKey = right] : right \in BOOLEAN}

Traffic == c1 :> Writers @@ c2 :> Writers \cup Anything

Attempts == c1 :> 2 @@ c2 :> 1

IdSymmetry == Permutations(MemoryIds)
=============================================================================
