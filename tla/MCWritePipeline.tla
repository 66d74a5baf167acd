--------------------------- MODULE MCWritePipeline ---------------------------
(* Instances of WritePipeline for TLC: what the clients ask for. *)
EXTENDS WritePipeline, TLC

CONSTANTS c1, c2, c3, t1, t2, k1

Req(t, k, e, w) == [tenant |-> t, key |-> k, extract |-> e, wait |-> w]

\* Two requests of one tenant race for one key, one waits for its enrichment.
RaceForKey == c1 :> Req(t1, k1, TRUE, TRUE) @@ c2 :> Req(t1, k1, TRUE, FALSE)

\* The same race, and the key in another tenant that wants no extraction.
RaceBesideTenant == RaceForKey @@ c3 :> Req(t2, k1, FALSE, FALSE)

IdSymmetry == Permutations(MemoryIds)
=============================================================================
