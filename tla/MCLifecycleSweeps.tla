-------------------------- MODULE MCLifecycleSweeps --------------------------
(* Instances of LifecycleSweeps for TLC: whose the records are, who sweeps. *)
EXTENDS LifecycleSweeps, TLC

CONSTANTS p1, p2, w1, w2, w3

\* The scheduler's two loops beside the end of a session.
LoopsAndSession == w1 :> "consolidation" @@ w2 :> "session" @@ w3 :> "decay"
SessionOfFirst == w1 :> NoPrincipal @@ w2 :> p1 @@ w3 :> NoPrincipal

\* Two records are of one principal, one of another, and one sector is empty.
TwoOwners == [i \in Records |-> IF i = 2 THEN p2 ELSE p1]
TwoSectors == [i \in Records |-> "SEMANTIC"]
\* A policy that disables consolidation, one that leaves it to the schedule.
Choices == {[enabled |-> FALSE, trigger |-> "SESSION_END"],
            [enabled |-> TRUE, trigger |-> "SCHEDULE"]}
SectorOrder == <<"EPISODIC", "SEMANTIC">>
=============================================================================
