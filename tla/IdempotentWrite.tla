--------------------------- MODULE IdempotentWrite ---------------------------
(***************************************************************************)
(* What the write contract promises, and nothing of how it is kept: a      *)
(* record is accepted into a durable set at most once per tenant and key,  *)
(* and only accepted records are acknowledged.  Records are never lost and *)
(* acknowledgements never withdrawn.                                       *)
(***************************************************************************)
CONSTANTS Tenants, Keys, NoKey, MemoryIds

VARIABLES
    accepted,       \* durable records
    acknowledged    \* records some client holds a WriteResult for

Record == [id: MemoryIds, tenant: Tenants, key: Keys \cup {NoKey}]

Init == accepted = {} /\ acknowledged = {}

Accept(e) ==
    /\ \A d \in accepted : d.id # e.id
    /\ e.key # NoKey => \A d \in accepted : ~(d.tenant = e.tenant /\ d.key = e.key)
    /\ accepted' = accepted \cup {e}
    /\ UNCHANGED acknowledged

Acknowledge(e) ==
    /\ e \in accepted
    /\ acknowledged' = acknowledged \cup {e}
    /\ UNCHANGED accepted

Next == \E e \in Record : Accept(e) \/ Acknowledge(e)

Spec == Init /\ [][Next]_<<accepted, acknowledged>>

\* Whatever was acknowledged is durable, and one tenant's key names one record.
Promise ==
    /\ acknowledged \subseteq accepted
    /\ \A d, e \in accepted :
          d.id = e.id \/ (d.key # NoKey /\ d.tenant = e.tenant /\ d.key = e.key) => d = e
=============================================================================
