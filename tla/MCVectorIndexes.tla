--------------------------- MODULE MCVectorIndexes ---------------------------
(* An instance of VectorIndexes for TLC: tenants, prefixes and vector sizes. *)
EXTENDS VectorIndexes, TLC

CONSTANTS t1, t2, x1, x2, c1, c2

\* Two tenants whose ids begin with the same eight characters.
SharedPrefix == t1 :> "tenant-0" @@ t2 :> "tenant-0"

\* The nearest and the farthest document are the first tenant's.
Interleaved == [i \in Ids |-> IF i = 2 THEN t2 ELSE t1]

\* The second model's vectors are larger.
TwoSizes == x1 :> 1536 @@ x2 :> 3072

Upserts(S, x, s) ==
    {[kind |-> "upsert", id |-> i, tenant |-> Interleaved[i], model |-> x, state |-> s,
      named |-> TRUE] : i \in S}
Delete(i, t) ==
    [kind |-> "delete", id |-> i, tenant |-> t, model |-> x1, state |-> "ACTIVE", named |-> TRUE]
Search(t, x, n) ==
    [kind |-> "search", id |-> 1, tenant |-> t, model |-> x, state |-> "ACTIVE", named |-> n]

\* The first document changes state and model and is deleted, by a stranger too;
\* the others come and stay.
Mix ==
    Upserts(Ids, x1, "ACTIVE") \cup Upserts({1}, x1, "DECAYED") \cup Upserts({1}, x2, "ACTIVE")
        \cup {Delete(1, t1), Delete(1, t2), Search(t1, x1, TRUE), Search(t2, x1, TRUE),
              Search(t1, x1, FALSE), Search(t1, x2, TRUE)}

Interchangeable == Permutations({c1, c2})
=============================================================================
