------------------------------- MODULE KVMap -------------------------------
(***************************************************************************)
(* What the index promises: a map from keys to values, in which a put or a *)
(* delete takes effect at one moment and touches no other key.             *)
(***************************************************************************)
CONSTANTS Keys, Values

VARIABLE kv       \* a function from the keys that are present to their values

Init == kv = [k \in {} |-> k]

Put(k, v) == kv' = [j \in DOMAIN kv \cup {k} |-> IF j = k THEN v ELSE kv[j]]

Delete(k) == kv' = [j \in DOMAIN kv \ {k} |-> kv[j]]

Next == \E k \in Keys : Delete(k) \/ \E v \in Values : Put(k, v)

Spec == Init /\ [][Next]_kv

=============================================================================
