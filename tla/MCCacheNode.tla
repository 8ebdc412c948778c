---------------------------- MODULE MCCacheNode ----------------------------
(* Model-checking instances of CacheNode: two nodes, one call at each.       *)
EXTENDS CacheNode, TLC

CONSTANTS n1, n2, c1, c2

SendTo == c1 :> n1 @@ c2 :> n2
Distance == n1 :> 1 @@ n2 :> 2

\* Heartbeats that name some nodes, the recipient among them.
SomeMeta ==
  [n \in Node |->
    {[pool |-> [kind |-> "node", of |-> S], dbs |-> DB] : S \in {T \in SUBSET Node : n \in T}}]
=============================================================================
