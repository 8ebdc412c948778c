---------------------------- MODULE MCDBCluster ----------------------------
(* Model-checking instances of DBCluster.                                    *)
EXTENDS DBCluster, TLC

NodeSymmetry == Permutations(Node)

\* One node at most found the list empty, and the master, one round at a time,
\* looks at the list when no updatePeers is under way.
OneFounder ==
  /\ Cardinality(booted) <= 1
  /\ hb.on => rem = IdleRemoval
  /\ hb.on \/ rem # IdleRemoval => upd = {}
=============================================================================
