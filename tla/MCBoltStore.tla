---------------------------- MODULE MCBoltStore ----------------------------
(* Model-checking instance of BoltStore.                                     *)
EXTENDS BoltStore
=============================================================================
