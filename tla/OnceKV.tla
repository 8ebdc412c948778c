------------------------------- MODULE OnceKV -------------------------------
(***************************************************************************)
(* What oncekv promises (README.md): a key/value map in which each key can *)
(* be set one time only.  There is one operation that changes it, Put, and *)
(* nothing ever removes or replaces a pair.  The database nodes, seen      *)
(* through the committed raft log, implement this specification            *)
(* (DBNode.tla).                                                           *)
(***************************************************************************)
CONSTANTS Key,      \* the keys
          Value,    \* the values a client may set
          Nil       \* marks a key that is not set; not a value

VARIABLE kv         \* the pairs set so far

\* Every key unset.
Init == kv = [k \in Key |-> Nil]

\* The first Put of a key sets it; a later one changes nothing, which is a
\* stuttering step.
Put(k, v) ==
  /\ kv[k] = Nil
  /\ kv' = [kv EXCEPT ![k] = v]

Next == \E k \in Key, v \in Value : Put(k, v)

Spec == Init /\ [][Next]_kv
=============================================================================
