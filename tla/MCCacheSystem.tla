--------------------------- MODULE MCCacheSystem ---------------------------
(* Model-checking instance of CacheSystem: two nodes, one call at each.      *)
EXTENDS CacheSystem, TLC

CONSTANTS n1, n2, c1, c2

SendTo == c1 :> n1 @@ c2 :> n2
Distance == n1 :> 1 @@ n2 :> 2

SomeBudgets == {[starts |-> 2, crashes |-> 0, fails |-> 0, faults |-> 0, changes |-> 0]}

\* Only reads made between two heartbeats, when both nodes run, are explored.
ReadsLate ==
  (\E c \in Call : rq[c] # "idle")
    => /\ hb = "idle" /\ \A g \in Slot : snd[g].pc \in {"none", "sync"}
       /\ \A n \in Node : pc[n] = "up" /\ main[n] = Nil /\ hot[n] = Nil
       /\ watch.pc = "none" /\ ~stored
=============================================================================
