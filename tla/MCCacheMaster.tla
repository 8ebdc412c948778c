--------------------------- MODULE MCCacheMaster ---------------------------
(* Model-checking instance of CacheMaster.                                   *)
EXTENDS CacheMaster

Allow(s, c, f, e, d) ==
  [starts |-> s, crashes |-> c, fails |-> f, faults |-> e, changes |-> d]

\* Two nodes of which one may crash or start again; one node and all the faults.
SomeBudgets == {Allow(2, 1, 0, 0, 0), Allow(1, 1, 1, 1, 1)}
=============================================================================
