------------------------------ MODULE MCClient ------------------------------
(* Model-checking instances of Client.                                       *)
EXTENDS Client, TLC

\* Servers, and calls of a kind, are interchangeable.
CallSymmetry == Permutations(DB) \cup Permutations(Cache) \cup Permutations(GetCall)

\* What update may find: nothing at all; or one of the two lists is empty, or both are.
AllEmpty == {<<{}, {}>>}
SomeEmpty == {<<{}, {}>>, <<DB, {}>>, <<{}, Cache>>}
=============================================================================
