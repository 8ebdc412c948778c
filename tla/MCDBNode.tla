------------------------------ MODULE MCDBNode ------------------------------
(* Model-checking instances of DBNode: the symmetry set TLC may use for      *)
(* safety, and the bounds as constants of the configurations.                *)
EXTENDS DBNode, TLC

NodeSymmetry == Permutations(Node) \cup Permutations(Req)
=============================================================================
