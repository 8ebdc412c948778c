\* Two nodes lead, although they were started one after the other.
SPECIFICATION Spec
CONSTANTS
  n1 = n1
  n2 = n2
  Node = {n1, n2}
  Nil = Nil
  Staged = TRUE
  MaxCrashes = 0
  MaxFaults = 0
INVARIANT OneGroup
