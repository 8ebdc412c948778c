\* A dead node leaves the list, also when nodes start together, calls of etcd
\* fail and pings are lost.
SPECIFICATION FairSpec
CONSTANTS
  n1 = n1
  n2 = n2
  Node = {n1, n2}
  Nil = Nil
  Staged = FALSE
  MaxCrashes = 1
  MaxFaults = 1
INVARIANTS
  OneBootOneGroup
PROPERTY DeadIsUnlisted
