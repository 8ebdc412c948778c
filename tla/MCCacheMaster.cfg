\* Two nodes, overlapping heartbeats, a failing etcd, a master that restarts.
SPECIFICATION FairSpec
CONSTANTS
  n1 = n1
  n2 = n2
  d1 = d1
  Nil = Nil
  Node = {n1, n2}
  DB = {d1}
  Slot = {1, 2}
  Budgets <- SomeBudgets
INVARIANTS
  TypeOK
  EtcdIsCurrent
PROPERTIES
  DeadIsDropped
  PeersConverge
