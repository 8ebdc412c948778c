\* Heartbeats that overlap joins, and two reads.
SPECIFICATION SystemSpec
CONSTANTS
  n1 = n1
  n2 = n2
  c1 = c1
  c2 = c2
  d1 = d1
  Nil = Nil
  Node = {n1, n2}
  DB = {d1}
  Slot = {1, 2}
  Budgets <- SomeBudgets
  Call = {c1, c2}
  To <- SendTo
  Dist <- Distance
CONSTRAINT ReadsLate
INVARIANT SystemNoWaitCycle
