\* Two nodes: what they cache and answer, and that they answer.
SPECIFICATION FairSpec
CONSTANTS
  n1 = n1
  n2 = n2
  c1 = c1
  c2 = c2
  d1 = d1
  d2 = d2
  Nil = Nil
  Node = {n1, n2}
  DB = {d1, d2}
  Call = {c1, c2}
  To <- SendTo
  Dist <- Distance
  Meta <- SomeMeta
  MaxMeta = 1
  MaxCrashes = 1
INVARIANTS
  TypeOK
  CachedIsStored
  MissIsForgotten
  NoWaitCycle
PROPERTY EveryGetReturns
