\* A Put beside a Get: both return, and a Put returns what it was told.
SPECIFICATION FairSpec
CONSTANTS
  d1 = d1
  d2 = d2
  a1 = a1
  p1 = p1
  g1 = g1
  Nil = Nil
  Listing <- AllEmpty
  DB = {d1, d2}
  Cache = {a1}
  PutCall = {p1}
  GetCall = {g1}
  LeftFast = {Nil, a1}
  MaxUpdates = 1
INVARIANTS
  TypeOK
  PutIsAnswered
  SetAndCachesFailFast
PROPERTY EveryCallReturns
