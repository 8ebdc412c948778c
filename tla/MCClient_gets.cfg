\* Two concurrent Gets share the fast cache and the fast database.
SPECIFICATION Spec
CONSTANTS
  d1 = d1
  a1 = a1
  a2 = a2
  g1 = g1
  g2 = g2
  Nil = Nil
  Listing <- SomeEmpty
  DB = {d1}
  Cache = {a1, a2}
  PutCall = {}
  GetCall = {g1, g2}
  LeftFast = {Nil}
  MaxUpdates = 1
SYMMETRY CallSymmetry
INVARIANTS
  GetIsBacked
  SetAndCachesFailFast
