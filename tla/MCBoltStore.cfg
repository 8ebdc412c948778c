\* Keys of two bytes of two values each, for indices up to 3.
SPECIFICATION Spec
CONSTANTS
  e1 = e1
  e2 = e2
  k1 = k1
  Nil = Nil
  Base = 2
  Width = 2
  MaxIndex = 3
  MaxEntries = 2
  Trailing = 1
  Entry = {e1, e2}
  Key = {k1}
  Number = {1}
  MaxSnaps = 1
  MaxFaults = 2
INVARIANTS
  TypeOK
  ReadsAreRight
  LogIsWhole
PROPERTY ImplementsLogStore
