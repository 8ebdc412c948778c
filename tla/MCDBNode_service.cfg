\* The HTTP service: every write is an add.
SPECIFICATION Spec
CONSTANTS
  n1 = n1
  n2 = n2
  r1 = r1
  r2 = r2
  r3 = r3
  Node = {n1, n2}
  Key = {"k"}
  Value = {"", "a"}
  EmptyValue = ""
  Nil = Nil
  Req = {r1, r2, r3}
  Ops = {"add"}
  MaxTerm = 2
  MaxCrashes = 1
SYMMETRY NodeSymmetry
INVARIANTS
  TypeOK
  ReplicaMatchesLog
  AckedIsCommitted
  ReadsAgree
PROPERTY ImplementsOnceKV
