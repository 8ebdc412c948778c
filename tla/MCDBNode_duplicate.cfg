\* A duplicate write is answered StatusOK.
SPECIFICATION Spec
CONSTANTS
  n1 = n1
  n2 = n2
  r1 = r1
  r2 = r2
  Node = {n1, n2}
  Key = {"k"}
  Value = {"", "a"}
  EmptyValue = ""
  Nil = Nil
  Req = {r1, r2}
  Ops = {"add"}
  MaxTerm = 1
  MaxCrashes = 0
INVARIANT DuplicateIsReported
