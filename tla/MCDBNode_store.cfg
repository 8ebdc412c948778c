\* The store as a library: writes that replace and delete too.  No symmetry: liveness.
SPECIFICATION FairSpec
CONSTANTS
  n1 = n1
  n2 = n2
  r1 = r1
  r2 = r2
  Node = {n1, n2}
  Key = {"k"}
  Value = {""}
  EmptyValue = ""
  Nil = Nil
  Req = {r1, r2}
  Ops = {"add", "set", "delete"}
  MaxTerm = 2
  MaxCrashes = 1
INVARIANTS
  ReplicaMatchesLog
  SnapshotMatchesLog
PROPERTY EveryRequestAnswered
