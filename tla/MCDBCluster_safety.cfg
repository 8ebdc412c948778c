\* Three nodes start one after the other, join, crash and restart under the
\* master's heartbeat.
SPECIFICATION Spec
CONSTANTS
  n1 = n1
  n2 = n2
  n3 = n3
  Node = {n1, n2, n3}
  Nil = Nil
  Staged = TRUE
  MaxCrashes = 1
  MaxFaults = 0
SYMMETRY NodeSymmetry
CONSTRAINT OneFounder
INVARIANTS
  TypeOK
  MembersAreRegistered
  OneBootOneGroup
PROPERTY JoinedIsMember
