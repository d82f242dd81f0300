SPECIFICATION Spec
CONSTANTS
  n1 = n1
  n2 = n2
  n3 = n3
  Node = {n1, n2, n3}
  x = x
  Value = {x}
  Nil = Nil
  Ping = Ping
  FirstLeader = n1
  SecondLeader = n1
  LogSizeLimit = 10
  Campaigner = {n1, n2, n3}
  MaxTerm = 1
  MaxIndex = 0
  Fragile = {n1, n2, n3}
  MaxCrashes = 2
  MaxFaults = 1
  MaxFailures = 3
  MaxTicks = 1
  StaleSnapshots = FALSE
SYMMETRY FullSymmetry
\* The bounds stop every behaviour.
CHECK_DEADLOCK FALSE
INVARIANTS
  TypeOK
  VotesDurable
  OneVote
  ElectionSafety
  ElectionInv
PROPERTIES
  DiskTermMonotonic
