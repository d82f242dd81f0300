SPECIFICATION OverlapSpec
CONSTANTS
  n1 = n1
  n2 = n2
  n3 = n3
  Node = {n1, n2, n3}
  x = x
  Value = {x}
  Nil = Nil
  Ping = Ping
  FirstLeader = n1
  SecondLeader = n2
  LogSizeLimit = 2
  Campaigner = {n2}
  MaxTerm = 2
  MaxIndex = 2
  Fragile = {n1, n2}
  MaxCrashes = 1
  MaxFaults = 0
  MaxFailures = 1
  MaxTicks = 0
  StaleSnapshots = FALSE
SYMMETRY NodeSymmetry
\* The bounds stop every behaviour.
CHECK_DEADLOCK FALSE
INVARIANTS
  LogAligned
  LeaderHint
  LeaderCompleteness
  LogMatching
  StateMachineSafety
PROPERTIES
  LeaderAppendOnly
  ImplementsReplicatedLog
