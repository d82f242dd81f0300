SPECIFICATION LedSpec
CONSTANTS
  n1 = n1
  n2 = n2
  n3 = n3
  Node = {n1, n2, n3}
  x = x
  Value = {x}
  Nil = Nil
  Ping = Ping
  FirstLeader = n1
  SecondLeader = n1
  LogSizeLimit = 1
  Campaigner = {n1}
  MaxTerm = 1
  MaxIndex = 2
  Fragile = {n1, n2, n3}
  MaxCrashes = 0
  MaxFaults = 0
  MaxFailures = 1
  MaxTicks = 1
  StaleSnapshots = TRUE
SYMMETRY NodeSymmetry
\* The bounds stop every behaviour.
CHECK_DEADLOCK FALSE
INVARIANTS
  AcknowledgedDurable
