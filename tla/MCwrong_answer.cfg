SPECIFICATION LedSpec
CONSTANTS
  n1 = n1
  n2 = n2
  n3 = n3
  Node = {n1, n2, n3}
  x = x
  Value = {x}
  Nil = Nil
  Ping = Ping
  FirstLeader = n1
  SecondLeader = n1
  LogSizeLimit = 10
  Campaigner = {n2}
  MaxTerm = 2
  MaxIndex = 1
  Fragile = {n1, n2, n3}
  MaxCrashes = 0
  MaxFaults = 0
  MaxFailures = 1
  MaxTicks = 1
  StaleSnapshots = FALSE
SYMMETRY NodeSymmetry
\* The bounds stop every behaviour.
CHECK_DEADLOCK FALSE
INVARIANTS
  AnswersOwnRequest
