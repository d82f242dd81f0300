SPECIFICATION LedSpec
CONSTANTS
  n1 = n1
  n2 = n2
  n3 = n3
  a = a
  Node = {n1, n2, n3}
  Initial = {n1, n2}
  FirstLeader = n1
  Value = {a}
  Nil = Nil
  Ping = Ping
  Campaigner = {n1, n2}
  Leaver = {n1, n2, n3}
  MaxTerm = 2
  MaxIndex = 1
  MaxChanges = 1
  Fragile = {n1}
  MaxFailures = 1
  MaxTicks = 1
INVARIANTS
  TypeOK
  ElectionSafety
  LeaderCompleteness
  ChangesKept
CHECK_DEADLOCK FALSE
