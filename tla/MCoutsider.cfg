SPECIFICATION LedSpec
CONSTANTS
  n1 = n1
  n2 = n2
  n3 = n3
  n4 = n4
  a = a
  Node = {n1, n2, n3, n4}
  Initial = {n1, n2, n3, n4}
  FirstLeader = n1
  Value = {a}
  Nil = Nil
  Ping = Ping
  Campaigner = {n2}
  Leaver = {n4}
  MaxTerm = 2
  MaxIndex = 0
  MaxChanges = 1
  Fragile = {}
  MaxFailures = 0
  MaxTicks = 1
INVARIANT QuorumOfMembers
CHECK_DEADLOCK FALSE
