SPECIFICATION Spec
CONSTANTS
  n1 = n1
  n2 = n2
  First = First
  Second = Second
  Key = Key
  Node = {n1, n2}
  Caller = {First, Second}
  Nil = Nil
  Execute <- Apply
  Fresh <- Empty
  Requests <- MCRequests
  Home <- MCHome
  MaxRetries = 2
  MaxElections = 2
  MaxTroubles = 1
  WrongAnswers = FALSE
INVARIANTS
  TypeOK
  AtMostOnce
  Linearizable
  RefusedWithoutEffect
CHECK_DEADLOCK FALSE
