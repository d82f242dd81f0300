SPECIFICATION Spec
CONSTANTS
  n1 = n1
  n2 = n2
  n3 = n3
  n4 = n4
  Node = {n1, n2, n3, n4}
  Value = {"old", "new"}
  Nil = Nil
  Ping = "ping"
  MaxTerm = 3
  MaxLength = 3
\* One call per behaviour.
CHECK_DEADLOCK FALSE
INVARIANTS
  AppendAsDefined
  AppendKeepsAndAgrees
  CommitAsDefined
