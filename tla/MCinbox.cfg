SPECIFICATION Spec
CONSTANTS
  c1 = c1
  t1 = t1
  Handler = {c1}
  Task = {t1}
  Capacity = 4
  LogSizeLimit = 1
  MaxAbandoned = 1
  MaxUnapplied = 1
  MaxFaults = 1
  Nil = Nil
\* An actor that waits for itself stops for good.
CHECK_DEADLOCK FALSE
INVARIANTS
  TypeOK
  NothingLost
  BlockedOnlyByAbandoned
  CompactionDue
PROPERTIES
  CallsEnd
  LogCompacted
