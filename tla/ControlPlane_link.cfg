\* A report the drain can send and a resource it cannot; three commands, one malformed, one without its task.
SPECIFICATION FairSpec
CONSTANTS
  Reports = {t1, r1}
  Known = {t1}
  MaxAttempts = 2
  Batch = 1
  Drains = {d1, d2}
  LastCommand = 3
  Malformed = {2}
  Bare = {3}
  MaxFaults = 1
  NoRow = NoRow
CHECK_DEADLOCK FALSE
INVARIANTS LostOnlyAfterFailures DispatchedOnceALife
PROPERTIES QueueEmpties CommandsArrive
