\* One inference at a time: refusals, drains, failures and retries of three tasks.
SPECIFICATION FairSpec
CONSTANTS
  t1 = t1  t2 = t2  t3 = t3  t4 = t4  r1 = r1  r2 = r2  r3 = r3
  Tasks = {t1, t2, t3, t4}
  Backlog = {t4}
  Cancels = {t1}
  Runs = {r1, r2, r3}
  Concurrency = 1
  MaxRetries = 1
  CliTasks = {}
  Catching = {t1, t2, t3}
  Peers = FALSE
  OllamaOnly = TRUE
  Reexecute = FALSE
  MaxFaults = 3
  MaxRestarts = 0
  MaxSweeps = 0
  NoTask = NoTask
INVARIANTS OneRunPerTask RunningWithinSlots PendingIsOwned
CHECK_DEADLOCK FALSE
PROPERTIES ReleasesOnce TasksSettle
