\* The CLI path, peers, sweeps, a restart and executions by hand at once.
SPECIFICATION Spec
CONSTANTS
  t1 = t1  t2 = t2  t3 = t3  t4 = t4  r1 = r1  r2 = r2  r3 = r3
  Tasks = {t1, t2, t3}
  Backlog = {t3}
  Cancels = {t1}
  Runs = {r1, r2, r3}
  Concurrency = 1
  MaxRetries = 1
  CliTasks = {t2}
  Catching = {t1}
  Peers = TRUE
  OllamaOnly = TRUE
  Reexecute = TRUE
  MaxFaults = 2
  MaxRestarts = 1
  MaxSweeps = 1
  NoTask = NoTask
SYMMETRY MCSymmetry
INVARIANT NoSlotLeaks
CHECK_DEADLOCK FALSE
