\* Three processes, two rows, three faults.
SPECIFICATION Spec
CONSTANTS
  Pids = {p1, p2, p3}
  Tasks = {t1, t2}
  MaxFaults = 3
  NoPid = NoPid
INVARIANTS HolderUnlessRaced NoOrphanBesideADaemon
PROPERTIES OnlyOrphansAreFailed
