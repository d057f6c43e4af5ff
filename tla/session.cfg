SPECIFICATION Spec
CONSTANTS
  t1 = t1
  t2 = t2
  c1 = c1
  c2 = c2
  NoThread = NoThread
  NoCmd = NoCmd
  Threads = {t1, t2}
  Cmds = {c1, c2}
  Retries = 1
  Ops = {"send", "status", "version", "close"}
  CallBudget = 3
INVARIANTS TypeOK AtMostOnce SnapshotSurvivedNoDrop
PROPERTY ResultIsFinal
SYMMETRY Symmetry
CHECK_DEADLOCK FALSE
