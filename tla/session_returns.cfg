SPECIFICATION FairSpec
CONSTANTS
  t1 = t1
  t2 = t2
  c1 = c1
  c2 = c2
  NoThread = NoThread
  NoCmd = NoCmd
  Threads = {t1, t2}
  Cmds = {c1}
  Retries = 1
  Ops = {"send", "status", "version", "close"}
  CallBudget = 2

PROPERTY CallsReturn
CHECK_DEADLOCK FALSE
