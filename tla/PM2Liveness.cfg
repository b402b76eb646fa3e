SPECIFICATION FairSpec
CONSTANTS
  u1 = u1
  p1 = p1
  p2 = p2
  i1 = i1
  i2 = i2
  None = None
  Uids = {u1}
  Pids = {p1, p2}
  Insts = {i1, i2}
  Caps = {1}
  Limits = {0, 1}
PROPERTIES
  UsageReturnsToLimit
  RemovedRunningPidReleased
CHECK_DEADLOCK FALSE
