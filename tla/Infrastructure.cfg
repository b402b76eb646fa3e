SPECIFICATION MCSpec
CONSTANTS
  a = a
  b = b
  c = c
  d = d
  w = w
  x = x
  y = y
  Ids = {a, b, c, d}
  Blocking = {a, b}
  Waiters = {w}
  Limits <- MCLimits
  ObjectIds = {1, 2, 3, 4}
  Objects = {x, y}
  Values = {x, y}
  MaxRecords = 3
  ScanRepeats = FALSE
  u1 = u1
  u2 = u2
  u3 = u3
  u4 = u4
  u5 = u5
  u6 = u6
  Units = {u1, u2, u3, u4, u5, u6}
  Times = {1, 2}
  NoUnit = NoUnit
  Channels = {a, b}
  Cap = 3
  MaxLines = 8
  c1 = c1
  c2 = c2
  Callers = {c1, c2}
  MaxReplugs = 2
  Nobody = Nobody
INVARIANTS
  ReadIsNewest
  AddrsAreCurrent
  EndsInOrder
PROPERTIES
  CapacityKept
  NoSleepWithFreeSlot
  ObjectStoreIsKeyed
  DataStoreIsKeyed
  OnlyNamedRecordsChange
  SchedulerIsQueue
  AddrsAnswered
  LostPipeEnds
  ContractHolds
CHECK_DEADLOCK FALSE
