SPECIFICATION FairSpec
CONSTANTS
  u1 = u1
  u2 = u2
  i1 = i1
  i2 = i2
  None = None
  Uids = {u1, u2}
  Insts = {i1, i2}
  PidMax = 3
INVARIANTS
  UnitsSharedOut
  PidsInOneHand
PROPERTIES
  ImplementsSupervisor
  UnitRunsAgain
CHECK_DEADLOCK FALSE
