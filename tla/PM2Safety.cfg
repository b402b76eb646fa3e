SPECIFICATION Spec
CONSTANTS
  u1 = u1
  u2 = u2
  p1 = p1
  p2 = p2
  i1 = i1
  i2 = i2
  None = None
  Uids = {u1, u2}
  Pids = {p1, p2}
  Insts = {i1, i2}
  Caps = {1, 2}
  Limits <- SomeLimits
SYMMETRY Symmetry
INVARIANTS
  SlotsHeldRightly
  UnitsSharedOut
  PidsExclusive
  NoLostWakeup
PROPERTIES
  ExcessIsClosing
  ImplementsSupervisor
