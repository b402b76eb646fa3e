SPECIFICATION DataSpec
CONSTANTS
  MaxRecords = 2
  x = x
  Values = {x}
  ScanRepeats = TRUE
INVARIANTS
  ListsEachOnce
CHECK_DEADLOCK FALSE
