SPECIFICATION Spec
CONSTANTS
  MaxChannels = 1
  MaxClients = 1
  Refs = {}
  ClientModels <- OnePlan
  WriteResults = {"ok"}
  Patchers = {}
  Readers = {}
INVARIANTS
  ClientsOutliveChannels
CHECK_DEADLOCK FALSE
