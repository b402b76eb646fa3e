SPECIFICATION Spec
CONSTANTS
  MaxChannels = 2
  MaxClients = 2
  Refs = {}
  ClientModels <- OnePlan
  WriteResults = {"ok", "refused", "unknown"}
  Patchers = {}
  Readers = {h}
INVARIANTS
  BookkeepingExact
  SupervisedOnce
  MemoryMatchesRedis
PROPERTIES
  IDsNeverRecycled
CHECK_DEADLOCK FALSE
