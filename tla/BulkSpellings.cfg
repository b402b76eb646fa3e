SPECIFICATION MCSpec
CONSTANTS
  MaxChannels = 1
  MaxClients = 1
  Refs = {}
  ClientModels = {}
  WriteResults = {"ok"}
  Patchers = {}
  Readers = {}
  h1 = h1
  t = t
  Admin = Admin
  Unowned = Unowned
  Handlers = {h1}
  Tenants = {t}
  Asking = {}
  Stock = {1, 2}
  Spellings = {1, 2}
  MaxAsked = 2
INVARIANTS
  BulkAnswersTruthful
CHECK_DEADLOCK FALSE
