SPECIFICATION MCSpec
CONSTANTS
  MaxChannels = 2
  MaxClients = 1
  Refs = {r}
  ClientModels <- TwoPlans
  WriteResults = {"ok"}
  Patchers = {h}
  Readers = {}
  h1 = h1
  h2 = h2
  t = t
  u = u
  Admin = Admin
  Unowned = Unowned
  Handlers = {h1, h2}
  Tenants = {t, u}
  Asking = {t}
  Stock = {1, 2}
  Spellings = {1}
  MaxAsked = 2
INVARIANTS
  QuotaHolds
  ClientsTouchOwn
  BulkAnswersTruthful
CHECK_DEADLOCK FALSE
