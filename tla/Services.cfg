SPECIFICATION MCSpec
CONSTANTS
  r1 = r1
  r2 = r2
  r3 = r3
  None = None
  Requests = {r1, r2, r3}
  MaxChanges = 1
  Fields <- MCFields
  OutFields <- MCOutFields
  Creates <- MCCreates
  Replaces <- MCReplaces
  Patches <- MCPatches
  RemuxIds = {1, 2}
  MaxWrites = 1
  Starts <- MCStarts
  UrlChars <- MCUrlChars
  MaxMore = 5
  MaxOuts = 2
INVARIANTS
  SummariesAreCurrent
  ExpiredIsNotServed
  RulesEnforced
  MergeIsSimultaneous
  ReadsCanBeWrittenBack
  SummariesBelong
  UrlsSurvive
  CommandSaysChannel
PROPERTIES
  EveryRequestAnswered
CHECK_DEADLOCK FALSE
