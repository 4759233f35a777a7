SPECIFICATION FairSpec
CONSTANTS
  v1 = v1
  v2 = v2
  NoValue = NoValue
  NoRevision = NoRevision
  NoHook = NoHook
  Targets = {"world"}
  Names = {"a", "b"}
  Keys = {"k1", "k2"}
  Values = {v1, v2}
  Hooks = {"set", "move", "foreign", "late"}
  Body <- MCBody
  Platforms <- MCPlatforms
  ApiOperations <- MCApiOperations
  Limit = 1
  Listeners = 2
  ListenerPowers = {"cancel", "approve", "throw"}
  SinkMayThrow = TRUE
  InitialStore <- Empties
INVARIANTS
  NothingExceedsLimit
  VetoHonoured
  ExternalAuditTruthful
PROPERTY
  EveryHookReturns
