SPECIFICATION FairSpec
CONSTANTS
  world = world
  v1 = v1
  v2 = v2
  NoValue = NoValue
  NoRevision = NoRevision
  NoCall = NoCall
  NoThread = NoThread
  Targets = {world}
  Names = {"a", "b"}
  Keys = {"k1", "k2"}
  Values = {v1, v2}
  Threads = {t1, t2}
  Services = {"narrow", "wide"}
  Limit <- MCLimit
  MaxOperations = 2
  Capabilities <- MCCapabilities
  Namespace <- MCNamespace
  Requests = {"migrate", "pair", "empty"}
  Body <- CallsBody
  Listeners = 1
  ListenerPowers = {"call", "throw", "cancel", "approve", "edit"}
  SinkMayThrow = TRUE
  FailureHandlers = {"none"}
  FlakyTargets = {world}
  InitialStore <- OneProperty
INVARIANTS
  EveryMutationAudited
  AfterEventTruthful
  AuditTruthful
PROPERTIES
  CallsAreAtomic
  EveryCallReturns
