SPECIFICATION Spec
CONSTANTS
  world = world
  v1 = v1
  v2 = v2
  NoValue = NoValue
  NoRevision = NoRevision
  NoCall = NoCall
  NoThread = NoThread
  Targets = {world}
  Names = {"a", "b"}
  Keys = {"k1", "k2"}
  Values = {v1, v2}
  Threads = {t1, t2}
  Services = {"narrow", "wide"}
  Limit <- MCLimit
  MaxOperations = 2
  Capabilities <- MCCapabilities
  Namespace <- MCNamespace
  Requests = {"migrate"}
  Body <- CallsBody
  Listeners = 1
  ListenerPowers = {"edit"}
  SinkMayThrow = FALSE
  FailureHandlers = {"none"}
  FlakyTargets = {}
  InitialStore <- OneProperty
INVARIANT
  MigrationEventGenuine
