SPECIFICATION Spec
CONSTANTS
  world = world
  v1 = v1
  v2 = v2
  NoValue = NoValue
  NoRevision = NoRevision
  NoCall = NoCall
  NoThread = NoThread
  Targets = {world}
  Names = {"a", "b", "z"}
  Keys = {"k1", "k2"}
  Values = {v1, v2}
  Threads = {t1, t2}
  Services = {"narrow", "wide"}
  Limit <- MCLimit
  MaxOperations = 2
  Capabilities <- MCCapabilities
  Namespace <- MCNamespace
  Requests = {"cas1", "cas2", "grow", "migrate", "foreign"}
  Body <- RaceBody
  Listeners = 1
  ListenerPowers = {"call", "throw", "cancel"}
  SinkMayThrow = FALSE
  FailureHandlers = {"none"}
  FlakyTargets = {}
  InitialStore <- OneProperty
INVARIANTS
  TypeOK
  CallbacksOutsideLock
  CommitsWithinLimit
  NoLostUpdate
  FailClosed
  Isolation
