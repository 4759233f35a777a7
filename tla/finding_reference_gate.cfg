SPECIFICATION Spec
CONSTANTS
  v1 = v1
  v2 = v2
  NoValue = NoValue
  NoRevision = NoRevision
  NoHook = NoHook
  Targets = {"world"}
  Names = {"a", "b"}
  Keys = {"k1", "k2"}
  Values = {v1, v2}
  Hooks = {"set", "move", "foreign", "late"}
  Body <- MCBody
  Platforms <- PythonOnly
  ApiOperations <- MCApiOperations
  Limit = 1
  Listeners = 2
  ListenerPowers = {"cancel", "throw"}
  SinkMayThrow = FALSE
  InitialStore <- Empties
INVARIANT
  AllowedIsRevalidated
