SPECIFICATION Spec
CONSTANTS
  v1 = v1
  v2 = v2
  NoValue = NoValue
  NoRevision = NoRevision
  Targets = {"world"}
  Names = {"a", "b"}
  Keys = {"k1", "k2"}
  Values = {v1, v2}
  Operations <- MCOperations
  Followers <- MCFollowers
  InitialStore <- NothingStored
INVARIANTS
  SimulationAgrees
  MovesArrive
  LimitPredictionSound
