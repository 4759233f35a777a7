SPECIFICATION Spec
CONSTANTS
  exact = exact
  patched = patched
  None = None
  Images = {exact, patched, other}
  SizeOf <- MCSizeOf
  RuntimeImages = {exact, patched}
  Bridges = {good}
  CompleteBridges = {good}
  Proofs = {probe}
  PathSurvives = FALSE
INVARIANTS
  ServesOnlyActivated
  RefusalLeavesNothing
