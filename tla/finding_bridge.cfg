SPECIFICATION Spec
CONSTANTS
  exact = exact
  patched = patched
  None = None
  Images = {exact, patched}
  SizeOf <- MCSizeOf
  RuntimeImages = {exact, patched}
  Bridges = {good, edited}
  CompleteBridges = {good, edited}
  Proofs = {probe}
  PathSurvives = FALSE
INVARIANT
  ServingBridgeReviewed
