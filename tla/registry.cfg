SPECIFICATION Spec
CONSTANTS
  Services = {s1, s2, s3, s4}
  Adapters = {a1, a2}
  Addresses = {x1, x2}
  None = None
INVARIANTS
  CommitsExclusive
  MutexBelongsToAdapter
SYMMETRY Symmetry
