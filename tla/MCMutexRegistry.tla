--------------------------- MODULE MCMutexRegistry ---------------------------
(* Four services over two adapters that may be allocated at either address.  *)
EXTENDS MutexRegistry, TLC

Symmetry ==
  Permutations(Services) \cup Permutations(Adapters) \cup Permutations(Addresses)
=============================================================================
