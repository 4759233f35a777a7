--------------------------- MODULE MCActivationGate ---------------------------
(* The exact executable, a patched one of the same version and size, and   *)
(* another one of another size.                                            *)
EXTENDS ActivationGate

CONSTANTS exact, patched

MCSizeOf == [image \in Images |-> IF image \in {exact, patched} THEN 1 ELSE 2]
=============================================================================
