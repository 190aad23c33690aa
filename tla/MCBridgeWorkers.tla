--------------------------- MODULE MCBridgeWorkers ----------------------------
(* The bridge workers on small instances.                                     *)
EXTENDS BridgeWorkers, TLC

Symmetry == Permutations(Workers)
===============================================================================
