--------------------------- MODULE MCBridgeClient ---------------------------
(* BridgeClient with interchangeable caller threads. *)
EXTENDS BridgeClient, TLC

CallerSymmetry == Permutations(Callers)
=============================================================================
