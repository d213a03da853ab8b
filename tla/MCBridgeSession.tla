-------------------------- MODULE MCBridgeSession --------------------------
(* Model values for the repositories. *)
EXTENDS BridgeSession

CONSTANTS r1, r2
=============================================================================
