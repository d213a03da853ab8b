---------------------------- MODULE MCBridgeLink ----------------------------
(* Model values for the worker threads. *)
EXTENDS BridgeLink

CONSTANTS t1, t2
=============================================================================
