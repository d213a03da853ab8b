--------------------------- MODULE MCCheckinFlow ---------------------------
(* Model values for the items and the views; the items are alike. *)
EXTENDS CheckinFlow, TLC

CONSTANTS a, b, v1

ItemSymmetry == Permutations(Items)
=============================================================================
