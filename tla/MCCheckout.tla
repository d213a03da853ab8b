----------------------------- MODULE MCCheckout -----------------------------
(* Who is connected as whom, and where the bridges run. *)
EXTENDS Checkout

CONSTANTS b1, b2, g1

\* Bridge b1 and the interactive client g1 belong to one user.
SharedGuiUsers == [a \in Clients |-> IF a = b2 THEN "u2" ELSE "u1"]

\* Everybody is the same user, as with two Binary Ninja instances.
SameUser == [a \in Clients |-> "u1"]

OneHost == [b \in Bridges |-> "h1"]
=============================================================================
