-------------------------- MODULE MCProjectFiles --------------------------
(* What the user picks, and how items are named. *)
EXTENDS ProjectFiles, TLC

MCSelections == {Items}

\* Items are named after themselves.
MCNameOf == [i \in Items |-> i]

\* Items of one name, in different folders.
OneName == [i \in Items |-> CHOOSE n \in Names : TRUE]

Symmetry == Permutations(Items) \cup Permutations(Files)
=============================================================================
