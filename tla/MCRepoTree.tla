---------------------------- MODULE MCRepoTree ----------------------------
(* Model values for the repositories. *)
EXTENDS RepoTree

CONSTANTS r1, r2
=============================================================================
