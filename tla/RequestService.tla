--------------------------- MODULE RequestService ---------------------------
(***************************************************************************)
(* What BridgeClient promises its callers, without sockets or threads: a   *)
(* request, once issued, is answered at most once, either with the         *)
(* bridge's response to that very request or with a local failure, and an  *)
(* answer is never changed.                                                *)
(***************************************************************************)
EXTENDS Naturals

CONSTANT Requests      \* the requests that can ever be issued

VARIABLES issued,      \* the requests issued so far
          outcome      \* outcome[r]: how r was answered

vars == <<issued, outcome>>

Outcomes == {"none", "response", "failed"}

TypeOK ==
  /\ issued \in SUBSET Requests
  /\ outcome \in [Requests -> Outcomes]

Init ==
  /\ issued = {}
  /\ outcome = [r \in Requests |-> "none"]

Issue(r) ==
  /\ r \notin issued
  /\ issued' = issued \cup {r}
  /\ UNCHANGED outcome

Answer(r, o) ==
  /\ r \in issued
  /\ outcome[r] = "none"
  /\ outcome' = [outcome EXCEPT ![r] = o]
  /\ UNCHANGED issued

Next ==
  \E r \in Requests : Issue(r) \/ Answer(r, "response") \/ Answer(r, "failed")

Spec == Init /\ [][Next]_vars
=============================================================================
