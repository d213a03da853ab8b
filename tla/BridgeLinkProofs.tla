-------------------------- MODULE BridgeLinkProofs --------------------------
(***************************************************************************)
(* What holds of the connection and its bridge for every set of worker     *)
(* threads and every bound on the objects.  The safety property is about   *)
(* workers whose operations do not overlap: the pointers have no lock.     *)
(***************************************************************************)
EXTENDS BridgeLink, TLAPS

\* The state's types, kept by every step of every thread.
LEMMA InitType == Init => TypeOK
<1> SUFFICES ASSUME Init PROVE TypeOK
  OBVIOUS
<1>1. 0 \in 0..MaxObjects
  BY BoundsAssumption
<1>2. /\ child \in [Objects -> {"none", "booting", "ready", "exited", "reaped"}]
      /\ connected \in [Objects -> BOOLEAN]
      /\ pc \in [Threads -> {"idle", "check", "cleanClient", "cleanProcess", "make", "start",
                             "boot", "attach", "request", "wait"}]
      /\ op \in [Threads -> {"warm", "connect", "disconnect", "list"}]
      /\ this \in [Threads -> 0..MaxObjects]
  BY <1>1 DEF Init, Null
<1> QED
  BY <1>1, <1>2, Zenon DEF Init, TypeOK, Null

LEMMA ResetType ==
  ASSUME TypeOK, ResetProcess
  PROVE  /\ mProcess' \in 0..MaxObjects /\ freedP' \in SUBSET Objects
         /\ child' \in [Objects -> {"none", "booting", "ready", "exited", "reaped"}]
         /\ session' \in BOOLEAN
BY BoundsAssumption DEF TypeOK, ResetProcess, Objects, Null, Stopped, SessionOf

\* The operations of one thread.
Step(t) ==
  \/ Begin(t) \/ Check(t) \/ CleanClient(t) \/ CleanProcess(t) \/ Make(t) \/ Start(t)
  \/ Boot(t) \/ Attach(t) \/ Request(t) \/ Reply(t)

LEMMA StepType == ASSUME TypeOK, NEW t \in Threads, Step(t) PROVE TypeOK'
<1> USE BoundsAssumption DEF TypeOK, Objects, Null, Goto
<1>1. CASE Begin(t)
  BY <1>1, Zenon DEF Begin
<1>2. CASE Check(t)
  BY <1>2 DEF Check, Polled, UseProcess
<1>3. CASE CleanClient(t)
  BY <1>3 DEF CleanClient
<1>4. CASE CleanProcess(t)
  BY <1>4, ResetType, Zenon DEF CleanProcess, UseProcess, StopMisuse
<1>5. CASE Make(t)
  BY <1>5 DEF Make, StopMisuse, Stopped, SessionOf
<1>6. CASE Start(t)
  <2>1. misuse' \in SUBSET {"process", "client", "null", "pid"}
    BY <1>6 DEF Start, IfNull
  <2>2. CASE this' = [this EXCEPT ![t] = mProcess] /\ Goto(t, "boot")
             /\ child' = [p \in Objects |-> IF p = mProcess THEN "booting" ELSE child[p]]
             /\ UNCHANGED <<mProcess, freedP, session>>
    <3>1. child' \in [Objects -> {"none", "booting", "ready", "exited", "reaped"}]
      BY <2>2
    <3>2. this' \in [Threads -> 0..MaxObjects]
      BY <2>2
    <3> QED
      BY <1>6, <2>1, <2>2, <3>1, <3>2 DEF Start
  <2>3. CASE ResetProcess /\ Goto(t, "idle") /\ UNCHANGED this
    BY <1>6, <2>1, <2>3, ResetType DEF Start
  <2> QED
    BY <1>6, <2>2, <2>3 DEF Start
<1>7. CASE Boot(t)
  <2>1. misuse' \in SUBSET {"process", "client", "null", "pid"}
    BY <1>7 DEF Boot, StopMisuse
  <2>2. pc' \in [Threads -> {"idle", "check", "cleanClient", "cleanProcess", "make", "start",
                             "boot", "attach", "request", "wait"}]
        /\ this' \in [Threads -> 0..MaxObjects]
    BY <1>7 DEF Boot
  <2>3. /\ mProcess' \in 0..MaxObjects /\ freedP' \in SUBSET Objects /\ session' \in BOOLEAN
        /\ child' \in [Objects -> {"none", "booting", "ready", "exited", "reaped"}]
    BY <1>7, ResetType, Zenon DEF Boot
  <2> QED
    BY <1>7, <2>1, <2>2, <2>3 DEF Boot
<1>8. CASE Attach(t)
  <2>1. misuse' \in SUBSET {"process", "client", "null", "pid"}
    BY <1>8 DEF Attach, IfNull, UseProcess, StopMisuse
  <2>2. pc' \in [Threads -> {"idle", "check", "cleanClient", "cleanProcess", "make", "start",
                             "boot", "attach", "request", "wait"}]
    <3>1. Goto(t, "request") \/ Goto(t, "idle")
      BY <1>8 DEF Attach
    <3> QED
      BY <3>1, Zenon
  <2>3. /\ mProcess' \in 0..MaxObjects /\ freedP' \in SUBSET Objects /\ session' \in BOOLEAN
        /\ child' \in [Objects -> {"none", "booting", "ready", "exited", "reaped"}]
    BY <1>8, ResetType, Zenon DEF Attach
  <2>4. /\ clients' \in 0..MaxObjects /\ mClient' \in 0..MaxObjects
        /\ freedC' \in SUBSET Objects /\ connected' \in [Objects -> BOOLEAN]
    <3>1. clients + 1 \in Objects /\ clients' = clients + 1
      BY <1>8 DEF Attach
    <3>2. connected' = connected \/ connected' = [connected EXCEPT ![clients + 1] = TRUE]
      BY <1>8 DEF Attach
    <3>3. mClient' \in {clients + 1, Null} /\ freedC' \subseteq freedC \cup ({mClient, clients + 1} \ {Null})
      BY <1>8 DEF Attach
    <3>4. connected' \in [Objects -> BOOLEAN]
      BY <3>1, <3>2, Zenon
    <3>5. mClient' \in 0..MaxObjects /\ clients' \in 0..MaxObjects
      BY <3>1, <3>3
    <3>6. freedC' \in SUBSET Objects
      BY <3>1, <3>3
    <3> QED
      BY <3>4, <3>5, <3>6
  <2> QED
    BY <1>8, <2>1, <2>2, <2>3, <2>4 DEF Attach
<1>9. CASE Request(t)
  BY <1>9 DEF Request, IfNull
<1>10. CASE Reply(t)
  <2>1. ASSUME NEW ok \in BOOLEAN PROVE ServerConnected(t, ok) \in BOOLEAN
    BY <2>1, Zenon DEF ServerConnected
  <2>2. ASSUME NEW ok \in BOOLEAN PROVE SessionAfter(t, ok) \subseteq BOOLEAN
    BY <2>2, Zenon DEF SessionAfter
  <2>3. serverConnected' \in BOOLEAN /\ session' \in BOOLEAN
    BY <1>10, <2>1, <2>2 DEF Reply
  <2>4. misuse' \in SUBSET {"process", "client", "null", "pid"}
    BY <1>10 DEF Reply
  <2> QED
    BY <1>10, <2>3, <2>4 DEF Reply
<1> QED
  BY <1>1, <1>2, <1>3, <1>4, <1>5, <1>6, <1>7, <1>8, <1>9, <1>10 DEF Step

LEMMA ChildType ==
  ASSUME TypeOK, NEW p \in Objects, Ready(p) \/ Exits(p) PROVE TypeOK'
BY BoundsAssumption, Zenon DEF TypeOK, Objects, Null, Ready, Exits, SessionOf, Alive

LEMMA NextType == TypeOK /\ [Next]_vars => TypeOK'
<1>1. ASSUME TypeOK, UNCHANGED vars PROVE TypeOK'
  BY <1>1 DEF TypeOK, vars
<1> QED
  BY <1>1, StepType, ChildType DEF Next, Step

\* Type correctness of the connection's state, with any number of workers
\* testing, replacing and using the two pointers at once.
THEOREM TypeCorrect == Spec => []TypeOK
BY InitType, NextType, PTL DEF Spec

-----------------------------------------------------------------------------
(* Workers that do not overlap *)

\* At most one worker is inside an operation of GhidraConnection.
NoOverlap == \A t, u \in Threads : pc[t] # "idle" /\ pc[u] # "idle" => t = u

\* What a worker relies on where it is: startLocalBridge() between reset()
\* and make_unique, between make_unique and fork(), while it reads the ready
\* line, when it makes the client.
Stage(t) ==
  /\ pc[t] = "make" => mProcess = Null
  /\ pc[t] = "start" => mProcess # Null /\ child[mProcess] = "none"
  /\ pc[t] = "boot" => mProcess # Null /\ this[t] = mProcess
  /\ pc[t] = "attach" => mProcess # Null

\* An object that is still to be made has no child, and nothing points to it.
PointersOK ==
  /\ mProcess <= processes
  /\ \A p \in Objects : p > processes => child[p] = "none"

LinkInv ==
  /\ TypeOK /\ PointersOK /\ NoOrphanBridge
  /\ \A t \in Threads : Stage(t)

\* Every worker but the one inside an operation is idle and stays so.
LEMMA OthersIdle ==
  ASSUME TypeOK, NoOverlap, NEW t \in Threads, pc[t] # "idle",
         NEW label, pc' = [pc EXCEPT ![t] = label], Stage(t)'
  PROVE  \A u \in Threads : Stage(u)'
<1> SUFFICES ASSUME NEW u \in Threads, u # t PROVE Stage(u)'
  OBVIOUS
<1>1. pc[u] = "idle"
  BY DEF NoOverlap
<1>2. pc'[u] = "idle"
  BY <1>1 DEF TypeOK
<1> QED
  BY <1>2 DEF Stage

\* stop() and reset() leave no process behind.
LEMMA ResetKeeps ==
  ASSUME LinkInv, ResetProcess, processes' = processes
  PROVE  /\ mProcess' = Null /\ mProcess' <= processes'
         /\ \A p \in Objects : p > processes' => child'[p] = "none"
         /\ NoOrphanBridge'
<1> USE BoundsAssumption
<1>1. mProcess' = 0 /\ processes \in 0..MaxObjects
  BY DEF LinkInv, ResetProcess, TypeOK, PointersOK, Null
<1>2. \A p \in Objects : child'[p] = "none" \/ (child'[p] = child[p] /\ p # mProcess)
  BY DEF LinkInv, ResetProcess, Stopped, TypeOK, Null, Objects
<1>3. \A p \in Objects : child[p] \in {"booting", "ready"} => p = mProcess
  BY DEF LinkInv, NoOrphanBridge, Alive
<1>4. NoOrphanBridge'
  BY <1>2, <1>3 DEF NoOrphanBridge, Alive
<1>5. \A p \in Objects : p > processes' => child'[p] = "none"
  BY <1>2 DEF LinkInv, PointersOK
<1> QED
  BY <1>1, <1>4, <1>5 DEF Null

LEMMA StepSafe ==
  ASSUME LinkInv, NoOverlap, NEW t \in Threads, Step(t)
  PROVE  LinkInv'
<1> USE BoundsAssumption
<1> DEFINE Keeps == PointersOK' /\ NoOrphanBridge' /\ \A u \in Threads : Stage(u)'
<1> SUFFICES Keeps
  BY StepType DEF LinkInv
<1>0. TypeOK /\ Stage(t)
  BY DEF LinkInv
<1>1. CASE Begin(t)
  <2>1. PointersOK' /\ NoOrphanBridge'
    BY <1>1 DEF LinkInv, Begin, PointersOK, NoOrphanBridge, Alive
  <2>2. \A u \in Threads : u # t => pc'[u] = pc[u]
    BY <1>1, <1>0 DEF Begin, Goto, TypeOK
  <2>3. pc'[t] \in {"check", "request", "idle"}
    BY <1>1, <1>0 DEF Begin, Goto, TypeOK
  <2>4. \A u \in Threads : Stage(u)'
    BY <1>1, <2>2, <2>3 DEF LinkInv, Begin, Stage
  <2> QED
    BY <2>1, <2>4
<1>2. CASE Check(t)
  <2>1. \A p \in Objects : child'[p] = child[p] \/ (child[p] = "exited" /\ child'[p] = "reaped")
    BY <1>2, <1>0 DEF Check, Polled, TypeOK, Null, Objects
  <2>2. \A p \in Objects : p > processes => child[p] = "none"
    BY DEF LinkInv, PointersOK
  <2>3. PointersOK'
    BY <1>2, <2>1, <2>2 DEF LinkInv, Check, PointersOK
  <2>4. NoOrphanBridge'
    BY <1>2, <2>1 DEF LinkInv, Check, NoOrphanBridge, Alive
  <2>6. pc[t] # "idle" /\ \E label \in {"cleanClient", "request", "idle"} : pc' = [pc EXCEPT ![t] = label]
    BY <1>2, Zenon DEF Check, Goto
  <2>7. Stage(t)'
    BY <2>6, <1>0 DEF Stage, TypeOK
  <2> QED
    BY <2>3, <2>4, <2>6, <2>7, <1>0, OthersIdle, Zenon
<1>3. CASE CleanClient(t)
  <2>1. PointersOK' /\ NoOrphanBridge'
    BY <1>3, <1>0 DEF LinkInv, CleanClient, PointersOK, NoOrphanBridge, Alive,
                      TypeOK, Null, Objects
  <2>2. pc[t] # "idle" /\ pc' = [pc EXCEPT ![t] = "cleanProcess"]
    BY <1>3 DEF CleanClient, Goto
  <2>3. Stage(t)'
    BY <2>2, <1>0 DEF Stage, TypeOK
  <2> QED
    BY <2>1, <2>2, <2>3, <1>0, OthersIdle, Zenon
<1>4. CASE CleanProcess(t)
  <2>1. PointersOK' /\ NoOrphanBridge' /\ mProcess' = Null
    BY <1>4, ResetKeeps DEF LinkInv, CleanProcess, PointersOK
  <2>3. pc[t] # "idle" /\ \E label \in {"make", "idle"} : pc' = [pc EXCEPT ![t] = label]
    BY <1>4 DEF CleanProcess, Goto
  <2>4. Stage(t)'
    BY <2>1, <2>3, <1>0 DEF Stage, TypeOK
  <2> QED
    BY <2>1, <2>3, <2>4, <1>0, OthersIdle, Zenon
<1>5. CASE Make(t)
  <2>1. mProcess = 0 /\ processes \in 0..MaxObjects /\ processes < MaxObjects
    BY <1>5, <1>0 DEF Make, Stage, TypeOK, Null
  <2>2. processes' = processes + 1 /\ mProcess' = processes + 1 /\ child' = child
    BY <1>5, <2>1 DEF Make, Stopped, Null
  <2>3. \A p \in Objects : p > processes => child[p] = "none"
    BY DEF LinkInv, PointersOK
  <2>4. PointersOK'
    BY <1>5, <1>0, <2>1, <2>2, <2>3 DEF LinkInv, Make, PointersOK, TypeOK, Objects
  <2>5. NoOrphanBridge'
    BY <2>1, <2>2 DEF LinkInv, NoOrphanBridge, Alive, Objects
  <2>7. pc[t] # "idle" /\ pc' = [pc EXCEPT ![t] = "start"]
    BY <1>5 DEF Make, Goto
  <2>8. mProcess' # Null /\ child'[mProcess'] = "none"
    BY <2>1, <2>2, <2>3 DEF Objects, Null
  <2>9. Stage(t)'
    BY <2>7, <2>8, <1>0 DEF Stage, TypeOK
  <2> QED
    BY <2>4, <2>5, <2>7, <2>9, <1>0, OthersIdle, Zenon
<1>6. CASE Start(t)
  <2>1. mProcess # Null /\ child[mProcess] = "none" /\ mProcess \in Objects
    BY <1>6, <1>0 DEF Start, Stage, TypeOK, Objects, Null
  <2>3. pc[t] # "idle" /\ \E label \in {"boot", "idle"} : pc' = [pc EXCEPT ![t] = label]
    BY <1>6 DEF Start, Goto
  <2>4. CASE /\ child' = [p \in Objects |-> IF p = mProcess THEN "booting" ELSE child[p]]
             /\ this' = [this EXCEPT ![t] = mProcess] /\ UNCHANGED <<mProcess, freedP, session>>
    <3>1. \A p \in Objects : child'[p] = IF p = mProcess THEN "booting" ELSE child[p]
      BY <2>4
    <3>2. PointersOK'
      BY <1>6, <2>1, <2>4, <3>1, <1>0 DEF LinkInv, Start, PointersOK, TypeOK, Objects
    <3>3. NoOrphanBridge'
      BY <2>4, <3>1 DEF LinkInv, NoOrphanBridge, Alive
    <3>4. this'[t] = mProcess' /\ mProcess' # Null
      BY <2>1, <2>4, <1>0 DEF TypeOK
    <3>5. Stage(t)'
      BY <2>3, <3>4, <1>0 DEF Stage, TypeOK
    <3> QED
      BY <2>3, <3>2, <3>3, <3>5, <1>0, OthersIdle, Zenon
  <2>5. CASE ResetProcess /\ Goto(t, "idle")
    <3>1. PointersOK' /\ NoOrphanBridge'
      BY <1>6, <2>5, ResetKeeps DEF LinkInv, Start, PointersOK
    <3>2. Stage(t)'
      BY <2>5, <1>0 DEF Stage, TypeOK, Goto
    <3> QED
      BY <2>3, <3>1, <3>2, <1>0, OthersIdle, Zenon
  <2> QED
    BY <1>6, <2>4, <2>5 DEF Start
<1>7. CASE Boot(t)
  <2>1. mProcess # Null
    BY <1>7, <1>0 DEF Boot, Stage
  <2>3. pc[t] # "idle"
    BY <1>7 DEF Boot
  <2>4. CASE Goto(t, "attach") /\ UNCHANGED <<child, mProcess, freedP, session>>
    <3>1. PointersOK' /\ NoOrphanBridge'
      BY <1>7, <2>4 DEF LinkInv, Boot, PointersOK, NoOrphanBridge, Alive
    <3>2. Stage(t)'
      BY <2>1, <2>4, <1>0 DEF Stage, TypeOK, Goto
    <3> QED
      BY <2>3, <2>4, <3>1, <3>2, <1>0, OthersIdle, Zenon DEF Goto
  <2>5. CASE ResetProcess /\ Goto(t, "idle")
    <3>1. PointersOK' /\ NoOrphanBridge'
      BY <1>7, <2>5, ResetKeeps DEF LinkInv, Boot, PointersOK
    <3>2. Stage(t)'
      BY <2>5, <1>0 DEF Stage, TypeOK, Goto
    <3> QED
      BY <2>3, <2>5, <3>1, <3>2, <1>0, OthersIdle, Zenon DEF Goto
  <2> QED
    BY <1>7, <2>4, <2>5 DEF Boot
<1>8. CASE Attach(t)
  <2>3. pc[t] # "idle" /\ \E label \in {"request", "idle"} : pc' = [pc EXCEPT ![t] = label]
    BY <1>8 DEF Attach, Goto
  <2>4. Stage(t)'
    BY <2>3, <1>0 DEF Stage, TypeOK
  <2>7. CASE UNCHANGED <<mProcess, freedP, child, session>>
    <3>1. PointersOK' /\ NoOrphanBridge'
      BY <1>8, <2>7 DEF LinkInv, Attach, PointersOK, NoOrphanBridge, Alive
    <3> QED
      BY <2>3, <2>4, <3>1, <1>0, OthersIdle, Zenon
  <2>8. CASE ResetProcess
    <3>1. PointersOK' /\ NoOrphanBridge'
      BY <1>8, <2>8, ResetKeeps DEF Attach, PointersOK
    <3> QED
      BY <2>3, <2>4, <3>1, <1>0, OthersIdle, Zenon
  <2> QED
    BY <1>8, <2>7, <2>8 DEF Attach
<1>9. CASE Request(t)
  <2>1. PointersOK' /\ NoOrphanBridge'
    BY <1>9 DEF LinkInv, Request, PointersOK, NoOrphanBridge, Alive, IfNull
  <2>2. pc[t] # "idle" /\ pc' = [pc EXCEPT ![t] = "wait"]
    BY <1>9 DEF Request, Goto
  <2>3. Stage(t)'
    BY <1>9, <2>2, <1>0 DEF Stage, TypeOK, Request
  <2> QED
    BY <2>1, <2>2, <2>3, <1>0, OthersIdle, Zenon
<1>10. CASE Reply(t)
  <2>1. PointersOK' /\ NoOrphanBridge'
    BY <1>10 DEF LinkInv, Reply, PointersOK, NoOrphanBridge, Alive
  <2>4. pc[t] # "idle" /\ pc' = [pc EXCEPT ![t] = "idle"]
    BY <1>10 DEF Reply, Goto
  <2>5. Stage(t)'
    BY <2>4, <1>0 DEF Stage, TypeOK
  <2> QED
    BY <2>1, <2>4, <2>5, <1>0, OthersIdle, Zenon
<1> QED
  BY <1>1, <1>2, <1>3, <1>4, <1>5, <1>6, <1>7, <1>8, <1>9, <1>10 DEF Step

LEMMA ChildSafe ==
  ASSUME LinkInv, NEW q \in Objects, Ready(q) \/ Exits(q)
  PROVE  LinkInv'
<1> USE BoundsAssumption
<1>1. /\ child[q] \in {"booting", "ready"} /\ child'[q] \in {"ready", "exited"}
      /\ \A p \in Objects : p # q => child'[p] = child[p]
  BY DEF LinkInv, Ready, Exits, Alive, TypeOK
<1>2. UNCHANGED <<mProcess, mClient, processes, clients, freedP, freedC, pc, this, misuse>>
  BY DEF Ready, Exits
<1>3. PointersOK'
  BY <1>1, <1>2 DEF LinkInv, PointersOK
<1>4. NoOrphanBridge'
  BY <1>1, <1>2 DEF LinkInv, NoOrphanBridge, Alive
<1>6. ASSUME NEW t \in Threads PROVE Stage(t)'
  <2>1. Stage(t) /\ mProcess \in 0..MaxObjects
    BY DEF LinkInv, TypeOK
  <2>2. mProcess # Null /\ child[mProcess] = "none" => child'[mProcess] = "none"
    BY <1>1, <2>1 DEF Objects, Null
  <2> QED
    BY <1>2, <2>1, <2>2 DEF Stage
<1> QED
  BY <1>3, <1>4, <1>6, ChildType DEF LinkInv

LEMMA InitLink == Init => LinkInv
<1> SUFFICES ASSUME Init PROVE LinkInv
  OBVIOUS
<1>1. PointersOK
  BY DEF Init, PointersOK, Null
<1>2. NoOrphanBridge
  BY DEF Init, NoOrphanBridge, Alive
<1>3. \A t \in Threads : Stage(t)
  BY Zenon DEF Init, Stage
<1> QED
  BY <1>1, <1>2, <1>3, InitType DEF LinkInv

LEMMA NextLink == LinkInv /\ NoOverlap /\ [Next]_vars => LinkInv'
<1>1. ASSUME LinkInv, UNCHANGED vars PROVE LinkInv'
  BY <1>1 DEF LinkInv, vars, TypeOK, PointersOK, NoOrphanBridge, Alive, Stage
<1> QED
  BY <1>1, StepSafe, ChildSafe DEF Next, Step

\* Any number of workers whose operations do not overlap, in any order, with
\* a JVM that dies whenever it likes and a start or a connect that fails:
\* the only bridge that runs is the one m_process points to.
THEOREM NoBridgeLeftBehind == Spec /\ []NoOverlap => []NoOrphanBridge
<1>1. LinkInv => NoOrphanBridge
  BY DEF LinkInv
<1> QED
  BY <1>1, InitLink, NextLink, PTL DEF Spec
=============================================================================
