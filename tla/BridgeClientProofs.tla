------------------------- MODULE BridgeClientProofs -------------------------
(***************************************************************************)
(* Machine-checked proofs about BridgeClient, for any number of callers,   *)
(* calls, connections and events and for both behaviours of close().       *)
(***************************************************************************)
EXTENDS BridgeClient, SequenceTheorems, TLAPS

\* The initial state of the client satisfies the inductive invariant.
LEMMA InitIInv == Init => IInv
<1> SUFFICES ASSUME Init PROVE IInv
  OBVIOUS
<1> USE BoundsAssumption
<1>1. TypeOK
  <2> USE DEF Init, Ids, Calls, NoCall
  <2>1. /\ nextId \in 1..(MaxCalls + 1)
        /\ pending \in [Ids -> Calls \cup {NoCall}]
        /\ recvPc \in RecvPCs /\ recvCb \in 0..MaxCalls /\ recvOf \in 0..MaxCalls
        /\ ctlPc \in CtlPCs /\ ctlCbs \in SUBSET Calls
    BY DEF RecvPCs, CtlPCs
  <2>2. /\ pc \in [Callers -> CallerPCs]
        /\ call \in [Callers -> 0..MaxCalls]
        /\ id \in [Callers -> 0..MaxCalls]
        /\ cb \in [Callers -> 0..MaxCalls]
    BY DEF CallerPCs
  <2>3. /\ buf \in Seq(Line) /\ inbox \in Seq(Request) /\ outbox \in Seq(Line)
        /\ sent \in SUBSET Calls
    OBVIOUS
  <2>4. /\ fired \in [Calls -> Nat]
        /\ answer \in [Calls -> AnswerKinds]
        /\ answerOf \in [Calls -> 0..MaxCalls]
        /\ result \in [Calls -> {"none", "returned", "timeout"}]
        /\ calls \in 0..MaxCalls /\ connects \in 0..MaxConnects /\ events \in 0..MaxEvents
    BY DEF AnswerKinds
  <2> QED
    BY ZenonT(60), <2>1, <2>2, <2>3, <2>4 DEF TypeOK
<1>2. IdsInv /\ TagsInv /\ AtMostOnce /\ OwnAnswer /\ OrphanInv
  BY DEF Init, IdsInv, TagsInv, AtMostOnce, OwnAnswer, OrphanInv, Active, Ids, Calls, NoCall
<1>3. OneHolderInv
  BY DEF Init, OneHolderInv, OneHolder, InPending, InRecv, InCtl, InCaller, Unregistered, Ids, Calls, NoCall
<1> QED
  BY <1>1, <1>2, <1>3 DEF IInv

\* Every action keeps the types: in particular an id read back from a line
\* or from a caller is an index of m_pending.
LEMMA NextTypeOK == TypeOK /\ IdsInv /\ TagsInv /\ [Next]_vars => TypeOK'
<1> SUFFICES ASSUME TypeOK, IdsInv, TagsInv, [Next]_vars PROVE TypeOK'
  OBVIOUS
<1> USE BoundsAssumption DEF Ids, Calls, NoCall, CallerPCs, RecvPCs, CtlPCs, AnswerKinds,
      vars, clientVars, callerVars, recvVars, ctlVars, wireVars, callVars
<1>1. ASSUME NEW c \in Callers, SendSync(c) PROVE TypeOK'
  <2> USE <1>1 DEF SendSync, FetchAdd, Goto
  <2>1. nextId' \in 1..(MaxCalls + 1) /\ calls' \in 0..MaxCalls
    BY DEF TypeOK
  <2>2. pc' \in [Callers -> CallerPCs]
    BY DEF TypeOK
  <2>3. call' \in [Callers -> 0..MaxCalls] /\ id' \in [Callers -> 0..MaxCalls]
    BY SMTT(60) DEF TypeOK
  <2> QED
    BY ZenonT(60), <2>1, <2>2, <2>3 DEF TypeOK
<1>2. ASSUME NEW c \in Callers, CallerStep(c) PROVE TypeOK'
  <2>0. pc[c] # "idle" => id[c] \in Ids /\ call[c] \in Calls
    BY DEF TypeOK, IdsInv, Active
  <2>1. CASE Register(c)
    BY ZenonT(60), <2>0, <2>1 DEF TypeOK, Register, Goto
  <2>2. CASE SendRawOk(c)
    <3>1. Append(inbox, [id |-> id[c], for |-> call[c]]) \in Seq(Request)
      BY <2>0, <2>2, AppendProperties DEF TypeOK, SendRawOk, Request
    <3> QED
      BY ZenonT(60), <2>0, <2>2, <3>1 DEF TypeOK, SendRawOk, Goto
  <2>3. CASE SendRawFail(c)
    BY ZenonT(60), <2>3 DEF TypeOK, SendRawFail, Goto
  <2>4. CASE SendFailed(c)
    <3> USE <2>0, <2>4 DEF SendFailed, TakeBack, Goto
    <3>1. pc' \in [Callers -> CallerPCs]
      BY DEF TypeOK
    <3>2. pending[id[c]] \in 0..MaxCalls
      BY SMTT(60) DEF TypeOK
    <3>3. cb' \in [Callers -> 0..MaxCalls]
      BY <3>2 DEF TypeOK
    <3>4. pending' \in [Ids -> Calls \cup {NoCall}]
      BY DEF TypeOK
    <3> QED
      BY ZenonT(60), <3>1, <3>3, <3>4 DEF TypeOK
  <2>5. CASE FailOwn(c)
    <3> USE <2>5 DEF FailOwn, Fire, Goto
    <3>1. pc' \in [Callers -> CallerPCs] /\ cb' \in [Callers -> 0..MaxCalls]
      BY DEF TypeOK
    <3>2. cb[c] \in Calls
      BY <2>0 DEF TagsInv
    <3>3. fired \in [Calls -> Nat] /\ answer \in [Calls -> AnswerKinds] /\ answerOf \in [Calls -> 0..MaxCalls]
      BY ZenonT(60) DEF TypeOK
    <3>4. fired' \in [Calls -> Nat]
      BY SMTT(60), <3>2, <3>3
    <3>5. answer' \in [Calls -> AnswerKinds] /\ answerOf' \in [Calls -> 0..MaxCalls]
      BY SMTT(60), <3>2, <3>3
    <3> QED
      BY ZenonT(60), <3>1, <3>4, <3>5 DEF TypeOK
  <2>6. CASE SyncReturn(c)
    BY ZenonT(60), <2>6 DEF TypeOK, SyncReturn, Goto
  <2>7. CASE SyncTimeout(c)
    BY ZenonT(60), <2>7 DEF TypeOK, SyncTimeout, Goto
  <2> QED
    BY <1>2, <2>1, <2>2, <2>3, <2>4, <2>5, <2>6, <2>7 DEF CallerStep
<1>3. CASE RecvStep
  <2>1. CASE RecvLoop
    BY ZenonT(60), <2>1 DEF TypeOK, RecvLoop, RecvGoto, RecvExit
  <2>2. CASE RecvData
    <3>1. PICK n \in 1..Len(outbox) :
             /\ buf' = SubSeq(outbox, 1, n)
             /\ outbox' = SubSeq(outbox, n + 1, Len(outbox))
      BY <2>2 DEF RecvData
    <3>2. outbox \in Seq(Line) /\ Len(outbox) \in Nat /\ n \in Nat
      BY LenProperties DEF TypeOK
    <3>3. SubSeq(outbox, 1, n) \in Seq(Line)
      BY <3>2, SubSeqProperties
    <3>4. SubSeq(outbox, n + 1, Len(outbox)) \in Seq(Line)
      BY <3>2, SubSeqProperties
    <3> QED
      BY ZenonT(60), <2>2, <3>1, <3>3, <3>4 DEF TypeOK, RecvData
  <2>3. CASE RecvEnd
    BY ZenonT(60), <2>3 DEF TypeOK, RecvEnd, RecvGoto, RecvExit
  <2>4. CASE Dispatch
    <3>1. Head(buf) \in Line /\ Tail(buf) \in Seq(Line)
      BY <2>4, HeadTailProperties DEF TypeOK, Dispatch
    <3>2. CASE Head(buf).kind = "response"
      <4>1. Head(buf).id \in Ids /\ Head(buf).for \in Calls
        BY <3>1, <3>2 DEF Line
      <4> QED
        <5>1. /\ pending' \in [Ids -> Calls \cup {NoCall}]
              /\ recvCb' \in 0..MaxCalls /\ recvOf' \in 0..MaxCalls /\ recvPc' \in RecvPCs
          <6>1. pending \in [Ids -> Calls \cup {NoCall}]
            BY DEF TypeOK
          <6> QED
            BY SMTT(60), <2>4, <3>2, <4>1, <6>1 DEF Dispatch, Take
        <5> QED
          BY ZenonT(60), <2>4, <3>1, <3>2, <5>1 DEF TypeOK, Dispatch, Take
    <3>3. CASE Head(buf).kind # "response"
      BY ZenonT(60), <2>4, <3>1, <3>3 DEF TypeOK, Dispatch
    <3> QED
      BY <3>2, <3>3
  <2>5. CASE DispatchFire
    <3> USE <2>5 DEF DispatchFire, Fire
    <3>0. /\ fired \in [Calls -> Nat] /\ recvOf \in 0..MaxCalls
          /\ answer \in [Calls -> AnswerKinds] /\ answerOf \in [Calls -> 0..MaxCalls]
      BY DEF TypeOK
    <3>1. CASE recvCb = NoCall
      BY ZenonT(60), <3>0, <3>1 DEF TypeOK
    <3>2. CASE recvCb # NoCall
      <4>0. recvCb \in Calls
        BY <3>2 DEF TypeOK
      <4>1. fired' \in [Calls -> Nat]
        BY SMTT(60), <3>0, <3>2, <4>0
      <4>2. answer' \in [Calls -> AnswerKinds]
        BY ZenonT(60), <3>0, <3>2, <4>0
      <4>3. answerOf' \in [Calls -> 0..MaxCalls]
        BY ZenonT(60), <3>0, <3>2, <4>0
      <4>4. calls' = calls /\ result' = result
        BY <3>2
      <4>5. recvPc' \in RecvPCs /\ recvCb' \in 0..MaxCalls /\ recvOf' \in 0..MaxCalls
        OBVIOUS
      <4> QED
        BY ZenonT(60), <4>1, <4>2, <4>3, <4>4, <4>5 DEF TypeOK
    <3> QED
      BY <3>1, <3>2
  <2>6. CASE LinesDone
    BY ZenonT(60), <2>6 DEF TypeOK, LinesDone, RecvGoto
  <2> QED
    BY <1>3, <2>1, <2>2, <2>3, <2>4, <2>5, <2>6 DEF RecvStep
<1>4. ASSUME NEW g \in {"connect", "disconnect"}, BeginDisconnect(g) PROVE TypeOK'
  <2>1. connects' \in 0..MaxConnects
    BY <1>4 DEF TypeOK, BeginDisconnect
  <2>2. ctlPc' \in CtlPCs /\ goal' \in {"connect", "disconnect"} /\ running' \in BOOLEAN
    BY ZenonT(60), <1>4 DEF BeginDisconnect
  <2> QED
    BY ZenonT(60), <1>4, <2>1, <2>2 DEF TypeOK, BeginDisconnect
<1>5. CASE CtlStep
  <2>1. CASE CloseSocket
    BY ZenonT(60), <2>1 DEF TypeOK, CloseSocket, CtlGoto
  <2>2. CASE JoinRecvThread
    <3>1. recvPc' \in RecvPCs /\ buf' \in Seq(Line) /\ ctlPc' \in CtlPCs
      BY <2>2 DEF JoinRecvThread, CtlGoto
    <3> QED
      BY ZenonT(60), <2>2, <3>1 DEF TypeOK, JoinRecvThread, CtlGoto
  <2>3. CASE DrainPending
    <3>1. pending \in [Ids -> Calls \cup {NoCall}]
      BY DEF TypeOK
    <3>2. pending' \in [Ids -> Calls \cup {NoCall}] /\ ctlCbs' \in SUBSET Calls /\ ctlPc' \in CtlPCs
      BY <2>3, <3>1 DEF DrainPending, Drain
    <3> QED
      BY ZenonT(60), <2>3, <3>2 DEF TypeOK, DrainPending
  <2>4. CASE FireDisconnected
    <3>1. PICK k \in ctlCbs : Fire(k, "disconnected", NoCall) /\ ctlCbs' = ctlCbs \ {k}
      BY <2>4 DEF FireDisconnected
    <3>2. /\ fired \in [Calls -> Nat] /\ ctlCbs \in SUBSET Calls
          /\ answer \in [Calls -> AnswerKinds] /\ answerOf \in [Calls -> 0..MaxCalls]
      BY ZenonT(60) DEF TypeOK
    <3>3. ctlCbs' \in SUBSET Calls /\ k \in Calls
      BY <3>1, <3>2
    <3>4. fired' \in [Calls -> Nat]
      BY SMTT(60), <3>1, <3>2, <3>3 DEF Fire
    <3>5. answer' \in [Calls -> AnswerKinds] /\ answerOf' \in [Calls -> 0..MaxCalls]
      BY SMTT(60), <3>1, <3>2, <3>3 DEF Fire
    <3>6. calls' = calls /\ result' = result
      BY <3>1 DEF Fire
    <3> QED
      BY ZenonT(60), <2>4, <3>3, <3>4, <3>5, <3>6 DEF TypeOK, FireDisconnected
  <2>5. CASE DisconnectDone \/ OpenFail
    BY ZenonT(60), <2>5 DEF TypeOK, DisconnectDone, OpenFail, CtlGoto
  <2>6. CASE OpenOk
    <3> USE <2>6 DEF OpenOk, RecvGoto, CtlGoto
    <3>1. outbox' \in Seq(Line) /\ inbox' \in Seq(Request)
      OBVIOUS
    <3>2. ctlPc' \in CtlPCs /\ recvPc' \in RecvPCs /\ running' \in BOOLEAN
      OBVIOUS
    <3> QED
      BY ZenonT(60), <3>1, <3>2 DEF TypeOK
  <2> QED
    BY <1>5, <2>1, <2>2, <2>3, <2>4, <2>5, <2>6 DEF CtlStep
<1>6. CASE BridgeAnswer
  <2>1. Head(inbox) \in Request /\ Tail(inbox) \in Seq(Request)
    BY <1>6, HeadTailProperties DEF TypeOK, BridgeAnswer
  <2>2. [kind |-> "response", id |-> Head(inbox).id, for |-> Head(inbox).for] \in Line
    BY <2>1 DEF Request, Line
  <2>3. outbox' \in Seq(Line)
    BY <1>6, <2>2, AppendProperties DEF TypeOK, BridgeAnswer
  <2> QED
    BY ZenonT(60), <1>6, <2>1, <2>3 DEF TypeOK, BridgeAnswer
<1>7. CASE BridgeEvent
  <2>1. outbox' \in Seq(Line)
    BY <1>7, AppendProperties DEF TypeOK, BridgeEvent, Line
  <2>2. events' \in 0..MaxEvents
    BY <1>7 DEF TypeOK, BridgeEvent
  <2> QED
    BY ZenonT(60), <1>7, <2>1, <2>2 DEF TypeOK, BridgeEvent
<1>8. CASE BridgeDrop
  <2>1. outbox' = outbox \/ outbox' = <<>>
    BY <1>8 DEF BridgeDrop
  <2>2. outbox \in Seq(Line)
    BY DEF TypeOK
  <2>3. outbox' \in Seq(Line)
    <3>1. <<>> \in Seq(Line)
      OBVIOUS
    <3> QED
      BY <2>1, <2>2, <3>1, Zenon
  <2>4. inbox' \in Seq(Request)
    BY <1>8 DEF BridgeDrop
  <2> QED
    BY ZenonT(60), <1>8, <2>3, <2>4 DEF TypeOK, BridgeDrop
<1>9. CASE UNCHANGED vars
  BY ZenonT(60), <1>9 DEF TypeOK
<1> QED
  BY <1>1, <1>2, <1>3, <1>4, <1>5, <1>6, <1>7, <1>8, <1>9 DEF Next

\* Steps of the receive thread, the controlling thread and the bridge leave
\* the callers and the id counter alone.
LEMMA OthersKeepCallers ==
  ASSUME \/ RecvStep \/ CtlStep \/ BridgeAnswer \/ BridgeEvent \/ BridgeDrop
         \/ \E g \in {"connect", "disconnect"} : BeginDisconnect(g)
  PROVE  UNCHANGED <<pc, call, id, cb, calls, nextId>>
<1> USE DEF clientVars, callerVars, callVars
<1>1. CASE RecvStep
  BY ZenonT(60), <1>1 DEF RecvStep, RecvLoop, RecvData, RecvEnd, RecvExit, Dispatch, DispatchFire, LinesDone, Fire
<1>2. CASE CtlStep
  BY ZenonT(60), <1>2 DEF CtlStep, CloseSocket, JoinRecvThread, DrainPending, FireDisconnected, DisconnectDone,
              OpenFail, OpenOk, Fire
<1> QED
  BY <1>1, <1>2 DEF BridgeAnswer, BridgeEvent, BridgeDrop, BeginDisconnect

\* m_nextId.fetch_add gives every call its own id.
LEMMA NextIdsInv == TypeOK /\ IdsInv /\ [Next]_vars => IdsInv'
<1> SUFFICES ASSUME TypeOK, IdsInv, [Next]_vars PROVE IdsInv'
  OBVIOUS
<1> USE BoundsAssumption DEF IdsInv, Active
<1>1. ASSUME NEW c \in Callers, SendSync(c) PROVE IdsInv'
  <2>1. /\ nextId' = nextId + 1 /\ calls' = calls + 1 /\ calls \in Nat /\ nextId \in Nat
        /\ pc' = [pc EXCEPT ![c] = "allocated"]
        /\ call' = [call EXCEPT ![c] = calls + 1]
        /\ id' = [id EXCEPT ![c] = nextId]
    BY <1>1 DEF SendSync, FetchAdd, Goto, TypeOK
  <2>2. /\ pc'[c] = "allocated" /\ call'[c] = calls + 1 /\ id'[c] = calls + 1
        /\ \A d \in Callers \ {c} : pc'[d] = pc[d] /\ call'[d] = call[d] /\ id'[d] = id[d]
    BY <2>1 DEF TypeOK
  <2> QED
    BY <2>1, <2>2
<1>2. ASSUME NEW c \in Callers, CallerStep(c) PROVE IdsInv'
  <2>1. UNCHANGED <<call, id, calls, nextId>>
    BY ZenonT(60), <1>2 DEF CallerStep, Register, SendRawOk, SendRawFail, SendFailed, FailOwn, SyncReturn,
                SyncTimeout, TakeBack, Fire, clientVars, callVars
  <2>2. pc[c] # "idle"
    BY ZenonT(60), <1>2 DEF CallerStep, Register, SendRawOk, SendRawFail, SendFailed, FailOwn, SyncReturn,
                SyncTimeout
  <2>3. PICK point : pc' = [pc EXCEPT ![c] = point]
    BY ZenonT(60), <1>2 DEF CallerStep, Register, SendRawOk, SendRawFail, SendFailed, FailOwn, SyncReturn,
                SyncTimeout, TakeBack, Goto
  <2>4. \A d \in Callers : pc'[d] # "idle" => pc[d] # "idle"
    BY <2>2, <2>3 DEF TypeOK
  <2> QED
    BY <2>1, <2>4
<1>3. CASE UNCHANGED <<pc, call, id, calls, nextId>>
  BY <1>3
<1> QED
  BY ZenonT(60), <1>1, <1>2, <1>3, OthersKeepCallers DEF Next, vars, clientVars, callerVars, callVars

\* The bridge echoes the id it was sent, and every place a callback or a line
\* travels through keeps it with the call it belongs to.
LEMMA NextTagsInv == TypeOK /\ IdsInv /\ TagsInv /\ [Next]_vars => TagsInv'
<1> SUFFICES ASSUME TypeOK, IdsInv, TagsInv, [Next]_vars PROVE TagsInv'
  OBVIOUS
<1> USE BoundsAssumption DEF Ids, Calls, NoCall, vars, clientVars, callerVars, recvVars, ctlVars,
      wireVars, callVars
<1>0. CASE UNCHANGED <<pending, inbox, outbox, buf, recvCb, recvOf, pc, call, cb>>
  BY ZenonT(60), <1>0 DEF TagsInv
<1>1. ASSUME NEW c \in Callers, SendSync(c) PROVE TagsInv'
  BY ZenonT(60), <1>1 DEF TypeOK, TagsInv, SendSync, FetchAdd, Goto
<1>2. ASSUME NEW c \in Callers, CallerStep(c) PROVE TagsInv'
  <2>0. pc[c] # "idle" => id[c] = call[c] /\ id[c] \in Ids
    BY DEF TypeOK, IdsInv, Active
  <2>1. CASE Register(c)
    BY ZenonT(60), <2>0, <2>1 DEF TypeOK, TagsInv, Register, Goto
  <2>2. CASE SendRawOk(c)
    <3> DEFINE r == [id |-> id[c], for |-> call[c]]
    <3>1. r \in Request /\ r.for = r.id
      BY ZenonT(60), <2>0, <2>2 DEF SendRawOk, Request
    <3>2. \A n \in 1..Len(inbox') : inbox'[n].for = inbox'[n].id
      <4>1. CASE inbox' = inbox
        BY ZenonT(60), <4>1 DEF TagsInv
      <4>2. CASE inbox' = Append(inbox, r)
        <5>1. inbox \in Seq(Request) /\ Len(inbox) \in Nat
          BY LenProperties DEF TypeOK
        <5>2. /\ Len(inbox') = Len(inbox) + 1
              /\ \A n \in 1..Len(inbox) : inbox'[n] = inbox[n]
              /\ inbox'[Len(inbox) + 1] = r
          BY <3>1, <4>2, <5>1, AppendProperties
        <5> QED
          BY SMTT(60), <3>1, <5>1, <5>2 DEF TagsInv
      <4> QED
        BY ZenonT(60), <2>2, <4>1, <4>2 DEF SendRawOk
    <3> QED
      BY <2>2, <3>2 DEF TypeOK, TagsInv, SendRawOk, Goto
  <2>3. CASE SendRawFail(c)
    BY ZenonT(60), <2>3 DEF TypeOK, TagsInv, SendRawFail, Goto
  <2>4. CASE SendFailed(c)
    BY <2>0, <2>4 DEF TypeOK, TagsInv, SendFailed, TakeBack, Goto
  <2>5. CASE FailOwn(c)
    BY ZenonT(60), <2>5 DEF TypeOK, TagsInv, FailOwn, Fire, Goto
  <2>6. CASE SyncReturn(c) \/ SyncTimeout(c)
    BY ZenonT(60), <2>6 DEF TypeOK, TagsInv, SyncReturn, SyncTimeout, Goto
  <2> QED
    BY <1>2, <2>1, <2>2, <2>3, <2>4, <2>5, <2>6 DEF CallerStep
<1>3. CASE RecvStep
  <2>1. CASE RecvLoop \/ RecvEnd \/ LinesDone
    BY ZenonT(60), <1>0, <2>1 DEF RecvLoop, RecvEnd, LinesDone, RecvGoto, RecvExit
  <2>2. CASE RecvData
    <3>1. PICK n \in 1..Len(outbox) :
             /\ buf' = SubSeq(outbox, 1, n)
             /\ outbox' = SubSeq(outbox, n + 1, Len(outbox))
      BY <2>2 DEF RecvData
    <3>2. outbox \in Seq(Line) /\ Len(outbox) \in Nat /\ n \in Nat
      BY LenProperties DEF TypeOK
    <3>3. Len(buf') = n /\ \A m \in 1..n : buf'[m] = outbox[m]
      BY SMTT(60), <3>1, <3>2, SubSeqProperties
    <3>4. /\ Len(outbox') = Len(outbox) - n
          /\ \A m \in 1..(Len(outbox) - n) : outbox'[m] = outbox[n + m]
      BY <3>1, <3>2, SubSeqProperties
    <3>5. \A m \in 1..Len(buf') : buf'[m].for = buf'[m].id
      BY SMTT(60), <3>1, <3>2, <3>3 DEF TagsInv
    <3>6. \A m \in 1..Len(outbox') : outbox'[m].for = outbox'[m].id
      <4> SUFFICES ASSUME NEW m \in 1..Len(outbox') PROVE outbox'[m].for = outbox'[m].id
        OBVIOUS
      <4>1. Len(outbox') = Len(outbox) - n
        BY ZenonT(60), <3>4
      <4>2. m \in 1..(Len(outbox) - n) /\ n + m \in 1..Len(outbox)
        BY SMTT(60), <3>2, <4>1
      <4>3. outbox'[m] = outbox[n + m]
        BY ZenonT(60), <3>4, <4>2
      <4>4. outbox[n + m].for = outbox[n + m].id
        BY ZenonT(60), <4>2 DEF TagsInv
      <4> QED
        BY ZenonT(60), <4>3, <4>4
    <3> QED
      BY ZenonT(60), <2>2, <3>5, <3>6 DEF TagsInv, RecvData
  <2>3. CASE Dispatch
    <3>1. buf \in Seq(Line) /\ buf # <<>> /\ Len(buf) \in Nat
      BY ZenonT(60), <2>3, LenProperties DEF TypeOK, Dispatch
    <3>2. /\ Head(buf) = buf[1] /\ 1 \in 1..Len(buf)
          /\ Len(Tail(buf)) = Len(buf) - 1
          /\ \A n \in 1..(Len(buf) - 1) : Tail(buf)[n] = buf[n + 1]
      BY <3>1, HeadTailProperties, LenProperties
    <3>3. \A n \in 1..Len(buf') : buf'[n].for = buf'[n].id
      <4> SUFFICES ASSUME NEW n \in 1..Len(buf') PROVE buf'[n].for = buf'[n].id
        OBVIOUS
      <4>1. buf' = Tail(buf)
        BY <2>3 DEF Dispatch
      <4>4. Len(buf') = Len(buf) - 1
        BY <3>2, <4>1, Zenon
      <4>5. Len(buf) \in Nat
        BY <3>1
      <4>2. n \in 1..(Len(buf) - 1) /\ n + 1 \in 1..Len(buf)
        BY <4>4, <4>5
      <4>3. buf'[n] = buf[n + 1]
        BY <3>2, <4>1, <4>2
      <4> QED
        BY ZenonT(60), <4>2, <4>3 DEF TagsInv
    <3>4. Head(buf) \in Line /\ Head(buf).for = Head(buf).id
      BY <3>1, <3>2, HeadTailProperties DEF TagsInv
    <3>5. CASE Head(buf).kind = "response"
      <4>1. Head(buf).id \in Ids
        BY <3>4, <3>5 DEF Line
      <4>2. recvCb' = pending[Head(buf).id] /\ recvOf' = Head(buf).id
            /\ pending' = [pending EXCEPT ![Head(buf).id] = NoCall]
        BY ZenonT(60), <2>3, <3>4, <3>5 DEF Dispatch, Take
      <4>3. recvCb' \in {NoCall, recvOf'} /\ \A i \in Ids : pending'[i] \in {NoCall, i}
        BY <4>1, <4>2 DEF TagsInv, TypeOK
      <4> QED
        BY ZenonT(60), <2>3, <3>3, <4>3 DEF TagsInv, Dispatch
    <3>6. CASE Head(buf).kind # "response"
      BY ZenonT(60), <2>3, <3>3, <3>6 DEF TagsInv, Dispatch
    <3> QED
      BY <3>5, <3>6
  <2>4. CASE DispatchFire
    BY ZenonT(60), <2>4 DEF TagsInv, DispatchFire
  <2> QED
    BY <1>3, <2>1, <2>2, <2>3, <2>4 DEF RecvStep
<1>4. CASE \E g \in {"connect", "disconnect"} : BeginDisconnect(g)
  BY ZenonT(60), <1>0, <1>4 DEF BeginDisconnect
<1>5. CASE CtlStep
  <2>1. CASE CloseSocket \/ DisconnectDone \/ OpenFail \/ FireDisconnected
    BY ZenonT(60), <1>0, <2>1 DEF CloseSocket, DisconnectDone, OpenFail, FireDisconnected
  <2>2. CASE JoinRecvThread
    BY SMTT(60), <2>2 DEF TagsInv, JoinRecvThread
  <2>3. CASE DrainPending
    BY ZenonT(60), <2>3 DEF TagsInv, DrainPending, Drain
  <2>4. CASE OpenOk
    BY SMTT(60), <2>4 DEF TagsInv, OpenOk, RecvGoto
  <2> QED
    BY <1>5, <2>1, <2>2, <2>3, <2>4 DEF CtlStep
<1>6. CASE BridgeAnswer
  <2>1. inbox \in Seq(Request) /\ inbox # <<>> /\ Len(inbox) \in Nat
    BY ZenonT(60), <1>6, LenProperties DEF TypeOK, BridgeAnswer
  <2>2. /\ Head(inbox) = inbox[1] /\ 1 \in 1..Len(inbox) /\ Head(inbox) \in Request
        /\ Len(Tail(inbox)) = Len(inbox) - 1
        /\ \A n \in 1..(Len(inbox) - 1) : Tail(inbox)[n] = inbox[n + 1]
    BY <2>1, HeadTailProperties, LenProperties
  <2>3. \A n \in 1..Len(inbox') : inbox'[n].for = inbox'[n].id
    <3> SUFFICES ASSUME NEW n \in 1..Len(inbox') PROVE inbox'[n].for = inbox'[n].id
      OBVIOUS
    <3>1. inbox' = Tail(inbox)
      BY <1>6 DEF BridgeAnswer
    <3>4. Len(inbox') = Len(inbox) - 1
      BY <2>2, <3>1, Zenon
    <3>5. Len(inbox) \in Nat
      BY <2>1
    <3>2. n \in 1..(Len(inbox) - 1) /\ n + 1 \in 1..Len(inbox)
      BY <3>4, <3>5
    <3>3. inbox'[n] = inbox[n + 1]
      BY <2>2, <3>1, <3>2
    <3> QED
      BY ZenonT(60), <3>2, <3>3 DEF TagsInv
  <2> DEFINE line == [kind |-> "response", id |-> Head(inbox).id, for |-> Head(inbox).for]
  <2>4. line \in Line /\ line.for = line.id
    BY ZenonT(60), <2>2 DEF TagsInv, Line, Request
  <2>5. outbox \in Seq(Line) /\ Len(outbox) \in Nat
    BY LenProperties DEF TypeOK
  <2>6. /\ Len(outbox') = Len(outbox) + 1
        /\ \A n \in 1..Len(outbox) : outbox'[n] = outbox[n]
        /\ outbox'[Len(outbox) + 1] = line
    BY SMTT(60), <1>6, <2>4, <2>5, AppendProperties DEF BridgeAnswer
  <2>7. \A n \in 1..Len(outbox') : outbox'[n].for = outbox'[n].id
    BY SMTT(60), <2>4, <2>5, <2>6 DEF TagsInv
  <2> QED
    BY ZenonT(60), <1>6, <2>3, <2>7 DEF TagsInv, BridgeAnswer
<1>7. CASE BridgeEvent
  <2> DEFINE line == [kind |-> "event", id |-> 0, for |-> NoCall]
  <2>1. line \in Line /\ line.for = line.id
    BY DEF Line
  <2>2. outbox \in Seq(Line) /\ Len(outbox) \in Nat
    BY LenProperties DEF TypeOK
  <2>3. /\ Len(outbox') = Len(outbox) + 1
        /\ \A n \in 1..Len(outbox) : outbox'[n] = outbox[n]
        /\ outbox'[Len(outbox) + 1] = line
    BY SMTT(60), <1>7, <2>1, <2>2, AppendProperties DEF BridgeEvent
  <2>4. \A n \in 1..Len(outbox') : outbox'[n].for = outbox'[n].id
    BY SMTT(60), <2>1, <2>2, <2>3 DEF TagsInv
  <2> QED
    BY ZenonT(60), <1>7, <2>4 DEF TagsInv, BridgeEvent
<1>8. CASE BridgeDrop
  <2>1. \A n \in 1..Len(outbox') : outbox'[n].for = outbox'[n].id
    <3>1. CASE outbox' = outbox
      BY ZenonT(60), <3>1 DEF TagsInv
    <3>2. CASE outbox' = <<>>
      BY SMTT(60), <3>2
    <3> QED
      BY ZenonT(60), <1>8, <3>1, <3>2 DEF BridgeDrop
  <2> QED
    BY SMTT(60), <1>8, <2>1 DEF TagsInv, BridgeDrop
<1>9. CASE UNCHANGED vars
  BY ZenonT(60), <1>0, <1>9
<1> QED
  BY <1>1, <1>2, <1>3, <1>4, <1>5, <1>6, <1>7, <1>8, <1>9 DEF Next

\* The heart of the argument: whichever thread moves a callback out of
\* m_pending becomes its only holder, and only a holder runs it.
LEMMA NextOneHolderInv ==
  TypeOK /\ IdsInv /\ TagsInv /\ OneHolderInv /\ [Next]_vars => OneHolderInv'
<1> SUFFICES ASSUME TypeOK, IdsInv, TagsInv, OneHolderInv, [Next]_vars, NEW k \in Calls
             PROVE  OneHolder(k)'
  BY DEF OneHolderInv, Calls
<1>0. OneHolder(k)
  BY DEF OneHolderInv
<1> USE BoundsAssumption DEF Ids, Calls, NoCall, vars, clientVars, callerVars, recvVars, ctlVars,
      wireVars, callVars
<1>1. ASSUME NEW c \in Callers, SendSync(c) PROVE OneHolder(k)'
  <2>1. /\ UNCHANGED <<pending, recvCb, ctlCbs, fired>> /\ calls' = calls + 1 /\ calls \in Nat
        /\ pc'[c] = "allocated" /\ call'[c] = calls + 1
        /\ \A d \in Callers \ {c} : pc'[d] = pc[d] /\ call'[d] = call[d]
    BY SMTT(60), <1>1 DEF TypeOK, SendSync, FetchAdd, Goto
  <2>2. InCaller(k)' => InCaller(k)
    BY ZenonT(60), <2>1 DEF InCaller
  <2>3. Unregistered(k)' => Unregistered(k)
    BY SMTT(60), <2>1 DEF Unregistered
  <2> QED
    BY ZenonT(60), <1>0, <2>1, <2>2, <2>3 DEF OneHolder, InPending, InRecv, InCtl
<1>2. ASSUME NEW c \in Callers, CallerStep(c) PROVE OneHolder(k)'
  <2>0. /\ pc[c] # "idle" => id[c] = call[c] /\ call[c] \in 1..calls /\ id[c] \in Ids
        /\ \A d \in Callers : d # c /\ pc[c] # "idle" /\ pc[d] # "idle" => call[d] # call[c]
    BY SMTT(60) DEF TypeOK, IdsInv, Active
  <2>8. pc[c] # "idle" /\ k = call[c] =>
          ~(k > calls) /\ \A d \in Callers : call[d] = k /\ pc[d] # "idle" => d = c
    <3>1. calls \in Nat
      BY DEF TypeOK
    <3> QED
      BY SMTT(60), <2>0, <3>1
  <2>1. CASE Register(c)
    <3>1. /\ UNCHANGED <<call, calls, recvCb, ctlCbs, fired>>
          /\ pc[c] = "allocated" /\ pc'[c] = "registered"
          /\ \A d \in Callers \ {c} : pc'[d] = pc[d]
          /\ pending'[call[c]] = call[c]
          /\ \A i \in Ids \ {call[c]} : pending'[i] = pending[i]
      BY ZenonT(60), <2>0, <2>1 DEF TypeOK, Register, Goto
    <3>2. CASE k = call[c]
      <4>1. Unregistered(k)
        BY ZenonT(60), <3>1, <3>2 DEF Unregistered
      <4>2. ~InCaller(k)
        BY ZenonT(60), <2>8, <3>1, <3>2 DEF InCaller
      <4>3. ~Unregistered(k)'
        BY ZenonT(60), <2>8, <3>1, <3>2 DEF Unregistered
      <4>4. ~InCaller(k)'
        BY ZenonT(60), <2>8, <3>1, <3>2 DEF InCaller
      <4> QED
        BY ZenonT(60), <1>0, <3>1, <4>1, <4>2, <4>3, <4>4 DEF OneHolder, InPending, InRecv, InCtl
    <3>3. CASE k # call[c]
      <4>1. (InCaller(k)' <=> InCaller(k)) /\ (Unregistered(k)' <=> Unregistered(k))
        BY ZenonT(60), <3>1, <3>3 DEF InCaller, Unregistered
      <4> QED
        BY ZenonT(60), <1>0, <3>1, <3>3, <4>1 DEF OneHolder, InPending, InRecv, InCtl
    <3> QED
      BY SMTT(60), <3>2, <3>3
  <2>2. CASE SendRawOk(c) \/ SendRawFail(c) \/ SyncReturn(c) \/ SyncTimeout(c)
    <3>1. /\ UNCHANGED <<call, calls, recvCb, ctlCbs, fired, pending>>
          /\ pc[c] \notin {"allocated", "failing"} /\ pc'[c] \notin {"allocated", "failing"}
          /\ \A d \in Callers \ {c} : pc'[d] = pc[d]
      BY ZenonT(60), <2>2 DEF TypeOK, SendRawOk, SendRawFail, SyncReturn, SyncTimeout, Goto
    <3>2. (InCaller(k)' <=> InCaller(k)) /\ (Unregistered(k)' <=> Unregistered(k))
      BY ZenonT(60), <3>1 DEF InCaller, Unregistered
    <3> QED
      BY ZenonT(60), <1>0, <3>1, <3>2 DEF OneHolder, InPending, InRecv, InCtl
  <2>3. CASE SendFailed(c)
    <3>1. /\ UNCHANGED <<call, calls, recvCb, ctlCbs, fired>>
          /\ pc[c] = "sendFailed"
          /\ pc'[c] = IF pending[call[c]] = NoCall THEN "waiting" ELSE "failing"
          /\ \A d \in Callers \ {c} : pc'[d] = pc[d]
          /\ pending'[call[c]] = NoCall
          /\ \A i \in Ids \ {call[c]} : pending'[i] = pending[i]
      BY ZenonT(60), <2>0, <2>3 DEF TypeOK, SendFailed, TakeBack, Goto
    <3>2. CASE k = call[c]
      <4>1. ~Unregistered(k)'
        BY ZenonT(60), <2>8, <3>1, <3>2 DEF Unregistered
      <4>2. InCaller(k)' => InPending(k)
        BY ZenonT(60), <2>8, <3>1, <3>2 DEF InPending, InCaller
      <4> QED
        BY ZenonT(60), <1>0, <3>1, <3>2, <4>1, <4>2 DEF OneHolder, InPending, InRecv, InCtl
    <3>3. CASE k # call[c]
      <4>1. (InCaller(k)' <=> InCaller(k)) /\ (Unregistered(k)' <=> Unregistered(k))
        BY ZenonT(60), <3>1, <3>3 DEF InCaller, Unregistered
      <4> QED
        BY ZenonT(60), <1>0, <3>1, <3>3, <4>1 DEF OneHolder, InPending, InRecv, InCtl
    <3> QED
      BY Zenon, <3>2, <3>3
  <2>4. CASE FailOwn(c)
    <3>1. /\ UNCHANGED <<call, calls, recvCb, ctlCbs, pending>>
          /\ pc[c] = "failing" /\ pc'[c] = "waiting" /\ cb[c] = call[c]
          /\ \A d \in Callers \ {c} : pc'[d] = pc[d]
          /\ \A j \in Calls \ {call[c]} : fired'[j] = fired[j]
      BY ZenonT(60), <2>0, <2>4 DEF TypeOK, TagsInv, FailOwn, Fire, Goto
    <3>2. CASE k = call[c]
      <4>1. InCaller(k)
        BY ZenonT(60), <3>1, <3>2 DEF InCaller
      <4>2. ~InCaller(k)'
        BY ZenonT(60), <2>8, <3>1, <3>2 DEF InCaller
      <4>3. ~Unregistered(k)'
        BY ZenonT(60), <2>8, <3>1, <3>2 DEF Unregistered
      <4> QED
        BY ZenonT(60), <1>0, <3>1, <4>1, <4>2, <4>3 DEF OneHolder, InPending, InRecv, InCtl
    <3>3. CASE k # call[c]
      <4>1. (InCaller(k)' <=> InCaller(k)) /\ (Unregistered(k)' <=> Unregistered(k))
        BY ZenonT(60), <3>1, <3>3 DEF InCaller, Unregistered
      <4> QED
        BY ZenonT(60), <1>0, <3>1, <3>3, <4>1 DEF OneHolder, InPending, InRecv, InCtl
    <3> QED
      BY Zenon, <3>2, <3>3
  <2> QED
    BY ZenonT(60), <1>2, <2>1, <2>2, <2>3, <2>4 DEF CallerStep
<1>3. CASE Dispatch
  <2>1. UNCHANGED <<pc, call, calls, ctlCbs, fired>>
    BY <1>3 DEF Dispatch
  <2>2. (InCaller(k)' <=> InCaller(k)) /\ (Unregistered(k)' <=> Unregistered(k))
    BY ZenonT(60), <2>1 DEF InCaller, Unregistered
  <2>3. CASE Head(buf).kind = "response"
    <3>1. Head(buf).id \in Ids
      BY SMTT(60), <1>3, <2>3, HeadTailProperties DEF TypeOK, Dispatch, Line
    <3> DEFINE i == Head(buf).id
    <3>2. recvCb' = pending[i] /\ pending'[i] = NoCall /\ \A j \in Ids \ {i} : pending'[j] = pending[j]
      BY ZenonT(60), <1>3, <2>3, <3>1 DEF TypeOK, Dispatch, Take
    <3>3. recvCb' = k => i = k /\ InPending(k)
      <4>1. pending[i] \in {NoCall, i}
        BY ZenonT(60), <3>1 DEF TagsInv
      <4>2. k # NoCall
        OBVIOUS
      <4>3. recvCb' = k => i = k
        BY <3>2, <4>1, <4>2, Zenon
      <4> QED
        BY <3>2, <4>2, <4>3, Zenon DEF InPending
    <3> QED
      BY ZenonT(60), <1>0, <2>1, <2>2, <3>1, <3>2, <3>3 DEF OneHolder, InPending, InRecv, InCtl
  <2>4. CASE Head(buf).kind # "response"
    BY ZenonT(60), <1>0, <1>3, <2>1, <2>2, <2>4 DEF Dispatch, OneHolder, InPending, InRecv, InCtl
  <2> QED
    BY SMTT(60), <2>3, <2>4
<1>4. CASE DispatchFire
  <2>1. /\ UNCHANGED <<pc, call, calls, ctlCbs, pending>>
        /\ recvCb' = NoCall
        /\ \A j \in Calls \ {recvCb} : fired'[j] = fired[j]
    BY ZenonT(60), <1>4 DEF TypeOK, DispatchFire, Fire
  <2>2. (InCaller(k)' <=> InCaller(k)) /\ (Unregistered(k)' <=> Unregistered(k))
    BY ZenonT(60), <2>1 DEF InCaller, Unregistered
  <2> QED
    BY <1>0, <2>1, <2>2 DEF OneHolder, InPending, InRecv, InCtl
<1>5. CASE DrainPending
  <2>1. /\ UNCHANGED <<pc, call, calls, recvCb, fired>>
        /\ ctlCbs' = {pending[i] : i \in Ids} \ {NoCall}
        /\ pending' = [i \in Ids |-> NoCall]
    BY ZenonT(60), <1>5 DEF DrainPending, Drain
  <2>2. (InCaller(k)' <=> InCaller(k)) /\ (Unregistered(k)' <=> Unregistered(k))
    BY ZenonT(60), <2>1 DEF InCaller, Unregistered
  <2>3. InCtl(k)' => InPending(k)
    BY ZenonT(60), <2>1 DEF TagsInv, InPending, InCtl
  <2> QED
    BY ZenonT(60), <1>0, <2>1, <2>2, <2>3 DEF OneHolder, InPending, InRecv, InCtl
<1>6. CASE FireDisconnected
  <2>1. PICK j \in ctlCbs :
           /\ \A m \in Calls \ {j} : fired'[m] = fired[m]
           /\ ctlCbs' = ctlCbs \ {j}
    BY ZenonT(60), <1>6 DEF TypeOK, FireDisconnected, Fire
  <2>2. UNCHANGED <<pc, call, calls, recvCb, pending>>
    BY <1>6 DEF FireDisconnected, Fire
  <2>3. (InCaller(k)' <=> InCaller(k)) /\ (Unregistered(k)' <=> Unregistered(k))
    BY ZenonT(60), <2>2 DEF InCaller, Unregistered
  <2> QED
    BY ZenonT(60), <1>0, <2>1, <2>2, <2>3 DEF OneHolder, InPending, InRecv, InCtl
<1>7. CASE UNCHANGED <<pc, call, calls, recvCb, ctlCbs, pending, fired>>
  <2>1. (InCaller(k)' <=> InCaller(k)) /\ (Unregistered(k)' <=> Unregistered(k))
    BY ZenonT(60), <1>7 DEF InCaller, Unregistered
  <2> QED
    BY <1>0, <1>7, <2>1 DEF OneHolder, InPending, InRecv, InCtl
<1>8. ASSUME \/ RecvLoop \/ RecvData \/ RecvEnd \/ LinesDone
             \/ CloseSocket \/ JoinRecvThread \/ DisconnectDone \/ OpenFail \/ OpenOk
             \/ \E g \in {"connect", "disconnect"} : BeginDisconnect(g)
             \/ BridgeAnswer \/ BridgeEvent \/ BridgeDrop
      PROVE  UNCHANGED <<pc, call, calls, recvCb, ctlCbs, pending, fired>>
  BY ZenonT(60), <1>8 DEF RecvLoop, RecvData, RecvEnd, LinesDone, CloseSocket, JoinRecvThread, DisconnectDone,
              OpenFail, OpenOk, BeginDisconnect, BridgeAnswer, BridgeEvent, BridgeDrop, RecvGoto,
              RecvExit, CtlGoto
<1> HIDE DEF OneHolder, InPending, InRecv, InCtl, InCaller, Unregistered
<1> QED
  BY <1>1, <1>2, <1>3, <1>4, <1>5, <1>6, <1>7, <1>8 DEF Next, RecvStep, CtlStep

\* What a step can do to the callbacks: nothing, or run one that has not run
\* before, with a local failure or with the response to its own request.
FirstRun(k) ==
  /\ k \in 1..calls /\ fired[k] = 0 /\ calls' = calls
  /\ fired' = [fired EXCEPT ![k] = 1]
  /\ \E kind \in AnswerKinds \ {"none"}, of \in 0..MaxCalls :
       /\ answer' = [answer EXCEPT ![k] = kind]
       /\ answerOf' = [answerOf EXCEPT ![k] = of]
       /\ kind = "response" => of = k

\* The step relation above is what the invariant makes of every action.
LEMMA CallbackSteps ==
  IInv /\ [Next]_vars =>
    \/ UNCHANGED <<fired, answer, answerOf>>
    \/ \E k \in Calls : FirstRun(k)
<1> SUFFICES ASSUME IInv, [Next]_vars
             PROVE  \/ UNCHANGED <<fired, answer, answerOf>>
                    \/ \E k \in Calls : FirstRun(k)
  OBVIOUS
<1> USE BoundsAssumption DEF IInv, Ids, Calls, NoCall
<1>0. calls \in 0..MaxCalls /\ fired \in [Calls -> Nat]
  BY DEF TypeOK
<1>1. ASSUME NEW k \in Calls, InRecv(k) \/ InCtl(k) \/ InCaller(k)
      PROVE  k \in 1..calls /\ fired[k] = 0
  <2>1. OneHolder(k)
    BY DEF OneHolderInv
  <2>2. CASE InRecv(k) \/ InCtl(k)
    <3>1. ~Unregistered(k) /\ fired[k] = 0
      BY <2>1, <2>2 DEF OneHolder
    <3> QED
      BY <1>0, <3>1 DEF Unregistered
  <2>3. CASE InCaller(k)
    <3>1. fired[k] = 0
      BY <2>1, <2>3 DEF OneHolder
    <3>2. k \in 1..calls
      BY ZenonT(60), <2>3 DEF InCaller, IdsInv, Active
    <3> QED
      BY <3>1, <3>2
  <2> QED
    BY <1>1, <2>2, <2>3
<1>2. ASSUME NEW k \in Calls, NEW kind \in AnswerKinds \ {"none"}, NEW of \in 0..MaxCalls,
             InRecv(k) \/ InCtl(k) \/ InCaller(k), Fire(k, kind, of),
             kind = "response" => of = k
      PROVE  FirstRun(k)
  <2>1. k \in 1..calls /\ fired[k] = 0
    BY <1>1, <1>2
  <2>2. fired' = [fired EXCEPT ![k] = 1] /\ calls' = calls
    BY <1>0, <1>2, <2>1 DEF Fire
  <2>3. /\ answer' = [answer EXCEPT ![k] = kind]
        /\ answerOf' = [answerOf EXCEPT ![k] = of]
    BY <1>2 DEF Fire
  <2> QED
    BY <1>2, <2>1, <2>2, <2>3, Zenon DEF FirstRun
<1>3. ASSUME NEW c \in Callers, FailOwn(c) PROVE \E k \in Calls : FirstRun(k)
  <2>0. pc[c] = "failing"
    BY ZenonT(60), <1>3 DEF FailOwn
  <2>4. cb[c] = call[c] /\ call[c] \in 1..calls
    BY ZenonT(60), <2>0 DEF TagsInv, IdsInv, Active
  <2>5. calls \in 0..MaxCalls
    BY ZenonT(60) DEF TypeOK
  <2>6. cb[c] \in Calls
    BY SMTT(60), <2>4, <2>5
  <2>1. InCaller(cb[c]) /\ cb[c] \in Calls
    BY ZenonT(60), <2>0, <2>4, <2>6 DEF InCaller
  <2>2. Fire(cb[c], "sendFailed", NoCall)
    BY ZenonT(60), <1>3 DEF FailOwn
  <2>3. FirstRun(cb[c])
    BY <1>2, <2>1, <2>2 DEF AnswerKinds
  <2> QED
    BY <2>1, <2>3, Zenon
<1>4. CASE DispatchFire
  <2>1. CASE recvCb = NoCall
    BY <1>4, <2>1 DEF DispatchFire, callVars
  <2>2. CASE recvCb # NoCall
    <3>1. recvCb \in Calls /\ InRecv(recvCb) /\ recvOf = recvCb
      BY SMTT(60), <2>2 DEF TypeOK, TagsInv, InRecv
    <3>2. Fire(recvCb, "response", recvOf)
      BY <1>4, <2>2 DEF DispatchFire
    <3>3. FirstRun(recvCb)
      BY <1>2, <3>1, <3>2 DEF AnswerKinds
    <3> QED
      BY <3>1, <3>3, Zenon
  <2> QED
    BY <2>1, <2>2
<1>5. CASE FireDisconnected
  <2>1. PICK k \in ctlCbs : Fire(k, "disconnected", NoCall)
    BY <1>5 DEF FireDisconnected
  <2>2. k \in Calls /\ InCtl(k)
    BY DEF TypeOK, InCtl
  <2>3. FirstRun(k)
    BY <1>2, <2>1, <2>2 DEF AnswerKinds
  <2> QED
    BY <2>2, <2>3, Zenon
<1>6. ASSUME \/ \E c \in Callers : \/ SendSync(c) \/ Register(c) \/ SendRawOk(c) \/ SendRawFail(c)
                                   \/ SendFailed(c) \/ SyncReturn(c) \/ SyncTimeout(c)
             \/ RecvLoop \/ RecvData \/ RecvEnd \/ Dispatch \/ LinesDone
             \/ CloseSocket \/ JoinRecvThread \/ DrainPending \/ DisconnectDone \/ OpenFail \/ OpenOk
             \/ \E g \in {"connect", "disconnect"} : BeginDisconnect(g)
             \/ BridgeAnswer \/ BridgeEvent \/ BridgeDrop
             \/ UNCHANGED vars
      PROVE  UNCHANGED <<fired, answer, answerOf>>
  BY ZenonT(60), <1>6 DEF SendSync, Register, SendRawOk, SendRawFail, SendFailed, SyncReturn, SyncTimeout,
              RecvLoop, RecvData, RecvEnd, Dispatch, LinesDone, CloseSocket, JoinRecvThread,
              DrainPending, DisconnectDone, OpenFail, OpenOk, BeginDisconnect, BridgeAnswer,
              BridgeEvent, BridgeDrop, vars, callVars
<1> QED
  BY <1>3, <1>4, <1>5, <1>6 DEF Next, CallerStep, RecvStep, CtlStep

\* The two properties about callbacks are preserved.
LEMMA NextCallbacks == IInv /\ [Next]_vars => AtMostOnce' /\ OwnAnswer'
<1> SUFFICES ASSUME IInv, [Next]_vars PROVE AtMostOnce' /\ OwnAnswer'
  OBVIOUS
<1> USE DEF AtMostOnce, OwnAnswer
<1>0. /\ fired \in [Calls -> Nat] /\ answer \in [Calls -> AnswerKinds]
      /\ answerOf \in [Calls -> 0..MaxCalls] /\ AtMostOnce /\ OwnAnswer
  BY ZenonT(60) DEF IInv, TypeOK
<1>1. CASE UNCHANGED <<fired, answer, answerOf>>
  BY <1>0, <1>1
<1>2. ASSUME NEW k \in Calls, FirstRun(k) PROVE AtMostOnce' /\ OwnAnswer'
  BY <1>0, <1>2 DEF FirstRun, Calls
<1> QED
  BY ZenonT(60), <1>1, <1>2, CallbackSteps

\* No entry of m_pending outlives the connection it was sent on.
LEMMA NextOrphanInv == IInv /\ [Next]_vars => OrphanInv'
<1> SUFFICES ASSUME IInv, [Next]_vars, ctlPc' \notin {"joining", "draining"},
                    NEW i \in Ids, pending'[i] # NoCall
             PROVE  NotOrphaned(i)'
  BY DEF OrphanInv, Ids
<1> USE BoundsAssumption DEF IInv, Ids, Calls, NoCall, vars, clientVars, callerVars, recvVars,
      ctlVars, wireVars, callVars
<1>1. ASSUME NEW c \in Callers, SendSync(c) \/ CallerStep(c) PROVE NotOrphaned(i)'
  <2>0. ctlPc \notin {"joining", "draining"}
    BY ZenonT(60), <1>1 DEF SendSync, CallerStep, Register, SendRawOk, SendRawFail, SendFailed, FailOwn,
                SyncReturn, SyncTimeout
  <2>1. pc[c] # "idle" => id[c] = call[c] /\ id[c] \in Ids
    BY SMTT(60) DEF IdsInv, Active, TypeOK
  <2>2. CASE Register(c)
    <3>1. CASE i = id[c]
      BY ZenonT(60), <2>2, <3>1 DEF Register, Goto, NotOrphaned, TypeOK
    <3>2. CASE i # id[c]
      BY ZenonT(60), <2>0, <2>2, <3>2 DEF Register, Goto, NotOrphaned, OrphanInv, TypeOK
    <3> QED
      BY <3>1, <3>2
  <2>3. CASE SendRawOk(c)
    BY ZenonT(60), <2>0, <2>1, <2>3 DEF SendRawOk, Goto, NotOrphaned, OrphanInv, TypeOK
  <2>4. CASE SendRawFail(c)
    BY ZenonT(60), <2>0, <2>4 DEF SendRawFail, Goto, NotOrphaned, OrphanInv, TypeOK
  <2>5. CASE SendFailed(c)
    BY SMTT(60), <2>0, <2>1, <2>5 DEF SendFailed, TakeBack, Goto, NotOrphaned, OrphanInv, TypeOK
  <2>6. CASE SendSync(c) \/ FailOwn(c) \/ SyncReturn(c) \/ SyncTimeout(c)
    <3>1. /\ UNCHANGED <<pending, sent>>
          /\ pc[c] \notin {"registered", "sendFailed"}
          /\ \A d \in Callers \ {c} : pc'[d] = pc[d] /\ id'[d] = id[d]
      BY ZenonT(60), <2>6 DEF SendSync, FetchAdd, FailOwn, SyncReturn, SyncTimeout, Goto, TypeOK
    <3> QED
      BY ZenonT(60), <2>0, <3>1 DEF NotOrphaned, OrphanInv
  <2> QED
    BY ZenonT(60), <1>1, <2>2, <2>3, <2>4, <2>5, <2>6 DEF CallerStep
<1>2. CASE CloseSocket \/ JoinRecvThread
  BY ZenonT(60), <1>2 DEF CloseSocket, JoinRecvThread, CtlGoto
<1>3. CASE DrainPending
  BY ZenonT(60), <1>3 DEF DrainPending, Drain
<1>4. CASE Dispatch
  <2>1. pending[i] # NoCall
    <3>1. CASE Head(buf).kind = "response"
      BY ZenonT(60), <1>4, <3>1 DEF Dispatch, Take, TypeOK
    <3>2. CASE Head(buf).kind # "response"
      BY ZenonT(60), <1>4, <3>2 DEF Dispatch
    <3> QED
      BY ZenonT(60), <3>1, <3>2
  <2> QED
    BY ZenonT(60), <1>4, <2>1 DEF Dispatch, NotOrphaned, OrphanInv
<1>5. ASSUME \/ RecvLoop \/ RecvData \/ RecvEnd \/ DispatchFire \/ LinesDone
             \/ FireDisconnected \/ DisconnectDone \/ OpenFail \/ OpenOk
             \/ \E g \in {"connect", "disconnect"} : BeginDisconnect(g)
             \/ BridgeAnswer \/ BridgeEvent \/ BridgeDrop
             \/ UNCHANGED vars
      PROVE  UNCHANGED <<pc, id, pending, sent>> /\ ctlPc \notin {"joining", "draining"}
  BY ZenonT(60), <1>5 DEF RecvLoop, RecvData, RecvEnd, DispatchFire, LinesDone, FireDisconnected,
              DisconnectDone, OpenFail, OpenOk, BeginDisconnect, BridgeAnswer, BridgeEvent,
              BridgeDrop, RecvGoto, RecvExit, CtlGoto
<1>6. CASE UNCHANGED <<pc, id, pending, sent>> /\ ctlPc \notin {"joining", "draining"}
  BY ZenonT(60), <1>6 DEF NotOrphaned, OrphanInv
<1> QED
  BY ZenonT(60), <1>1, <1>2, <1>3, <1>4, <1>5, <1>6 DEF Next, RecvStep, CtlStep

-----------------------------------------------------------------------------
(* The theorems *)

\* The conjunction of the parts is an invariant of the client.
THEOREM Invariance == Spec => []IInv
<1>1. Init => IInv
  BY InitIInv
<1>2. IInv /\ [Next]_vars => IInv'
  BY NextTypeOK, NextIdsInv, NextTagsInv, NextOneHolderInv, NextCallbacks, NextOrphanInv DEF IInv
<1> QED
  BY <1>1, <1>2, PTL DEF Spec

\* Every variable of the client, of its threads and of the wire keeps its type.
THEOREM TypeCorrect == Spec => []TypeOK
<1>1. IInv => TypeOK
  BY DEF IInv
<1> QED
  BY <1>1, Invariance, PTL

\* dispatch(), disconnect() and a failed sendAsync() never run the same
\* callback twice between them.
THEOREM CallbackAtMostOnce == Spec => []AtMostOnce
<1>1. IInv => AtMostOnce
  BY DEF IInv
<1> QED
  BY <1>1, Invariance, PTL

\* sendSync never returns the response to another request.
THEOREM ResponseIsOwn == Spec => []OwnAnswer
<1>1. IInv => OwnAnswer
  BY DEF IInv
<1> QED
  BY <1>1, Invariance, PTL

\* No entry of m_pending is left behind by disconnect() or connect().
THEOREM NothingOrphaned == Spec => []NoOrphanedRequest
<1>1. IInv => NoOrphanedRequest
  <2> SUFFICES ASSUME IInv, ctlPc = "idle", NEW i \in Ids, pending[i] # NoCall
               PROVE  \/ pending[i] \in sent
                      \/ \E c \in Callers : id[c] = i /\ pc[c] \in {"registered", "sendFailed"}
    BY ZenonT(60) DEF NoOrphanedRequest
  <2>1. pending[i] = i
    BY ZenonT(60) DEF IInv, TagsInv
  <2>2. NotOrphaned(i)
    BY DEF IInv, OrphanInv
  <2> QED
    BY ZenonT(60), <2>1, <2>2 DEF NotOrphaned
<1> QED
  BY <1>1, Invariance, PTL

\* The client with its threads, its map and its socket implements the
\* request service: every step issues one request, answers one that has no
\* answer yet, or changes nothing the callers can see.
THEOREM Refinement == Spec => ImplementsRequestService
<1> USE BoundsAssumption DEF Calls, Ids
<1>1. Init => Service!Init
  <2> SUFFICES ASSUME Init PROVE Service!Init
    OBVIOUS
  <2>1. {k \in Calls : k <= calls} = {}
    BY DEF Init
  <2>2. \A k \in Calls : OutcomeOf(k) = "none"
    BY DEF Init, OutcomeOf
  <2> QED
    BY <2>1, <2>2 DEF Service!Init
<1>2. IInv /\ [Next]_vars => [Service!Next]_(Service!vars)
  <2> SUFFICES ASSUME IInv, [Next]_vars PROVE [Service!Next]_(Service!vars)
    OBVIOUS
  <2>0. /\ calls \in 0..MaxCalls /\ fired \in [Calls -> Nat]
        /\ answer \in [Calls -> AnswerKinds] /\ answerOf \in [Calls -> 0..MaxCalls]
    BY ZenonT(60) DEF IInv, TypeOK
  <2> DEFINE outcome == [k \in Calls |-> OutcomeOf(k)]
             issued == {k \in Calls : k <= calls}
  <2>1. ASSUME NEW k \in Calls, FirstRun(k) PROVE Service!Next
    <3>1. issued' = issued /\ k \in issued
      BY <2>1 DEF FirstRun
    <3>2. OutcomeOf(k) = "none"
      BY <2>1 DEF FirstRun, OutcomeOf
    <3>3. \A j \in Calls \ {k} : fired'[j] = fired[j] /\ answer'[j] = answer[j] /\ answerOf'[j] = answerOf[j]
      BY ZenonT(60), <2>0, <2>1 DEF FirstRun
    <3>4. fired'[k] = 1 /\ (answer'[k] = "response" => answerOf'[k] = k)
      BY <2>0, <2>1 DEF FirstRun
    <3>5. OutcomeOf(k)' \in {"response", "failed"}
      BY <3>4 DEF OutcomeOf
    <3>6. \A j \in Calls \ {k} : OutcomeOf(j)' = OutcomeOf(j)
      BY <3>3 DEF OutcomeOf
    <3>7. outcome' = [outcome EXCEPT ![k] = OutcomeOf(k)']
      BY ZenonT(60), <3>6
    <3> QED
      BY ZenonT(60), <3>1, <3>2, <3>5, <3>7 DEF Service!Next, Service!Answer
  <2>2. CASE UNCHANGED <<fired, answer, answerOf>>
    <3>1. outcome' = outcome
      BY <2>2 DEF OutcomeOf
    <3>2. ASSUME NEW c \in Callers, SendSync(c) PROVE Service!Next
      <4>1. calls' = calls + 1 /\ calls + 1 \in Calls
        BY <2>0, <3>2 DEF SendSync
      <4>2. issued' = issued \cup {calls + 1} /\ calls + 1 \notin issued
        <5>1. \A k \in Calls : k <= calls + 1 <=> k <= calls \/ k = calls + 1
          BY <2>0
        <5>2. issued' = {k \in Calls : k <= calls + 1}
          BY <4>1
        <5>3. ~(calls + 1 <= calls)
          BY <2>0
        <5> QED
          BY <4>1, <5>1, <5>2, <5>3, Zenon
      <4> QED
        BY <3>1, <4>1, <4>2 DEF Service!Next, Service!Issue
    <3>3. CASE calls' = calls
      BY <3>1, <3>3 DEF Service!vars
    <3>4. (\A c \in Callers : ~SendSync(c)) => calls' = calls
      <4>1. ASSUME NEW c \in Callers, CallerStep(c) PROVE calls' = calls
        BY ZenonT(60), <4>1 DEF CallerStep, Register, SendRawOk, SendRawFail, SendFailed, FailOwn, SyncReturn,
                    SyncTimeout, Fire, callVars
      <4> QED
        BY <4>1, OthersKeepCallers DEF Next, vars, callVars
    <3> QED
      BY <3>2, <3>3, <3>4
  <2> QED
    BY <2>1, <2>2, CallbackSteps
<1> QED
  BY <1>1, <1>2, Invariance, PTL DEF Spec, Service!Spec, ImplementsRequestService
=============================================================================
