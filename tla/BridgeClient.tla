---------------------------- MODULE BridgeClient ----------------------------
(***************************************************************************)
(* The plugin's RPC client (plugin/src/BridgeClient.cpp): caller threads   *)
(* inside sendSync/sendAsync, the receive thread, and the one thread that  *)
(* calls connect() and disconnect().  The bridge at the other end of the   *)
(* TCP connection is external: it answers requests in the order it reads   *)
(* them, pushes events, and may drop the connection.                       *)
(*                                                                         *)
(* A call of sendSync is numbered by the promise it creates; the request   *)
(* id it draws from m_nextId is a separate number, because the code, not   *)
(* the model, has to keep the two in step.                                 *)
(***************************************************************************)
EXTENDS Integers, Sequences

CONSTANTS Callers,        \* threads that call sendSync
          MaxCalls,       \* bound on the calls of sendSync (and on m_nextId)
          MaxConnects,    \* bound on the calls of connect() and disconnect()
          MaxEvents,      \* bound on the events the bridge pushes
          CloseWakesRecv  \* does close() wake a recv() blocked on that socket?

ASSUME BoundsAssumption ==
  /\ MaxCalls \in Nat
  /\ MaxConnects \in Nat
  /\ MaxEvents \in Nat
  /\ CloseWakesRecv \in BOOLEAN

Ids == 1..MaxCalls
Calls == 1..MaxCalls
NoCall == 0

VARIABLES
  sockOpen,  \* m_sock != INVALID_SOCK
  running,   \* m_running
  nextId,    \* m_nextId
  pending,   \* m_pending: id -> the call whose callback is stored (NoCall: no entry)
  pc,        \* control point of each caller thread
  call,      \* the sendSync call it is in
  id,        \* the request id it drew
  cb,        \* the callback it moved out of m_pending
  recvPc,    \* control point of the receive thread
  buf,       \* complete lines it has read and not yet dispatched
  recvCb,    \* the callback it moved out of m_pending
  recvOf,    \* the call whose response it is about to hand over
  ctlPc,     \* control point of the controlling thread
  ctlCbs,    \* the callbacks disconnect() moved out of m_pending
  goal,      \* is it in connect() or in disconnect()?
  inbox,     \* requests on their way to the bridge
  outbox,    \* lines on their way to the client
  peerOpen,  \* the bridge has its end open
  sent,      \* calls whose request went out on the socket open now (history)
  calls,     \* sendSync calls made so far
  fired,     \* fired[k]: how often the callback of call k ran
  answer,    \* answer[k]: what it was last given
  answerOf,  \* the call whose request that response answers
  result,    \* result[k]: how sendSync ended
  connects,  \* connect()/disconnect() calls made so far
  events     \* events pushed so far

clientVars == <<sockOpen, running, nextId, pending>>
wireVars == <<inbox, outbox, peerOpen, sent, events>>
callerVars == <<pc, call, id, cb>>
recvVars == <<recvPc, buf, recvCb, recvOf>>
ctlVars == <<ctlPc, ctlCbs, goal>>
callVars == <<calls, fired, answer, answerOf, result>>
vars == <<clientVars, callerVars, recvVars, ctlVars, wireVars, callVars, connects>>

Request == [id : Ids, for : Calls]
Line == [kind : {"response"}, id : Ids, for : Calls] \cup [kind : {"event"}, id : {0}, for : {NoCall}]
AnswerKinds == {"none", "response", "disconnected", "sendFailed"}

CallerPCs == {"idle", "allocated", "registered", "sendFailed", "failing", "waiting"}
RecvPCs == {"none", "loop", "blocked", "lines", "firing", "exited"}
CtlPCs == {"idle", "closing", "joining", "draining", "firing", "opening"}

TypeOK ==
  /\ sockOpen \in BOOLEAN /\ running \in BOOLEAN
  /\ nextId \in 1..(MaxCalls + 1)
  /\ pending \in [Ids -> Calls \cup {NoCall}]
  /\ pc \in [Callers -> CallerPCs]
  /\ call \in [Callers -> 0..MaxCalls]
  /\ id \in [Callers -> 0..MaxCalls]
  /\ cb \in [Callers -> 0..MaxCalls]
  /\ recvPc \in RecvPCs /\ buf \in Seq(Line)
  /\ recvCb \in 0..MaxCalls /\ recvOf \in 0..MaxCalls
  /\ ctlPc \in CtlPCs /\ ctlCbs \in SUBSET Calls /\ goal \in {"connect", "disconnect"}
  /\ inbox \in Seq(Request) /\ outbox \in Seq(Line)
  /\ peerOpen \in BOOLEAN /\ sent \in SUBSET Calls
  /\ calls \in 0..MaxCalls
  /\ fired \in [Calls -> Nat]
  /\ answer \in [Calls -> AnswerKinds]
  /\ answerOf \in [Calls -> 0..MaxCalls]
  /\ result \in [Calls -> {"none", "returned", "timeout"}]
  /\ connects \in 0..MaxConnects /\ events \in 0..MaxEvents

Init ==
  /\ sockOpen = FALSE /\ running = FALSE
  /\ nextId = 1
  /\ pending = [i \in Ids |-> NoCall]
  /\ pc = [c \in Callers |-> "idle"]
  /\ call = [c \in Callers |-> NoCall]
  /\ id = [c \in Callers |-> 0]
  /\ cb = [c \in Callers |-> NoCall]
  /\ recvPc = "none" /\ buf = <<>> /\ recvCb = NoCall /\ recvOf = NoCall
  /\ ctlPc = "idle" /\ ctlCbs = {} /\ goal = "disconnect"
  /\ inbox = <<>> /\ outbox = <<>> /\ peerOpen = FALSE /\ sent = {}
  /\ calls = 0
  /\ fired = [k \in Calls |-> 0]
  /\ answer = [k \in Calls |-> "none"]
  /\ answerOf = [k \in Calls |-> NoCall]
  /\ result = [k \in Calls |-> "none"]
  /\ connects = 0 /\ events = 0

(***************************************************************************)
(* Invoking a callback: the promise of call k is given a value.            *)
(***************************************************************************)
Fire(k, kind, of) ==
  /\ fired' = [fired EXCEPT ![k] = @ + 1]
  /\ answer' = [answer EXCEPT ![k] = kind]
  /\ answerOf' = [answerOf EXCEPT ![k] = of]
  /\ UNCHANGED <<calls, result>>

-----------------------------------------------------------------------------
(* Caller threads: sendSync, sendAsync, sendRaw *)

Goto(c, point) == pc' = [pc EXCEPT ![c] = point]

\* Mutant: m_nextId read and written in two unsynchronised steps, so that a
\* caller may draw the id another caller has just drawn.
FetchAddRaced(c) ==
  \E i \in {nextId, IF nextId > 1 THEN nextId - 1 ELSE nextId} :
    /\ nextId' = i + 1
    /\ id' = [id EXCEPT ![c] = i]

\* Mutant: m_nextId counts down, below the first id.
FetchSub(c) ==
  /\ nextId' = nextId - 1
  /\ id' = [id EXCEPT ![c] = nextId]

FetchAdd(c) ==
  /\ nextId' = nextId + 1
  /\ id' = [id EXCEPT ![c] = nextId]

\* sendSync makes a promise and enters sendAsync, which draws the id.
SendSync(c) ==
  /\ pc[c] = "idle"
  /\ calls < MaxCalls
  /\ nextId <= MaxCalls
  /\ calls' = calls + 1
  /\ call' = [call EXCEPT ![c] = calls + 1]
  /\ FetchAdd(c)
  /\ Goto(c, "allocated")
  /\ UNCHANGED <<cb, sockOpen, running, pending, recvVars, ctlVars, wireVars,
                 fired, answer, answerOf, result, connects>>

\* The callback is stored before anything is sent.
Register(c) ==
  /\ pc[c] = "allocated"
  /\ pending' = [pending EXCEPT ![id[c]] = call[c]]
  /\ Goto(c, "registered")
  /\ UNCHANGED <<call, id, cb, sockOpen, running, nextId, recvVars, ctlVars, wireVars,
                 callVars, connects>>

\* sendRaw succeeds: the whole line is in the socket.  A peer that has gone
\* does not make send() fail at once; the line is then lost.
SendRawOk(c) ==
  /\ pc[c] = "registered"
  /\ sockOpen
  /\ inbox' = IF peerOpen
                THEN Append(inbox, [id |-> id[c], for |-> call[c]])
                ELSE inbox
  /\ sent' = sent \cup {call[c]}
  /\ Goto(c, "waiting")
  /\ UNCHANGED <<call, id, cb, clientVars, recvVars, ctlVars, outbox, peerOpen, events, callVars, connects>>

\* sendRaw fails: no socket, or send() reports an error.
SendRawFail(c) ==
  /\ pc[c] = "registered"
  /\ Goto(c, "sendFailed")
  /\ UNCHANGED <<call, id, cb, clientVars, recvVars, ctlVars, wireVars, callVars, connects>>

\* Mutant: the entry is looked up but not erased.
TakeBackKeep(c) ==
  /\ Goto(c, IF pending[id[c]] = NoCall THEN "waiting" ELSE "failing")
  /\ cb' = [cb EXCEPT ![c] = pending[id[c]]]
  /\ UNCHANGED pending

\* After a failed send the callback is moved out of m_pending, if it is
\* still there: dispatch() or disconnect() may have been quicker.
TakeBack(c) ==
  /\ Goto(c, IF pending[id[c]] = NoCall THEN "waiting" ELSE "failing")
  /\ cb' = [cb EXCEPT ![c] = pending[id[c]]]
  /\ pending' = [pending EXCEPT ![id[c]] = NoCall]

SendFailed(c) ==
  /\ pc[c] = "sendFailed"
  /\ TakeBack(c)
  /\ UNCHANGED <<call, id, sockOpen, running, nextId, recvVars, ctlVars, wireVars,
                 callVars, connects>>

FailOwn(c) ==
  /\ pc[c] = "failing"
  /\ Fire(cb[c], "sendFailed", NoCall)
  /\ cb' = [cb EXCEPT ![c] = NoCall]
  /\ Goto(c, "waiting")
  /\ UNCHANGED <<call, id, clientVars, recvVars, ctlVars, wireVars, connects>>

\* fut.get(): the promise has its value.
SyncReturn(c) ==
  /\ pc[c] = "waiting"
  /\ fired[call[c]] > 0
  /\ result' = [result EXCEPT ![call[c]] = "returned"]
  /\ Goto(c, "idle")
  /\ UNCHANGED <<call, id, cb, clientVars, recvVars, ctlVars, wireVars, calls, fired, answer, answerOf, connects>>

\* wait_for times out: sendSync throws, its entry stays in m_pending.
SyncTimeout(c) ==
  /\ pc[c] = "waiting"
  /\ fired[call[c]] = 0
  /\ result' = [result EXCEPT ![call[c]] = "timeout"]
  /\ Goto(c, "idle")
  /\ UNCHANGED <<call, id, cb, clientVars, recvVars, ctlVars, wireVars, calls, fired, answer, answerOf, connects>>

-----------------------------------------------------------------------------
(* The receive thread: receiveLoop, dispatch *)

RecvGoto(point) == recvPc' = point /\ UNCHANGED <<buf, recvCb, recvOf>>

\* Leaving the loop clears m_running and nothing else: the socket stays
\* open in the client's books and m_pending keeps its entries.
RecvExit ==
  /\ running' = FALSE
  /\ RecvGoto("exited")
  /\ UNCHANGED <<sockOpen, nextId, pending>>

\* while (m_running): recv() on an already invalid socket fails at once.
RecvLoop ==
  /\ recvPc = "loop"
  /\ IF running /\ sockOpen
       THEN RecvGoto("blocked") /\ UNCHANGED clientVars
       ELSE RecvExit
  /\ UNCHANGED <<callerVars, ctlVars, wireVars, callVars, connects>>

\* recv() returns bytes: any non-empty part of what is on the wire.  Bytes
\* of an incomplete line wait in `partial' and are left out here.
RecvData ==
  /\ recvPc = "blocked"
  /\ \E n \in 1..Len(outbox) :
       /\ buf' = SubSeq(outbox, 1, n)
       /\ outbox' = SubSeq(outbox, n + 1, Len(outbox))
  /\ recvPc' = "lines"
  /\ UNCHANGED <<recvCb, recvOf, clientVars, callerVars, ctlVars, inbox, peerOpen, sent, events, callVars, connects>>

\* recv() returns 0 or an error: the peer closed, or close() woke it.
RecvEnd ==
  /\ recvPc = "blocked"
  /\ \/ ~peerOpen /\ outbox = <<>>
     \/ ~sockOpen /\ CloseWakesRecv
  /\ RecvExit
  /\ UNCHANGED <<callerVars, ctlVars, wireVars, callVars, connects>>

\* Mutant: dispatch() copies the callback and leaves the entry in m_pending.
TakeKeep(line) ==
  /\ recvPc' = "firing" /\ recvCb' = pending[line.id] /\ recvOf' = line.for
  /\ UNCHANGED pending

\* dispatch() of a response moves the callback out of m_pending.
Take(line) ==
  /\ recvPc' = "firing" /\ recvCb' = pending[line.id] /\ recvOf' = line.for
  /\ pending' = [pending EXCEPT ![line.id] = NoCall]

Dispatch ==
  /\ recvPc = "lines" /\ buf # <<>>
  /\ LET line == Head(buf) IN
       IF line.kind = "response"
         THEN Take(line)
         ELSE UNCHANGED <<recvPc, recvCb, recvOf, pending>>  \* an event
  /\ buf' = Tail(buf)
  /\ UNCHANGED <<sockOpen, running, nextId, callerVars, ctlVars, wireVars,
                 callVars, connects>>

\* if (cb) cb(msg): an unknown or late id has no callback.
DispatchFire ==
  /\ recvPc = "firing"
  /\ IF recvCb = NoCall THEN UNCHANGED callVars ELSE Fire(recvCb, "response", recvOf)
  /\ recvPc' = "lines" /\ recvCb' = NoCall /\ recvOf' = NoCall
  /\ UNCHANGED <<buf, clientVars, callerVars, ctlVars, wireVars, connects>>

LinesDone ==
  /\ recvPc = "lines" /\ buf = <<>>
  /\ RecvGoto("loop")
  /\ UNCHANGED <<clientVars, callerVars, ctlVars, wireVars, callVars, connects>>

-----------------------------------------------------------------------------
(* The controlling thread: connect, disconnect *)

CtlGoto(point) == ctlPc' = point /\ UNCHANGED <<ctlCbs, goal>>

\* connect() starts with disconnect(), which clears m_running first.
BeginDisconnect(g) ==
  /\ ctlPc = "idle"
  /\ connects < MaxConnects
  /\ connects' = connects + 1
  /\ running' = FALSE
  /\ ctlPc' = "closing" /\ goal' = g
  /\ UNCHANGED <<ctlCbs, sockOpen, nextId, pending, callerVars, recvVars, wireVars, callVars>>

\* Mutant: the flag is cleared, but the socket is not closed before the join.
CloseSocketForgotten ==
  /\ ctlPc = "closing"
  /\ CtlGoto("joining")
  /\ UNCHANGED <<clientVars, callerVars, recvVars, wireVars, callVars, connects>>

\* close() reaches the bridge unless a blocked recv() still holds the socket.
CloseSocket ==
  /\ ctlPc = "closing"
  /\ sockOpen' = FALSE
  /\ peerOpen' = (peerOpen /\ sockOpen /\ recvPc = "blocked" /\ ~CloseWakesRecv)
  /\ sent' = {}
  /\ CtlGoto("joining")
  /\ UNCHANGED <<running, nextId, pending, callerVars, recvVars, inbox, outbox,
                 events, callVars, connects>>

JoinRecvThread ==
  /\ ctlPc = "joining"
  /\ recvPc \in {"none", "exited"}
  /\ recvPc' = "none" /\ buf' = <<>>
  /\ CtlGoto("draining")
  /\ UNCHANGED <<recvCb, recvOf, clientVars, callerVars, wireVars, callVars, connects>>

\* Mutant: disconnect() no longer fails the pending requests.
DrainNothing ==
  /\ UNCHANGED <<ctlCbs, pending>>

\* Fail all pending requests: the map is moved out under the lock.
Drain ==
  /\ ctlCbs' = {pending[i] : i \in Ids} \ {NoCall}
  /\ pending' = [i \in Ids |-> NoCall]

DrainPending ==
  /\ ctlPc = "draining"
  /\ Drain
  /\ ctlPc' = "firing"
  /\ UNCHANGED <<goal, sockOpen, running, nextId, callerVars, recvVars, wireVars,
                 callVars, connects>>

\* Callbacks run in the order of the map; calls are numbered in that order.
FireDisconnected ==
  /\ ctlPc = "firing"
  /\ \E k \in ctlCbs :
       /\ \A j \in ctlCbs : k <= j
       /\ Fire(k, "disconnected", NoCall)
       /\ ctlCbs' = ctlCbs \ {k}
  /\ UNCHANGED <<ctlPc, goal, clientVars, callerVars, recvVars, wireVars, connects>>

DisconnectDone ==
  /\ ctlPc = "firing" /\ ctlCbs = {}
  /\ CtlGoto(IF goal = "connect" THEN "opening" ELSE "idle")
  /\ UNCHANGED <<clientVars, callerVars, recvVars, wireVars, callVars, connects>>

\* socket(), inet_pton() or ::connect() fails.
OpenFail ==
  /\ ctlPc = "opening"
  /\ CtlGoto("idle")
  /\ UNCHANGED <<clientVars, callerVars, recvVars, wireVars, callVars, connects>>

\* The connection is up: m_sock, m_running, a new receive thread.
OpenOk ==
  /\ ctlPc = "opening"
  /\ sockOpen' = TRUE /\ running' = TRUE /\ peerOpen' = TRUE
  /\ inbox' = <<>> /\ outbox' = <<>>
  /\ RecvGoto("loop")
  /\ CtlGoto("idle")
  /\ UNCHANGED <<nextId, pending, callerVars, sent, events, callVars, connects>>

-----------------------------------------------------------------------------
(* The bridge (external) *)

BridgeAnswer ==
  /\ peerOpen /\ inbox # <<>>
  /\ outbox' = Append(outbox, [kind |-> "response", id |-> Head(inbox).id, for |-> Head(inbox).for])
  /\ inbox' = Tail(inbox)
  /\ UNCHANGED <<clientVars, callerVars, recvVars, ctlVars, peerOpen, sent, events, callVars, connects>>

BridgeEvent ==
  /\ peerOpen /\ events < MaxEvents
  /\ outbox' = Append(outbox, [kind |-> "event", id |-> 0, for |-> NoCall])
  /\ events' = events + 1
  /\ UNCHANGED <<clientVars, callerVars, recvVars, ctlVars, inbox, peerOpen, sent, callVars, connects>>

\* The bridge or the network drops the connection; what is in flight to the
\* client may still arrive or be lost.
BridgeDrop ==
  /\ peerOpen
  /\ peerOpen' = FALSE
  /\ inbox' = <<>>
  /\ outbox' \in {outbox, <<>>}
  /\ UNCHANGED <<clientVars, callerVars, recvVars, ctlVars, sent, events, callVars, connects>>

-----------------------------------------------------------------------------
CallerStep(c) ==
  \/ Register(c) \/ SendRawOk(c) \/ SendRawFail(c) \/ SendFailed(c) \/ FailOwn(c)
  \/ SyncReturn(c) \/ SyncTimeout(c)

RecvStep ==
  RecvLoop \/ RecvData \/ RecvEnd \/ Dispatch \/ DispatchFire \/ LinesDone

CtlStep ==
  \/ CloseSocket \/ JoinRecvThread \/ DrainPending \/ FireDisconnected
  \/ DisconnectDone \/ OpenFail \/ OpenOk

Next ==
  \/ \E c \in Callers : SendSync(c) \/ CallerStep(c)
  \/ RecvStep
  \/ \E g \in {"connect", "disconnect"} : BeginDisconnect(g)
  \/ CtlStep
  \/ BridgeAnswer \/ BridgeEvent \/ BridgeDrop

Spec == Init /\ [][Next]_vars

\* The threads of the client run; wait_for ends.  Nothing is assumed of the
\* bridge, nor that anybody calls sendSync, connect or disconnect.
FairSpec ==
  /\ Spec
  /\ \A c \in Callers : WF_vars(CallerStep(c))
  /\ WF_vars(RecvStep)
  /\ WF_vars(CtlStep)

-----------------------------------------------------------------------------
(* Properties *)

\* The callback of a request runs at most once, whichever of dispatch(),
\* the drain in disconnect() and the failed send in sendAsync() gets to it:
\* a second prom->set_value() would throw in a thread that does not expect it.
AtMostOnce == \A k \in Calls : fired[k] <= 1

\* A response handed to a sendSync call answers the request of that very
\* call: not that of another caller, and not that of an earlier call of the
\* same caller which timed out and whose answer came late.
OwnAnswer ==
  \A k \in Calls : answer[k] = "response" => answerOf[k] = k

\* No request is forgotten across disconnect() and connect(): while the
\* controlling thread is idle, an entry of m_pending either belongs to a
\* caller that has yet to learn whether its send worked, or was sent on the
\* socket that is open now, so that its answer or the next disconnect()
\* will find it.  None is left over from an earlier connection.
NoOrphanedRequest ==
  ctlPc = "idle" =>
    \A i \in Ids : pending[i] # NoCall =>
      \/ pending[i] \in sent
      \/ \E c \in Callers : id[c] = i /\ pc[c] \in {"registered", "sendFailed"}

\* connect() and disconnect() return: the join in disconnect() does not wait
\* for ever on the receive thread.
DisconnectReturns == ctlPc = "closing" ~> ctlPc = "idle"

\* A request that is pending when disconnect() begins has its callback run;
\* its caller does not have to sit out the timeout.
DisconnectFailsPending ==
  \A k \in Calls :
    (ctlPc = "closing" /\ \E i \in Ids : pending[i] = k) ~> fired[k] > 0

\* BridgeClient.h:67 says of sendSync: "Throws std::runtime_error on timeout
\* or disconnect."  A call that disconnect() failed does not return normally.
SyncThrowsOnDisconnect ==
  \A k \in Calls : result[k] = "returned" => answer[k] # "disconnected"

-----------------------------------------------------------------------------
(* The inductive invariant behind the safety properties *)

Active(c) == pc[c] # "idle"

\* The id a call draws is its number, and no two calls in progress share it.
IdsInv ==
  /\ calls = nextId - 1
  /\ \A c \in Callers : Active(c) =>
       /\ id[c] = call[c]
       /\ call[c] \in 1..calls
  /\ \A c, d \in Callers : Active(c) /\ Active(d) /\ c # d => call[c] # call[d]

\* Ids and calls agree wherever a request, a line or a callback travels.
TagsInv ==
  /\ \A i \in Ids : pending[i] \in {NoCall, i}
  /\ \A n \in 1..Len(inbox) : inbox[n].for = inbox[n].id
  /\ \A n \in 1..Len(outbox) : outbox[n].for = outbox[n].id
  /\ \A n \in 1..Len(buf) : buf[n].for = buf[n].id
  /\ recvCb \in {NoCall, recvOf}
  /\ \A c \in Callers : pc[c] = "failing" => cb[c] = call[c]

\* The callback of a call is in one place: stored in m_pending, moved out by
\* one thread, or spent; before Register it is nowhere else.
InPending(k) == pending[k] # NoCall
InRecv(k) == recvCb = k
InCtl(k) == k \in ctlCbs
InCaller(k) == \E c \in Callers : pc[c] = "failing" /\ call[c] = k
Unregistered(k) ==
  k > calls \/ \E c \in Callers : pc[c] = "allocated" /\ call[c] = k

OneHolder(k) ==
  /\ InPending(k) => ~InRecv(k) /\ ~InCtl(k) /\ ~InCaller(k) /\ fired[k] = 0
  /\ InRecv(k) => ~InCtl(k) /\ ~InCaller(k) /\ fired[k] = 0
  /\ InCtl(k) => ~InCaller(k) /\ fired[k] = 0
  /\ InCaller(k) => fired[k] = 0
  /\ Unregistered(k) => ~InPending(k) /\ ~InRecv(k) /\ ~InCtl(k) /\ fired[k] = 0

OneHolderInv == \A k \in Calls : OneHolder(k)

\* NoOrphanedRequest also holds while callbacks are failed and the next
\* connection is opened.
NotOrphaned(i) ==
  \/ i \in sent
  \/ \E c \in Callers : id[c] = i /\ pc[c] \in {"registered", "sendFailed"}

OrphanInv ==
  ctlPc \notin {"joining", "draining"} => \A i \in Ids : pending[i] # NoCall => NotOrphaned(i)

IInv == TypeOK /\ IdsInv /\ TagsInv /\ OneHolderInv /\ AtMostOnce /\ OwnAnswer /\ OrphanInv

-----------------------------------------------------------------------------
(* The abstract service *)

\* The service the client implements: a call is issued when sendSync makes
\* its promise, and answered when its callback runs.  An answer that belongs
\* to another call, or a second run of the callback, is no outcome of it.
OutcomeOf(k) ==
  CASE fired[k] = 0 -> "none"
    [] fired[k] = 1 /\ answer[k] # "response" -> "failed"
    [] fired[k] = 1 /\ answer[k] = "response" /\ answerOf[k] = k -> "response"
    [] OTHER -> "wrong"

Service == INSTANCE RequestService WITH
  Requests <- Calls,
  issued <- {k \in Calls : k <= calls},
  outcome <- [k \in Calls |-> OutcomeOf(k)]

\* Every step of the client's threads is a step of the request service or
\* leaves it alone.
ImplementsRequestService == Service!Spec
=============================================================================
