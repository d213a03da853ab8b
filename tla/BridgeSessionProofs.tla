------------------------- MODULE BridgeSessionProofs -------------------------
(***************************************************************************)
(* Proofs of the safety properties of BridgeSession, for any number of     *)
(* repositories, handles, streamers and events.                            *)
(***************************************************************************)
EXTENDS BridgeSession, TLAPS

\* Streamers are numbered as they are started: one above `started' has not
\* run yet.
FreshInv ==
  /\ \A r \in Repos : streamers[r] <= started
  /\ \A s \in Streamers : s > started => sPc[s] = "none" /\ ~running[s] /\ late[s] = 0

\* The map and the threads agree.  A streamer that has not been told to stop
\* is the one the map holds for its repository: the map forgets a streamer
\* only when it tells it to stop.
MapInv ==
  /\ \A r \in Repos : streamers[r] # None => sRepo[streamers[r]] = r
  /\ \A s \in Streamers : running[s] => streamers[sRepo[s]] = s

\* A streamer at pushEvent has an event to push.  One that has written a line
\* after it was told to stop is past pushEvent, and looks at the flag before
\* it comes back.
PushInv ==
  \A s \in Streamers :
    /\ sPc[s] = "pushing" => left[s] > 0
    /\ late[s] <= 1
    /\ late[s] = 1 => ~running[s] /\ sPc[s] # "pushing"

\* The inductive invariant.
IInv == TypeOK /\ FreshInv /\ MapInv /\ PushInv

\* The initial state: no session, no streamer.
LEMMA InitIInv == Init => IInv
<1> SUFFICES ASSUME Init PROVE IInv
  OBVIOUS
<1>1. AnyRepo \in Repos
  BY ReposAssumption DEF AnyRepo
<1>2. TypeOK
  <2>1. /\ None \in Handles \cup {None} /\ None \in Streamers \cup {None} /\ {} \in SUBSET Handles
        /\ 0 \in 0..MaxHandles /\ 0 \in 0..MaxStreamers /\ 0 \in 0..MaxBatch /\ 0 \in Nat
        /\ "none" \in StreamerPCs
    BY BoundsAssumption DEF StreamerPCs
  <2> QED
    BY <1>1, <2>1 DEF Init, TypeOK
<1>3. FreshInv /\ MapInv /\ PushInv
  BY BoundsAssumption DEF Init, FreshInv, MapInv, PushInv, Streamers, None
<1> QED
  BY <1>2, <1>3 DEF IInv

\* What the session does to its handles keeps their types.
LEMMA SessionTypes ==
  ASSUME TypeOK,
         \/ CloseAll /\ UNCHANGED handles
         \/ \E r \in Repos : OpenRepo(r) \/ CloseRepo(r)
  PROVE  /\ openRepos' \in [Repos -> Handles \cup {None}]
         /\ closed' \in SUBSET Handles
         /\ handles' \in 0..MaxHandles
<1> USE BoundsAssumption DEF TypeOK, Handles, None
<1>1. CASE CloseAll /\ UNCHANGED handles
  <2>1. PICK failed \in SUBSET {openRepos[r] : r \in Repos} :
          closed' = closed \cup ({openRepos[r] : r \in Repos} \ (failed \cup {None}))
    BY <1>1 DEF CloseAll
  <2>2. closed \in SUBSET Handles /\ \A r \in Repos : openRepos[r] \in Handles \cup {None}
    OBVIOUS
  <2> HIDE DEF TypeOK, Handles, None
  <2>3. closed' \in SUBSET Handles
    BY Zenon, <2>1, <2>2
  <2> QED
    BY <1>1, <2>3 DEF CloseAll, TypeOK, None
<1>2. ASSUME NEW r \in Repos, OpenRepo(r)
      PROVE  /\ openRepos' \in [Repos -> Handles \cup {None}]
             /\ closed' \in SUBSET Handles
             /\ handles' \in 0..MaxHandles
  BY <1>2 DEF OpenRepo
<1>3. ASSUME NEW r \in Repos, CloseRepo(r)
      PROVE  /\ openRepos' \in [Repos -> Handles \cup {None}]
             /\ closed' \in SUBSET Handles
             /\ handles' \in 0..MaxHandles
  BY <1>3 DEF CloseRepo
<1> QED
  BY <1>1, <1>2, <1>3

\* The part of the invariant about the streamers.
StreamerTypes ==
  /\ streamers \in [Repos -> Streamers \cup {None}]
  /\ started \in 0..MaxStreamers
  /\ sRepo \in [Streamers -> Repos]
  /\ sHandle \in [Streamers -> Handles \cup {None}]
  /\ running \in [Streamers -> BOOLEAN]
  /\ sPc \in [Streamers -> StreamerPCs]
  /\ left \in [Streamers -> 0..MaxBatch]
  /\ late \in [Streamers -> Nat]

StreamerInv == StreamerTypes /\ FreshInv /\ MapInv /\ PushInv

\* startStreamer() keeps it: the new streamer is the only one of its
\* repository, for the map had none.
LEMMA StartKeeps ==
  ASSUME StreamerInv, NEW r \in Repos, StartStreamer(r),
         openRepos' \in [Repos -> Handles \cup {None}]
  PROVE  StreamerInv'
<1> USE BoundsAssumption DEF StreamerInv, StreamerTypes, Streamers, None
<1>1. CASE streamers[r] # None
  BY <1>1 DEF StartStreamer, FreshInv, MapInv, PushInv, streamerVars, threadVars
<1>2. CASE streamers[r] = None
  <2> DEFINE new == started + 1
  <2>1. /\ new \in Streamers /\ started' = new
        /\ streamers' = [streamers EXCEPT ![r] = new]
        /\ sRepo' = [sRepo EXCEPT ![new] = r]
        /\ sHandle' = [sHandle EXCEPT ![new] = openRepos'[r]]
        /\ running' = [running EXCEPT ![new] = TRUE]
        /\ sPc' = [sPc EXCEPT ![new] = "loop"]
        /\ left' = left /\ late' = late
    BY <1>2 DEF StartStreamer
  <2>2. StreamerTypes'
    BY <2>1 DEF StreamerPCs
  <2>3. FreshInv'
    <3>1. \A q \in Repos : streamers[q] \in Int /\ streamers[q] <= started
      BY DEF FreshInv
    <3>2. \A q \in Repos : streamers'[q] <= new
      BY <2>1, <3>1
    <3>3. \A s \in Streamers : s > new => sPc'[s] = "none" /\ ~running'[s] /\ late'[s] = 0
      BY <2>1 DEF FreshInv
    <3> QED
      BY <2>1, <3>2, <3>3 DEF FreshInv
  <2>4. MapInv'
    BY <1>2, <2>1 DEF MapInv, FreshInv
  <2>5. PushInv'
    BY <2>1 DEF PushInv, FreshInv
  <2> QED
    BY <2>2, <2>3, <2>4, <2>5
<1> QED
  BY <1>1, <1>2

\* Stopping the streamers of any set of repositories keeps it.
LEMMA StopKeeps ==
  ASSUME StreamerInv, NEW R \in SUBSET Repos, Stop(R)
  PROVE  StreamerInv'
<1> USE BoundsAssumption DEF StreamerInv, StreamerTypes, Stop, threadVars
<1>1. StreamerTypes'
  BY DEF None
<1>2. FreshInv'
  BY DEF FreshInv, None, Streamers
<1>3. MapInv'
  BY DEF MapInv, None, Streamers
<1>4. PushInv'
  BY DEF PushInv
<1> QED
  BY <1>1, <1>2, <1>3, <1>4

\* The end of a streamer's thread keeps it.
LEMMA EndKeeps ==
  ASSUME StreamerInv, NEW s \in Streamers, sPc[s] # "none", SEnd(s),
         UNCHANGED <<streamers, started, sRepo, sHandle>>
  PROVE  StreamerInv'
<1> USE BoundsAssumption DEF StreamerInv, StreamerTypes, SEnd, SGoto
<1>1. StreamerTypes'
  BY DEF StreamerPCs
<1>2. FreshInv'
  BY DEF FreshInv, Streamers
<1>3. MapInv'
  BY DEF MapInv
<1>4. PushInv'
  BY DEF PushInv
<1> QED
  BY <1>1, <1>2, <1>3, <1>4

\* A step of a streamer's thread keeps it: `running' only falls, and a line
\* is written late only from pushEvent.
LEMMA ThreadKeeps ==
  ASSUME StreamerInv, NEW s \in Streamers, StreamerStep(s)
  PROVE  StreamerInv'
<1> USE BoundsAssumption DEF StreamerInv, StreamerTypes, StreamerPCs, FreshInv, MapInv, PushInv, SGoto
<1>0. Streamers \subseteq Int
  BY DEF Streamers
<1>1. CASE SLoop(s)
  <2>1. CASE running[s]
    BY <1>0, <1>1, <2>1 DEF SLoop
  <2>2. CASE ~running[s]
    BY <1>1, <2>2, EndKeeps DEF SLoop
  <2> QED
    BY <2>1, <2>2
<1>2. CASE SEvents(s)
  BY <1>0, <1>2 DEF SEvents
<1>3. CASE SThrow(s)
  BY <1>3, EndKeeps DEF SThrow
<1>4. CASE SNext(s)
  <2>1. CASE left[s] = 0
    BY <1>0, <1>4, <2>1 DEF SNext
  <2>2. CASE left[s] > 0 /\ ~running[s]
    BY <1>4, <2>2, EndKeeps DEF SNext
  <2>3. CASE left[s] > 0 /\ running[s]
    BY <1>0, <1>4, <2>3 DEF SNext
  <2> QED
    BY <1>4, <2>1, <2>2, <2>3 DEF SNext
<1>5. CASE SPush(s)
  BY <1>0, <1>5 DEF SPush
<1> QED
  BY <1>1, <1>2, <1>3, <1>4, <1>5 DEF StreamerStep

\* Every operation of the handler thread and every step of a streamer keeps
\* the invariant.
LEMMA NextIInv == IInv /\ [Next]_vars => IInv'
<1> SUFFICES ASSUME IInv, [Next]_vars PROVE IInv'
  OBVIOUS
<1> DEFINE SessionTypesOK ==
      /\ link \in {"new", "up", "down"}
      /\ serverHandle \in BOOLEAN /\ userKnown \in BOOLEAN
      /\ openRepos \in [Repos -> Handles \cup {None}]
      /\ closed \in SUBSET Handles
      /\ handles \in 0..MaxHandles
      /\ subscribed \in SUBSET Repos
<1>0. TypeOK /\ StreamerInv /\ SessionTypesOK
  BY DEF IInv, StreamerInv, StreamerTypes, TypeOK
<1>a. ASSUME SessionTypesOK', StreamerInv' PROVE IInv'
  BY <1>a DEF IInv, StreamerInv, StreamerTypes, TypeOK
<1>b. UNCHANGED streamerVars => StreamerInv'
  BY <1>0 DEF StreamerInv, StreamerTypes, FreshInv, MapInv, PushInv, streamerVars, threadVars
<1>1. CASE Accept
  BY <1>0, <1>1, <1>a, <1>b DEF Accept, sessionVars
<1>2. CASE OpDisconnect
  BY <1>0, <1>2, <1>a, SessionTypes, StopKeeps DEF OpDisconnect, StopAllStreamers, Disconnect
<1>3. CASE ConnectionEnds
  BY <1>0, <1>3, <1>a, SessionTypes, StopKeeps DEF ConnectionEnds, StopAllStreamers, Disconnect
<1>4. ASSUME NEW outcome \in {"ok", "half", "failed"}, OpConnect(outcome) PROVE IInv'
  BY <1>0, <1>4, <1>a, <1>b, SessionTypes DEF OpConnect, Connect
<1>5. ASSUME NEW r \in Repos, OpOpenRepo(r) PROVE IInv'
  BY <1>0, <1>5, <1>a, SessionTypes, StartKeeps DEF OpOpenRepo, OpenRepo
<1>6. ASSUME NEW r \in Repos, OpCloseRepo(r) PROVE IInv'
  BY <1>0, <1>6, <1>a, SessionTypes, StopKeeps DEF OpCloseRepo, CloseRepo, StopStreamer
<1>7. ASSUME NEW r \in Repos, OpAutoOpen(r) PROVE IInv'
  BY <1>0, <1>7, <1>a, <1>b, SessionTypes DEF OpAutoOpen, OpenRepo
<1>8. ASSUME NEW s \in Streamers, StreamerStep(s) PROVE IInv'
  <2>1. UNCHANGED <<link, sessionVars, subscribed>>
    BY <1>8 DEF StreamerStep, SLoop, SEvents, SThrow, SNext, SPush
  <2> QED
    BY <1>0, <1>8, <2>1, <1>a, ThreadKeeps DEF sessionVars
<1>9. CASE UNCHANGED vars
  BY <1>0, <1>9, <1>a, <1>b DEF vars, sessionVars
<1> QED
  BY <1>1, <1>2, <1>3, <1>4, <1>5, <1>6, <1>7, <1>8, <1>9 DEF Next, HandlerStep

\* The state of a connection, its session and its streamers is well-typed:
\* the number of events left never falls below zero.
THEOREM TypeCorrect == Spec => []TypeOK
<1>1. IInv => TypeOK
  BY DEF IInv
<1> QED
  BY InitIInv, NextIInv, <1>1, PTL DEF Spec

\* Whatever sequence of operations the client sends, no two streamers that
\* have not been told to stop serve the same repository.
THEOREM EventsNotDoubled == Spec => []OneStreamerPerRepo
<1>1. IInv => OneStreamerPerRepo
  BY DEF IInv, MapInv, OneStreamerPerRepo
<1> QED
  BY InitIInv, NextIInv, <1>1, PTL DEF Spec

\* Once told to stop, a streamer writes at most one more line.
THEOREM StreamCutOff == Spec => []LateEventsBounded
<1>1. IInv => LateEventsBounded
  BY DEF IInv, PushInv, LateEventsBounded
<1> QED
  BY InitIInv, NextIInv, <1>1, PTL DEF Spec
=============================================================================
