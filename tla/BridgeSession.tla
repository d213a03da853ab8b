---------------------------- MODULE BridgeSession ----------------------------
(***************************************************************************)
(* One client connection of the bridge: the request-handler thread         *)
(* (BridgeConnection.java), the session with the Ghidra Server it owns     *)
(* (GhidraSession.java), and the threads that stream repository events to  *)
(* the client (EventStreamer.java).  The handler runs one operation at a   *)
(* time; the streamers run beside it and share only the flag `running' and *)
(* the repository handle with it.  Handles and streamers are numbered in   *)
(* the order they are made.  The server is external.                       *)
(***************************************************************************)
EXTENDS Integers

CONSTANTS Repos,        \* repositories of the server
          MaxHandles,   \* bound on the repository handles obtained
          MaxStreamers, \* bound on the streamers started
          MaxBatch      \* bound on the events of one getEvents() answer

ASSUME BoundsAssumption ==
  MaxHandles \in Nat /\ MaxStreamers \in Nat /\ MaxBatch \in Nat

ASSUME ReposAssumption == Repos # {}

Handles == 1..MaxHandles
Streamers == 1..MaxStreamers
None == 0

VARIABLES
  link,         \* the client's connection: "new", "up" or "down"
  serverHandle, \* serverHandle != null
  userKnown,    \* connectedUser != null
  openRepos,    \* openRepos: repository -> its handle (None: no entry)
  closed,       \* handles that are closed
  handles,      \* handles obtained so far
  streamers,    \* streamers: repository -> its streamer (None: no entry)
  started,      \* streamers started so far
  sRepo,        \* repoName of each streamer
  sHandle,      \* its repository handle
  running,      \* its running flag
  sPc,          \* control point of its thread
  left,         \* events of the current answer not yet pushed
  late,         \* lines it wrote after it was told to stop (history)
  subscribed    \* repositories the client opened with open_repo (history)

sessionVars == <<serverHandle, userKnown, openRepos, closed, handles>>
threadVars == <<sPc, left, late>>
streamerVars == <<streamers, started, sRepo, sHandle, running, threadVars>>
vars == <<link, sessionVars, streamerVars, subscribed>>

StreamerPCs == {"none", "loop", "blocked", "events", "pushing", "ended"}

TypeOK ==
  /\ link \in {"new", "up", "down"}
  /\ serverHandle \in BOOLEAN /\ userKnown \in BOOLEAN
  /\ openRepos \in [Repos -> Handles \cup {None}]
  /\ closed \in SUBSET Handles
  /\ handles \in 0..MaxHandles
  /\ streamers \in [Repos -> Streamers \cup {None}]
  /\ started \in 0..MaxStreamers
  /\ sRepo \in [Streamers -> Repos]
  /\ sHandle \in [Streamers -> Handles \cup {None}]
  /\ running \in [Streamers -> BOOLEAN]
  /\ sPc \in [Streamers -> StreamerPCs]
  /\ left \in [Streamers -> 0..MaxBatch]
  /\ late \in [Streamers -> Nat]
  /\ subscribed \in SUBSET Repos

\* Stands for the repository of a streamer that has not been started.
AnyRepo == CHOOSE r \in Repos : TRUE

\* run() has not stored the writer yet; the session is disconnected.
Init ==
  /\ link = "new"
  /\ serverHandle = FALSE /\ userKnown = FALSE
  /\ openRepos = [r \in Repos |-> None]
  /\ closed = {} /\ handles = 0
  /\ streamers = [r \in Repos |-> None]
  /\ started = 0
  /\ sRepo = [s \in Streamers |-> AnyRepo]
  /\ sHandle = [s \in Streamers |-> None]
  /\ running = [s \in Streamers |-> FALSE]
  /\ sPc = [s \in Streamers |-> "none"]
  /\ left = [s \in Streamers |-> 0]
  /\ late = [s \in Streamers |-> 0]
  /\ subscribed = {}

-----------------------------------------------------------------------------
(* GhidraSession *)

\* disconnect(): every open handle is closed; the exception of a close()
\* that fails is ignored, and that handle stays usable.
CloseAll ==
  /\ \E failed \in SUBSET {openRepos[r] : r \in Repos} :
       closed' = closed \cup ({openRepos[r] : r \in Repos} \ (failed \cup {None}))
  /\ openRepos' = [r \in Repos |-> None]

\* connect(): disconnect() first.  The handle of the server is stored before
\* the last remote call, the user after it.
Connect(outcome) ==
  /\ CloseAll
  /\ serverHandle' = (outcome \in {"ok", "half"})
  /\ userKnown' = (outcome = "ok")
  /\ UNCHANGED handles

Disconnect ==
  /\ CloseAll
  /\ serverHandle' = FALSE /\ userKnown' = FALSE
  /\ UNCHANGED handles

\* openRepo(): a repository that is open already is left alone.
OpenRepo(r) ==
  /\ serverHandle
  /\ IF openRepos[r] # None
       THEN UNCHANGED <<openRepos, handles>>
       ELSE /\ handles < MaxHandles
            /\ handles' = handles + 1
            /\ openRepos' = [openRepos EXCEPT ![r] = handles + 1]
  /\ UNCHANGED <<serverHandle, userKnown, closed>>

CloseRepo(r) ==
  /\ openRepos' = [openRepos EXCEPT ![r] = None]
  /\ closed' \in {closed, closed \cup ({openRepos[r]} \ {None})}
  /\ UNCHANGED <<serverHandle, userKnown, handles>>

-----------------------------------------------------------------------------
(* Streamers, as the handler thread starts and stops them *)

\* Mutant: startStreamer does not look for a streamer it already has.
StartStreamerAgain(r) ==
  /\ started < MaxStreamers
  /\ started' = started + 1
  /\ streamers' = [streamers EXCEPT ![r] = started + 1]
  /\ sRepo' = [sRepo EXCEPT ![started + 1] = r]
  /\ sHandle' = [sHandle EXCEPT ![started + 1] = openRepos'[r]]
  /\ running' = [running EXCEPT ![started + 1] = TRUE]
  /\ sPc' = [sPc EXCEPT ![started + 1] = "loop"]
  /\ UNCHANGED <<left, late>>

StartStreamer(r) ==
  IF streamers[r] # None
    THEN UNCHANGED streamerVars
    ELSE /\ started < MaxStreamers
         /\ started' = started + 1
         /\ streamers' = [streamers EXCEPT ![r] = started + 1]
         /\ sRepo' = [sRepo EXCEPT ![started + 1] = r]
         /\ sHandle' = [sHandle EXCEPT ![started + 1] = openRepos'[r]]
         /\ running' = [running EXCEPT ![started + 1] = TRUE]
         /\ sPc' = [sPc EXCEPT ![started + 1] = "loop"]
         /\ UNCHANGED <<left, late>>

\* Remove the streamers of a set of repositories and tell them to stop.
Stop(R) ==
  /\ streamers' = [r \in Repos |-> IF r \in R THEN None ELSE streamers[r]]
  /\ running' = [s \in Streamers |->
                   running[s] /\ ~\E r \in R : streamers[r] = s]
  /\ UNCHANGED <<started, sRepo, sHandle, threadVars>>

StopStreamer(r) == Stop({r})

\* Mutant: the map is emptied, but the streamers are not told to stop.
StopAllStreamersClear ==
  /\ streamers' = [r \in Repos |-> None]
  /\ UNCHANGED <<started, sRepo, sHandle, running, threadVars>>

StopAllStreamers == Stop(Repos)

-----------------------------------------------------------------------------
(* BridgeConnection: the request-handler thread *)

Accept ==
  /\ link = "new"
  /\ link' = "up"
  /\ UNCHANGED <<sessionVars, streamerVars, subscribed>>

\* opConnect: the streamers of the session that connect() ends are not
\* stopped and stay in the map.
OpConnect(outcome) ==
  /\ link = "up"
  /\ Connect(outcome)
  /\ subscribed' = {}
  /\ UNCHANGED <<link, streamerVars>>

OpDisconnect ==
  /\ link = "up"
  /\ StopAllStreamers
  /\ Disconnect
  /\ subscribed' = {}
  /\ UNCHANGED link

OpOpenRepo(r) ==
  /\ link = "up"
  /\ OpenRepo(r)
  /\ StartStreamer(r)
  /\ subscribed' = subscribed \cup {r}
  /\ UNCHANGED link

OpCloseRepo(r) ==
  /\ link = "up"
  /\ StopStreamer(r)
  /\ CloseRepo(r)
  /\ subscribed' = subscribed \ {r}
  /\ UNCHANGED link

\* opOpenDb, opDeleteItem and opUploadBinary open the repository for
\* themselves and start no streamer.
OpAutoOpen(r) ==
  /\ link = "up"
  /\ OpenRepo(r)
  /\ UNCHANGED <<link, streamerVars, subscribed>>

\* The client closes the connection: the finally block of run().
ConnectionEnds ==
  /\ link = "up"
  /\ link' = "down"
  /\ StopAllStreamers
  /\ Disconnect
  /\ subscribed' = {}

-----------------------------------------------------------------------------
(* EventStreamer: the thread *)

SGoto(s, point) == sPc' = [sPc EXCEPT ![s] = point]

\* finally: running = false.
SEnd(s) ==
  /\ SGoto(s, "ended")
  /\ running' = [running EXCEPT ![s] = FALSE]
  /\ left' = [left EXCEPT ![s] = 0]
  /\ UNCHANGED late

SLoop(s) ==
  /\ sPc[s] = "loop"
  /\ IF running[s]
       THEN SGoto(s, "blocked") /\ UNCHANGED <<running, left, late>>
       ELSE SEnd(s)
  /\ UNCHANGED <<link, sessionVars, streamers, started, sRepo, sHandle, subscribed>>

\* getEvents() returns some events, or a keepalive and none.
SEvents(s) ==
  /\ sPc[s] = "blocked"
  /\ sHandle[s] \notin closed
  /\ \E n \in 0..MaxBatch : left' = [left EXCEPT ![s] = n]
  /\ SGoto(s, "events")
  /\ UNCHANGED <<late, link, sessionVars, streamers, started, sRepo, sHandle, running, subscribed>>

\* getEvents() throws: always on a closed handle, at any time when the
\* server or the network fails.
SThrow(s) ==
  /\ sPc[s] = "blocked"
  /\ SEnd(s)
  /\ UNCHANGED <<link, sessionVars, streamers, started, sRepo, sHandle, subscribed>>

\* Mutant: the flag is not looked at between the events of an answer.
SNextUnchecked(s) ==
  /\ sPc[s] = "events"
  /\ SGoto(s, IF left[s] = 0 THEN "loop" ELSE "pushing")
  /\ UNCHANGED <<left, late, link, sessionVars, streamers, started, sRepo, sHandle, running, subscribed>>

\* Mutant: the loop over the answer runs once too often.
SNextPastEnd(s) ==
  /\ sPc[s] = "events"
  /\ SGoto(s, "pushing")
  /\ UNCHANGED <<left, late, link, sessionVars, streamers, started, sRepo, sHandle, running, subscribed>>

\* The next event of the answer; the flag is looked at before each.
SNext(s) ==
  /\ sPc[s] = "events"
  /\ \/ left[s] = 0 /\ SGoto(s, "loop") /\ UNCHANGED <<running, left, late>>
     \/ left[s] > 0 /\ ~running[s] /\ SEnd(s)
     \/ left[s] > 0 /\ running[s] /\ SGoto(s, "pushing") /\ UNCHANGED <<running, left, late>>
  /\ UNCHANGED <<link, sessionVars, streamers, started, sRepo, sHandle, subscribed>>

\* pushEvent, writeLine: nothing is written once out is null.
SPush(s) ==
  /\ sPc[s] = "pushing"
  /\ late' = [late EXCEPT ![s] = IF link = "up" /\ ~running[s] THEN @ + 1 ELSE @]
  /\ left' = [left EXCEPT ![s] = @ - 1]
  /\ SGoto(s, "events")
  /\ UNCHANGED <<link, sessionVars, streamers, started, sRepo, sHandle, running, subscribed>>

-----------------------------------------------------------------------------
HandlerStep ==
  \/ Accept \/ OpDisconnect \/ ConnectionEnds
  \/ \E outcome \in {"ok", "half", "failed"} : OpConnect(outcome)
  \/ \E r \in Repos : OpOpenRepo(r) \/ OpCloseRepo(r) \/ OpAutoOpen(r)

StreamerStep(s) == SLoop(s) \/ SEvents(s) \/ SThrow(s) \/ SNext(s) \/ SPush(s)

Next == HandlerStep \/ \E s \in Streamers : StreamerStep(s)

Spec == Init /\ [][Next]_vars

\* The threads run, and the server answers getEvents() now and then, if
\* only with a keepalive.
FairSpec == Spec /\ \A s \in Streamers : WF_vars(StreamerStep(s))

-----------------------------------------------------------------------------
(* Properties *)

\* The client is not told of an event twice: no two streamers that have not
\* been told to stop serve the same repository, whatever sequence of
\* connects, opens, closes and automatic opens led here.
OneStreamerPerRepo ==
  \A s, t \in Streamers : running[s] /\ running[t] /\ sRepo[s] = sRepo[t] => s = t

\* Closing a repository or disconnecting cuts the stream of its events off:
\* whatever a streamer was doing, it writes at most one more line.
LateEventsBounded == \A s \in Streamers : late[s] <= 1

\* When the client has gone, every streamer thread comes to an end, also
\* one whose handle could not be closed or whose session was replaced.
StreamersEnd ==
  link = "down" ~> \A s \in Streamers : sPc[s] \in {"none", "ended"}

\* BridgeConnection.java:71: "EventStreamer per open repo."  A repository
\* the client opened has a streamer on the handle the session uses.
StreamerPerOpenRepo ==
  \A r \in subscribed : streamers[r] # None /\ sHandle[streamers[r]] = openRepos[r]
=============================================================================
