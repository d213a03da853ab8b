----------------------------- MODULE BridgeLink -----------------------------
(***************************************************************************)
(* The plugin's one GhidraConnection and the local bridge it owns          *)
(* (plugin/src/GhidraConnection.cpp, plugin/src/BridgeProcess.cpp).        *)
(* m_process and m_client are plain unique_ptrs: worker threads test,      *)
(* replace and use them with no lock.  The worker of CorePluginInit warms  *)
(* the bridge up, those of the panel connect, disconnect and list.         *)
(* Objects are numbered as they are made and never numbered again, so a    *)
(* use of a number in `freed' is a use after free; 0 is the null pointer.  *)
(* Local mode on POSIX is modelled.                                        *)
(***************************************************************************)
EXTENDS Integers

CONSTANTS Threads,   \* worker threads that may run at the same time
          MaxObjects \* bound on the BridgeProcess and on the BridgeClient objects

ASSUME BoundsAssumption == MaxObjects \in Nat

Objects == 1..MaxObjects
Null == 0

VARIABLES
  mProcess, mClient,  \* the two pointers
  processes, clients, \* objects made so far
  freedP, freedC,     \* objects destroyed
  child,              \* child[p]: the JVM that process object p started
  connected,          \* connected[c]: isConnected() of client object c
  serverConnected,    \* m_serverConnected
  session,            \* the bridge holds a connection to the Ghidra server
  warmed,             \* the worker of CorePluginInit has been started
  pc, op, this,       \* per thread: where it is, what for, on which object
  misuse              \* what went wrong with a pointer or a pid (history)

vars == <<mProcess, mClient, processes, clients, freedP, freedC, child, connected,
          serverConnected, session, warmed, pc, op, this, misuse>>

TypeOK ==
  /\ mProcess \in 0..MaxObjects /\ mClient \in 0..MaxObjects
  /\ processes \in 0..MaxObjects /\ clients \in 0..MaxObjects
  /\ freedP \in SUBSET Objects /\ freedC \in SUBSET Objects
  /\ child \in [Objects -> {"none", "booting", "ready", "exited", "reaped"}]
  /\ connected \in [Objects -> BOOLEAN]
  /\ serverConnected \in BOOLEAN /\ session \in BOOLEAN /\ warmed \in BOOLEAN
  /\ pc \in [Threads -> {"idle", "check", "cleanClient", "cleanProcess", "make", "start",
                         "boot", "attach", "request", "wait"}]
  /\ op \in [Threads -> {"warm", "connect", "disconnect", "list"}]
  /\ this \in [Threads -> 0..MaxObjects]
  /\ misuse \in SUBSET {"process", "client", "null", "pid"}

Init ==
  /\ mProcess = Null /\ mClient = Null
  /\ processes = 0 /\ clients = 0
  /\ freedP = {} /\ freedC = {}
  /\ child = [p \in Objects |-> "none"]
  /\ connected = [c \in Objects |-> FALSE]
  /\ serverConnected = FALSE /\ session = FALSE /\ warmed = FALSE
  /\ pc = [t \in Threads |-> "idle"]
  /\ op = [t \in Threads |-> "list"]
  /\ this = [t \in Threads |-> Null]
  /\ misuse = {}

-----------------------------------------------------------------------------
(* BridgeProcess *)

Alive == {p \in Objects : child[p] \in {"booting", "ready"}}

\* isRunning(): waitpid(WNOHANG) reaps a child that has exited.
IsRunning(p) == p \in Alive
Polled == IF mProcess # Null /\ child[mProcess] = "exited"
            THEN [child EXCEPT ![mProcess] = "reaped"] ELSE child

\* Mutant: the object goes, its child is left running.
StoppedLeft(p) == child

\* stop(): SIGTERM, close the pipes, wait for the child.
Stopped(p) == IF p = Null \/ child[p] = "none" THEN child ELSE [child EXCEPT ![p] = "none"]

\* stop() signals m_pid even when isRunning() has reaped it.
StopMisuse(p) == IF p # Null /\ child[p] = "reaped" THEN {"pid"} ELSE {}

\* The bridge's session with the Ghidra server ends with its process.
SessionOf(ch) == session /\ mProcess # Null /\ ch[mProcess] = "ready"

\* A member function is called on the object m_process points to.
UseProcess ==
  IF mProcess = Null THEN {} ELSE IF mProcess \in freedP THEN {"process"} ELSE {}
IfNull(pointer) == IF pointer = Null THEN {"null"} ELSE {}

Goto(t, label) == pc' = [pc EXCEPT ![t] = label]
Crashed == misuse \cap {"process", "client", "null"} # {}

-----------------------------------------------------------------------------
(* Operations a worker starts *)

\* connectBridge() of CorePluginInit, connectToServer() of the two Connect
\* buttons, disconnectFromServer(), and listRepos() of refreshStatus(),
\* which a change of view starts whether or not there is a connection.  A
\* disconnect asks the bridge only if there is a client and a connection.
Begin(t) ==
  /\ pc[t] = "idle"
  /\ \/ ~warmed /\ warmed' = TRUE /\ op' = [op EXCEPT ![t] = "warm"] /\ Goto(t, "check")
     \/ op' = [op EXCEPT ![t] = "connect"] /\ Goto(t, "check") /\ UNCHANGED warmed
     \/ op' = [op EXCEPT ![t] = "list"] /\ Goto(t, "request") /\ UNCHANGED warmed
     \/ /\ op' = [op EXCEPT ![t] = "disconnect"] /\ UNCHANGED warmed
        /\ Goto(t, IF mClient # Null /\ serverConnected THEN "request" ELSE "idle")
  /\ serverConnected' = (serverConnected /\ (op'[t] = "disconnect" => pc'[t] = "request"))
  /\ UNCHANGED <<mProcess, mClient, processes, clients, freedP, freedC, child, connected,
                 session, this, misuse>>

\* isBridgeConnected(), then the same test again in startLocalBridge().
Check(t) ==
  /\ pc[t] = "check"
  /\ LET ready == mClient # Null /\ connected[mClient]
                    /\ (mProcess = Null \/ IsRunning(mProcess)) IN
     Goto(t, IF ~ready THEN "cleanClient" ELSE IF op[t] = "connect" THEN "request" ELSE "idle")
  /\ child' = Polled
  /\ misuse' = misuse \cup UseProcess
  /\ UNCHANGED <<mProcess, mClient, processes, clients, freedP, freedC, connected,
                 serverConnected, session, warmed, op, this>>

\* startLocalBridge(): m_client->disconnect(); m_client.reset()
CleanClient(t) ==
  /\ pc[t] = "cleanClient"
  /\ Goto(t, "cleanProcess")
  /\ mClient' = Null
  /\ freedC' = freedC \cup ({mClient} \ {Null})
  /\ UNCHANGED <<mProcess, processes, clients, freedP, child, connected, serverConnected,
                 session, warmed, op, this, misuse>>

\* Mutant: `if (m_process)' is dropped.
ResetProcessUnguarded ==
  /\ mProcess' = Null
  /\ freedP' = freedP \cup {mProcess}
  /\ child' = Stopped(mProcess)
  /\ session' = SessionOf(child')

\* m_process->stop(); m_process.reset()
ResetProcess ==
  /\ mProcess' = Null
  /\ freedP' = freedP \cup ({mProcess} \ {Null})
  /\ child' = Stopped(mProcess)
  /\ session' = SessionOf(child')

CleanProcess(t) ==
  /\ pc[t] = "cleanProcess"
  /\ ResetProcess
  /\ misuse' = misuse \cup UseProcess \cup StopMisuse(mProcess)
  /\ \/ Goto(t, "make")
     \/ Goto(t, "idle")  \* no bridge JAR or no Ghidra installation is found
  /\ UNCHANGED <<mClient, processes, clients, freedC, connected, serverConnected, warmed, op, this>>

\* m_process = make_unique: the object another thread has put there goes.
Make(t) ==
  /\ pc[t] = "make" /\ processes < MaxObjects
  /\ processes' = processes + 1
  /\ mProcess' = processes + 1
  /\ freedP' = freedP \cup ({mProcess} \ {Null})
  /\ child' = Stopped(mProcess)
  /\ session' = SessionOf(child')
  /\ misuse' = misuse \cup StopMisuse(mProcess)
  /\ Goto(t, "start")
  /\ UNCHANGED <<mClient, clients, freedC, connected, serverConnected, warmed, op, this>>

\* BridgeProcess::start() up to readReadyLine(); pipe() or fork() may fail.
Start(t) ==
  /\ pc[t] = "start"
  /\ misuse' = misuse \cup IfNull(mProcess)
  /\ \/ /\ child' = [p \in Objects |-> IF p = mProcess THEN "booting" ELSE child[p]]
        /\ this' = [this EXCEPT ![t] = mProcess]
        /\ Goto(t, "boot")
        /\ UNCHANGED <<mProcess, freedP, session>>
     \/ ResetProcess /\ Goto(t, "idle") /\ UNCHANGED this
  /\ UNCHANGED <<mClient, processes, clients, freedC, connected, serverConnected, warmed, op>>

\* The JVM prints READY.
Ready(p) ==
  /\ child[p] = "booting"
  /\ child' = [child EXCEPT ![p] = "ready"]
  /\ UNCHANGED <<mProcess, mClient, processes, clients, freedP, freedC, connected,
                 serverConnected, session, warmed, pc, op, this, misuse>>

\* The JVM exits, before or after READY.
Exits(p) ==
  /\ p \in Alive
  /\ child' = [child EXCEPT ![p] = "exited"]
  /\ session' = SessionOf(child')
  /\ UNCHANGED <<mProcess, mClient, processes, clients, freedP, freedC, connected,
                 serverConnected, warmed, pc, op, this, misuse>>

\* readReadyLine() returns: with READY, or at end of file, and then start()
\* stops the child and startLocalBridge() resets m_process.
Boot(t) ==
  /\ pc[t] = "boot" /\ child[this[t]] # "booting"
  /\ this' = [this EXCEPT ![t] = Null]
  /\ misuse' = misuse \cup (IF this[t] \in freedP THEN {"process"} ELSE {})
                      \cup (IF child[this[t]] = "ready" THEN {}
                              ELSE StopMisuse(this[t]) \cup StopMisuse(mProcess))
  /\ \/ child[this[t]] = "ready" /\ Goto(t, "attach") /\ UNCHANGED <<child, mProcess, freedP, session>>
     \/ child[this[t]] # "ready" /\ ResetProcess /\ Goto(t, "idle")
  /\ UNCHANGED <<mClient, processes, clients, freedC, connected, serverConnected, warmed, op>>

-----------------------------------------------------------------------------
(* BridgeClient *)

\* m_client = make_unique; m_client->connect(m_process->port()).  When it
\* fails, startLocalBridge() resets both pointers.
Attach(t) ==
  /\ pc[t] = "attach" /\ clients < MaxObjects
  /\ clients' = clients + 1
  /\ misuse' = misuse \cup IfNull(mProcess) \cup UseProcess \cup StopMisuse(mProcess)
  /\ \/ /\ mProcess # Null /\ child[mProcess] = "ready"
        /\ mClient' = clients + 1
        /\ freedC' = freedC \cup ({mClient} \ {Null})
        /\ connected' = [connected EXCEPT ![clients + 1] = TRUE]
        /\ Goto(t, IF op[t] = "connect" THEN "request" ELSE "idle")
        /\ UNCHANGED <<mProcess, freedP, child, session>>
     \/ /\ ResetProcess
        /\ mClient' = Null
        /\ freedC' = freedC \cup ({mClient, clients + 1} \ {Null})
        /\ Goto(t, "idle")
        /\ UNCHANGED connected
  /\ UNCHANGED <<processes, serverConnected, warmed, op, this>>

\* m_client->sendSync(): the pointer is read, the object waits for the answer.
Request(t) ==
  /\ pc[t] = "request"
  /\ misuse' = misuse \cup IfNull(mClient)
  /\ this' = [this EXCEPT ![t] = mClient]
  /\ Goto(t, "wait")
  /\ UNCHANGED <<mProcess, mClient, processes, clients, freedP, freedC, child, connected,
                 serverConnected, session, warmed, op>>

\* connectToServer() sets m_serverConnected and never clears it;
\* disconnectFromServer() clears it whatever the answer is.
ServerConnected(t, ok) ==
  CASE op[t] = "connect" -> serverConnected \/ ok
    [] op[t] = "disconnect" -> FALSE
    [] OTHER -> serverConnected

\* The bridge's session after a call: GhidraSession.connect() closes the one
\* it has before it opens a new one.  A call that timed out may still be
\* carried out, or not.
SessionAfter(t, ok) ==
  LET up == mProcess # Null /\ child[mProcess] = "ready" IN
  CASE op[t] = "connect" -> {ok, up}
    [] op[t] = "disconnect" -> {FALSE, session /\ ~ok}
    [] OTHER -> {session}

\* The answer, an error or the timeout.
Reply(t) ==
  /\ pc[t] = "wait"
  /\ \E ok \in BOOLEAN :
       /\ ok => mProcess # Null /\ child[mProcess] = "ready"
       /\ op[t] = "list" /\ ok => session
       /\ serverConnected' = ServerConnected(t, ok)
       /\ session' \in SessionAfter(t, ok)
  /\ misuse' = misuse \cup (IF this[t] \in freedC THEN {"client"} ELSE {})
  /\ this' = [this EXCEPT ![t] = Null]
  /\ Goto(t, "idle")
  /\ UNCHANGED <<mProcess, mClient, processes, clients, freedP, freedC, child, connected, warmed, op>>

-----------------------------------------------------------------------------
\* A crash ends the plugin.
Next ==
  /\ ~Crashed
  /\ \/ \E t \in Threads :
          \/ Begin(t) \/ Check(t) \/ CleanClient(t) \/ CleanProcess(t) \/ Make(t) \/ Start(t)
          \/ Boot(t) \/ Attach(t) \/ Request(t) \/ Reply(t)
     \/ \E p \in Objects : Ready(p) \/ Exits(p)

Spec == Init /\ [][Next]_vars

-----------------------------------------------------------------------------
(* Properties *)

\* Whatever fails on the way up and whenever the JVM dies, a running bridge
\* is the one m_process points to: startLocalBridge() leaves no JVM behind
\* that nothing can stop.
NoOrphanBridge == \A p \in Alive : p = mProcess

\* GhidraConnection.h:331: connectBridge() is "safe to call repeatedly -
\* no-ops if already running".  No call works on a BridgeProcess or a
\* BridgeClient that has been destroyed.
SafeToCallRepeatedly == misuse \cap {"process", "client"} = {}

\* GhidraConnection.h:337: connectBridge() is "called automatically by
\* connectToServer(); you only need to call this directly if you want to
\* pre-warm the connection".  No operation finds a null m_client.
ClientNeverNull == "null" \notin misuse

\* BridgeProcess.h:48: stop() is to "terminate the bridge process": the pid
\* it signals still belongs to the child.
StopsOnlyItsChild == "pid" \notin misuse

\* ProjectPanel.cpp:2775: the banner is shown for "a server item we are NOT
\* currently connected to" and "hidden once we are connected to that same
\* server".  With no call in progress and the bridge up, isServerConnected()
\* says there is a server connection only if there is one.
ServerConnectedIsTrue ==
  (serverConnected /\ (\A t \in Threads : pc[t] = "idle")
     /\ mProcess # Null /\ child[mProcess] = "ready") => session
=============================================================================
