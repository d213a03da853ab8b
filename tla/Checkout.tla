------------------------------ MODULE Checkout ------------------------------
(***************************************************************************)
(* Checkouts of one repository item, as the bridge takes, reuses and       *)
(* releases them (bridge/.../BridgeConnection.java: opCheckin, opCheckout, *)
(* opTerminateCheckout, opUploadBinary, opDeleteItem).  Several bridges and *)
(* several interactive Ghidra clients use the item at once; a bridge makes *)
(* one remote call at a time, and between two of its calls anyone else may *)
(* move, the call may fail, its answer may be lost, or the bridge may die. *)
(* The Ghidra Server is external: it hands out fresh checkout ids, refuses *)
(* checkouts that exclude each other, and lets one client write at a time. *)
(***************************************************************************)
EXTENDS Integers

CONSTANTS Bridges,      \* bridge connections, each with its request-handler thread
          Guis,         \* interactive Ghidra clients
          UserOf,       \* the user each of them is connected as
          HostOf,       \* the machine each bridge runs on
          MaxCheckouts, \* bound on the checkouts ever granted
          MaxVersion    \* bound on the versions ever created

ASSUME BoundsAssumption == MaxCheckouts \in Nat /\ MaxVersion \in Nat \ {0}
ASSUME ActorsAssumption == Bridges \cap Guis = {}

Clients == Bridges \cup Guis
Nobody == "nobody"
Ids == 1..MaxCheckouts
None == 0                      \* coId = -1

VARIABLES
  exists,   \* the item is in the repository
  version,  \* versions created so far
  live,     \* ids of the checkouts the server has on record
  granted,  \* number of checkouts granted so far
  type,     \* type[k]: CheckoutType
  holder,   \* holder[k]: the client that checkout k was granted to
  asked,    \* checkouts a client asked to keep: checkout, keep_checkout (history)
  stray,    \* checkouts a failed or lost call or a crash left behind (history)
  endedBy,  \* endedBy[k]: what ended checkout k (history)
  pc,       \* control point of each bridge's handler thread
  coId,     \* coId
  owned     \* ownedCheckout

itemVars == <<exists, version>>
grantVars == <<granted, type, holder>>
bridgeVars == <<pc, coId, owned>>
vars == <<itemVars, live, grantVars, asked, stray, endedBy, bridgeVars>>

Types == {"NORMAL", "EXCLUSIVE"}
PCs == {"idle", "acquire", "open", "writing", "abort", "release", "keep"}
Endings == {"none", "checkin", "terminate", "gui"}

TypeOK ==
  /\ exists \in BOOLEAN
  /\ version \in 1..MaxVersion
  /\ live \in SUBSET Ids
  /\ granted \in 0..MaxCheckouts
  /\ type \in [Ids -> Types]
  /\ holder \in [Ids -> Clients \cup {Nobody}]
  /\ asked \in SUBSET Ids /\ stray \in SUBSET Ids
  /\ endedBy \in [Ids -> Endings]
  /\ pc \in [Bridges -> PCs]
  /\ coId \in [Bridges -> Ids \cup {None}]
  /\ owned \in [Bridges -> BOOLEAN]

\* The item is in the repository and nobody holds it.
Init ==
  /\ exists = TRUE /\ version = 1
  /\ live = {} /\ granted = 0
  /\ type = [k \in Ids |-> "NORMAL"]
  /\ holder = [k \in Ids |-> Nobody]
  /\ asked = {} /\ stray = {}
  /\ endedBy = [k \in Ids |-> "none"]
  /\ pc = [b \in Bridges |-> "idle"]
  /\ coId = [b \in Bridges |-> None]
  /\ owned = [b \in Bridges |-> FALSE]

-----------------------------------------------------------------------------
(* The Ghidra Server (external) *)

\* s.getUser() of a checkout, and s.getProjectPath(): the bridges on a host
\* share "<host>::binja-ghidra", an interactive client has its own project.
User(k) == UserOf[holder[k]]
BridgePath(k, host) == holder[k] \in Bridges /\ HostOf[holder[k]] = host

\* An exclusive checkout is granted when there is no other, a normal one
\* when there is no exclusive one.
Grantable(t) ==
  /\ exists
  /\ granted < MaxCheckouts
  /\ IF t = "EXCLUSIVE" THEN live = {} ELSE \A k \in live : type[k] = "NORMAL"

Grant(a, t) ==
  /\ Grantable(t)
  /\ granted' = granted + 1
  /\ live' = live \cup {granted + 1}
  /\ type' = [type EXCEPT ![granted + 1] = t]
  /\ holder' = [holder EXCEPT ![granted + 1] = a]

\* terminateCheckout: an unknown id makes the call fail and changes nothing.
EndCheckout(k, how) ==
  /\ live' = live \ {k}
  /\ endedBy' = [endedBy EXCEPT ![k] = IF k \in live THEN how ELSE @]

-----------------------------------------------------------------------------
(* opCheckin, one remote call after the other *)

Goto(b, point) == pc' = [pc EXCEPT ![b] = point]
Idle(b) ==
  /\ Goto(b, "idle")
  /\ coId' = [coId EXCEPT ![b] = None]
  /\ owned' = [owned EXCEPT ![b] = FALSE]

\* Mutant: the match is on the user alone, as the comment says it once was.
ReusableByUser(b) == {k \in live : User(k) = UserOf[b]}

\* Mutant: the match is on the project path alone.
ReusableByPath(b) == {k \in live : BridgePath(k, HostOf[b])}

\* Checkouts of this user with this bridge's project path.
Reusable(b) == {k \in live : User(k) = UserOf[b] /\ BridgePath(k, HostOf[b])}

\* getCheckouts: the first match, in whatever order the server lists them,
\* is reused; without one the next call asks for a new checkout.
GetCheckouts(b) ==
  /\ pc[b] = "idle" /\ exists
  /\ \/ \E k \in Reusable(b) :
          /\ coId' = [coId EXCEPT ![b] = k]
          /\ Goto(b, "open")
     \/ /\ Reusable(b) = {}
        /\ Goto(b, "acquire")
        /\ UNCHANGED coId
  /\ UNCHANGED <<itemVars, live, grantVars, asked, stray, endedBy, owned>>

\* checkout(EXCLUSIVE) is granted, and the answer arrives.
Acquire(b) ==
  /\ pc[b] = "acquire"
  /\ Grant(b, "EXCLUSIVE")
  /\ coId' = [coId EXCEPT ![b] = granted + 1]
  /\ owned' = [owned EXCEPT ![b] = TRUE]
  /\ Goto(b, "open")
  /\ UNCHANGED <<itemVars, asked, stray, endedBy>>

\* Mutant: a null answer is not told from a granted checkout.
AcquireFailUnchecked(b) ==
  /\ pc[b] = "acquire"
  /\ owned' = [owned EXCEPT ![b] = TRUE]
  /\ Goto(b, "open")
  /\ UNCHANGED <<itemVars, live, grantVars, asked, stray, endedBy, coId>>

\* checkout(EXCLUSIVE) returns null or throws: nothing was taken.
AcquireFail(b) ==
  /\ pc[b] = "acquire"
  /\ Idle(b)
  /\ UNCHANGED <<itemVars, live, grantVars, asked, stray, endedBy>>

\* The server grants the checkout, but the call throws: the answer is lost.
AcquireLost(b) ==
  /\ pc[b] = "acquire"
  /\ Grant(b, "EXCLUSIVE")
  /\ stray' = stray \cup {granted + 1}
  /\ Idle(b)
  /\ UNCHANGED <<itemVars, asked, endedBy>>

\* openDatabase(coId): the server wants a checkout it has on record, and
\* one writer of the item at a time.
OpenForWrite(b) ==
  /\ pc[b] = "open"
  /\ exists /\ coId[b] \in live
  /\ \A c \in Bridges : pc[c] # "writing"
  /\ Goto(b, "writing")
  /\ UNCHANGED <<itemVars, live, grantVars, asked, stray, endedBy, coId, owned>>

\* Mutant: every failure leaves the checkout to the user.
WriteFailedLeave(b) == Idle(b) /\ UNCHANGED stray

\* The catch block: only a checkout this call created is released; a
\* reused one stays behind.
WriteFailed(b) ==
  IF owned[b]
    THEN Goto(b, "abort") /\ UNCHANGED <<coId, owned, stray>>
    ELSE Idle(b) /\ UNCHANGED stray

OpenFail(b) ==
  /\ pc[b] = "open"
  /\ WriteFailed(b)
  /\ UNCHANGED <<itemVars, live, grantVars, asked, endedBy>>

\* DatabaseImporter.apply: all changes in one transaction, then save().
Write(b) ==
  /\ pc[b] = "writing"
  /\ version < MaxVersion
  /\ version' = version + 1
  /\ Goto(b, "release")
  /\ UNCHANGED <<exists, live, grantVars, asked, stray, endedBy, coId, owned>>

\* apply() throws: before the version was created, or after it, if it is
\* the answer to the last call of save() that is lost.
WriteFail(b) ==
  /\ pc[b] = "writing"
  /\ version' \in {version, version + 1} \cap 1..MaxVersion
  /\ WriteFailed(b)
  /\ UNCHANGED <<exists, live, grantVars, asked, endedBy>>

\* getVersions and updateCheckoutVersion change no state modelled here and
\* their failures are swallowed; terminateQuietly always follows.
Terminate(b) ==
  /\ pc[b] \in {"release", "abort"}
  /\ EndCheckout(coId[b], "checkin")
  /\ Idle(b)
  /\ UNCHANGED <<itemVars, grantVars, asked, stray>>

\* terminateQuietly swallows the exception of a failed terminateCheckout.
TerminateFail(b) ==
  /\ pc[b] \in {"release", "abort"}
  /\ stray' = stray \cup {coId[b]}
  /\ Idle(b)
  /\ UNCHANGED <<itemVars, live, grantVars, asked, endedBy>>

-----------------------------------------------------------------------------
(* The other operations of the bridge *)

\* opCheckout: the client asks for a checkout and keeps it.
OpCheckout(b, t) ==
  /\ pc[b] = "idle"
  /\ Grant(b, t)
  /\ asked' = asked \cup {granted + 1}
  /\ UNCHANGED <<itemVars, stray, endedBy, bridgeVars>>

\* opTerminateCheckout, as the panel uses it: of the item's checkouts it
\* picks the first whose user is the connected user.
OpTerminateCheckout(b, k) ==
  /\ pc[b] = "idle"
  /\ k \in live /\ User(k) = UserOf[b]
  /\ EndCheckout(k, "terminate")
  /\ UNCHANGED <<itemVars, grantVars, asked, stray, bridgeVars>>

\* opDeleteItem: the server refuses while the item is checked out.
OpDeleteItem(b) ==
  /\ pc[b] = "idle"
  /\ exists /\ live = {}
  /\ exists' = FALSE
  /\ UNCHANGED <<version, live, grantVars, asked, stray, endedBy, bridgeVars>>

\* opUploadBinary: analyzeHeadless creates the item; keep_checkout makes
\* the bridge go on.  A run that times out is killed, with or without the
\* item created.
OpUploadBinary(b) ==
  /\ pc[b] = "idle"
  /\ ~exists
  /\ exists' = TRUE
  /\ pc' \in {pc, [pc EXCEPT ![b] = "keep"]}
  /\ UNCHANGED <<version, live, grantVars, asked, stray, endedBy, coId, owned>>

\* keep_checkout: a NORMAL checkout; null is answered as checkout_id -1.
KeepCheckout(b) ==
  /\ pc[b] = "keep"
  /\ \/ Grant(b, "NORMAL") /\ asked' = asked \cup {granted + 1}
     \/ UNCHANGED <<live, grantVars, asked>>
  /\ Goto(b, "idle")
  /\ UNCHANGED <<itemVars, stray, endedBy, coId, owned>>

\* The bridge process dies in the middle of an operation and is started
\* again; what it held is still on record at the server.
Crash(b) ==
  /\ pc[b] # "idle"
  /\ stray' = IF coId[b] \in Ids THEN stray \cup {coId[b]} ELSE stray
  /\ Idle(b)
  /\ UNCHANGED <<itemVars, live, grantVars, asked, endedBy>>

-----------------------------------------------------------------------------
(* Interactive Ghidra clients (external) *)

GuiCheckout(g, t) ==
  /\ Grant(g, t)
  /\ UNCHANGED <<itemVars, asked, stray, endedBy, bridgeVars>>

\* Check in (with a new version) or undo a checkout of one's own.
GuiRelease(g, k) ==
  /\ k \in live /\ holder[k] = g
  /\ version' \in {version, version + 1} \cap 1..MaxVersion
  /\ EndCheckout(k, "gui")
  /\ UNCHANGED <<exists, grantVars, asked, stray, bridgeVars>>

-----------------------------------------------------------------------------
CheckinStep(b) ==
  \/ GetCheckouts(b) \/ Acquire(b) \/ AcquireFail(b) \/ AcquireLost(b)
  \/ OpenForWrite(b) \/ OpenFail(b) \/ Write(b) \/ WriteFail(b)
  \/ Terminate(b) \/ TerminateFail(b)

OtherStep(b) ==
  \/ \E t \in Types : OpCheckout(b, t)
  \/ \E k \in Ids : OpTerminateCheckout(b, k)
  \/ OpDeleteItem(b) \/ OpUploadBinary(b) \/ KeepCheckout(b) \/ Crash(b)

GuiStep(g) ==
  \/ \E t \in Types : GuiCheckout(g, t)
  \/ \E k \in Ids : GuiRelease(g, k)

Next ==
  \/ \E b \in Bridges : CheckinStep(b) \/ OtherStep(b)
  \/ \E g \in Guis : GuiStep(g)

Spec == Init /\ [][Next]_vars

-----------------------------------------------------------------------------
(* Properties *)

\* A check-in never ends a checkout of an interactive Ghidra client, not
\* even one of the same user, and not by an id that has gone stale between
\* getCheckouts and terminateCheckout: the client would find its local copy
\* "hijacked" (BridgeConnection.java:345-350).
CheckinSparesInteractive ==
  \A k \in Ids : endedBy[k] = "checkin" => holder[k] \notin Guis

\* opCheckin leaks nothing: a checkout of a bridge is one a client asked to
\* keep, or in use by a check-in that will release it, or a leftover of a
\* call that failed on the way to the server or of a crash.
NothingLeaked ==
  \A k \in live : holder[k] \in Bridges =>
    \/ k \in asked \cup stray
    \/ \E b \in Bridges : coId[b] = k /\ owned[b]

\* While a check-in writes, its checkout is on record at the server, unless
\* somebody else is connected as the same user: what another user's bridge
\* or an interactive client does between its calls cannot end it.
SoleUser(b) == \A a \in Clients \ {b} : UserOf[a] # UserOf[b]

WriterHoldsCheckout ==
  \A b \in Bridges : pc[b] = "writing" /\ SoleUser(b) => coId[b] \in live

\* BridgeConnection.java:345: "only ever reuse - and therefore later
\* terminate - checkouts that THIS bridge created".
ReusesOnlyItsOwn ==
  \A b \in Bridges : coId[b] # None => holder[coId[b]] = b

\* DatabaseImporter.java:25: "The caller must hold an exclusive checkout for
\* the item before calling apply()".
AppliesUnderExclusive ==
  \A b \in Bridges : pc[b] = "writing" => type[coId[b]] = "EXCLUSIVE"
=============================================================================
