--------------------------- MODULE CheckoutProofs ---------------------------
(***************************************************************************)
(* Proofs of the safety properties of Checkout, for any number of bridges, *)
(* interactive clients, users, hosts and checkouts.                        *)
(***************************************************************************)
EXTENDS Checkout, TLAPS

\* Ids above `granted' have not been handed out.
FreshInv ==
  /\ \A k \in live : k <= granted
  /\ \A b \in Bridges : coId[b] <= granted
  /\ \A k \in Ids : k > granted => endedBy[k] = "none"

\* What a handler thread has in coId fits its control point, and a checkout
\* it uses was granted to a bridge of its own user.
UseInv ==
  \A b \in Bridges :
    /\ pc[b] \in {"open", "writing", "abort", "release"} <=> coId[b] # None
    /\ owned[b] => coId[b] # None
    /\ coId[b] # None => holder[coId[b]] \in Bridges /\ User(coId[b]) = UserOf[b]

\* The inductive invariant.
IInv ==
  /\ TypeOK /\ FreshInv /\ UseInv
  /\ CheckinSparesInteractive /\ NothingLeaked /\ WriterHoldsCheckout

\* The initial state satisfies the inductive invariant: nothing is checked out
\* and no handler is at work.
LEMMA InitIInv == Init => IInv
BY BoundsAssumption
   DEF Init, IInv, TypeOK, FreshInv, UseInv, CheckinSparesInteractive, NothingLeaked,
       WriterHoldsCheckout, Ids, None, Types, PCs, Endings, Nobody

\* Every remote call of the bridge, of the server and of the clients keeps the
\* types.
LEMMA NextTypeOK == TypeOK /\ FreshInv /\ UseInv /\ [Next]_vars => TypeOK'
<1> SUFFICES ASSUME TypeOK, FreshInv, UseInv, [Next]_vars PROVE TypeOK'
  OBVIOUS
<1> USE BoundsAssumption DEF Ids, None, Types, PCs, Endings, Clients, itemVars, grantVars, bridgeVars
<1>1. ASSUME NEW b \in Bridges, CheckinStep(b) PROVE TypeOK'
  <2>1. CASE GetCheckouts(b)
    BY ZenonT(60), <2>1 DEF TypeOK, GetCheckouts, Reusable, Goto
  <2>2. CASE Acquire(b)
    BY <2>2 DEF TypeOK, Acquire, Grant, Grantable, Goto
  <2>3. CASE AcquireFail(b)
    BY <2>3 DEF TypeOK, AcquireFail, Idle, Goto
  <2>4. CASE AcquireLost(b)
    BY <2>4 DEF TypeOK, AcquireLost, Grant, Grantable, Idle, Goto
  <2>5. CASE OpenForWrite(b)
    BY <2>5 DEF TypeOK, OpenForWrite, Goto
  <2>6. CASE OpenFail(b)
    BY ZenonT(60), <2>6 DEF TypeOK, OpenFail, WriteFailed, Idle, Goto
  <2>7. CASE Write(b)
    BY <2>7 DEF TypeOK, Write, Goto
  <2>8. CASE WriteFail(b)
    BY ZenonT(60), <2>8 DEF TypeOK, WriteFail, WriteFailed, Idle, Goto
  <2>9. CASE Terminate(b)
    BY ZenonT(60), <2>9 DEF TypeOK, Terminate, EndCheckout, Idle, Goto
  <2>10. CASE TerminateFail(b)
    BY ZenonT(60), <2>10 DEF TypeOK, UseInv, TerminateFail, Idle, Goto
  <2> HIDE DEF Ids, None, Types, PCs, Endings, Clients, itemVars, grantVars, bridgeVars
  <2> QED
    BY <1>1, <2>1, <2>2, <2>3, <2>4, <2>5, <2>6, <2>7, <2>8, <2>9, <2>10 DEF CheckinStep
<1>2. ASSUME NEW b \in Bridges, OtherStep(b) PROVE TypeOK'
  <2>1. CASE \E t \in Types : OpCheckout(b, t)
    BY <2>1 DEF TypeOK, OpCheckout, Grant, Grantable
  <2>2. CASE \E k \in Ids : OpTerminateCheckout(b, k)
    BY <2>2 DEF TypeOK, OpTerminateCheckout, EndCheckout
  <2>3. CASE OpDeleteItem(b)
    BY ZenonT(60), <2>3 DEF TypeOK, OpDeleteItem
  <2>4. CASE OpUploadBinary(b)
    BY <2>4 DEF TypeOK, OpUploadBinary
  <2>5. CASE KeepCheckout(b)
    <3>1. CASE Grant(b, "NORMAL") /\ asked' = asked \cup {granted + 1}
      BY <2>5, <3>1 DEF TypeOK, KeepCheckout, Grant, Grantable, Goto
    <3>2. CASE UNCHANGED <<live, grantVars, asked>>
      BY <2>5, <3>2 DEF TypeOK, KeepCheckout, Goto
    <3> QED
      BY <2>5, <3>1, <3>2 DEF KeepCheckout
  <2>6. CASE Crash(b)
    BY ZenonT(60), <2>6 DEF TypeOK, Crash, Idle, Goto
  <2> HIDE DEF Ids, None, Types, PCs, Endings, Clients, itemVars, grantVars, bridgeVars
  <2> QED
    BY <1>2, <2>1, <2>2, <2>3, <2>4, <2>5, <2>6 DEF OtherStep
<1>3. ASSUME NEW g \in Guis, GuiStep(g) PROVE TypeOK'
  <2>1. CASE \E t \in Types : GuiCheckout(g, t)
    BY <2>1 DEF TypeOK, GuiCheckout, Grant, Grantable
  <2>2. CASE \E k \in Ids : GuiRelease(g, k)
    BY <2>2 DEF TypeOK, GuiRelease, EndCheckout
  <2> HIDE DEF Ids, None, Types, PCs, Endings, Clients, itemVars, grantVars, bridgeVars
  <2> QED
    BY <1>3, <2>1, <2>2 DEF GuiStep
<1>4. CASE UNCHANGED vars
  BY <1>4 DEF TypeOK, vars
<1> HIDE DEF Ids, None, Types, PCs, Endings, Clients, itemVars, grantVars, bridgeVars
<1> QED
  BY <1>1, <1>2, <1>3, <1>4 DEF Next

\* The server hands out fresh ids: no step refers to one it has not granted.
LEMMA NextFresh == TypeOK /\ FreshInv /\ [Next]_vars => FreshInv'
<1> SUFFICES ASSUME TypeOK, FreshInv, [Next]_vars PROVE FreshInv'
  OBVIOUS
<1> USE BoundsAssumption, ActorsAssumption DEF TypeOK, Ids, None, Clients, itemVars, grantVars, bridgeVars,
         FreshInv
<1>0. ASSUME NEW c, NEW t, Grant(c, t)
      PROVE  /\ granted \in Int /\ granted' = granted + 1
             /\ \A k \in live' : k <= granted'
             /\ \A k \in Ids : k > granted' => endedBy[k] = "none"
  <2>1. granted \in Int /\ granted' = granted + 1 /\ live' = live \cup {granted + 1}
    BY <1>0 DEF Grant
  <2>2. \A k \in live : k \in Int
    OBVIOUS
  <2> QED
    BY <2>1, <2>2
<1>1. ASSUME NEW a \in Bridges, CheckinStep(a) PROVE FreshInv'
  <2>1. CASE GetCheckouts(a)
    BY SMTT(60), <2>1 DEF GetCheckouts, Reusable, User, BridgePath, Goto
  <2>2. CASE Acquire(a)
    <3>1. Grant(a, "EXCLUSIVE") /\ coId' = [coId EXCEPT ![a] = granted + 1] /\ UNCHANGED endedBy
      BY <2>2 DEF Acquire
    <3>2. \A b \in Bridges : coId[b] \in Int
      OBVIOUS
    <3>3. \A b \in Bridges : coId'[b] <= granted'
      BY <1>0, <3>1, <3>2
    <3> QED
      BY <1>0, <3>1, <3>3
  <2>3. CASE AcquireFail(a)
    BY <2>3 DEF AcquireFail, Idle, Goto
  <2>4. CASE AcquireLost(a)
    BY <2>4 DEF AcquireLost, Grant, Grantable, Idle, Goto
  <2>5. CASE OpenForWrite(a)
    BY <2>5 DEF OpenForWrite, Goto
  <2>6. CASE OpenFail(a)
    BY <2>6 DEF OpenFail, WriteFailed, Idle, Goto
  <2>7. CASE Write(a)
    BY <2>7 DEF Write, Goto
  <2>8. CASE WriteFail(a)
    BY <2>8 DEF WriteFail, WriteFailed, Idle, Goto
  <2>9. CASE Terminate(a)
    BY <2>9 DEF Terminate, EndCheckout, Idle, Goto
  <2>10. CASE TerminateFail(a)
    BY <2>10 DEF TerminateFail, Idle, Goto
  <2> HIDE DEF TypeOK, Ids, None, Clients, itemVars, grantVars, bridgeVars, FreshInv
  <2> QED
    BY <1>1, <2>1, <2>2, <2>3, <2>4, <2>5, <2>6, <2>7, <2>8, <2>9, <2>10 DEF CheckinStep
<1>2. ASSUME NEW a \in Bridges, OtherStep(a) PROVE FreshInv'
  <2>1. CASE \E t \in Types : OpCheckout(a, t)
    <3>1. PICK t \in Types : OpCheckout(a, t)
      BY <2>1
    <3>2. Grant(a, t) /\ UNCHANGED <<coId, endedBy>>
      BY <3>1 DEF OpCheckout
    <3>3. \A b \in Bridges : coId[b] \in Int
      OBVIOUS
    <3> QED
      BY <1>0, <3>2, <3>3
  <2>2. CASE \E k \in Ids : OpTerminateCheckout(a, k)
    BY <2>2 DEF OpTerminateCheckout, EndCheckout
  <2>3. CASE OpDeleteItem(a)
    BY <2>3 DEF OpDeleteItem
  <2>4. CASE OpUploadBinary(a)
    BY <2>4 DEF OpUploadBinary
  <2>5. CASE KeepCheckout(a)
    <3>1. UNCHANGED <<coId, endedBy>>
      BY <2>5 DEF KeepCheckout
    <3>2. \A b \in Bridges : coId[b] \in Int
      OBVIOUS
    <3>3. CASE Grant(a, "NORMAL")
      BY <1>0, <3>1, <3>2, <3>3
    <3>4. CASE UNCHANGED <<live, grantVars>>
      BY <3>1, <3>4
    <3> QED
      BY <2>5, <3>3, <3>4 DEF KeepCheckout
  <2>6. CASE Crash(a)
    BY <2>6 DEF Crash, Idle, Goto
  <2> HIDE DEF TypeOK, Ids, None, Clients, itemVars, grantVars, bridgeVars, FreshInv
  <2> QED
    BY <1>2, <2>1, <2>2, <2>3, <2>4, <2>5, <2>6 DEF OtherStep
<1>3. ASSUME NEW g \in Guis, GuiStep(g) PROVE FreshInv'
  <2>1. CASE \E t \in Types : GuiCheckout(g, t)
    <3>1. PICK t \in Types : GuiCheckout(g, t)
      BY <2>1
    <3>2. Grant(g, t) /\ UNCHANGED <<coId, endedBy>>
      BY <3>1 DEF GuiCheckout
    <3>3. \A b \in Bridges : coId[b] \in Int
      OBVIOUS
    <3> QED
      BY <1>0, <3>2, <3>3
  <2>2. CASE \E k \in Ids : GuiRelease(g, k)
    BY <2>2 DEF GuiRelease, EndCheckout
  <2> HIDE DEF TypeOK, Ids, None, Clients, itemVars, grantVars, bridgeVars, FreshInv
  <2> QED
    BY <1>3, <2>1, <2>2 DEF GuiStep
<1>4. CASE UNCHANGED vars
  BY <1>4 DEF vars
<1> HIDE DEF TypeOK, Ids, None, Clients, itemVars, grantVars, bridgeVars, FreshInv
<1> QED
  BY <1>1, <1>2, <1>3, <1>4 DEF Next

\* opCheckin works on a checkout of a bridge of its own user, and on one
\* exactly at the control points that need it.
LEMMA NextUse == TypeOK /\ FreshInv /\ UseInv /\ [Next]_vars => UseInv'
<1> SUFFICES ASSUME TypeOK, FreshInv, UseInv, [Next]_vars PROVE UseInv'
  OBVIOUS
<1> USE BoundsAssumption, ActorsAssumption DEF TypeOK, Ids, None, Clients, itemVars, grantVars, bridgeVars,
         FreshInv, UseInv, User
<1>1. ASSUME NEW a \in Bridges, CheckinStep(a) PROVE UseInv'
  <2>1. CASE GetCheckouts(a)
    BY <2>1 DEF GetCheckouts, Reusable, User, BridgePath, Goto
  <2>2. CASE Acquire(a)
    BY <2>2 DEF Acquire, Grant, Grantable, Goto
  <2>3. CASE AcquireFail(a)
    BY <2>3 DEF AcquireFail, Idle, Goto
  <2>4. CASE AcquireLost(a)
    BY <2>4 DEF AcquireLost, Grant, Grantable, Idle, Goto
  <2>5. CASE OpenForWrite(a)
    BY <2>5 DEF OpenForWrite, Goto
  <2>6. CASE OpenFail(a)
    BY <2>6 DEF OpenFail, WriteFailed, Idle, Goto
  <2>7. CASE Write(a)
    BY <2>7 DEF Write, Goto
  <2>8. CASE WriteFail(a)
    BY <2>8 DEF WriteFail, WriteFailed, Idle, Goto
  <2>9. CASE Terminate(a)
    BY <2>9 DEF Terminate, EndCheckout, Idle, Goto
  <2>10. CASE TerminateFail(a)
    BY <2>10 DEF TerminateFail, Idle, Goto
  <2> HIDE DEF TypeOK, Ids, None, Clients, itemVars, grantVars, bridgeVars, FreshInv, UseInv, User
  <2> QED
    BY <1>1, <2>1, <2>2, <2>3, <2>4, <2>5, <2>6, <2>7, <2>8, <2>9, <2>10 DEF CheckinStep
<1>2. ASSUME NEW a \in Bridges, OtherStep(a) PROVE UseInv'
  <2>1. CASE \E t \in Types : OpCheckout(a, t)
    BY <2>1 DEF OpCheckout, Grant, Grantable
  <2>2. CASE \E k \in Ids : OpTerminateCheckout(a, k)
    BY <2>2 DEF OpTerminateCheckout, EndCheckout
  <2>3. CASE OpDeleteItem(a)
    BY <2>3 DEF OpDeleteItem
  <2>4. CASE OpUploadBinary(a)
    BY <2>4 DEF OpUploadBinary
  <2>5. CASE KeepCheckout(a)
    BY <2>5 DEF KeepCheckout, Grant, Grantable, Goto
  <2>6. CASE Crash(a)
    BY <2>6 DEF Crash, Idle, Goto
  <2> HIDE DEF TypeOK, Ids, None, Clients, itemVars, grantVars, bridgeVars, FreshInv, UseInv, User
  <2> QED
    BY <1>2, <2>1, <2>2, <2>3, <2>4, <2>5, <2>6 DEF OtherStep
<1>3. ASSUME NEW g \in Guis, GuiStep(g) PROVE UseInv'
  <2>1. CASE \E t \in Types : GuiCheckout(g, t)
    BY <2>1 DEF GuiCheckout, Grant, Grantable
  <2>2. CASE \E k \in Ids : GuiRelease(g, k)
    BY <2>2 DEF GuiRelease, EndCheckout
  <2> HIDE DEF TypeOK, Ids, None, Clients, itemVars, grantVars, bridgeVars, FreshInv, UseInv, User
  <2> QED
    BY <1>3, <2>1, <2>2 DEF GuiStep
<1>4. CASE UNCHANGED vars
  BY <1>4 DEF vars
<1> HIDE DEF TypeOK, Ids, None, Clients, itemVars, grantVars, bridgeVars, FreshInv, UseInv, User
<1> QED
  BY <1>1, <1>2, <1>3, <1>4 DEF Next

\* No step makes opCheckin end the checkout of an interactive client.
LEMMA NextSpares == TypeOK /\ FreshInv /\ UseInv /\ CheckinSparesInteractive /\ [Next]_vars => CheckinSparesInteractive'
<1> SUFFICES ASSUME TypeOK, FreshInv, UseInv, CheckinSparesInteractive, [Next]_vars PROVE CheckinSparesInteractive'
  OBVIOUS
<1> USE BoundsAssumption, ActorsAssumption DEF TypeOK, Ids, None, Clients, itemVars, grantVars, bridgeVars,
         FreshInv, UseInv, CheckinSparesInteractive
<1>1. ASSUME NEW a \in Bridges, CheckinStep(a) PROVE CheckinSparesInteractive'
  <2>1. CASE GetCheckouts(a)
    BY <2>1 DEF GetCheckouts, Reusable, User, BridgePath, Goto
  <2>2. CASE Acquire(a)
    BY <2>2 DEF Acquire, Grant, Grantable, Goto
  <2>3. CASE AcquireFail(a)
    BY <2>3 DEF AcquireFail, Idle, Goto
  <2>4. CASE AcquireLost(a)
    BY <2>4 DEF AcquireLost, Grant, Grantable, Idle, Goto
  <2>5. CASE OpenForWrite(a)
    BY <2>5 DEF OpenForWrite, Goto
  <2>6. CASE OpenFail(a)
    BY <2>6 DEF OpenFail, WriteFailed, Idle, Goto
  <2>7. CASE Write(a)
    BY <2>7 DEF Write, Goto
  <2>8. CASE WriteFail(a)
    BY <2>8 DEF WriteFail, WriteFailed, Idle, Goto
  <2>9. CASE Terminate(a)
    BY <2>9 DEF Terminate, EndCheckout, Idle, Goto
  <2>10. CASE TerminateFail(a)
    BY <2>10 DEF TerminateFail, Idle, Goto
  <2> HIDE DEF TypeOK, Ids, None, Clients, itemVars, grantVars, bridgeVars, FreshInv, UseInv, CheckinSparesInteractive
  <2> QED
    BY <1>1, <2>1, <2>2, <2>3, <2>4, <2>5, <2>6, <2>7, <2>8, <2>9, <2>10 DEF CheckinStep
<1>2. ASSUME NEW a \in Bridges, OtherStep(a) PROVE CheckinSparesInteractive'
  <2>1. CASE \E t \in Types : OpCheckout(a, t)
    BY <2>1 DEF OpCheckout, Grant, Grantable
  <2>2. CASE \E k \in Ids : OpTerminateCheckout(a, k)
    BY <2>2 DEF OpTerminateCheckout, EndCheckout
  <2>3. CASE OpDeleteItem(a)
    BY <2>3 DEF OpDeleteItem
  <2>4. CASE OpUploadBinary(a)
    BY <2>4 DEF OpUploadBinary
  <2>5. CASE KeepCheckout(a)
    BY <2>5 DEF KeepCheckout, Grant, Grantable, Goto
  <2>6. CASE Crash(a)
    BY <2>6 DEF Crash, Idle, Goto
  <2> HIDE DEF TypeOK, Ids, None, Clients, itemVars, grantVars, bridgeVars, FreshInv, UseInv, CheckinSparesInteractive
  <2> QED
    BY <1>2, <2>1, <2>2, <2>3, <2>4, <2>5, <2>6 DEF OtherStep
<1>3. ASSUME NEW g \in Guis, GuiStep(g) PROVE CheckinSparesInteractive'
  <2>1. CASE \E t \in Types : GuiCheckout(g, t)
    BY <2>1 DEF GuiCheckout, Grant, Grantable
  <2>2. CASE \E k \in Ids : GuiRelease(g, k)
    BY <2>2 DEF GuiRelease, EndCheckout
  <2> HIDE DEF TypeOK, Ids, None, Clients, itemVars, grantVars, bridgeVars, FreshInv, UseInv, CheckinSparesInteractive
  <2> QED
    BY <1>3, <2>1, <2>2 DEF GuiStep
<1>4. CASE UNCHANGED vars
  BY <1>4 DEF vars
<1> HIDE DEF TypeOK, Ids, None, Clients, itemVars, grantVars, bridgeVars, FreshInv, UseInv, CheckinSparesInteractive
<1> QED
  BY <1>1, <1>2, <1>3, <1>4 DEF Next

\* No step leaves a checkout of a bridge that nobody asked for and nobody
\* will release.
LEMMA NextLeaked == TypeOK /\ FreshInv /\ UseInv /\ NothingLeaked /\ [Next]_vars => NothingLeaked'
<1> SUFFICES ASSUME TypeOK, FreshInv, UseInv, NothingLeaked, [Next]_vars PROVE NothingLeaked'
  OBVIOUS
<1> USE BoundsAssumption, ActorsAssumption DEF TypeOK, Ids, None, Clients, itemVars, grantVars, bridgeVars,
         FreshInv, UseInv, NothingLeaked
<1>0. ASSUME UNCHANGED <<live, holder, asked, stray>>,
             \A b \in Bridges : owned[b] => owned'[b] /\ coId'[b] = coId[b]
      PROVE  NothingLeaked'
  BY SMTT(30), <1>0
<1>1. ASSUME NEW a \in Bridges, CheckinStep(a) PROVE NothingLeaked'
  <2>1. CASE GetCheckouts(a)
    <3>1. \A b \in Bridges : owned[b] => coId'[b] = coId[b]
      BY <2>1 DEF GetCheckouts
    <3>2. UNCHANGED <<live, holder, asked, stray, owned>>
      BY <2>1 DEF GetCheckouts
    <3> QED
      BY SMTT(60), <3>1, <3>2
  <2>2. CASE Acquire(a)
    BY <2>2 DEF Acquire, Grant, Grantable, Goto
  <2>3. CASE AcquireFail(a)
    BY ZenonT(60), <2>3 DEF AcquireFail, Idle, Goto
  <2>4. CASE AcquireLost(a)
    BY <2>4 DEF AcquireLost, Grant, Grantable, Idle, Goto
  <2>5. CASE OpenForWrite(a)
    BY <2>5 DEF OpenForWrite, Goto
  <2>6. CASE OpenFail(a)
    <3>1. UNCHANGED <<live, holder, asked, stray>>
      BY <2>6 DEF OpenFail, WriteFailed
    <3>2. \A b \in Bridges : owned[b] => owned'[b] /\ coId'[b] = coId[b]
      BY SMTT(30), <2>6 DEF OpenFail, WriteFailed, Idle
    <3> QED
      BY <1>0, <3>1, <3>2
  <2>7. CASE Write(a)
    BY <2>7 DEF Write, Goto
  <2>8. CASE WriteFail(a)
    <3>1. UNCHANGED <<live, holder, asked, stray>>
      BY <2>8 DEF WriteFail, WriteFailed
    <3>2. \A b \in Bridges : owned[b] => owned'[b] /\ coId'[b] = coId[b]
      BY SMTT(30), <2>8 DEF WriteFail, WriteFailed, Idle
    <3> QED
      BY <1>0, <3>1, <3>2
  <2>9. CASE Terminate(a)
    BY <2>9 DEF Terminate, EndCheckout, Idle, Goto
  <2>10. CASE TerminateFail(a)
    BY <2>10 DEF TerminateFail, Idle, Goto
  <2> HIDE DEF TypeOK, Ids, None, Clients, itemVars, grantVars, bridgeVars, FreshInv, UseInv, NothingLeaked
  <2> QED
    BY <1>1, <2>1, <2>2, <2>3, <2>4, <2>5, <2>6, <2>7, <2>8, <2>9, <2>10 DEF CheckinStep
<1>2. ASSUME NEW a \in Bridges, OtherStep(a) PROVE NothingLeaked'
  <2>1. CASE \E t \in Types : OpCheckout(a, t)
    BY <2>1 DEF OpCheckout, Grant, Grantable
  <2>2. CASE \E k \in Ids : OpTerminateCheckout(a, k)
    <3>1. live' \subseteq live /\ UNCHANGED <<holder, asked, stray, coId, owned>>
      BY <2>2 DEF OpTerminateCheckout, EndCheckout
    <3> QED
      BY <3>1
  <2>3. CASE OpDeleteItem(a)
    BY <2>3 DEF OpDeleteItem
  <2>4. CASE OpUploadBinary(a)
    BY <2>4 DEF OpUploadBinary
  <2>5. CASE KeepCheckout(a)
    <3>1. UNCHANGED <<stray, coId, owned>>
      BY <2>5 DEF KeepCheckout
    <3>2. CASE Grant(a, "NORMAL") /\ asked' = asked \cup {granted + 1}
      BY <3>1, <3>2 DEF Grant
    <3>3. CASE UNCHANGED <<live, grantVars, asked>>
      BY <3>1, <3>3
    <3> QED
      BY <2>5, <3>2, <3>3 DEF KeepCheckout
  <2>6. CASE Crash(a)
    BY <2>6 DEF Crash, Idle, Goto
  <2> HIDE DEF TypeOK, Ids, None, Clients, itemVars, grantVars, bridgeVars, FreshInv, UseInv, NothingLeaked
  <2> QED
    BY <1>2, <2>1, <2>2, <2>3, <2>4, <2>5, <2>6 DEF OtherStep
<1>3. ASSUME NEW g \in Guis, GuiStep(g) PROVE NothingLeaked'
  <2>1. CASE \E t \in Types : GuiCheckout(g, t)
    BY <2>1 DEF GuiCheckout, Grant, Grantable
  <2>2. CASE \E k \in Ids : GuiRelease(g, k)
    <3>1. live' \subseteq live /\ UNCHANGED <<holder, asked, stray, coId, owned>>
      BY <2>2 DEF GuiRelease, EndCheckout
    <3> QED
      BY <3>1
  <2> HIDE DEF TypeOK, Ids, None, Clients, itemVars, grantVars, bridgeVars, FreshInv, UseInv, NothingLeaked
  <2> QED
    BY <1>3, <2>1, <2>2 DEF GuiStep
<1>4. CASE UNCHANGED vars
  BY <1>4 DEF vars
<1> HIDE DEF TypeOK, Ids, None, Clients, itemVars, grantVars, bridgeVars, FreshInv, UseInv, NothingLeaked
<1> QED
  BY <1>1, <1>2, <1>3, <1>4 DEF Next

\* No step of another user ends the checkout a check-in writes under.
LEMMA NextWriter == TypeOK /\ FreshInv /\ UseInv /\ WriterHoldsCheckout /\ [Next]_vars => WriterHoldsCheckout'
<1> SUFFICES ASSUME TypeOK, FreshInv, UseInv, WriterHoldsCheckout, [Next]_vars PROVE WriterHoldsCheckout'
  OBVIOUS
<1> USE BoundsAssumption, ActorsAssumption DEF TypeOK, Ids, None, Clients, itemVars, grantVars, bridgeVars,
         FreshInv, UseInv, WriterHoldsCheckout, SoleUser, User
<1>1. ASSUME NEW a \in Bridges, CheckinStep(a) PROVE WriterHoldsCheckout'
  <2>1. CASE GetCheckouts(a)
    BY <2>1 DEF GetCheckouts, Reusable, User, BridgePath, Goto
  <2>2. CASE Acquire(a)
    BY <2>2 DEF Acquire, Grant, Grantable, Goto
  <2>3. CASE AcquireFail(a)
    BY <2>3 DEF AcquireFail, Idle, Goto
  <2>4. CASE AcquireLost(a)
    BY <2>4 DEF AcquireLost, Grant, Grantable, Idle, Goto
  <2>5. CASE OpenForWrite(a)
    BY <2>5 DEF OpenForWrite, Goto
  <2>6. CASE OpenFail(a)
    BY <2>6 DEF OpenFail, WriteFailed, Idle, Goto
  <2>7. CASE Write(a)
    BY <2>7 DEF Write, Goto
  <2>8. CASE WriteFail(a)
    BY <2>8 DEF WriteFail, WriteFailed, Idle, Goto
  <2>9. CASE Terminate(a)
    BY <2>9 DEF Terminate, EndCheckout, Idle, Goto
  <2>10. CASE TerminateFail(a)
    BY <2>10 DEF TerminateFail, Idle, Goto
  <2> HIDE DEF TypeOK, Ids, None, Clients, itemVars, grantVars, bridgeVars, FreshInv, UseInv, WriterHoldsCheckout, SoleUser, User
  <2> QED
    BY <1>1, <2>1, <2>2, <2>3, <2>4, <2>5, <2>6, <2>7, <2>8, <2>9, <2>10 DEF CheckinStep
<1>2. ASSUME NEW a \in Bridges, OtherStep(a) PROVE WriterHoldsCheckout'
  <2>1. CASE \E t \in Types : OpCheckout(a, t)
    BY <2>1 DEF OpCheckout, Grant, Grantable
  <2>2. CASE \E k \in Ids : OpTerminateCheckout(a, k)
    BY <2>2 DEF OpTerminateCheckout, EndCheckout
  <2>3. CASE OpDeleteItem(a)
    BY <2>3 DEF OpDeleteItem
  <2>4. CASE OpUploadBinary(a)
    BY <2>4 DEF OpUploadBinary
  <2>5. CASE KeepCheckout(a)
    BY <2>5 DEF KeepCheckout, Grant, Grantable, Goto
  <2>6. CASE Crash(a)
    BY <2>6 DEF Crash, Idle, Goto
  <2> HIDE DEF TypeOK, Ids, None, Clients, itemVars, grantVars, bridgeVars, FreshInv, UseInv, WriterHoldsCheckout, SoleUser, User
  <2> QED
    BY <1>2, <2>1, <2>2, <2>3, <2>4, <2>5, <2>6 DEF OtherStep
<1>3. ASSUME NEW g \in Guis, GuiStep(g) PROVE WriterHoldsCheckout'
  <2>1. CASE \E t \in Types : GuiCheckout(g, t)
    BY <2>1 DEF GuiCheckout, Grant, Grantable
  <2>2. CASE \E k \in Ids : GuiRelease(g, k)
    BY <2>2 DEF GuiRelease, EndCheckout
  <2> HIDE DEF TypeOK, Ids, None, Clients, itemVars, grantVars, bridgeVars, FreshInv, UseInv, WriterHoldsCheckout, SoleUser, User
  <2> QED
    BY <1>3, <2>1, <2>2 DEF GuiStep
<1>4. CASE UNCHANGED vars
  BY <1>4 DEF vars
<1> HIDE DEF TypeOK, Ids, None, Clients, itemVars, grantVars, bridgeVars, FreshInv, UseInv, WriterHoldsCheckout, SoleUser, User
<1> QED
  BY <1>1, <1>2, <1>3, <1>4 DEF Next

\* The invariant is inductive.
THEOREM Invariance == Spec => []IInv
<1>1. IInv /\ [Next]_vars => IInv'
  BY NextTypeOK, NextFresh, NextUse, NextSpares, NextLeaked, NextWriter DEF IInv
<1> QED
  BY InitIInv, <1>1, PTL DEF Spec

\* The variables keep their types.
THEOREM TypeCorrect == Spec => []TypeOK
<1>1. IInv => TypeOK
  BY DEF IInv
<1> QED
  BY Invariance, <1>1, PTL

\* opCheckin terminates no checkout of an interactive Ghidra client.
THEOREM InteractiveSpared == Spec => []CheckinSparesInteractive
<1>1. IInv => CheckinSparesInteractive
  BY DEF IInv
<1> QED
  BY Invariance, <1>1, PTL

\* opCheckin releases what it acquired on every path that no lost call cuts.
THEOREM NoLeak == Spec => []NothingLeaked
<1>1. IInv => NothingLeaked
  BY DEF IInv
<1> QED
  BY Invariance, <1>1, PTL

\* A check-in of a user nobody else is connected as writes under a checkout
\* that is still on record.
THEOREM WriterHolds == Spec => []WriterHoldsCheckout
<1>1. IInv => WriterHoldsCheckout
  BY DEF IInv
<1> QED
  BY Invariance, <1>1, PTL
=============================================================================
