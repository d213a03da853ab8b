-------------------------- MODULE CheckinFlowProofs --------------------------
(***************************************************************************)
(* What holds of the sidebar's checkouts and check-ins for every set of    *)
(* items and views and any number of worker jobs.                          *)
(***************************************************************************)
EXTENDS CheckinFlow, TLAPS

\* What a worker of a kind was started with: importItem() and doCheckin()
\* need a view and an item, "Terminate Checkout" an item.
Proper(j) ==
  /\ j.kind \in {"import", "restore"} => j.view # None /\ j.item # None
  /\ j.kind = "terminate" => j.item # None

TypeInv == TypeOK /\ \A j \in jobs : Proper(j)

\* A check-in that is between its look at the item and its request.
Reading(j) == j.step \in {"checked", "built"}

Settled == \A k \in jobs : ~Writing(k)

BaseOf(j) == [item |-> j.item, view |-> j.view]

\* What a worker that is alone in the state has written so far.
Written(j) ==
  LET base == IF j.kind \in {"import", "restore"} THEN BaseOf(j) ELSE NoBase IN
    /\ j.step \in {"rest", "item"} => keys = base
    /\ j.step = "item" => rest = base

ReadsWell(j) ==
  /\ Settled /\ ~mixed /\ stItem # None
  /\ j.step = "built" => j.base = rest

CollectsWell(c) == Settled /\ ~mixed /\ c.item = stItem /\ c.keys = keys

\* Who calls itself clean is alone: a writer with what it has written, a
\* reader with a state nobody is writing.  Until the first baseline is
\* complete there is no item.
StateInv ==
  /\ \A j, k \in jobs : Writing(j) /\ j.clean /\ Writing(k) => k = j
  /\ \A j \in jobs : Writing(j) /\ j.clean => Written(j)
  /\ ~mixed /\ ~Settled /\ (\A j \in jobs : Writing(j) => ~j.over) => stItem = None
  /\ ~mixed /\ Settled => keys = rest /\ keys.item = stItem
  /\ \A j \in jobs : Reading(j) /\ j.clean => ReadsWell(j)
  /\ \A c \in collecting : c.clean /\ c.item # None => CollectsWell(c)

FlowInv == TypeInv /\ StateInv /\ ReviewIsWhole /\ RequestIsWhole

-----------------------------------------------------------------------------
(* Types *)

\* The types of what the user and the callbacks change, apart from the jobs.
PanelTypes ==
  /\ view \in Views \cup {None} /\ linked \in ItemOrNone /\ checkedOut \in BOOLEAN
  /\ link \in [Views -> ItemOrNone] /\ mark \in [Views -> BOOLEAN]

JobTypes == jobs \in SUBSET Job /\ started \in 0..MaxJobs /\ \A j \in jobs : Proper(j)

ReviewTypes == collecting \in SUBSET Collecting /\ reviews \in Seq(Review)

StateTypes == keys \in Maps /\ rest \in Maps /\ stItem \in ItemOrNone /\ mixed \in BOOLEAN

RestTypes == queue \in Seq(Job) /\ sent \in Request /\ released \in SUBSET Items

LEMMA TypeParts == TypeInv <=> PanelTypes /\ JobTypes /\ ReviewTypes /\ StateTypes /\ RestTypes
BY Zenon DEF TypeInv, TypeOK, PanelTypes, JobTypes, ReviewTypes, StateTypes, RestTypes

LEMMA TypePartsNext == PanelTypes' /\ JobTypes' /\ ReviewTypes' /\ StateTypes' /\ RestTypes' => TypeInv'
BY Zenon DEF TypeInv, TypeOK, PanelTypes, JobTypes, ReviewTypes, StateTypes, RestTypes

\* Starting a proper worker.
LEMMA EnqueueKeeps ==
  ASSUME JobTypes, NEW kind \in Kinds, NEW v \in Views \cup {None}, NEW i \in ItemOrNone,
         NEW r \in ItemOrNone, Enqueue(kind, v, i, r),
         kind \in {"import", "restore"} => v # None /\ i # None,
         kind = "terminate" => i # None
  PROVE  JobTypes'
<1> DEFINE job == [n |-> started + 1, kind |-> kind, view |-> v, item |-> i, reviewed |-> r,
                   base |-> NoBase, step |-> "run", over |-> FALSE, clean |-> FALSE]
<1>1. started' = started + 1 /\ started \in 0..MaxJobs /\ started' \in 0..MaxJobs
  BY ConstantsAssumption DEF Enqueue, JobTypes
<1>2. started + 1 \in Nat /\ NoBase \in Maps /\ "run" \in Steps
  BY <1>1, ConstantsAssumption DEF Maps, Steps
<1>3. job \in Job
  BY <1>2, Zenon DEF Job
<1>4. Proper(job)
  BY DEF Proper
<1>5. jobs' = jobs \cup {job}
  BY DEF Enqueue
<1> HIDE DEF job
<1> QED
  BY <1>1, <1>3, <1>4, <1>5, Zenon DEF JobTypes

\* A worker that is replaced by what it becomes.
LEMMA BecomesKeeps ==
  ASSUME JobTypes, NEW j, NEW k \in Job, Proper(k), Becomes(j, k), started' = started
  PROVE  JobTypes'
BY Zenon DEF JobTypes, Becomes

LEMMA EndKeeps ==
  ASSUME JobTypes, NEW j, jobs' = jobs \ {j}, started' = started
  PROVE  JobTypes'
BY Zenon DEF JobTypes

-----------------------------------------------------------------------------
(* The check-in state *)

\* Steps that leave the state as it is and begin no writing.
LEMMA QuietKeeps ==
  ASSUME StateInv, UNCHANGED state,
         \A k \in jobs' : k \in jobs \/ (~Writing(k) /\ (Reading(k) /\ k.clean => ReadsWell(k))),
         \A k \in jobs : Writing(k) => k \in jobs',
         \A c \in collecting' : c \in collecting \/ (c.clean /\ c.item # None => CollectsWell(c))
  PROVE  StateInv'
<1>1. UNCHANGED <<keys, rest, stItem, mixed>>
  BY DEF state
<1>2. Settled' <=> Settled
  BY Zenon DEF Settled
<1>3. \A k : (Written(k) => Written(k)') /\ (ReadsWell(k) => ReadsWell(k)')
             /\ (CollectsWell(k) => CollectsWell(k)')
  BY <1>1, <1>2, Zenon DEF Written, ReadsWell, CollectsWell
<1>4. \A j, k \in jobs' : Writing(j) /\ j.clean /\ Writing(k) => k = j
  BY Zenon DEF StateInv
<1>5. \A j \in jobs' : Writing(j) /\ j.clean => Written(j)'
  BY <1>3, Zenon DEF StateInv
<1>6. ~mixed' /\ ~Settled' /\ (\A j \in jobs' : Writing(j) => ~j.over) => stItem' = None
  BY <1>1, <1>2, Zenon DEF StateInv
<1>7. ~mixed' /\ Settled' => keys' = rest' /\ keys'.item = stItem'
  BY <1>1, <1>2, Zenon DEF StateInv
<1>8. \A j \in jobs' : Reading(j) /\ j.clean => ReadsWell(j)'
  BY <1>3, Zenon DEF StateInv
<1>9. \A c \in collecting' : c.clean /\ c.item # None => CollectsWell(c)'
  BY <1>3, Zenon DEF StateInv
<1> QED
  BY <1>4, <1>5, <1>6, <1>7, <1>8, <1>9, Zenon DEF StateInv

\* A worker's first part: everyone else is told, and it is clean only if
\* there is no other writer.
LEMMA BeginKeeps ==
  ASSUME JobTypes, ReviewTypes, NEW j \in jobs, ~Writing(j), NEW s \in {"rest", "advance"},
         BeginsWriting(j, s), started' = started, reviews' = reviews, stItem' = stItem,
         s = "rest" => keys' = IF j.kind \in {"import", "restore"} THEN BaseOf(j) ELSE NoBase
  PROVE  JobTypes' /\ ReviewTypes' /\ StateInv'
<1>0. PICK new : new = [j EXCEPT !.step = s, !.over = stItem # None, !.clean = Writers = {}]
  BY Zenon
<1> DEFINE dim(k) == [k EXCEPT !.clean = FALSE]
<1>1. /\ jobs' = {dim(k) : k \in jobs \ {j}} \cup {new}
      /\ collecting' = {[c EXCEPT !.clean = FALSE] : c \in collecting} /\ mixed' = mixed
  BY <1>0, Zenon DEF BeginsWriting
<1>2. s \in Steps /\ Writing(new) /\ ~Reading(new)
      /\ new \in Job /\ Proper(new) /\ new.kind = j.kind /\ new.item = j.item /\ new.view = j.view
      /\ new.step = s /\ new.over = (stItem # None) /\ new.clean = (Writers = {})
  <2>1. s \in Steps /\ j \in Job /\ Proper(j)
    BY DEF Steps, JobTypes
  <2>2. PICK o \in BOOLEAN, c \in BOOLEAN : o = (stItem # None) /\ c = (Writers = {})
    BY Zenon
  <2>a. new = [j EXCEPT !.step = s, !.over = o, !.clean = c]
    BY <1>0, <2>2, Zenon
  <2>b. /\ new \in Job /\ Proper(new) /\ new.kind = j.kind /\ new.item = j.item /\ new.view = j.view
        /\ new.step = s /\ new.over = o /\ new.clean = c
    BY <2>1, <2>a, Zenon DEF Job, Proper
  <2>3. /\ new \in Job /\ Proper(new) /\ new.kind = j.kind /\ new.item = j.item /\ new.view = j.view
        /\ new.step = s /\ new.over = (stItem # None) /\ new.clean = (Writers = {})
    BY <2>2, <2>b, Zenon
  <2>4. new.step = "rest" \/ new.step = "advance"
    BY <2>3, Zenon
  <2> QED
    BY <2>1, <2>3, <2>4, Zenon DEF Writing, Reading
<1>3. \A k \in jobs : /\ dim(k) \in Job /\ Proper(dim(k)) /\ dim(k).step = k.step
                      /\ dim(k).over = k.over /\ ~dim(k).clean
  <2> SUFFICES ASSUME NEW k \in jobs
               PROVE  /\ dim(k) \in Job /\ Proper(dim(k)) /\ dim(k).step = k.step
                      /\ dim(k).over = k.over /\ ~dim(k).clean
    BY Zenon
  <2>1. k \in Job /\ Proper(k)
    BY Zenon DEF JobTypes
  <2> QED
    BY <2>1, Zenon DEF Job, Proper
<1>4. \A c \in collecting' : c \in Collecting /\ ~c.clean
  BY <1>1, Zenon DEF ReviewTypes, Collecting
<1> HIDE DEF dim
<1>5. JobTypes' /\ ReviewTypes'
  BY <1>1, <1>2, <1>3, <1>4, Zenon DEF JobTypes, ReviewTypes
<1>6. \A m \in jobs' : m = new \/ (~m.clean /\ (Writing(m) => \E k \in jobs : Writing(k)))
  BY <1>1, <1>3, Zenon DEF Writing
<1>7. new \in jobs' /\ (new.clean => \A k \in jobs : ~Writing(k))
  BY <1>1, <1>2, Zenon DEF Writers
<1>8. ~Settled'
  BY <1>2, <1>7, Zenon DEF Settled
<1>9. \A m, k \in jobs' : Writing(m) /\ m.clean /\ Writing(k) => k = m
  BY <1>6, <1>7, Zenon
<1>10. \A m \in jobs' : Writing(m) /\ m.clean => Written(m)'
  <2>1. Written(new)'
    <3>1. CASE s = "rest"
      <4>1. BaseOf(new) = BaseOf(j)
        BY <1>2, Zenon DEF BaseOf
      <4>2. new.step # "item"
        BY <1>2, <3>1, Zenon
      <4> QED
        BY <1>2, <3>1, <4>1, <4>2, Zenon DEF Written
    <3>2. CASE s = "advance"
      BY <1>2, <3>2, Zenon DEF Written
    <3> QED
      BY <3>1, <3>2, Zenon
  <2> QED
    BY <1>6, <2>1, Zenon
<1>11. (\A m \in jobs' : Writing(m) => ~m.over) => stItem' = None
  BY <1>2, <1>7, Zenon
<1>12. \A m \in jobs' : ~(Reading(m) /\ m.clean)
  BY <1>2, <1>6, ZenonT(60)
<1>13. \A c \in collecting' : ~(c.clean /\ c.item # None)
  BY <1>4, Zenon
<1> QED
  BY <1>5, <1>8, <1>9, <1>10, <1>11, <1>12, <1>13, ZenonT(60) DEF StateInv

\* A worker's next part.
LEMMA GoOnKeeps ==
  ASSUME StateInv, JobTypes, NEW j \in jobs, Writing(j), NEW s \in {"clear", "rest", "item"},
         GoesOnWriting(j, s), started' = started, stItem' = stItem,
         NEW k, k = [j EXCEPT !.step = s], j.clean /\ Written(j) => Written(k)'
  PROVE  JobTypes' /\ StateInv'
<1>1. jobs' = (jobs \ {j}) \cup {k} /\ UNCHANGED <<collecting, mixed>>
  BY Zenon DEF GoesOnWriting, Becomes
<1>2. /\ k \in Job /\ Proper(k) /\ k.clean = j.clean /\ k.over = j.over /\ k.step = s
      /\ Writing(k) /\ ~Reading(k)
  <2>1. s \in Steps /\ j \in Job /\ Proper(j)
    BY DEF Steps, JobTypes
  <2>2. k \in Job /\ Proper(k) /\ k.clean = j.clean /\ k.over = j.over /\ k.step = s
    BY <2>1, Zenon DEF Job, Proper
  <2>3. k.step = "clear" \/ k.step = "rest" \/ k.step = "item"
    BY <2>2, Zenon
  <2> QED
    BY <2>2, <2>3, Zenon DEF Writing, Reading
<1>3. JobTypes'
  BY <1>1, <1>2, Zenon DEF JobTypes
<1>4. ~Settled' /\ ~Settled
  BY <1>1, <1>2, Zenon DEF Settled
<1>5. \A m, l \in jobs' : Writing(m) /\ m.clean /\ Writing(l) => l = m
  BY <1>1, <1>2, Zenon DEF StateInv
<1>6. \A m \in jobs' : Writing(m) /\ m.clean => Written(m)'
  BY <1>1, <1>2, Zenon DEF StateInv
<1>7. ~mixed' /\ (\A m \in jobs' : Writing(m) => ~m.over) => stItem' = None
  BY <1>1, <1>2, <1>4, Zenon DEF StateInv
<1>8. \A m \in jobs' : ~(Reading(m) /\ m.clean)
  BY <1>1, <1>2, <1>4, Zenon DEF StateInv, ReadsWell
<1>9. \A c \in collecting' : ~(c.clean /\ c.item # None)
  BY <1>1, <1>4, Zenon DEF StateInv, CollectsWell
<1> QED
  BY <1>3, <1>4, <1>5, <1>6, <1>7, <1>8, <1>9, Zenon DEF StateInv

\* A worker's last part: what it leaves is one baseline, or it says otherwise.
LEMMA EndsKeep ==
  ASSUME StateInv, JobTypes, NEW j \in jobs, Writing(j), NEW s \in {"file", "ok"},
         EndsWriting(j, s), started' = started,
         j.clean /\ Written(j) => keys' = rest' /\ keys'.item = stItem'
  PROVE  JobTypes' /\ StateInv'
<1> DEFINE k == [j EXCEPT !.step = s, !.over = FALSE, !.clean = FALSE]
<1>1. jobs' = (jobs \ {j}) \cup {k} /\ mixed' = ~j.clean /\ UNCHANGED collecting
  BY Zenon DEF EndsWriting, Becomes
<1>2. k \in Job /\ Proper(k) /\ ~k.clean /\ ~Writing(k)
  <2>1. s \in Steps /\ j \in Job /\ Proper(j)
    BY DEF Steps, JobTypes
  <2>2. k \in Job /\ Proper(k) /\ k.clean = FALSE /\ k.step = s
    BY <2>1, Zenon DEF Job, Proper
  <2>3. k.step = "file" \/ k.step = "ok"
    BY <2>2, Zenon
  <2> QED
    BY <2>2, <2>3, Zenon DEF Writing
<1> HIDE DEF k
<1>3. JobTypes'
  BY <1>1, <1>2, Zenon DEF JobTypes
<1>4. ~Settled
  BY Zenon DEF Settled
<1>5. \A m \in jobs' : ~(Writing(m) /\ m.clean)
  BY <1>1, <1>2, Zenon DEF StateInv
<1>6. ~mixed' => Settled' /\ keys' = rest' /\ keys'.item = stItem'
  BY <1>1, <1>2, Zenon DEF StateInv, Settled
<1>7. \A m \in jobs' : ~(Reading(m) /\ m.clean)
  BY <1>1, <1>2, <1>4, Zenon DEF StateInv, ReadsWell
<1>8. \A c \in collecting' : ~(c.clean /\ c.item # None)
  BY <1>1, <1>4, Zenon DEF StateInv, CollectsWell
<1> QED
  BY <1>3, <1>5, <1>6, <1>7, <1>8, Zenon DEF StateInv

\* The workers there were are still there, and a new one is at its start or
\* done.
QuietJobs ==
  /\ \A k \in jobs' : k \in jobs \/ (~Writing(k) /\ ~Reading(k))
  /\ jobs \subseteq jobs'

\* Starting a worker is quiet.
LEMMA EnqueueQuiet ==
  ASSUME NEW kind, NEW v, NEW i, NEW r, Enqueue(kind, v, i, r)
  PROVE  QuietJobs
<1>0. PICK k : k = [n |-> started + 1, kind |-> kind, view |-> v, item |-> i, reviewed |-> r,
                    base |-> NoBase, step |-> "run", over |-> FALSE, clean |-> FALSE]
  BY Zenon
<1>1. jobs' = jobs \cup {k} /\ k.step = "run"
  BY <1>0, Zenon DEF Enqueue
<1>2. ~Writing(k) /\ ~Reading(k)
  BY <1>1 DEF Writing, Reading
<1> QED
  BY <1>1, <1>2, Zenon DEF QuietJobs

\* doCheckinWithState() reads the item and the keys of a state that is whole,
\* or says that it is not.
LEMMA CollectStarts ==
  ASSUME TypeInv, StateInv, DoCheckinWithState
  PROVE  /\ collecting' \in SUBSET Collecting
         /\ \A c \in collecting' : c.clean /\ c.item # None => CollectsWell(c)
<1>1. PICK c : c = [view |-> view, item |-> stItem, keys |-> keys, clean |-> Undisturbed]
  BY Zenon
<1>2. collecting' = {c} /\ c.item = stItem /\ c.keys = keys /\ c.clean = Undisturbed
  BY <1>1, Zenon DEF DoCheckinWithState
<1>3. view \in Views /\ stItem \in ItemOrNone /\ keys \in Maps /\ Undisturbed \in BOOLEAN
  BY Zenon DEF TypeInv, TypeOK, Undisturbed, DoCheckinWithState
<1>4. c \in Collecting
  BY <1>1, <1>3, Zenon DEF Collecting
<1>5. Undisturbed /\ stItem # None => Settled /\ ~mixed
  BY Zenon DEF StateInv, Undisturbed, Writers
<1> QED
  BY <1>2, <1>4, <1>5, Zenon DEF CollectsWell

-----------------------------------------------------------------------------
(* What the user does *)

LEMMA PopKeeps ==
  ASSUME ReviewTypes, ReviewIsWhole, reviews # <<>>, Pop
  PROVE  reviews' \in Seq(Review) /\ ReviewIsWhole' /\ Top \in Review
<1>1. reviews \in Seq(Review) /\ Len(reviews) \in Nat \ {0}
  BY DEF ReviewTypes
<1>2. /\ reviews' \in Seq(Review) /\ Len(reviews') = Len(reviews) - 1
      /\ \A k \in 1..Len(reviews') : reviews'[k] = reviews[k]
  <2> DEFINE m == Len(reviews) - 1
  <2>1. m \in Nat /\ m <= Len(reviews) /\ reviews' = SubSeq(reviews, 1, m)
    BY <1>1 DEF Pop
  <2>2. \A k \in 1..m : reviews[k] \in Review
    BY <1>1, <2>1
  <2> HIDE DEF m
  <2>3. Len(SubSeq(reviews, 1, m)) = m
    BY <1>1, <2>1
  <2>4. \A k \in 1..m : SubSeq(reviews, 1, m)[k] = reviews[k]
    BY <1>1, <2>1
  <2>5. SubSeq(reviews, 1, m) \in Seq(Review)
    BY <1>1, <2>1, <2>2
  <2> QED
    BY <2>1, <2>3, <2>4, <2>5 DEF m
<1>3. \A k \in 1..Len(reviews') : k \in 1..Len(reviews)
  BY <1>1, <1>2
<1>4. ReviewIsWhole'
  BY <1>2, <1>3, Zenon DEF ReviewIsWhole
<1> QED
  BY <1>1, <1>2, <1>4 DEF Top

\* The review that is opened holds one baseline if it was collected undisturbed.
LEMMA CollectKeeps ==
  ASSUME FlowInv, NEW c \in collecting, Collect(c)
  PROVE  FlowInv'
<1>0. PanelTypes /\ JobTypes /\ ReviewTypes /\ StateTypes /\ RestTypes /\ StateInv
  BY TypeParts, Zenon DEF FlowInv
<1>1. /\ collecting' = {}
      /\ \/ /\ Collects(c) /\ UNCHANGED <<jobs, started>>
            /\ reviews' = Append(reviews, [view |-> c.view, item |-> c.item, keys |-> c.keys,
                                           rest |-> rest, clean |-> c.clean])
         \/ /\ stItem # None /\ UNCHANGED reviews
            /\ Enqueue("terminate", None, stItem, None)
         \/ UNCHANGED <<reviews, jobs, started>>
      /\ UNCHANGED <<ui, state, files, queue, sent, released>>
  BY Zenon DEF Collect
<1>2. PanelTypes' /\ StateTypes' /\ RestTypes' /\ RequestIsWhole'
  BY <1>0, <1>1 DEF PanelTypes, StateTypes, RestTypes, ui, state, files, FlowInv, RequestIsWhole
<1>3. JobTypes' /\ StateInv'
  <2>1. CASE UNCHANGED <<jobs, started>>
    <3>1. StateInv'
      BY <1>0, <1>1, <2>1, QuietKeeps, Zenon
    <3> QED
      BY <1>0, <2>1, <3>1, Zenon DEF JobTypes
  <2>2. CASE stItem # None /\ Enqueue("terminate", None, stItem, None)
    <3>1. stItem \in ItemOrNone /\ None \in ItemOrNone /\ "terminate" \in Kinds
      BY <1>0 DEF StateTypes, ItemOrNone, Kinds
    <3>2. JobTypes'
      BY <1>0, <2>2, <3>1, EnqueueKeeps, Zenon
    <3>3. StateInv'
      BY <1>0, <1>1, <2>2, EnqueueQuiet, QuietKeeps, Zenon DEF QuietJobs
    <3> QED
      BY <3>2, <3>3
  <2> QED
    BY <1>1, <2>1, <2>2, Zenon
<1>4. ReviewTypes' /\ ReviewIsWhole'
  <2>1. CASE UNCHANGED reviews
    BY <1>0, <1>1, <2>1, Zenon DEF ReviewTypes, ReviewIsWhole, FlowInv
  <2>2. CASE /\ Collects(c)
             /\ reviews' = Append(reviews, [view |-> c.view, item |-> c.item, keys |-> c.keys,
                                            rest |-> rest, clean |-> c.clean])
    <3>1. PICK r : r = [view |-> c.view, item |-> c.item, keys |-> c.keys, rest |-> rest, clean |-> c.clean]
      BY Zenon
    <3>2. c \in Collecting /\ c.item # None /\ rest \in Maps
      BY <1>0, <2>2, Zenon DEF ReviewTypes, Collects, StateTypes
    <3>3. c.view \in Views /\ c.item \in Items /\ c.keys \in Maps /\ c.clean \in BOOLEAN
      BY <3>2, Zenon DEF Collecting, ItemOrNone
    <3>4. /\ r \in Review /\ r.item = c.item /\ r.keys = c.keys /\ r.rest = rest /\ r.clean = c.clean
          /\ reviews' = Append(reviews, r)
      BY <2>2, <3>1, <3>2, <3>3, Zenon DEF Review
    <3>5. c.clean => r.keys = r.rest /\ r.keys.item = r.item
      BY <1>0, <3>2, <3>4, Zenon DEF StateInv, CollectsWell
    <3>6. reviews \in Seq(Review)
      BY <1>0, Zenon DEF ReviewTypes
    <3>7. reviews' \in Seq(Review) /\ Len(reviews') = Len(reviews) + 1 /\ Len(reviews) \in Nat
      BY <3>4, <3>6
    <3>8. \A k \in 1..Len(reviews') : IF k = Len(reviews) + 1 THEN reviews'[k] = r
                                       ELSE k \in 1..Len(reviews) /\ reviews'[k] = reviews[k]
      BY <3>4, <3>6, <3>7
    <3>9. ReviewIsWhole'
      BY <3>4, <3>5, <3>8, Zenon DEF ReviewIsWhole, FlowInv
    <3> QED
      BY <1>1, <3>7, <3>9, Zenon DEF ReviewTypes
  <2> QED
    BY <1>1, <2>1, <2>2, Zenon
<1> QED
  BY <1>2, <1>3, <1>4, TypePartsNext, Zenon DEF FlowInv

\* What the user does, apart from waiting for the collection.
UserStep ==
  \/ \E v \in Views \cup {None} : NotifyViewChanged(v)
  \/ \E i \in Items : ImportItem(i) \/ TerminateCheckout(i) \/ DoCheckin(i)
  \/ \E v \in Views, i \in Items : UploadToGhidra(v, i)
  \/ Confirm \/ Cancel

LEMMA UserKeeps == ASSUME FlowInv, UserStep PROVE FlowInv'
<1>0. /\ PanelTypes /\ JobTypes /\ ReviewTypes /\ StateTypes /\ RestTypes
      /\ TypeInv /\ StateInv /\ ReviewIsWhole /\ RequestIsWhole
  BY TypeParts, Zenon DEF FlowInv
<1>1. UNCHANGED <<state, queue, sent, released>>
  BY DEF UserStep, NotifyViewChanged, ImportItem, TerminateCheckout, DoCheckin, UploadToGhidra,
         Confirm, Cancel
<1>2. StateTypes' /\ RestTypes' /\ RequestIsWhole'
  BY <1>0, <1>1 DEF StateTypes, RestTypes, state, RequestIsWhole
<1>3. UNCHANGED <<ui, files>> => PanelTypes'
  BY <1>0 DEF PanelTypes, ui, files
<1>4. UNCHANGED reviews => ReviewIsWhole' /\ reviews' \in Seq(Review)
  BY <1>0, Zenon DEF ReviewTypes, ReviewIsWhole
<1>5. UNCHANGED <<jobs, started>> => JobTypes' /\ QuietJobs
  BY <1>0, Zenon DEF JobTypes, QuietJobs
<1>6. UNCHANGED collecting => collecting' \in SUBSET Collecting /\ (\A c \in collecting' : c \in collecting)
  BY <1>0, Zenon DEF ReviewTypes
<1>7. SUFFICES
        /\ PanelTypes' /\ JobTypes' /\ ReviewIsWhole' /\ reviews' \in Seq(Review)
        /\ QuietJobs /\ collecting' \in SUBSET Collecting
        /\ \A c \in collecting' : c \in collecting \/ (c.clean /\ c.item # None => CollectsWell(c))
  <2>1. StateInv'
    BY <1>0, <1>1, <1>7, QuietKeeps, Zenon DEF QuietJobs
  <2>2. ReviewTypes'
    BY <1>7, Zenon DEF ReviewTypes
  <2> QED
    BY <1>2, <1>7, <2>1, <2>2, TypePartsNext, Zenon DEF FlowInv
<1>8. None \in ItemOrNone /\ Items \subseteq ItemOrNone /\ Kinds = {"import", "restore", "checkin", "terminate", "upload"}
  BY Zenon DEF ItemOrNone, Kinds
<1>9. ASSUME NEW v \in Views \cup {None}, NotifyViewChanged(v)
      PROVE  PanelTypes' /\ UNCHANGED <<jobs, started>> /\ UNCHANGED reviews /\ UNCHANGED collecting
  <2>1. UNCHANGED <<files, reviews, jobs, started, collecting>>
    BY <1>9 DEF NotifyViewChanged
  <2>2. linked' \in ItemOrNone /\ view' \in Views \cup {None}
    BY <1>0, <1>8, <1>9 DEF NotifyViewChanged, PanelTypes
  <2>3. checkedOut' \in BOOLEAN
    BY <1>0, <1>9, ConstantsAssumption DEF NotifyViewChanged, PanelTypes
  <2> QED
    BY <1>0, <2>1, <2>2, <2>3 DEF PanelTypes, files
<1>10. ASSUME NEW i \in Items, ImportItem(i)
       PROVE  /\ JobTypes' /\ QuietJobs
              /\ UNCHANGED <<ui, files>> /\ UNCHANGED reviews /\ UNCHANGED collecting
  <2>1. /\ view \in Views \cup {None} /\ view # None /\ Enqueue("import", view, i, None)
        /\ UNCHANGED <<ui, files>> /\ UNCHANGED reviews /\ UNCHANGED collecting
    BY <1>0, <1>10 DEF ImportItem, PanelTypes
  <2>2. i # None /\ i \in ItemOrNone
    BY <1>8, NoneAssumption, Zenon
  <2>3. JobTypes'
    BY <1>0, <1>8, <2>1, <2>2, EnqueueKeeps, Zenon
  <2> QED
    BY <2>1, <2>3, EnqueueQuiet, Zenon
<1>11. ASSUME NEW i \in Items, TerminateCheckout(i)
       PROVE  /\ JobTypes' /\ QuietJobs
              /\ UNCHANGED <<ui, files>> /\ UNCHANGED reviews /\ UNCHANGED collecting
  <2>1. /\ Enqueue("terminate", None, i, None)
        /\ UNCHANGED <<ui, files>> /\ UNCHANGED reviews /\ UNCHANGED collecting
    BY <1>11 DEF TerminateCheckout
  <2>2. i # None /\ i \in ItemOrNone
    BY <1>8, NoneAssumption, Zenon
  <2>3. JobTypes'
    BY <1>0, <1>8, <2>1, <2>2, EnqueueKeeps, Zenon
  <2> QED
    BY <2>1, <2>3, EnqueueQuiet, Zenon
<1>12. ASSUME NEW v \in Views, NEW i \in Items, UploadToGhidra(v, i)
       PROVE  /\ JobTypes' /\ QuietJobs
              /\ UNCHANGED <<ui, files>> /\ UNCHANGED reviews /\ UNCHANGED collecting
  <2>1. /\ Enqueue("upload", v, i, None)
        /\ UNCHANGED <<ui, files>> /\ UNCHANGED reviews /\ UNCHANGED collecting
    BY <1>12 DEF UploadToGhidra
  <2>2. i \in ItemOrNone
    BY <1>8, Zenon
  <2>3. JobTypes'
    BY <1>0, <1>8, <2>1, <2>2, EnqueueKeeps, Zenon
  <2> QED
    BY <2>1, <2>3, EnqueueQuiet, Zenon
<1>13. ASSUME NEW i \in Items, DoCheckin(i)
       PROVE  /\ JobTypes' /\ QuietJobs
              /\ UNCHANGED <<ui, files>> /\ UNCHANGED reviews
              /\ collecting' \in SUBSET Collecting
              /\ \A c \in collecting' : c \in collecting \/ (c.clean /\ c.item # None => CollectsWell(c))
  <2>0. UNCHANGED <<ui, files>> /\ UNCHANGED reviews /\ view # None
    BY <1>13 DEF DoCheckin
  <2>1. CASE stItem = None
    <3>1. view \in Views \cup {None} /\ UNCHANGED collecting /\ Enqueue("restore", view, linked, None)
      BY <1>0, <1>13, <2>1, Zenon DEF DoCheckin, PanelTypes
    <3>2. linked \in ItemOrNone /\ linked # None
      BY <1>0, <1>13, <2>1, NoneAssumption, Zenon DEF DoCheckin, EffectivelyCheckedOut, PanelTypes
    <3>3. JobTypes'
      BY <1>0, <1>8, <2>0, <3>1, <3>2, EnqueueKeeps, Zenon
    <3> QED
      BY <1>6, <2>0, <3>1, <3>3, EnqueueQuiet, Zenon
  <2>2. CASE stItem # None
    <3>1. DoCheckinWithState /\ UNCHANGED <<jobs, started>>
      BY <1>13, <2>2, Zenon DEF DoCheckin
    <3> QED
      BY <1>0, <1>5, <2>0, <3>1, CollectStarts, Zenon
  <2> QED
    BY <2>1, <2>2, Zenon
<1>14. CASE Confirm
  <2>1. /\ reviews # <<>> /\ Pop /\ Enqueue("checkin", view, stItem, Top.item)
        /\ UNCHANGED <<ui, files>> /\ UNCHANGED collecting
    BY <1>14 DEF Confirm
  <2>2. reviews' \in Seq(Review) /\ ReviewIsWhole' /\ Top \in Review
    BY <1>0, <2>1, PopKeeps, Zenon
  <2>3. view \in Views \cup {None} /\ stItem \in ItemOrNone /\ Top.item \in ItemOrNone
    BY <1>0, <1>8, <2>2, Zenon DEF PanelTypes, StateTypes, Review
  <2>4. JobTypes'
    BY <1>0, <1>8, <2>1, <2>3, EnqueueKeeps, Zenon
  <2> QED
    BY <1>3, <1>6, <2>1, <2>2, <2>4, EnqueueQuiet, Zenon
<1>15. CASE Cancel
  <2>1. reviews # <<>> /\ Pop /\ UNCHANGED <<ui, files>> /\ UNCHANGED collecting /\ UNCHANGED <<jobs, started>>
    BY <1>15 DEF Cancel
  <2>2. reviews' \in Seq(Review) /\ ReviewIsWhole'
    BY <1>0, <2>1, PopKeeps, Zenon
  <2> QED
    BY <1>3, <1>5, <1>6, <2>1, <2>2, Zenon
<1> QED
  BY <1>3, <1>4, <1>5, <1>6, <1>9, <1>10, <1>11, <1>12, <1>13, <1>14, <1>15, Zenon DEF UserStep

-----------------------------------------------------------------------------
(* What the workers do *)

\* importItem() and doCheckin() store a baseline.
LEMMA StoresKeeps ==
  ASSUME JobTypes, ReviewTypes, StateTypes, RestTypes, StateInv, NEW j \in jobs, StoresState(j)
  PROVE  JobTypes' /\ ReviewTypes' /\ StateTypes' /\ RestTypes' /\ StateInv'
<1> DEFINE base == [item |-> j.item, view |-> j.view]
<1>1. /\ j.kind \in {"import", "restore"} /\ UNCHANGED <<started, reviews, queue, sent>>
      /\ \/ /\ j.step = "run" /\ StoreCheckinState("keys", base) /\ BeginsWriting(j, "rest")
            /\ released' = IF j.kind = "import" THEN released \ {j.item} ELSE released
         \/ /\ j.step = "rest" /\ StoreCheckinState("rest", base) /\ GoesOnWriting(j, "item")
            /\ UNCHANGED released
         \/ /\ j.step = "item" /\ StoreCheckinState("item", base)
            /\ EndsWriting(j, IF j.kind = "import" THEN "file" ELSE "ok")
            /\ UNCHANGED released
  BY Zenon DEF StoresState
<1>2. base = BaseOf(j)
  BY Zenon DEF BaseOf
<1> HIDE DEF base
<1>3. base \in Maps /\ base.item = j.item /\ j.item \in ItemOrNone
  <2>1. j \in Job /\ Proper(j)
    BY Zenon DEF JobTypes
  <2>2. j.item \in ItemOrNone /\ j.view \in Views \cup {None} /\ j.item # None /\ j.view # None
    BY <1>1, <2>1, Zenon DEF Job, Proper
  <2>3. base \in Base
    BY <2>2, Zenon DEF base, Base, ItemOrNone
  <2> QED
    BY <2>2, <2>3, Zenon DEF Maps, base
<1>4. RestTypes'
  BY <1>1, Zenon DEF RestTypes
<1>5. CASE j.step = "run" /\ StoreCheckinState("keys", base) /\ BeginsWriting(j, "rest")
  <2>1. ~Writing(j)
    BY <1>5, Zenon DEF Writing
  <2>2. keys' = base /\ rest' = rest /\ stItem' = stItem /\ mixed' = mixed
    BY <1>5, Zenon DEF StoreCheckinState, BeginsWriting
  <2>3. JobTypes' /\ ReviewTypes' /\ StateInv'
    BY <1>1, <1>2, <1>5, <2>1, <2>2, BeginKeeps, Zenon
  <2> QED
    BY <1>3, <1>4, <2>2, <2>3, Zenon DEF StateTypes
<1>6. CASE j.step = "rest" /\ StoreCheckinState("rest", base) /\ GoesOnWriting(j, "item")
  <2>1. Writing(j)
    BY <1>6, Zenon DEF Writing
  <2>2. /\ keys' = keys /\ rest' = base /\ stItem' = stItem /\ mixed' = mixed
        /\ UNCHANGED collecting
    BY <1>6 DEF StoreCheckinState, GoesOnWriting
  <2>3. PICK k : k = [j EXCEPT !.step = "item"]
    BY Zenon
  <2>4. k.kind = j.kind /\ BaseOf(k) = BaseOf(j)
    BY <2>3, Zenon DEF JobTypes, Job, BaseOf
  <2>5. Written(j) => Written(k)'
    BY <1>1, <1>2, <1>6, <2>2, <2>4, Zenon DEF Written
  <2>6. JobTypes' /\ StateInv'
    BY <1>1, <1>6, <2>1, <2>2, <2>3, <2>5, GoOnKeeps, Zenon
  <2> QED
    BY <1>1, <1>3, <1>4, <2>2, <2>6, Zenon DEF StateTypes, ReviewTypes
<1>7. CASE j.step = "item" /\ StoreCheckinState("item", base)
           /\ EndsWriting(j, IF j.kind = "import" THEN "file" ELSE "ok")
  <2>1. Writing(j)
    BY <1>7, Zenon DEF Writing
  <2>2. /\ keys' = keys /\ rest' = rest /\ stItem' = base.item /\ mixed' = ~j.clean
        /\ UNCHANGED collecting
    BY <1>7 DEF StoreCheckinState, EndsWriting
  <2>3. Written(j) => keys' = rest' /\ keys'.item = stItem'
    BY <1>1, <1>2, <1>7, <2>2, Zenon DEF Written
  <2>4. PICK s \in {"file", "ok"} : EndsWriting(j, s)
    BY <1>7, Zenon
  <2>5. JobTypes' /\ StateInv'
    BY <1>1, <2>1, <2>3, <2>4, EndsKeep, Zenon
  <2>6. mixed' \in BOOLEAN
    BY <2>2, Zenon
  <2> QED
    BY <1>1, <1>3, <1>4, <2>2, <2>5, <2>6, Zenon DEF StateTypes, ReviewTypes
<1> QED
  BY <1>1, <1>5, <1>6, <1>7, Zenon

\* A termination, and a check-in that was answered.
LEMMA ClearingKeeps ==
  ASSUME JobTypes, ReviewTypes, StateTypes, RestTypes, StateInv, NEW j \in jobs,
         TerminateRuns(j) \/ CheckinSucceeds(j) \/ ClearsState(j)
  PROVE  JobTypes' /\ ReviewTypes' /\ StateTypes' /\ RestTypes' /\ StateInv'
<1>1. j \in Job /\ Proper(j) /\ NoBase \in Maps /\ None \in ItemOrNone
  BY Zenon DEF JobTypes, Maps, ItemOrNone
<1>2. UNCHANGED <<started, reviews, queue, sent>>
  BY Zenon DEF TerminateRuns, CheckinSucceeds, ClearsState
<1>3. \A m \in Maps : Advanced(m, j.reviewed) \in Maps
  BY Zenon DEF Advanced, Maps
<1>4. CASE TerminateRuns(j)
  <2>1. j.kind = "terminate" /\ ~Writing(j) /\ BeginsWriting(j, "rest") /\ released' = released \cup {j.item}
    BY <1>4, Zenon DEF TerminateRuns, Writing
  <2>2. keys' = NoBase /\ rest' = rest /\ stItem' = stItem /\ mixed' = mixed
    BY <1>4, Zenon DEF TerminateRuns, ClearCheckinState, BeginsWriting
  <2>3. JobTypes' /\ ReviewTypes' /\ StateInv'
    BY <1>2, <2>1, <2>2, BeginKeeps, Zenon
  <2>4. j.item \in Items
    BY <1>1, <2>1, Zenon DEF Job, Proper, ItemOrNone
  <2>5. RestTypes'
    BY <1>2, <2>1, <2>4, Zenon DEF RestTypes
  <2> QED
    BY <1>1, <2>2, <2>3, <2>5, Zenon DEF StateTypes
<1>5. CASE j.kind = "checkin" /\ j.step = "sent" /\ CheckinSucceeds(j)
  <2>1. /\ ~Writing(j) /\ BeginsWriting(j, "advance") /\ released' = released \cup {j.item}
        /\ keys' = Advanced(keys, j.reviewed) /\ UNCHANGED <<rest, stItem>> /\ j.item # None
    BY <1>5, Zenon DEF CheckinSucceeds, Writing
  <2>2. JobTypes' /\ ReviewTypes' /\ StateInv'
    BY <1>2, <2>1, BeginKeeps, Zenon
  <2>3. j.item \in Items
    BY <1>1, <2>1, Zenon DEF Job, ItemOrNone
  <2>4. RestTypes'
    BY <1>2, <2>1, <2>3, Zenon DEF RestTypes
  <2>5. StateTypes'
    BY <1>3, <2>1, Zenon DEF StateTypes, BeginsWriting
  <2> QED
    BY <2>2, <2>4, <2>5
<1>6. CASE j.step = "advance" /\ CheckinSucceeds(j)
  <2>1. /\ Writing(j) /\ GoesOnWriting(j, "clear")
        /\ rest' = Advanced(rest, j.reviewed) /\ UNCHANGED <<keys, stItem, released>>
        /\ UNCHANGED <<collecting, mixed>>
    BY <1>6, Zenon DEF CheckinSucceeds, Writing, GoesOnWriting
  <2>2. PICK k : k = [j EXCEPT !.step = "clear"]
    BY Zenon
  <2>3. k.step = "clear"
    BY <1>1, <2>2, Zenon DEF Job
  <2>4. Written(k)'
    BY <2>3, Zenon DEF Written
  <2>5. JobTypes' /\ StateInv'
    BY <1>2, <2>1, <2>2, <2>4, GoOnKeeps, Zenon
  <2> QED
    BY <1>2, <1>3, <2>1, <2>5, Zenon DEF StateTypes, ReviewTypes, RestTypes
<1>7. CASE j.step = "clear" /\ CheckinSucceeds(j)
  <2>1. /\ Writing(j) /\ GoesOnWriting(j, "rest") /\ ClearCheckinState("keys") /\ UNCHANGED released
        /\ UNCHANGED <<collecting, mixed>> /\ j.kind = "checkin"
    BY <1>7, Zenon DEF CheckinSucceeds, Writing, GoesOnWriting
  <2>2. keys' = NoBase /\ rest' = rest /\ stItem' = stItem
    BY <2>1 DEF ClearCheckinState
  <2>3. PICK k : k = [j EXCEPT !.step = "rest"]
    BY Zenon
  <2>4. k.kind = "checkin" /\ k.step = "rest"
    BY <1>1, <2>1, <2>3, Zenon DEF Job
  <2>5. Written(k)'
    BY <2>2, <2>4, Zenon DEF Written
  <2>6. JobTypes' /\ StateInv'
    BY <1>2, <2>1, <2>2, <2>3, <2>5, GoOnKeeps, Zenon
  <2> QED
    BY <1>1, <1>2, <2>1, <2>2, <2>6, Zenon DEF StateTypes, ReviewTypes, RestTypes
<1>8. CASE j.step = "rest" /\ ClearsState(j)
  <2>1. /\ Writing(j) /\ GoesOnWriting(j, "item") /\ ClearCheckinState("rest") /\ UNCHANGED released
        /\ UNCHANGED <<collecting, mixed>> /\ j.kind \notin {"import", "restore"}
    BY <1>8, Zenon DEF ClearsState, Writing, GoesOnWriting
  <2>2. keys' = keys /\ rest' = NoBase /\ stItem' = stItem
    BY <2>1 DEF ClearCheckinState
  <2>3. PICK k : k = [j EXCEPT !.step = "item"]
    BY Zenon
  <2>4. k.kind = j.kind
    BY <1>1, <2>3, Zenon DEF Job
  <2>5. Written(j) => Written(k)'
    BY <1>8, <2>1, <2>2, <2>4, Zenon DEF Written
  <2>6. JobTypes' /\ StateInv'
    BY <1>2, <2>1, <2>2, <2>3, <2>5, GoOnKeeps, Zenon
  <2> QED
    BY <1>1, <1>2, <2>1, <2>2, <2>6, Zenon DEF StateTypes, ReviewTypes, RestTypes
<1>9. CASE j.step = "item" /\ ClearsState(j)
  <2>1. /\ Writing(j) /\ EndsWriting(j, "ok") /\ ClearCheckinState("item") /\ UNCHANGED released
        /\ UNCHANGED collecting /\ mixed' = ~j.clean /\ j.kind \notin {"import", "restore"}
    BY <1>9, Zenon DEF ClearsState, Writing, EndsWriting
  <2>2. keys' = keys /\ rest' = rest /\ stItem' = None
    BY <2>1 DEF ClearCheckinState
  <2>3. NoBase.item = None
    BY Zenon DEF NoBase
  <2>4. Written(j) => keys' = rest' /\ keys'.item = stItem'
    BY <1>9, <2>1, <2>2, <2>3, Zenon DEF Written
  <2>5. JobTypes' /\ StateInv'
    BY <1>2, <2>1, <2>4, EndsKeep, Zenon
  <2>6. mixed' \in BOOLEAN
    BY <2>1, Zenon
  <2> QED
    BY <1>1, <1>2, <2>1, <2>2, <2>5, <2>6, Zenon DEF StateTypes, ReviewTypes, RestTypes
<1> QED
  BY <1>4, <1>5, <1>6, <1>7, <1>8, <1>9, Zenon DEF CheckinSucceeds, ClearsState

WorkerStep(j) ==
  \/ WorkerFails(j) \/ StoresState(j) \/ ImportLinks(j) \/ UploadDone(j) \/ TerminateRuns(j)
  \/ CheckinChecks(j) \/ CheckinBuilds(j) \/ CheckinSends(j) \/ CheckinFails(j)
  \/ CheckinSucceeds(j) \/ ClearsState(j) \/ Posts(j)

LEMMA WorkerKeeps == ASSUME FlowInv, NEW j \in jobs, WorkerStep(j) PROVE FlowInv'
<1>0. /\ PanelTypes /\ JobTypes /\ ReviewTypes /\ StateTypes /\ RestTypes
      /\ StateInv /\ ReviewIsWhole /\ RequestIsWhole
  BY TypeParts, Zenon DEF FlowInv
<1>1. j \in Job /\ Proper(j)
  BY <1>0, Zenon DEF JobTypes
<1>2. UNCHANGED <<ui, reviews, started>>
  BY Zenon DEF WorkerStep, WorkerFails, StoresState, ImportLinks, UploadDone, TerminateRuns,
         CheckinChecks, CheckinBuilds, CheckinSends, CheckinFails, CheckinSucceeds, ClearsState, Posts
<1>3. ReviewIsWhole' /\ (UNCHANGED files => PanelTypes')
      /\ (UNCHANGED sent => RequestIsWhole')
  BY <1>0, <1>2 DEF ReviewIsWhole, PanelTypes, ui, files, RequestIsWhole
<1>4. CASE StoresState(j) \/ TerminateRuns(j) \/ CheckinSucceeds(j) \/ ClearsState(j)
  <2>1. UNCHANGED <<files, sent>>
    BY <1>4, Zenon DEF StoresState, TerminateRuns, CheckinSucceeds, ClearsState
  <2>2. JobTypes' /\ ReviewTypes' /\ StateTypes' /\ RestTypes' /\ StateInv'
    BY <1>0, <1>4, StoresKeeps, ClearingKeeps, Zenon
  <2> QED
    BY <1>3, <2>1, <2>2, TypePartsNext, Zenon DEF FlowInv
<1>5. SUFFICES ASSUME ~(StoresState(j) \/ TerminateRuns(j) \/ CheckinSucceeds(j) \/ ClearsState(j))
               PROVE  FlowInv'
  BY <1>4, Zenon
<1>6. UNCHANGED <<state, collecting>> /\ ~Writing(j)
  <2>1. UNCHANGED <<state, collecting>>
    BY <1>5, Zenon DEF WorkerStep, WorkerFails, ImportLinks, UploadDone,
           CheckinChecks, CheckinBuilds, CheckinSends, CheckinFails, Posts
  <2>2. j.step \in {"run", "file", "checked", "built", "sent", "ok"}
    BY <1>5, Zenon DEF WorkerStep, WorkerFails, ImportLinks, UploadDone,
           CheckinChecks, CheckinBuilds, CheckinSends, CheckinFails, Posts
  <2> QED
    BY <2>1, <2>2, Zenon DEF Writing
<1>7. StateTypes' /\ ReviewTypes'
  BY <1>0, <1>2, <1>6, Zenon DEF StateTypes, ReviewTypes, state
<1>8. SUFFICES /\ PanelTypes' /\ JobTypes' /\ RestTypes' /\ RequestIsWhole'
               /\ \E k : /\ jobs' \subseteq (jobs \ {j}) \cup {k} /\ jobs \ {j} \subseteq jobs'
                         /\ ~Writing(k) /\ (Reading(k) /\ k.clean => ReadsWell(k))
  <2>1. PICK k : /\ jobs' \subseteq (jobs \ {j}) \cup {k} /\ jobs \ {j} \subseteq jobs'
                 /\ ~Writing(k) /\ (Reading(k) /\ k.clean => ReadsWell(k))
    BY <1>8, Zenon
  <2>2. StateInv'
    BY <1>0, <1>6, <2>1, QuietKeeps, Zenon
  <2> QED
    BY <1>3, <1>7, <1>8, <2>2, TypePartsNext, Zenon DEF FlowInv
<1>9. UNCHANGED <<queue, sent, released>> => RestTypes'
  BY <1>0, Zenon DEF RestTypes
<1>10. CASE WorkerFails(j) \/ CheckinFails(j)
  <2>1. jobs' = jobs \ {j} /\ UNCHANGED <<files, queue, sent, released>>
    BY <1>10, Zenon DEF WorkerFails, CheckinFails
  <2>2. ~Reading(j)
    BY <1>10, Zenon DEF WorkerFails, CheckinFails, Reading
  <2>3. JobTypes'
    BY <1>0, <1>2, <2>1, EndKeeps, Zenon
  <2> QED
    BY <1>3, <1>6, <1>9, <2>1, <2>2, <2>3, Zenon
<1>11. CASE Posts(j)
  <2>1. jobs' = jobs \ {j} /\ UNCHANGED <<files, sent, released>> /\ queue' = Append(queue, j)
    BY <1>11, Zenon DEF Posts, Post
  <2>2. ~Reading(j)
    BY <1>11, Zenon DEF Posts, Reading
  <2>3. JobTypes'
    BY <1>0, <1>2, <2>1, EndKeeps, Zenon
  <2>4. queue' \in Seq(Job)
    BY <1>0, <1>1, <2>1 DEF RestTypes
  <2>5. RestTypes'
    BY <1>0, <2>1, <2>4, Zenon DEF RestTypes
  <2> QED
    BY <1>3, <1>6, <2>1, <2>2, <2>3, <2>5, Zenon
<1>12. CASE UploadDone(j) \/ ImportLinks(j)
  <2>1. PICK k : k = [j EXCEPT !.step = "ok"]
    BY Zenon
  <2>2. Becomes(j, k) /\ UNCHANGED <<queue, sent, released>>
    BY <1>12, <2>1, Zenon DEF UploadDone, ImportLinks
  <2>3. k \in Job /\ Proper(k) /\ k.step = "ok"
    BY <1>1, <2>1, Zenon DEF Job, Proper, Steps
  <2>4. ~Writing(k) /\ ~Reading(k)
    BY <2>3, Zenon DEF Writing, Reading
  <2>5. JobTypes'
    BY <1>0, <1>2, <2>2, <2>3, BecomesKeeps, Zenon
  <2>6. PanelTypes'
    <3>1. CASE UploadDone(j)
      BY <1>3, <3>1, Zenon DEF UploadDone
    <3>2. CASE ImportLinks(j)
      <4>1. link' = [link EXCEPT ![j.view] = j.item]
            /\ mark' = [mark EXCEPT ![j.view] = j.view \in InProject]
        BY <3>2, Zenon DEF ImportLinks
      <4>2. j.item \in ItemOrNone
        BY <1>1, Zenon DEF Job
      <4> DEFINE val == j.view \in InProject
      <4>a. val \in BOOLEAN /\ mark' = [mark EXCEPT ![j.view] = val]
        BY <4>1
      <4> HIDE DEF val
      <4>3. link' \in [Views -> ItemOrNone]
        BY <1>0, <4>1, <4>2, Zenon DEF PanelTypes
      <4>4. mark' \in [Views -> BOOLEAN]
        BY <1>0, <4>a, Zenon DEF PanelTypes
      <4> QED
        BY <1>0, <1>2, <4>3, <4>4 DEF PanelTypes, ui
    <3> QED
      BY <1>12, <3>1, <3>2, Zenon
  <2> QED
    BY <1>3, <1>9, <2>2, <2>4, <2>5, <2>6, Zenon DEF Becomes
<1>13. CASE CheckinChecks(j)
  <2>0. PICK k : k = [j EXCEPT !.step = "checked", !.clean = Undisturbed]
    BY Zenon
  <2>1. Becomes(j, k) /\ UNCHANGED <<files, queue, sent, released>> /\ stItem # None
    BY <1>13, <2>0, Zenon DEF CheckinChecks, HasItem
  <2>2. PICK c \in BOOLEAN : c = Undisturbed
    BY Zenon DEF Undisturbed
  <2>3. k = [j EXCEPT !.step = "checked", !.clean = c]
    BY <2>0, <2>2, Zenon
  <2>4. k \in Job /\ Proper(k) /\ k.step = "checked" /\ k.clean = c
    BY <1>1, <2>3, Zenon DEF Job, Proper, Steps
  <2>5. ~Writing(k)
    BY <2>4, Zenon DEF Writing
  <2>6. Undisturbed /\ stItem # None => Settled /\ ~mixed
    BY <1>0, Zenon DEF StateInv, Undisturbed, Writers
  <2>7. k.clean => ReadsWell(k)
    <3>0. SUFFICES ASSUME k.clean PROVE ReadsWell(k)
      BY Zenon
    <3>1. k.step # "built"
      BY <2>4, Zenon
    <3>2. Undisturbed
      BY <2>2, <2>4, <3>0
    <3>3. Settled /\ ~mixed /\ stItem # None
      BY <2>1, <2>6, <3>2, Zenon
    <3> QED
      BY <3>1, <3>3, Zenon DEF ReadsWell
  <2>8. JobTypes'
    BY <1>0, <1>2, <2>1, <2>4, BecomesKeeps, Zenon
  <2> QED
    BY <1>3, <1>9, <2>1, <2>5, <2>7, <2>8, Zenon DEF Becomes
<1>14. CASE CheckinBuilds(j)
  <2>0. PICK k : k = [j EXCEPT !.step = "built", !.base = rest]
    BY Zenon
  <2>1. Becomes(j, k) /\ UNCHANGED <<files, queue, sent, released>> /\ Reading(j)
    BY <1>14, <2>0, Zenon DEF CheckinBuilds, Reading
  <2>2. rest \in Maps
    BY <1>0, Zenon DEF StateTypes
  <2>3. k \in Job /\ Proper(k) /\ k.step = "built" /\ k.clean = j.clean /\ k.base = rest
    BY <1>1, <2>0, <2>2, Zenon DEF Job, Proper, Steps
  <2>4. ~Writing(k)
    BY <2>3, Zenon DEF Writing
  <2>5. k.clean => ReadsWell(k)
    BY <1>0, <2>1, <2>3, Zenon DEF ReadsWell, StateInv
  <2>6. JobTypes'
    BY <1>0, <1>2, <2>1, <2>3, BecomesKeeps, Zenon
  <2> QED
    BY <1>3, <1>9, <2>1, <2>4, <2>5, <2>6, Zenon DEF Becomes
<1>15. CASE CheckinSends(j)
  <2>0. PICK k, r : /\ k = [j EXCEPT !.step = "sent", !.item = stItem, !.base = NoBase, !.clean = FALSE]
                    /\ r = [reviewed |-> j.reviewed, captured |-> j.item, base |-> j.base,
                            to |-> stItem, clean |-> j.clean]
    BY Zenon
  <2>1. Becomes(j, k) /\ UNCHANGED <<files, queue, released>> /\ sent' = r /\ j.step = "built"
        /\ j.kind = "checkin"
    BY <1>15, <2>0, Zenon DEF CheckinSends
  <2>2. stItem \in ItemOrNone /\ NoBase \in Maps
    BY <1>0, Zenon DEF StateTypes, Maps
  <2>3. k \in Job /\ Proper(k) /\ k.step = "sent"
    BY <1>1, <2>0, <2>1, <2>2, Zenon DEF Job, Proper, Steps
  <2>4. ~Writing(k) /\ ~Reading(k)
    BY <2>3, Zenon DEF Writing, Reading
  <2>5. r \in Request /\ r.clean = j.clean /\ r.to = stItem /\ r.base = j.base
    BY <1>1, <2>0, <2>2, Zenon DEF Request, Job
  <2>6. j.clean => stItem # None /\ j.base = rest /\ keys = rest /\ keys.item = stItem
    BY <1>0, <2>1, Zenon DEF StateInv, ReadsWell, Reading
  <2>7. RequestIsWhole'
    BY <2>1, <2>5, <2>6, Zenon DEF RequestIsWhole
  <2>8. RestTypes'
    BY <1>0, <2>1, <2>5, Zenon DEF RestTypes
  <2>9. JobTypes'
    BY <1>0, <1>2, <2>1, <2>3, BecomesKeeps, Zenon
  <2> QED
    BY <1>3, <2>1, <2>4, <2>7, <2>8, <2>9, Zenon DEF Becomes
<1> QED
  BY <1>5, <1>10, <1>11, <1>12, <1>13, <1>14, <1>15, Zenon DEF WorkerStep

-----------------------------------------------------------------------------
(* What the callbacks do *)

LEMMA PersistType ==
  ASSUME PanelTypes, NEW val \in BOOLEAN, PersistCheckedOutState(val)
  PROVE  checkedOut' \in BOOLEAN /\ mark' \in [Views -> BOOLEAN]
BY ConstantsAssumption DEF PanelTypes, PersistCheckedOutState

LEMMA CallbackKeeps == ASSUME FlowInv, RunCallback PROVE FlowInv'
<1>0. /\ PanelTypes /\ JobTypes /\ ReviewTypes /\ StateTypes /\ RestTypes
      /\ TypeInv /\ StateInv /\ ReviewIsWhole /\ RequestIsWhole
  BY TypeParts, Zenon DEF FlowInv
<1> DEFINE c == Head(queue)
<1>1. /\ queue' \in Seq(Job) /\ c \in Job
      /\ ImportCallback(c) \/ ReleaseCallback(c) \/ RestoreCallback(c) \/ UploadCallback(c)
      /\ UNCHANGED <<state, reviews, jobs, started, sent>>
  BY <1>0 DEF RunCallback, RestTypes
<1>2. c.item \in ItemOrNone /\ c.view \in Views \cup {None}
  BY <1>1, Zenon DEF Job
<1> HIDE DEF c
<1>3. JobTypes' /\ StateTypes' /\ ReviewIsWhole' /\ RequestIsWhole'
  BY <1>0, <1>1 DEF JobTypes, StateTypes, state, ReviewIsWhole, RequestIsWhole, Proper
<1>4. SUFFICES
        /\ PanelTypes' /\ released' \in SUBSET Items /\ collecting' \in SUBSET Collecting
        /\ \A d \in collecting' : d \in collecting \/ (d.clean /\ d.item # None => CollectsWell(d))
  <2>1. StateInv'
    BY <1>0, <1>1, <1>4, QuietKeeps, Zenon
  <2>2. ReviewTypes' /\ RestTypes'
    BY <1>0, <1>1, <1>4, Zenon DEF ReviewTypes, RestTypes
  <2> QED
    BY <1>3, <1>4, <2>1, <2>2, TypePartsNext, Zenon DEF FlowInv
<1>5. UNCHANGED collecting => collecting' \in SUBSET Collecting /\ \A d \in collecting' : d \in collecting
  BY <1>0, Zenon DEF ReviewTypes
<1>6. UNCHANGED released => released' \in SUBSET Items
  BY <1>0, Zenon DEF RestTypes
<1>7. CASE ImportCallback(c)
  <2>1. PanelTypes'
    BY <1>0, <1>2, <1>7, PersistType, Zenon DEF ImportCallback, PanelTypes
  <2> QED
    BY <1>5, <1>6, <1>7, <2>1, Zenon DEF ImportCallback
<1>8. CASE ReleaseCallback(c)
  <2>1. PanelTypes'
    BY <1>0, <1>8, PersistType, Zenon DEF ReleaseCallback, PanelTypes
  <2> QED
    BY <1>5, <1>6, <1>8, <2>1, Zenon DEF ReleaseCallback
<1>9. CASE RestoreCallback(c)
  <2>1. UNCHANGED <<ui, files, released>> /\ (UNCHANGED collecting \/ DoCheckinWithState)
    BY <1>9, Zenon DEF RestoreCallback
  <2>2. PanelTypes'
    BY <1>0, <2>1 DEF PanelTypes, ui, files
  <2> QED
    BY <1>0, <1>5, <1>6, <2>1, <2>2, CollectStarts, Zenon
<1>10. CASE UploadCallback(c)
  <2>1. PICK keep \in BOOLEAN :
          /\ checkedOut' = keep
          /\ mark' = [mark EXCEPT ![c.view] = keep]
          /\ released' = IF keep THEN released \ {c.item} ELSE released
    BY <1>10, Zenon DEF UploadCallback
  <2>2. released' \in SUBSET Items
    BY <1>0, <2>1, Zenon DEF RestTypes
  <2>3. mark' \in [Views -> BOOLEAN] /\ checkedOut' \in BOOLEAN
    BY <1>0, <2>1, Zenon DEF PanelTypes
  <2>4. link' \in [Views -> ItemOrNone]
    BY <1>0, <1>2, <1>10, Zenon DEF PanelTypes, UploadCallback
  <2>5. PanelTypes'
    BY <1>0, <1>2, <1>10, <2>3, <2>4, Zenon DEF PanelTypes, UploadCallback
  <2> QED
    BY <1>5, <1>10, <2>2, <2>5, Zenon DEF UploadCallback
<1> QED
  BY <1>1, <1>7, <1>8, <1>9, <1>10, Zenon

-----------------------------------------------------------------------------
LEMMA InitFlow == Init => FlowInv
<1> SUFFICES ASSUME Init PROVE FlowInv
  OBVIOUS
<1>1. NoBase \in Maps /\ None \in ItemOrNone /\ NoBase.item = None
  BY Zenon DEF Maps, ItemOrNone, NoBase
<1>2. sent \in Request /\ ~sent.clean
  BY <1>1, Zenon DEF Init, NotSent, Request
<1>3. link \in [Views -> ItemOrNone] /\ mark \in [Views -> BOOLEAN]
  BY <1>1 DEF Init
<1>4. JobTypes
  BY ConstantsAssumption DEF Init, JobTypes
<1>5. PanelTypes /\ StateTypes
  BY <1>1, <1>3, Zenon DEF Init, PanelTypes, StateTypes
<1>6. ReviewTypes /\ RestTypes /\ ReviewIsWhole
  BY <1>2 DEF Init, ReviewTypes, RestTypes, ReviewIsWhole
<1>7. RequestIsWhole
  BY <1>2, Zenon DEF RequestIsWhole
<1>8. StateInv
  BY <1>1, Zenon DEF Init, StateInv, Settled
<1> QED
  BY <1>4, <1>5, <1>6, <1>7, <1>8, TypeParts, Zenon DEF FlowInv

LEMMA NextFlow == FlowInv /\ [Next]_vars => FlowInv'
<1>1. ASSUME FlowInv, UNCHANGED vars PROVE FlowInv'
  <2>1. UNCHANGED <<ui, state, files, collecting, reviews, jobs, started, queue, sent, released>>
    BY <1>1, Zenon DEF vars
  <2>2. StateInv'
    BY <1>1, <2>1, QuietKeeps, Zenon DEF FlowInv
  <2>3. TypeInv' /\ ReviewIsWhole' /\ RequestIsWhole'
    BY <1>1, <2>1 DEF FlowInv, ui, state, files, TypeInv, TypeOK, ReviewIsWhole, RequestIsWhole, Proper
  <2> QED
    BY <2>2, <2>3, Zenon DEF FlowInv
<1> QED
  BY <1>1, UserKeeps, CollectKeeps, WorkerKeeps, CallbackKeeps, Zenon DEF Next, UserStep, WorkerStep

\* Type correctness of the panel's members, the check-in state, the metadata,
\* the workers and their callbacks: in particular only items are released,
\* and every review names the item it was made for.
THEOREM TypeCorrect == Spec => []TypeOK
<1>1. FlowInv => TypeOK
  BY DEF FlowInv, TypeInv
<1> QED
  BY <1>1, InitFlow, NextFlow, PTL DEF Spec

\* A review is made against all of one baseline, that of its item, unless a
\* worker was writing over the state while it was collected or two had
\* written it at once: storeCheckinState() writes the item last.
THEOREM ReviewsAreWhole == Spec => []ReviewIsWhole
<1>1. FlowInv => ReviewIsWhole
  BY DEF FlowInv
<1> QED
  BY <1>1, InitFlow, NextFlow, PTL DEF Spec

\* With the same exception a check-in request names an item and is rebased
\* with the image base of that item, however often workers store and clear
\* the state between the review, the confirmation and the request.
THEOREM RequestsAreWhole == Spec => []RequestIsWhole
<1>1. FlowInv => RequestIsWhole
  BY DEF FlowInv
<1> QED
  BY <1>1, InitFlow, NextFlow, PTL DEF Spec

\* Workers that do not overlap leave the state empty or the baseline of one
\* item, also when the answer to a check-in of another item comes late.
THEOREM SettledStatesAreWhole == Spec => []SettledIsWhole
<1>1. FlowInv => SettledIsWhole
  BY DEF FlowInv, StateInv, SettledIsWhole, Settled, Writers
<1> QED
  BY <1>1, InitFlow, NextFlow, PTL DEF Spec
=============================================================================
