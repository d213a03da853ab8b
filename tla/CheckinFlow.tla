---------------------------- MODULE CheckinFlow ----------------------------
(***************************************************************************)
(* How the sidebar checks items out and in (plugin/src/ui/ProjectPanel.cpp *)
(* with the check-in state of plugin/src/GhidraConnection.cpp).  The UI    *)
(* thread owns m_currentView, m_linkedGhidra and m_checkedOut.  The        *)
(* check-in state, one for the whole plugin and without a lock, is written *)
(* by the workers and read by them and by the UI thread.  It is kept here  *)
(* in the three parts that storeCheckinState() writes one after the other: *)
(* `keys' (the maps of names and comments), `rest' (all the other maps and *)
(* m_imageBase) and the item.  Each access to a part is a step of its own. *)
(* The review dialog runs a nested event loop: callbacks go on while it is *)
(* up.  The contents of a view are left out: a map is known by the item    *)
(* and the view it was filled for.                                         *)
(***************************************************************************)
EXTENDS Integers, Sequences

CONSTANTS Items,     \* items of the repository
          Views,     \* open binary views
          InProject, \* the views that belong to a Binary Ninja project
          MaxJobs    \* bound on the worker jobs ever started

ASSUME ConstantsAssumption == InProject \subseteq Views /\ MaxJobs \in Nat

None == "none"
ASSUME NoneAssumption == None \notin Items /\ None \notin Views

Base == [item : Items, view : Views]
NoBase == [item |-> None, view |-> None] \* the maps are empty

Various == "various"
Mixed == [item |-> Various, view |-> Various] \* entries of more than one baseline
ASSUME MixedAssumption == Various \notin Items

VARIABLES
  view,       \* m_currentView
  linked,     \* the item of m_linkedGhidra
  checkedOut, \* m_checkedOut
  keys, rest, \* the maps of the check-in state
  stItem,     \* m_checkinItem, with its repository and folder
  mixed,      \* parts of two writers may be in the state (history)
  link, mark, \* metadata of each view's file: linked item, "checked_out"
  collecting, \* what collectCheckinChanges() has read, while it runs
  reviews,    \* stack of open review dialogs
  jobs, started,
  queue,      \* callbacks posted to the UI thread
  sent,       \* the last check-in request (history)
  released    \* items checked in or terminated since they were checked out (history)

ui == <<view, linked, checkedOut>>
state == <<keys, rest, stItem, mixed>>
files == <<link, mark>>
vars == <<ui, state, files, collecting, reviews, jobs, started, queue, sent, released>>

Kinds == {"import", "restore", "checkin", "terminate", "upload"}

\* How far a worker is.  A check-in has "checked" that there is an item,
\* "built" the changes, "sent" them, and has the rest of the baseline to
\* "advance" and the keys to "clear"; "rest" and "item" name the part of the
\* state a worker writes next, "file" has the metadata to write.
Steps == {"run", "checked", "built", "sent", "advance", "clear", "rest", "item", "file", "ok"}

Maps == Base \cup {NoBase, Mixed}
ItemOrNone == Items \cup {None}

\* `clean': no worker has been writing the state since this was begun (history).
Collecting == [view : Views, item : ItemOrNone, keys : Maps, clean : BOOLEAN]
Review == [view : Views, item : Items, keys : Maps, rest : Maps, clean : BOOLEAN]

\* `reviewed': the item of the review a check-in was confirmed in; `base':
\* where m_imageBase was read from; `over': the worker writes over a state
\* that had an item when it began (history).
Job == [n : Nat, kind : Kinds, view : Views \cup {None}, item : ItemOrNone, reviewed : ItemOrNone,
        base : Maps, step : Steps, over : BOOLEAN, clean : BOOLEAN]
Request == [reviewed : ItemOrNone, captured : ItemOrNone, base : Maps, to : ItemOrNone, clean : BOOLEAN]
NotSent == [reviewed |-> None, captured |-> None, base |-> NoBase, to |-> None, clean |-> FALSE]

TypeOK ==
  /\ view \in Views \cup {None} /\ linked \in ItemOrNone /\ checkedOut \in BOOLEAN
  /\ keys \in Maps /\ rest \in Maps /\ stItem \in ItemOrNone /\ mixed \in BOOLEAN
  /\ link \in [Views -> ItemOrNone] /\ mark \in [Views -> BOOLEAN]
  /\ collecting \in SUBSET Collecting /\ reviews \in Seq(Review)
  /\ jobs \in SUBSET Job /\ started \in 0..MaxJobs
  /\ queue \in Seq(Job)
  /\ sent \in Request
  /\ released \in SUBSET Items

Init ==
  /\ view = None /\ linked = None /\ checkedOut = FALSE
  /\ keys = NoBase /\ rest = NoBase /\ stItem = None /\ mixed = FALSE
  /\ link = [v \in Views |-> None] /\ mark = [v \in Views |-> FALSE]
  /\ collecting = {} /\ reviews = <<>> /\ jobs = {} /\ started = 0 /\ queue = <<>>
  /\ sent = NotSent /\ released = {}

-----------------------------------------------------------------------------
(* Helpers *)

\* What the context menu of an item goes by: "Check In..." if it holds,
\* "Check Out..." otherwise.
EffectivelyCheckedOut(i) == stItem = i \/ (linked = i /\ checkedOut)

Enqueue(kind, v, i, r) ==
  /\ started < MaxJobs
  /\ started' = started + 1
  /\ jobs' = jobs \cup {[n |-> started + 1, kind |-> kind, view |-> v, item |-> i, reviewed |-> r,
                         base |-> NoBase, step |-> "run", over |-> FALSE, clean |-> FALSE]}

\* The worker's last step: its callback is posted.
Post(j) == jobs' = jobs \ {j} /\ queue' = Append(queue, j)

\* The worker j becomes k.
Becomes(j, k) == jobs' = (jobs \ {j}) \cup {k}

\* persistCheckedOutState(): the flag, and the metadata of the current file.
PersistCheckedOutState(val) ==
  /\ checkedOut' = val
  /\ mark' = IF view \in InProject /\ link[view] # None THEN [mark EXCEPT ![view] = val] ELSE mark

\* The UI thread is not inside collectCheckinChanges().
UiFree == collecting = {}

\* The user can reach the panel's menus only when no review is open either.
Idle == UiFree /\ reviews = <<>>

-----------------------------------------------------------------------------
(* The check-in state *)

\* Mutant: the item is written before the maps.
StoreItemFirst(part, base) ==
  /\ keys' = IF part = "item" THEN base ELSE keys
  /\ rest' = IF part = "rest" THEN base ELSE rest
  /\ stItem' = IF part = "keys" THEN base.item ELSE stItem

\* storeCheckinState(), one part after the other.
StoreCheckinState(part, base) ==
  /\ keys' = IF part = "keys" THEN base ELSE keys
  /\ rest' = IF part = "rest" THEN base ELSE rest
  /\ stItem' = IF part = "item" THEN base.item ELSE stItem

\* Mutant: maps added later are not cleared.
ClearKeysOnly(part) ==
  /\ keys' = IF part = "keys" THEN NoBase ELSE keys
  /\ stItem' = IF part = "item" THEN None ELSE stItem
  /\ UNCHANGED rest

\* clearCheckinState(), in the same order.
ClearCheckinState(part) ==
  /\ keys' = IF part = "keys" THEN NoBase ELSE keys
  /\ rest' = IF part = "rest" THEN NoBase ELSE rest
  /\ stItem' = IF part = "item" THEN None ELSE stItem

\* checkin() puts what was sent into the maps, whatever is in them by now.
Advanced(map, i) == IF map.item = i THEN map ELSE Mixed

\* The workers that have begun to write the state and are not done.
Writing(j) == j.step \in {"advance", "clear", "rest", "item"}
Writers == {j \in jobs : Writing(j)}

\* Nobody is writing over a state that has an item, and the parts belong together.
Undisturbed == ~mixed /\ \A k \in Writers : ~k.over

\* The worker j is about to write its first part, a later one, the last one;
\* the next one is s.  All but the step is history.
BeginsWriting(j, s) ==
  /\ jobs' = {[k EXCEPT !.clean = FALSE] : k \in jobs \ {j}} \cup
             {[j EXCEPT !.step = s, !.over = stItem # None, !.clean = Writers = {}]}
  /\ collecting' = {[c EXCEPT !.clean = FALSE] : c \in collecting}
  /\ UNCHANGED mixed

GoesOnWriting(j, s) ==
  /\ Becomes(j, [j EXCEPT !.step = s])
  /\ UNCHANGED <<collecting, mixed>>

EndsWriting(j, s) ==
  /\ Becomes(j, [j EXCEPT !.step = s, !.over = FALSE, !.clean = FALSE])
  /\ mixed' = ~j.clean
  /\ UNCHANGED collecting

-----------------------------------------------------------------------------
(* What the user does *)

\* notifyViewChanged(): m_checkedOut is read only from project metadata.  A
\* file may also be opened by a callback while a review is up.
NotifyViewChanged(v) ==
  /\ UiFree /\ v # view
  /\ reviews # <<>> => v # None
  /\ view' = v
  /\ linked' = IF v = None THEN None ELSE link[v]
  /\ checkedOut' = IF v \in InProject /\ linked' # None THEN mark[v] ELSE checkedOut
  /\ UNCHANGED <<state, files, collecting, reviews, jobs, started, queue, sent, released>>

\* importItem() from "Check Out...", or from a double click outside a project.
ImportItem(i) ==
  /\ Idle /\ view # None
  /\ EffectivelyCheckedOut(i) => view \notin InProject
  /\ Enqueue("import", view, i, None)
  /\ UNCHANGED <<ui, state, files, collecting, reviews, queue, sent, released>>

TerminateCheckout(i) ==
  /\ Idle /\ EffectivelyCheckedOut(i)
  /\ Enqueue("terminate", None, i, None)
  /\ UNCHANGED <<ui, state, files, collecting, reviews, queue, sent, released>>

\* uploadToGhidra() of a project file.
UploadToGhidra(v, i) ==
  /\ Idle /\ v \in InProject
  /\ Enqueue("upload", v, i, None)
  /\ UNCHANGED <<ui, state, files, collecting, reviews, queue, sent, released>>

\* doCheckinWithState() up to the first map: collectCheckinChanges() reads
\* the item, and goes through the names and comments.
DoCheckinWithState ==
  /\ view # None
  /\ collecting' = {[view |-> view, item |-> stItem, keys |-> keys, clean |-> Undisturbed]}

\* doCheckin(): the state is rebuilt first if it was lost.
DoCheckin(i) ==
  /\ Idle /\ view # None /\ EffectivelyCheckedOut(i)
  /\ IF stItem = None
       THEN Enqueue("restore", view, linked, None) /\ UNCHANGED collecting
       ELSE DoCheckinWithState /\ UNCHANGED <<jobs, started>>
  /\ UNCHANGED <<ui, state, files, reviews, queue, sent, released>>

\* Mutant: changes are collected although there is no item.
CollectsAlways(c) == TRUE

\* collectCheckinChanges() finds nothing without an item.
Collects(c) == c.item # None

\* The rest of collectCheckinChanges(), and what doCheckinWithState() makes
\* of it: with changes a review is opened; without any, the user may have the
\* checkout terminated.
Collect(c) ==
  /\ c \in collecting
  /\ collecting' = {}
  /\ \/ /\ Collects(c)
        /\ reviews' = Append(reviews, [view |-> c.view, item |-> c.item, keys |-> c.keys,
                                       rest |-> rest, clean |-> c.clean])
        /\ UNCHANGED <<jobs, started>>
     \/ /\ stItem # None
        /\ Enqueue("terminate", None, stItem, None)
        /\ UNCHANGED reviews
     \/ UNCHANGED <<reviews, jobs, started>>
  /\ UNCHANGED <<ui, state, files, queue, sent, released>>

Top == reviews[Len(reviews)]
Pop == reviews' = SubSeq(reviews, 1, Len(reviews) - 1)

\* The review and the comment are confirmed: the item is captured, and the
\* worker started.
Confirm ==
  /\ UiFree /\ reviews # <<>>
  /\ Pop
  /\ Enqueue("checkin", view, stItem, Top.item)
  /\ UNCHANGED <<ui, state, files, collecting, queue, sent, released>>

Cancel ==
  /\ UiFree /\ reviews # <<>>
  /\ Pop
  /\ UNCHANGED <<ui, state, files, collecting, jobs, started, queue, sent, released>>

-----------------------------------------------------------------------------
(* The workers *)

\* openDatabase() or uploadBinary() failed: only a message is posted.
WorkerFails(j) ==
  /\ j \in jobs /\ j.step = "run" /\ j.kind \in {"import", "restore", "upload"}
  /\ jobs' = jobs \ {j}
  /\ UNCHANGED <<ui, state, files, collecting, reviews, started, queue, sent, released>>

\* The workers of importItem() and doCheckin() store a baseline.
StoresState(j) ==
  /\ j \in jobs /\ j.kind \in {"import", "restore"}
  /\ LET base == [item |-> j.item, view |-> j.view] IN
     \/ /\ j.step = "run" /\ StoreCheckinState("keys", base) /\ BeginsWriting(j, "rest")
        /\ released' = IF j.kind = "import" THEN released \ {j.item} ELSE released
     \/ /\ j.step = "rest" /\ StoreCheckinState("rest", base) /\ GoesOnWriting(j, "item")
        /\ UNCHANGED released
     \/ /\ j.step = "item" /\ StoreCheckinState("item", base)
        /\ EndsWriting(j, IF j.kind = "import" THEN "file" ELSE "ok")
        /\ UNCHANGED released
  /\ UNCHANGED <<ui, files, reviews, started, queue, sent>>

\* importItem()'s worker goes on with the link of its file.
ImportLinks(j) ==
  /\ j \in jobs /\ j.step = "file"
  /\ link' = [link EXCEPT ![j.view] = j.item]
  /\ mark' = [mark EXCEPT ![j.view] = j.view \in InProject]
  /\ Becomes(j, [j EXCEPT !.step = "ok"])
  /\ UNCHANGED <<ui, state, collecting, reviews, started, queue, sent, released>>

UploadDone(j) ==
  /\ j \in jobs /\ j.kind = "upload" /\ j.step = "run"
  /\ Becomes(j, [j EXCEPT !.step = "ok"])
  /\ UNCHANGED <<ui, state, files, collecting, reviews, started, queue, sent, released>>

\* The worker of "Terminate Checkout" clears the state whatever the answer.
TerminateRuns(j) ==
  /\ j \in jobs /\ j.kind = "terminate" /\ j.step = "run"
  /\ released' = released \cup {j.item}
  /\ ClearCheckinState("keys") /\ BeginsWriting(j, "rest")
  /\ UNCHANGED <<ui, files, reviews, started, queue, sent>>

\* Mutant: checkin() does not look whether there is an item.
HasItemUnchecked == TRUE

\* checkin(): "No import - import first"
HasItem == stItem # None

CheckinChecks(j) ==
  /\ j \in jobs /\ j.kind = "checkin" /\ j.step = "run" /\ HasItem
  /\ Becomes(j, [j EXCEPT !.step = "checked", !.clean = Undisturbed])
  /\ UNCHANGED <<ui, state, files, collecting, reviews, started, queue, sent, released>>

\* The changes are rebased with m_imageBase.
CheckinBuilds(j) ==
  /\ j \in jobs /\ j.kind = "checkin" /\ j.step = "checked"
  /\ Becomes(j, [j EXCEPT !.step = "built", !.base = rest])
  /\ UNCHANGED <<ui, state, files, collecting, reviews, started, queue, sent, released>>

\* The request names the item the state has now.
CheckinSends(j) ==
  /\ j \in jobs /\ j.kind = "checkin" /\ j.step = "built"
  /\ sent' = [reviewed |-> j.reviewed, captured |-> j.item, base |-> j.base, to |-> stItem,
              clean |-> j.clean]
  /\ Becomes(j, [j EXCEPT !.step = "sent", !.item = stItem, !.base = NoBase, !.clean = FALSE])
  /\ UNCHANGED <<ui, state, files, collecting, reviews, started, queue, released>>

\* No item or no connection, or the bridge reports an error.
CheckinFails(j) ==
  /\ j \in jobs /\ j.kind = "checkin" /\ j.step \in {"run", "sent"}
  /\ jobs' = jobs \ {j}
  /\ UNCHANGED <<ui, state, files, collecting, reviews, started, queue, sent, released>>

\* The version is on the server: the baseline is advanced, then cleared.
CheckinSucceeds(j) ==
  /\ j \in jobs /\ j.kind = "checkin"
  /\ \/ /\ j.step = "sent" /\ j.item # None
        /\ keys' = Advanced(keys, j.reviewed) /\ BeginsWriting(j, "advance")
        /\ released' = released \cup {j.item}
        /\ UNCHANGED <<rest, stItem>>
     \/ /\ j.step = "advance"
        /\ rest' = Advanced(rest, j.reviewed) /\ GoesOnWriting(j, "clear")
        /\ UNCHANGED <<keys, stItem, released>>
     \/ /\ j.step = "clear" /\ ClearCheckinState("keys") /\ GoesOnWriting(j, "rest")
        /\ UNCHANGED released
  /\ UNCHANGED <<ui, files, reviews, started, queue, sent>>

\* The other parts, after a check-in and after a termination.
ClearsState(j) ==
  /\ j \in jobs /\ j.kind \in {"checkin", "terminate"}
  /\ \/ j.step = "rest" /\ ClearCheckinState("rest") /\ GoesOnWriting(j, "item")
     \/ j.step = "item" /\ ClearCheckinState("item") /\ EndsWriting(j, "ok")
  /\ UNCHANGED <<ui, files, reviews, started, queue, sent, released>>

Posts(j) ==
  /\ j \in jobs /\ j.step = "ok"
  /\ Post(j)
  /\ UNCHANGED <<ui, state, files, collecting, reviews, started, sent, released>>

-----------------------------------------------------------------------------
(* Callbacks on the UI thread *)

\* importItem(): the link and the flag of whatever view is current by now.
ImportCallback(c) ==
  /\ c.kind = "import"
  /\ linked' = c.item
  /\ PersistCheckedOutState(TRUE)
  /\ UNCHANGED <<view, link, collecting, released>>

\* A check-in that succeeded, or a termination.
ReleaseCallback(c) ==
  /\ c.kind \in {"checkin", "terminate"}
  /\ PersistCheckedOutState(FALSE)
  /\ UNCHANGED <<view, linked, link, collecting, released>>

RestoreCallback(c) ==
  /\ c.kind = "restore"
  /\ IF view = None THEN UNCHANGED collecting ELSE DoCheckinWithState
  /\ UNCHANGED <<ui, files, released>>

\* uploadToGhidra(): `keep' is the user's wish to stay checked out.
UploadCallback(c) ==
  /\ c.kind = "upload"
  /\ \E keep \in BOOLEAN :
       /\ checkedOut' = keep
       /\ mark' = [mark EXCEPT ![c.view] = keep]
       /\ released' = IF keep THEN released \ {c.item} ELSE released
  /\ link' = [link EXCEPT ![c.view] = c.item]
  /\ linked' = c.item
  /\ UNCHANGED <<view, collecting>>

RunCallback ==
  /\ UiFree /\ queue # <<>>
  /\ queue' = Tail(queue)
  /\ LET c == Head(queue) IN
       ImportCallback(c) \/ ReleaseCallback(c) \/ RestoreCallback(c) \/ UploadCallback(c)
  /\ UNCHANGED <<state, reviews, jobs, started, sent>>

-----------------------------------------------------------------------------
Next ==
  \/ \E v \in Views \cup {None} : NotifyViewChanged(v)
  \/ \E i \in Items : ImportItem(i) \/ TerminateCheckout(i) \/ DoCheckin(i)
  \/ \E v \in Views, i \in Items : UploadToGhidra(v, i)
  \/ \E c \in collecting : Collect(c)
  \/ Confirm \/ Cancel
  \/ \E j \in jobs :
       \/ WorkerFails(j) \/ StoresState(j) \/ ImportLinks(j) \/ UploadDone(j) \/ TerminateRuns(j)
       \/ CheckinChecks(j) \/ CheckinBuilds(j) \/ CheckinSends(j) \/ CheckinFails(j)
       \/ CheckinSucceeds(j) \/ ClearsState(j) \/ Posts(j)
  \/ RunCallback

Spec == Init /\ [][Next]_vars

-----------------------------------------------------------------------------
(* Properties *)

\* storeCheckinState() writes the item last, and everyone who reads the state
\* looks at the item first: a review is made against one baseline, that of
\* its item, all of it, also when the collecting begins while a worker is
\* storing a first baseline.  Left out are the collections during which a
\* worker was writing over a state that had an item, and those from a state
\* two workers had written at once.
ReviewIsWhole ==
  \A k \in 1..Len(reviews) : LET r == reviews[k] IN
    r.clean => r.keys = r.rest /\ r.keys.item = r.item

\* A check-in request names an item, and its addresses are rebased with the
\* image base of that item, although checkin() reads the two at different
\* times.  Left out, as above, are requests during whose making a worker was
\* writing over the state.
RequestIsWhole == sent.clean => sent.to # None /\ sent.base.item = sent.to

\* Workers that come one after the other, an import, a late answer to a
\* check-in of another item, a termination, leave the state empty or the
\* baseline of one item: no entry of an earlier baseline survives them.
SettledIsWhole ==
  (Writers = {} /\ ~mixed) =>
    keys = rest /\ keys.item = stItem

\* GhidraConnection.cpp:1455: "No import - import first".  A check-in request
\* names an item.
SendsToAnItem == sent # NotSent => sent.to # None

\* ProjectPanel.cpp:935: "Capture item coords before the lambda runs on
\* another thread."  A check-in goes to the item captured when the user
\* confirmed, the one the review was made for.
CheckinGoesToCapturedItem ==
  sent # NotSent => (sent.to = sent.captured /\ sent.to = sent.reviewed)

\* ProjectPanel.cpp:376: "Check In..." is offered because "we went through
\* importItem/checkout and storeCheckinState was called".  The changes sent
\* to an item are those of the view that was imported from it.
ReviewComparesOwnView ==
  \A k \in 1..Len(reviews) : reviews[k].clean => reviews[k].keys.view = reviews[k].view

\* ProjectPanel.h:95: m_checkedOut is "cleared after a successful check-in or
\* explicit checkout termination".  With nothing in progress, no item that
\* has been released is still shown as checked out.
ReleasedIsNotCheckedOut ==
  (jobs = {} /\ queue = <<>>) => ~(checkedOut /\ linked \in released)

\* ProjectPanel.h:101: m_linkedGhidra is the "Ghidra link stored in the
\* current .bndb's metadata".
LinkIsOfCurrentView ==
  (jobs = {} /\ queue = <<>> /\ view # None) => linked = link[view]
=============================================================================
