----------------------------- MODULE WriteBack -----------------------------
(***************************************************************************)
(* The round trip of annotations between a Ghidra program on the server    *)
(* and a Binary Ninja view: import (applyToView and storeCheckinState),    *)
(* the user's edits, the diff against the baseline (collectCheckinChanges), *)
(* the check-in (buildCheckinJson, ProgramApplier.apply) and the baseline  *)
(* after it.  The Sync modules say what each step does to their kinds;     *)
(* this module puts the kinds together in the order of the code and lets   *)
(* edits, a colleague's version and a lost answer come in between.         *)
(*                                                                         *)
(* Not here: function flags and the memory map; who holds the checkout     *)
(* (Checkout) and which item the check-in state belongs to (CheckinFlow).  *)
(***************************************************************************)
EXTENDS SyncSymbols, SyncComments, SyncMarks, SyncTypes, SyncFuncs

CONSTANTS Scenarios,  \* a program of the server, the view after Binary Ninja's
                      \* own analysis, and what may be typed in
          MaxEdits,   \* bound on the edits of the user and of a colleague
          MaxImports  \* bound on the imports

ASSUME BoundsAssumption == MaxEdits \in Nat /\ MaxImports \in Nat

VARIABLES
  prog,    \* the program's latest version
  view,    \* the annotations of the view
  base,    \* the check-in state (m_addrToKey ... m_ghidraDataItemAddrs)
  review,  \* the preview under review or on its way to the server
  clearing, \* the worker is about to drop the check-in state
  fresh,   \* the review was collected from this view and this baseline (history)
  mine,    \* places the user has edited or sent (history)
  theirs,  \* places the colleague has edited (history)
  cycle,   \* how far a check-in from a baseline just made has got, and without
           \* later edits; or "lost", its answer (history)
  skipped, \* what that check-in asked for and the bridge passed over (history)
  beside,  \* what check-ins did to the program and not to the view (history)
  edits, imports,
  inputs   \* of the scenario

history == <<fresh, mine, theirs, cycle, skipped, beside>>
counters == <<edits, imports>>
vars == <<prog, view, base, review, clearing, history, counters, inputs>>

NoBase == [set |-> FALSE, key |-> <<>>, name |-> <<>>, comment |-> <<>>, column |-> <<>>,
           funcComment |-> <<>>, marks |-> {}, eqName |-> <<>>, eqRefs |-> <<>>,
           types |-> <<>>, items |-> {}, slots |-> <<>>, sent |-> <<>>, ret |-> <<>>, cc |-> <<>>]
NoReview == [open |-> FALSE]

Init ==
  /\ \E s \in Scenarios : prog = s.prog /\ view = s.view /\ inputs = s.inputs
  /\ base = NoBase /\ review = NoReview /\ clearing = FALSE
  /\ fresh = FALSE /\ mine = {} /\ theirs = {} /\ cycle = "none" /\ skipped = {} /\ beside = {}
  /\ edits = 0 /\ imports = 0

-----------------------------------------------------------------------------
\* Import and check-in, kind by kind.

\* An edit ends a cycle; a lost answer leaves the baseline behind until it is
\* made anew.
AfterEdit(c) == IF c = "lost" THEN "lost" ELSE "none"

\* applyToView, in the order of its passes.
ApplyToView(v, p, displaces) ==
  LET symbols   == ImportSymbols(v, p.symbols)
      comments  == ImportComments(symbols, p.comments)
      equates   == ImportEquates(comments, p.equates)
      bookmarks == ImportBookmarks(equates, p.bookmarks)
      variables == ImportVars(bookmarks, p.vars)
      types     == ImportTypes(variables, p.types)
      items     == ImportItems(types, p.types, p.items)
  IN ImportSigs(items, p.symbols, p.sigs, displaces)

\* storeCheckinState, from the maps of applyToView or buildWritebackMaps.
Baseline(p, plates) ==
  [set |-> TRUE, marks |-> BookmarkBaseline(p.bookmarks), types |-> p.types, items |-> DOMAIN p.items]
  @@ SymbolBaseline(p.symbols) @@ CommentBaseline(p.comments, plates) @@ EquateBaseline(p.equates)
  @@ FuncBaseline(p.vars, p.sigs)

\* collectCheckinChanges: the previews, which differ only in order.
Previews(v, b) ==
  {[open |-> TRUE, renames |-> CollectRenames(v, b), news |-> CollectNewSymbols(v, b),
    comments |-> CollectComments(v, b), types |-> CollectTypes(v, b), bookmarks |-> m,
    items |-> CollectItems(v, b), eqRenames |-> e, eqRefs |-> CollectEquateRefs(v, b),
    vars |-> CollectVars(v, b), newVars |-> CollectNewVars(v, b), sigs |-> CollectSigs(v, b)] :
   m \in CollectBookmarks(v, b), e \in CollectEquateRenames(v, b)}

EmptyPreview(r) ==
  /\ r.renames = {} /\ r.news = {} /\ r.comments = <<>> /\ r.types = {} /\ r.bookmarks = <<>>
  /\ r.items = {} /\ r.eqRenames = <<>> /\ r.eqRefs = {} /\ r.vars = {} /\ r.newVars = {} /\ r.sigs = {}

\* Where the program has functions.
Entries(p) == {s.va : s \in {x \in p.symbols : x.func}}

\* Mutant: data items are applied before the types they may need.
ApplyItemsFirst(p, r, b) ==
  LET types == ApplyTypes(p.types, r.types)
  IN [symbols   |-> ApplySymbols(p.symbols, r.renames, r.news),
      comments  |-> ApplyComments(p.comments, r.comments, b),
      equates   |-> ApplyEquates(p.equates, r.eqRenames, r.eqRefs),
      bookmarks |-> ApplyBookmarks(p.bookmarks, r.bookmarks),
      types     |-> types,
      vars      |-> ApplyVars(p.vars, types, Entries(p), r.vars, r.newVars),
      sigs      |-> ApplySigs(ClearSigs(p.sigs, types), types, r.sigs),
      items     |-> ClearItems(ApplyItems(p.items, p.types, r.items), types)]

\* ProgramApplier.apply: data types first, the rest may refer to them.
ApplyToProgram(p, r, b) ==
  LET types == ApplyTypes(p.types, r.types)
  IN [symbols   |-> ApplySymbols(p.symbols, r.renames, r.news),
      comments  |-> ApplyComments(p.comments, r.comments, b),
      equates   |-> ApplyEquates(p.equates, r.eqRenames, r.eqRefs),
      bookmarks |-> ApplyBookmarks(p.bookmarks, r.bookmarks),
      types     |-> types,
      vars      |-> ApplyVars(p.vars, types, Entries(p), r.vars, r.newVars),
      sigs      |-> ApplySigs(ClearSigs(p.sigs, types), types, r.sigs),
      items     |-> ApplyItems(ClearItems(p.items, types), types, r.items)]

\* The baseline after a check-in the server has acknowledged.
Advance(b, r) ==
  AdvanceComments(b, r.comments) @@ AdvanceEquates(b, r.eqRenames, r.eqRefs)
  @@ AdvanceFuncs(b, r.vars, r.newVars, r.sigs)
  @@ [b EXCEPT !.name = AdvanceSymbols(b, r.renames, r.news),
               !.marks = AdvanceBookmarks(@, r.bookmarks),
               !.types = AdvanceTypes(@, r.types),
               !.items = AdvanceItems(@, r.items)]

\* What the bridge passes over in a request (the shortfall of its counts).
Skipped(p, r) ==
  LET types == ApplyTypes(p.types, r.types)
      keyed == ApplyKeyedVars(p.vars, types, r.vars)
      Renamed(i) == FoldLeft(RenameEquate, p.equates, SubSeq(r.eqRenames, 1, i))
      Ids(i) == {e.id : e \in Renamed(i)}
      CanRenameEquate(i) == LET q == r.eqRenames[i]
                            IN q.id \in Ids(i-1) /\ \A e \in Renamed(i-1) : e.name = q.name => e.id = q.id
  IN {<<"name", e.addr>> : e \in {x \in r.renames : ~CanRename(p.symbols, x)}}
     \cup {<<"type", c.name>> : c \in {x \in r.types : x.op # "delete" /\ x.name \notin DOMAIN types}}
     \cup {<<"item", c.addr>> :
             c \in {x \in r.items : x.op = "add" /\ ~Resolvable(DOMAIN types, x.ty)}}
     \cup {<<"label", r.eqRenames[i].id>> : i \in {j \in DOMAIN r.eqRenames : ~CanRenameEquate(j)}}
     \cup {<<"ref", q.addr>> : q \in {x \in r.eqRefs : x.id \notin Ids(Len(r.eqRenames))}}
     \cup {<<"var", c.slot>> : c \in {x \in r.vars : \A q \in keyed : q.key # x.key \/ q.name # x.name}}
     \cup {<<"var", s>> : s \in PassedOver(keyed, types, Entries(p), r.newVars)}
     \cup {<<"sig", c.addr>> : c \in {x \in r.sigs :
             \/ x.key \notin DOMAIN p.sigs
             \/ x.ret # "" /\ ~Resolvable(DOMAIN types, x.ret)
             \/ x.cc # "" /\ x.cc \notin DOMAIN GhidraCC}}

\* The places a preview shows.
Shown(r) ==
  {<<"name", e.addr>> : e \in r.renames \cup r.news}
  \cup {<<"comment", a>> : a \in DOMAIN r.comments}
  \cup {<<"tag", ToBn(c.va)>> : c \in ToSet(r.bookmarks)}
  \cup {<<"label", e.id>> : e \in ToSet(r.eqRenames)} \cup {<<"ref", e.addr>> : e \in r.eqRefs}
  \cup {<<"type", c.name>> : c \in r.types} \cup {<<"item", c.addr>> : c \in r.items}
  \cup {<<"var", c.slot>> : c \in r.vars} \cup {<<"var", c.slot>> : c \in r.newVars}
  \cup {<<"sig", c.addr>> : c \in r.sigs}

\* What a request changes along with the places it shows: the types, items and
\* functions that use a type it removes, and the variables that the bridge
\* finds in the wrong place.
Along(p, r) ==
  LET gone == UNION {RemovedWith(p.types, c.name) : c \in {x \in r.types : x.op = "delete"}}
  IN {<<"type", n>> : n \in gone}
     \cup {<<"type", n>> : n \in {x \in DOMAIN p.types :
                                   \E m \in ToSet(p.types[x].members) : m.ty \in gone}}
     \cup {<<"item", ToBn(va)>> : va \in {x \in DOMAIN p.items : p.items[x] \in gone}}
     \cup {<<"sig", ToBn(s.va)>> : s \in {x \in p.symbols : x.func /\ p.sigs[x.key].ret \in gone}}
     \cup {<<"var", SlotToBn(SlotOf(x))>> : x \in {y \in p.vars : y.bad}}

Reach(p, r) == Shown(r) \cup Along(p, r)

\* What a check-in does to the program and not to the view, the entries of a
\* preview that is out of date included.  The return type of a function goes
\* with its type also when an entry about its convention is shown.
Beside(p, r, current) ==
  Skipped(p, r) \cup {e \in Along(p, r) : e \notin Shown(r) \/ e[1] = "sig"}
  \cup (IF current THEN {} ELSE Shown(r))

-----------------------------------------------------------------------------
\* The sidebar's operations.

Import ==
  /\ imports < MaxImports /\ imports' = imports + 1
  /\ \E displaces \in BOOLEAN : view' = ApplyToView(view, prog, displaces)
  /\ base' = Baseline(prog, view'.funcs)
  /\ fresh' = FALSE
  /\ cycle' = IF cycle \in {"landed", "again"} THEN "again" ELSE "none"
  /\ UNCHANGED <<prog, review, clearing, mine, theirs, skipped, beside, edits, inputs>>

\* Check In without a check-in state rebuilds it, if an import has linked the
\* view to the item; the view is left alone.
Restore ==
  /\ ~base.set /\ imports > 0
  /\ base' = Baseline(prog, Address)
  /\ cycle' = IF cycle \in {"landed", "again"} THEN "again" ELSE "none"
  /\ UNCHANGED <<prog, view, review, clearing, fresh, mine, theirs, skipped, beside, counters, inputs>>

Collect ==
  /\ base.set /\ ~review.open
  /\ review' \in Previews(view, base)
  /\ fresh' = TRUE
  /\ UNCHANGED <<prog, view, base, clearing, mine, theirs, cycle, skipped, beside, counters, inputs>>

\* Nothing to check in: the user may end the checkout, and the state goes.
Release ==
  /\ review.open /\ EmptyPreview(review)
  /\ review' = NoReview /\ fresh' = FALSE /\ clearing' = TRUE
  /\ UNCHANGED <<prog, view, base, mine, theirs, cycle, skipped, beside, counters, inputs>>

\* Nothing to check in, the user cancels, or the check-in fails and the bridge
\* rolls its transaction back: the check-in state is kept.
Dismiss ==
  /\ review.open
  /\ review' = NoReview /\ fresh' = FALSE
  /\ UNCHANGED <<prog, view, base, clearing, mine, theirs, cycle, skipped, beside, counters, inputs>>

Checkin ==
  /\ review.open /\ ~EmptyPreview(review) /\ base.set
  /\ review' = NoReview /\ fresh' = FALSE /\ clearing' = TRUE
  /\ cycle' = IF fresh /\ ~clearing /\ cycle # "lost" THEN "landed" ELSE AfterEdit(cycle)
  /\ UNCHANGED <<view, theirs, counters, inputs>>
  /\ prog' = ApplyToProgram(prog, review, base)
  /\ base' = Advance(base, review)
  /\ skipped' = Skipped(prog, review) /\ beside' = beside \cup Beside(prog, review, fresh)
  /\ mine' = mine \cup Reach(prog, review)

\* The answer comes after the client has stopped waiting for it.
CheckinUnanswered ==
  /\ review.open /\ ~EmptyPreview(review) /\ base.set
  /\ review' = NoReview /\ fresh' = FALSE /\ cycle' = "lost"
  /\ UNCHANGED <<view, base, clearing, theirs, skipped, counters, inputs>>
  /\ prog' = ApplyToProgram(prog, review, base)
  /\ beside' = beside \cup Beside(prog, review, fresh)
  /\ mine' = mine \cup Reach(prog, review)

\* The worker drops the state of a check-in that succeeded.
Clear ==
  /\ clearing /\ clearing' = FALSE
  /\ base' = NoBase /\ fresh' = FALSE
  /\ UNCHANGED <<prog, view, review, mine, theirs, cycle, skipped, beside, counters, inputs>>

\* Binary Ninja is closed and the saved view opened again: the check-in state
\* lives in memory only.
Restart ==
  /\ base.set
  /\ base' = NoBase /\ review' = NoReview /\ clearing' = FALSE /\ fresh' = FALSE
  /\ UNCHANGED <<prog, view, mine, theirs, cycle, skipped, beside, counters, inputs>>

-----------------------------------------------------------------------------
\* Edits.  A place is what an edit, or an entry of a preview, is about.

Edited(place) ==
  /\ edits < MaxEdits /\ edits' = edits + 1
  /\ mine' = mine \cup {place} /\ cycle' = AfterEdit(cycle) /\ fresh' = FALSE
  /\ UNCHANGED <<prog, base, review, clearing, theirs, skipped, beside, imports, inputs>>

UserRename(a, n) == Edited(<<"name", a>>) /\ view' = [view EXCEPT !.name[a] = n]

UserComment(a, text) == Edited(<<"comment", a>>) /\ view' = [view EXCEPT !.comment[a] = text]

UserFuncComment(a, text) ==
  /\ a \in view.funcs
  /\ Edited(<<"comment", a>>) /\ view' = [view EXCEPT !.funcComment[a] = text]

UserTag(tag) ==
  /\ ~BagIn(tag, view.tags)
  /\ Edited(<<"tag", tag.addr>>) /\ view' = [view EXCEPT !.tags = BagAdd(@, tag)]

UserUntag(tag) == Edited(<<"tag", tag.addr>>) /\ view' = [view EXCEPT !.tags = BagRemove(@, tag)]

\* The label of an equate's enum is changed to one no enum has borne.
UserEquateLabel(id, label) ==
  /\ \A i \in DOMAIN view.eqType \ {id} : label # view.eqType[i].label => label # view.eqType[i].name
  /\ label # view.eqType[id].label
  /\ Edited(<<"label", id>>) /\ view' = [view EXCEPT !.eqType[id].label = label]

UserEquateRef(a, id) ==
  /\ \A r \in view.eqRef : r.addr # a
  /\ \E r \in view.eqRef : /\ r.id = id
                          /\ view' = [view EXCEPT !.eqRef = @ \cup {[r EXCEPT !.addr = a]}]
  /\ Edited(<<"ref", a>>)

UserDefineType(n, t) ==
  Edited(<<"type", n>>) /\ view' = [view EXCEPT !.types = (n :> (t @@ [user |-> TRUE])) @@ @]

UserDeleteType(n) ==
  Edited(<<"type", n>>) /\ view' = [view EXCEPT !.types = Restrict(@, DOMAIN @ \ {n})]

UserItem(a, ty) ==
  Edited(<<"item", a>>) /\ view' = [view EXCEPT !.items = (a :> BnSpelling(ty)) @@ @]

UserUndefineItem(a) ==
  Edited(<<"item", a>>) /\ view' = [view EXCEPT !.items = Restrict(@, DOMAIN @ \ {a})]

UserVarName(s, n) == Edited(<<"var", s>>) /\ view' = [view EXCEPT !.vars[s].name = n]

UserVarType(s, ty) == Edited(<<"var", s>>) /\ view' = [view EXCEPT !.vars[s].ty = ty]

UserReturnType(a, ty) ==
  Edited(<<"sig", a>>) /\ view' = [view EXCEPT !.sigs[a].ret = ty, !.sigs[a].user = TRUE]

UserConvention(a, cc) ==
  Edited(<<"sig", a>>) /\ view' = [view EXCEPT !.sigs[a].cc = cc, !.sigs[a].user = TRUE]

UserEdit ==
  \/ \E a \in Address, n \in inputs.names : UserRename(a, n)
  \/ \E a \in Address, t \in inputs.texts : UserComment(a, t) \/ UserFuncComment(a, t)
  \/ \E t \in inputs.tags : UserTag(t)
  \/ \E t \in BagToSet(view.tags) : UserUntag(t)
  \/ \E id \in DOMAIN view.eqType : \/ \E n \in inputs.labels : UserEquateLabel(id, n)
                                   \/ \E a \in Address : UserEquateRef(a, id)
  \/ \E n \in DOMAIN inputs.types : UserDefineType(n, inputs.types[n])
  \/ \E n \in DOMAIN view.types : UserDeleteType(n)
  \/ \E a \in Address, ty \in inputs.itemTypes : UserItem(a, ty)
  \/ \E a \in DOMAIN view.items : UserUndefineItem(a)
  \/ \E s \in DOMAIN view.vars : \/ \E n \in inputs.varNames : UserVarName(s, n)
                                \/ \E ty \in inputs.varTypes : UserVarType(s, ty)
  \/ \E a \in DOMAIN view.sigs : \/ \E ty \in inputs.returnTypes : UserReturnType(a, ty)
                                \/ \E cc \in inputs.conventions : UserConvention(a, cc)

\* A colleague checks in a version of their own.
Released(place) ==
  /\ edits < MaxEdits /\ edits' = edits + 1
  /\ theirs' = theirs \cup {place} /\ cycle' = AfterEdit(cycle)
  /\ UNCHANGED <<view, base, review, clearing, fresh, mine, skipped, beside, imports, inputs>>

TheirRename(s, n) ==
  /\ \A t \in prog.symbols : t.va = s.va => t.name # n
  /\ Released(<<"name", ToBn(s.va)>>)
  /\ prog' = [prog EXCEPT !.symbols = (@ \ {s}) \cup {[s EXCEPT !.name = n]}]

TheirComment(va, c, text) ==
  Released(<<"comment", ToBn(va)>>) /\ prog' = [prog EXCEPT !.comments[va][c] = text]

TheirParameter(p, n) ==
  /\ FreeName(prog.vars, p, n)
  /\ Released(<<"var", SlotToBn(SlotOf(p))>>)
  /\ prog' = [prog EXCEPT !.vars = (@ \ {p}) \cup {[p EXCEPT !.name = n]}]

TheirReturnType(s, ty) ==
  Released(<<"sig", ToBn(s.va)>>) /\ prog' = [prog EXCEPT !.sigs[s.key].ret = ty]

Version ==
  \/ \E s \in prog.symbols, n \in inputs.names : s.va # NoVa /\ TheirRename(s, n)
  \/ \E va \in Address, c \in inputs.columns, t \in inputs.texts : TheirComment(va, c, t)
  \/ \E p \in prog.vars, n \in inputs.varNames : ~p.bad /\ TheirParameter(p, n)
  \/ \E s \in prog.symbols, ty \in inputs.returnTypes : s.func /\ TheirReturnType(s, NormalizePrimitives(ty))

Next ==
  \/ Import \/ Restore \/ Collect \/ Release \/ Dismiss
  \/ Checkin \/ CheckinUnanswered \/ Clear \/ Restart
  \/ UserEdit \/ Version

Spec == Init /\ [][Next]_vars

-----------------------------------------------------------------------------
\* Properties.

(***************************************************************************)
(* Every annotation of the view is one the user can have made or imported: *)
(* addresses are addresses, and the baseline is keyed by them.             *)
(***************************************************************************)
TypeOK ==
  /\ \A s \in prog.symbols : s.va \in Address \cup {NoVa}
  /\ DOMAIN prog.comments = Address /\ DOMAIN prog.items \subseteq Address
  /\ DOMAIN view.name = Address /\ DOMAIN view.comment = Address /\ view.funcs \subseteq Address
  /\ IsABag(view.tags) /\ DOMAIN view.items \subseteq Address
  /\ DOMAIN base.key \subseteq DOMAIN base.name /\ DOMAIN base.name \subseteq Address
  /\ DOMAIN base.comment = DOMAIN base.column /\ base.items \subseteq Address
  /\ fresh => review.open
  /\ cycle \in {"none", "landed", "again", "lost"} /\ clearing \in BOOLEAN

\* Places of a program that the view cannot represent as they are: a second
\* symbol at an address, a struct with an unnamed member or with a member of
\* a type that is exported after it, an item of a built-in type, a variable
\* of a type that is imported after it.
Lossy(p) ==
  LET order == ExportTypes(p.types)
      Late(n, ty) == ty \in DOMAIN p.types /\ SelectInSeq(order, LAMBDA x : x = ty) >= SelectInSeq(order, LAMBDA x : x = n)
  IN {<<"name", a>> : a \in {x \in Address :
        \E s, t \in ToSet(ExportSymbols(p.symbols)) : s # t /\ ToBn(s.va) = x /\ t.va = s.va}}
     \cup {<<"type", n>> : n \in {x \in DOMAIN p.types : p.types[x].kind = "struct" /\
             \E m \in ToSet(p.types[x].members) : m.name = "" \/ Late(x, m.ty)}}
     \cup {<<"item", ToBn(va)>> : va \in {x \in DOMAIN p.items : p.items[x] \notin DOMAIN p.types}}
     \cup {<<"var", SlotToBn(SlotOf(x))>> : x \in {y \in p.vars : y.bad /\ y.ty \notin GhidraPrimitives}}

(***************************************************************************)
(* A preview holds only what somebody has touched, and the places the view *)
(* cannot represent: import, baseline and diff agree about everything else. *)
(***************************************************************************)
PreviewFromEdits == fresh => Shown(review) \subseteq mine \cup theirs \cup Lossy(prog)

\* Places where a check-in writes something other than what it shows: text of
\* several columns goes into one of them, the comment of a function without a
\* plate comment goes into the "eol" column, a member of unknown type becomes
\* undefined bytes, an item may have a type that is gone, a bookmark replaces
\* that of its category and a removal takes all bookmarks of the type along.
Coarse(p, v) ==
  {<<"comment", a>> : a \in {x \in Address :
     LET row == p.comments[ToGhidra(x)]
     IN Cardinality({c \in Columns : row[c] # <<>>}) > 1
        \/ (v.funcComment[x] # <<>> /\ row.plate = <<>>)}}
  \cup {<<"type", n>> : n \in {x \in DOMAIN p.types :
          \E m \in ToSet(p.types[x].members) : m.ty = "undefined4"}}
  \cup {<<"tag", t.addr>> : t \in {x \in BagToSet(v.tags) :
          \/ \E u \in BagToSet(v.tags) : u # x /\ u.addr = x.addr /\ u.type = x.type
          \/ \A b \in p.bookmarks : b.va # ToGhidra(x.addr) \/ b.type # x.type}}
  \cup {<<"item", a>> : a \in {x \in DOMAIN v.items : ~Resolvable(DOMAIN v.types, v.items[x])}}

\* What is sent again after each import, for the export says nothing of it:
\* parameters, register variables and calling conventions.
Unexported(v) ==
  {<<"var", s>> : s \in {x \in DOMAIN v.vars : x[2] # "stack" /\ ~IsAutoVar(x[2], v.vars[x].name)}}
  \cup {<<"sig", a>> : a \in {x \in DOMAIN v.sigs : v.sigs[x].cc # DefaultCC}}

(***************************************************************************)
(* After a check-in and a re-import, or a rebuilt baseline, and without an *)
(* edit in between, the next preview is empty (CanonicalParityTest.cpp:    *)
(* 292-297) but for a colleague's edits, what the bridge passed over, the  *)
(* users of a removed type, what the view cannot represent and what was    *)
(* written coarsely; and names, types and items that the bridge passed     *)
(* over are shown again (GhidraConnection.cpp:1486-1490).                  *)
(***************************************************************************)
Converges ==
  (fresh /\ cycle = "again") =>
    /\ Shown(review) \subseteq theirs \cup beside \cup Lossy(prog) \cup Coarse(prog, view) \cup Unexported(view)
    /\ {e \in skipped : e[1] \in {"name", "type", "item"}} \subseteq Shown(review)

\* What a request asks for is in the program, or was passed over.
Landed(p, r, over) ==
  /\ \A e \in r.renames \cup r.news :
       <<"name", e.addr>> \in over
       \/ \E s \in p.symbols : s.va = ToGhidra(e.addr) /\ s.name = e.name
  /\ \A a \in DOMAIN r.comments :
       \E c \in Columns : p.comments[ToGhidra(a)][c] = r.comments[a]
  /\ \A c \in r.types :
       IF c.op = "delete" THEN c.name \notin DOMAIN p.types
       ELSE <<"type", c.name>> \in over
            \/ /\ c.name \in DOMAIN p.types /\ p.types[c.name].kind = c.kind
               /\ LET known == {i \in DOMAIN c.members : p.types[c.name].members[i].ty # "undefined4"}
                  IN \A i \in known : CanonicalTypeName(c.members[i].ty) = p.types[c.name].members[i].ty
  /\ \A c \in r.items :
       LET va == ToGhidra(c.addr)
       IN IF c.op = "delete" THEN va \notin DOMAIN p.items
          ELSE <<"item", c.addr>> \in over \/ (va \in DOMAIN p.items /\ p.items[va] = CanonicalTypeName(c.ty))
  /\ \A c \in ToSet(r.bookmarks) :
       \/ \E d \in ToSet(r.bookmarks) \ {c} : d.va = c.va /\ d.type = c.type
       \/ LET there == {b \in p.bookmarks : b.va = c.va /\ b.type = c.type}
          IN IF c.op = "delete" THEN there = {} ELSE \E b \in there : b.comment = c.comment
  /\ \A e \in ToSet(r.eqRenames) : <<"label", e.id>> \in over \/ \E q \in p.equates : q.name = e.name
  /\ \A e \in r.eqRefs : <<"ref", e.addr>> \in over \/ \E q \in p.equates : ToGhidra(e.addr) \in q.refs
  /\ \A e \in r.vars : <<"var", e.slot>> \in over \/ \E q \in p.vars : q.key = e.key /\ q.name = e.name
  /\ \A e \in r.newVars :
       \/ <<"var", e.slot>> \in over
       \/ \E q \in p.vars : /\ q.va = ToGhidra(e.slot[1]) /\ q.param /\ ~q.bad
                            /\ q.name = e.name /\ q.ord <= e.slot[3]
  /\ \A e \in r.sigs :
       \/ <<"sig", e.addr>> \in over
       \/ /\ e.ret # "" => p.sigs[e.key].ret = CanonicalTypeName(e.ret)
          /\ e.cc # "" => p.sigs[e.key].cc = GhidraCC[e.cc]

(***************************************************************************)
(* A check-in does what its preview showed: every entry is in the new      *)
(* version of the program, at Ghidra's address and in Ghidra's spelling,   *)
(* unless the bridge passed it over, or (a bookmark) another entry of the  *)
(* request is about a bookmark of the same type at the address.            *)
(***************************************************************************)
LandsAsShown ==
  [][Checkin \/ CheckinUnanswered => Landed(prog', review, Skipped(prog, review))]_vars

\* Two versions of a program agree outside a set of places.
SameOutside(p, q, places) ==
  /\ \A s \in (p.symbols \ q.symbols) \cup (q.symbols \ p.symbols) : <<"name", ToBn(s.va)>> \in places
  /\ \A va \in Address : LET changed == {c \in Columns : p.comments[va][c] # q.comments[va][c]}
                         IN /\ changed # {} => <<"comment", ToBn(va)>> \in places
                            /\ Cardinality(changed) <= 1
  /\ \A b \in (p.bookmarks \ q.bookmarks) \cup (q.bookmarks \ p.bookmarks) : <<"tag", ToBn(b.va)>> \in places
  /\ \A n \in DOMAIN p.types \cup DOMAIN q.types :
       \/ <<"type", n>> \in places
       \/ n \in DOMAIN p.types \cap DOMAIN q.types /\ p.types[n] = q.types[n]
  /\ \A va \in DOMAIN p.items \cup DOMAIN q.items :
       \/ <<"item", ToBn(va)>> \in places
       \/ va \in DOMAIN p.items \cap DOMAIN q.items /\ p.items[va] = q.items[va]
  /\ \A e \in p.equates : \/ <<"label", e.id>> \in places
                          \/ \E f \in q.equates : /\ f.id = e.id /\ f.name = e.name /\ e.refs \subseteq f.refs
                                                  /\ \A va \in f.refs \ e.refs : <<"ref", ToBn(va)>> \in places
  /\ \A x \in p.vars \ q.vars : <<"var", SlotToBn(SlotOf(x))>> \in places
  /\ \A x \in q.vars \ p.vars :
       \E i \in x.ord..Space : <<"var", <<ToBn(x.va), SlotOf(x)[2], i>>>> \in places
  /\ \A s \in p.symbols : s.func /\ p.sigs[s.key] # q.sigs[s.key] => <<"sig", ToBn(s.va)>> \in places

(***************************************************************************)
(* A check-in leaves alone what its preview does not show, also when the   *)
(* preview is older than the program: only the places shown, and the users *)
(* of a removed type, change.                                              *)
(***************************************************************************)
TouchesOnlyShown ==
  [][Checkin \/ CheckinUnanswered => SameOutside(prog, prog', Reach(prog, review))]_vars

\* Where the program and the view do not hold the same data: at the same
\* address, in either spelling, and names of analysis and import aside.
Apart(p, v) ==
  LET Names(a) == {s.name : s \in {x \in p.symbols : x.va = ToGhidra(a)}}
      Marks(a) == {[type |-> b.type, data |-> TagData(b.category, b.comment)] :
                     b \in {x \in p.bookmarks : x.va = ToGhidra(a)}}
      Tags(a) == {[type |-> t.type, data |-> t.data] : t \in {x \in BagToSet(v.tags) : x.addr = a}}
      ItemOf(a) == IF ToGhidra(a) \in DOMAIN p.items THEN p.items[ToGhidra(a)] ELSE ""
      DataOf(a) == IF a \in DOMAIN v.items THEN CanonicalTypeName(v.items[a]) ELSE ""
  IN {<<"name", a>> : a \in {x \in Address :
        /\ v.name[x] \notin Names(x)
        /\ Names(x) # {} \/ ~(v.name[x] = "" \/ IsAutoGeneratedSymbolName(v.name[x]))}}
     \cup {<<"comment", a>> : a \in {x \in Address :
             LET row == p.comments[ToGhidra(x)]
             IN v.comment[x] # MergedText(row) \/ (x \in v.funcs /\ v.funcComment[x] # row.plate)}}
     \cup {<<"tag", a>> : a \in {x \in Address : Tags(x) # Marks(x)}}
     \cup {<<"label", i>> : i \in {x \in DOMAIN v.eqType : \A e \in p.equates : e.name # v.eqType[x].label}}
     \cup {<<"ref", r.addr>> : r \in {x \in v.eqRef : \E e \in p.equates :
             e.name = v.eqType[x.id].label /\ ToGhidra(x.addr) \notin e.refs}}
     \cup {<<"type", n>> : n \in {x \in DOMAIN p.types \cup DOMAIN v.types :
             \/ x \notin DOMAIN p.types \cap DOMAIN v.types
             \/ Different(v.types[x].members, p.types[x].members)}}
     \cup {<<"item", a>> : a \in {x \in Address : ItemOf(x) # DataOf(x)}}
     \cup {<<"var", s>> : s \in {x \in DOMAIN v.vars :
             /\ ~IsAutoVar(x[2], v.vars[x].name)
             /\ \A q \in p.vars : \/ SlotToBn(SlotOf(q)) # x \/ q.name # v.vars[x].name
                                  \/ CanonicalTypeName(v.vars[x].ty) # q.ty}}
     \cup {<<"sig", ToBn(s.va)>> : s \in {x \in p.symbols :
             /\ x.func /\ v.sigs[ToBn(x.va)].user
             /\ LET f == v.sigs[ToBn(x.va)]
                IN \/ CanonicalTypeName(f.ret) # p.sigs[x.key].ret
                   \/ f.cc # DefaultCC /\ (f.cc \notin DOMAIN GhidraCC \/ p.sigs[x.key].cc # GhidraCC[f.cc])}}

\* Differences that the diff does not look for: a name or a comment that was
\* removed, the type of an item, a stack variable that has no key, the type of
\* a variable that was sent under its name, references to an equate under
\* another name than its type's, and the label of an equate that the program
\* no longer has under its key.
Undetected(p, v, b) ==
  {<<"name", a>> : a \in {x \in Address : v.name[x] = "" \/ IsAutoGeneratedSymbolName(v.name[x])}}
  \cup {<<"comment", a>> : a \in {x \in Address :
          LET row == p.comments[ToGhidra(x)]
          IN v.comment[x] \in {<<>>, MergedText(row)} /\ v.funcComment[x] \in {<<>>, row.plate}}}
  \cup {<<"item", a>> : a \in {x \in DOMAIN v.items : ToGhidra(x) \in DOMAIN p.items}}
  \cup {<<"var", s>> : s \in {x \in DOMAIN v.vars : x[2] = "stack" /\ SlotToGhidra(x) \notin DOMAIN b.slots}}
  \cup {<<"var", s>> : s \in {x \in DOMAIN v.vars : /\ SlotToGhidra(x) \in DOMAIN b.sent
          /\ \E q \in p.vars : SlotToBn(SlotOf(q)) = x /\ q.name = v.vars[x].name}}
  \cup {<<"ref", r.addr>> : r \in {x \in v.eqRef : v.eqType[x.id].name # v.eqType[x.id].label}}
  \cup {<<"label", i>> : i \in DOMAIN v.eqType \ DOMAIN b.eqName}

(***************************************************************************)
(* An edit cannot get lost: where the program and the view hold different  *)
(* data and nobody else has changed the program, the preview shows it, but *)
(* for what earlier check-ins passed over or changed on the side, what the *)
(* view cannot represent, what is written coarsely and what the diff does  *)
(* not look for.  (README.md, Testing: "the same compatible data ends up   *)
(* stored in both".)  After a check-in whose answer was lost the baseline  *)
(* is behind the program, and an edit that is taken back stays hidden.     *)
(***************************************************************************)
NothingHidden ==
  (fresh /\ theirs = {} /\ cycle # "lost") =>
    Apart(prog, view) \subseteq Shown(review) \cup beside \cup Lossy(prog) \cup Coarse(prog, view)
                                \cup Undetected(prog, view, base)

(***************************************************************************)
(* A fresh checkout with no edits shows an empty preview                   *)
(* (CanonicalParityTest.cpp:257).                                          *)
(***************************************************************************)
NoEditsNoPreview == (fresh /\ mine = {} /\ theirs = {}) => EmptyPreview(review)

=============================================================================
