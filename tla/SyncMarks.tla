----------------------------- MODULE SyncMarks -----------------------------
(***************************************************************************)
(* Bookmarks and equates on their way from a Ghidra program into a Binary  *)
(* Ninja view and back.                                                    *)
(*                                                                         *)
(* A bookmark becomes a data tag whose text holds the category in brackets *)
(* before the comment.  A text is a sequence of tokens; the token "]"      *)
(* stands for the bracket and the blank after it.  An equate becomes an    *)
(* enum type with one member, found again by a type id made from the       *)
(* equate's database key, and a display override at each of its            *)
(* references; all references are in functions of the view.                *)
(***************************************************************************)
EXTENDS Annotations, SequencesExt, BagsExt, TLC

TagData(category, comment) ==
  (IF category # <<>> THEN <<"[">> \o category \o <<"]">> ELSE <<>>) \o comment

\* How the check-in reads a tag's text: a text that opens a bracket and does
\* not close it is read as nothing at all.
ParseTagData(data) ==
  LET close == SelectInSeq(data, LAMBDA t : t = "]")
  IN IF data # <<>> /\ data[1] = "["
     THEN IF close # 0
          THEN [category |-> SubSeq(data, 2, close - 1), comment |-> SubSeq(data, close + 1, Len(data))]
          ELSE [category |-> <<>>, comment |-> <<>>]
     ELSE [category |-> <<>>, comment |-> data]

\* Each import adds a tag for each bookmark, whether it is there or not.
ImportBookmarks(view, bookmarks) ==
  [view EXCEPT !.tags = @ (+) SetToBag({[addr |-> ToBn(b.va), type |-> b.type,
                                         data |-> TagData(b.category, b.comment)] : b \in bookmarks})]

BookmarkBaseline(bookmarks) ==
  {[va |-> b.va, type |-> b.type, data |-> TagData(b.category, b.comment)] : b \in bookmarks}

\* The tags of the view as keys in Ghidra's address space.
CurrentKeys(view) ==
  {[va |-> ToGhidra(t.addr), type |-> t.type, data |-> t.data] : t \in BagToSet(view.tags)}

\* Added keys in some order (that of an unordered set), then removed ones,
\* of which the request names only the address and the type.
CollectBookmarks(view, base) ==
  LET Change(op, k, parsed) == [op |-> op, va |-> k.va, type |-> k.type,
                                category |-> parsed.category, comment |-> parsed.comment]
      adds == {Change("add", k, ParseTagData(k.data)) : k \in CurrentKeys(view) \ base.marks}
      dels == {Change("delete", k, ParseTagData(<<>>)) : k \in base.marks \ CurrentKeys(view)}
  IN {a \o d : a \in SetToSeqs(adds), d \in SetToSeqs(dels)}

\* setBookmark keeps one bookmark per address, type and category; a removal
\* takes every bookmark of the type at the address.
ApplyBookmark(bookmarks, c) ==
  IF c.op = "delete"
  THEN {b \in bookmarks : ~(b.va = c.va /\ b.type = c.type)}
  ELSE {b \in bookmarks : ~(b.va = c.va /\ b.type = c.type /\ b.category = c.category)}
       \cup {[va |-> c.va, type |-> c.type, category |-> c.category, comment |-> c.comment]}

ApplyBookmarks(bookmarks, changes) == FoldLeft(ApplyBookmark, bookmarks, changes)

\* The key is made anew from the change, which for a removal has no text.
AdvanceBookmark(marks, c) ==
  LET key == [va |-> c.va, type |-> c.type, data |-> TagData(c.category, c.comment)]
  IN IF c.op = "add" THEN marks \cup {key} ELSE marks \ {key}

AdvanceBookmarks(marks, changes) == FoldLeft(AdvanceBookmark, marks, changes)

-----------------------------------------------------------------------------
\* Equates.

\* Equates without references are not exported.
ExportEquates(equates) ==
  SetToSortSeq({e \in equates : e.refs # {}}, LAMBDA e, f : e.id < f.id)

\* An enum whose label the user has changed is a type of the user, which
\* DefineType() does not replace.
ImportEquate(view, e) ==
  LET refs == {[addr |-> ToBn(va), value |-> e.value, id |-> e.id] : va \in e.refs}
      relabelled == e.id \in DOMAIN view.eqType
                    /\ view.eqType[e.id].label # view.eqType[e.id].name
  IN [view EXCEPT
        !.eqType = IF relabelled THEN @ ELSE (e.id :> [name |-> e.name, label |-> e.name]) @@ @,
        !.eqRef = {r \in @ : \A n \in refs : r.addr # n.addr \/ r.value # n.value} \cup refs]

ImportEquates(view, equates) == FoldLeft(ImportEquate, view, ExportEquates(equates))

EquateBaseline(equates) ==
  LET export == ToSet(ExportEquates(equates))
      ids == {e.id : e \in export}
      WithId(id) == CHOOSE e \in export : e.id = id
  IN [eqName |-> [id \in ids |-> WithId(id).name], eqRefs |-> [id \in ids |-> WithId(id).refs]]

Tracked(view, base) == DOMAIN base.eqName \cap DOMAIN view.eqType

CollectEquateRenames(view, base) ==
  SetToSeqs({[id |-> id, name |-> view.eqType[id].label] :
               id \in {x \in Tracked(view, base) : view.eqType[x].label # base.eqName[x]}})

\* References are looked up under the baseline's name of the type.
CollectEquateRefs(view, base) ==
  {[id |-> r.id, addr |-> r.addr] :
     r \in {x \in view.eqRef : /\ x.id \in Tracked(view, base)
                               /\ view.eqType[x.id].name = base.eqName[x.id]
                               /\ ToGhidra(x.addr) \notin base.eqRefs[x.id]}}

\* A rename removes the equate and creates another, under a new key.  The
\* removal stands even when the new name is taken and cannot be created.
RenameEquate(equates, r) ==
  IF \E e \in equates : e.id = r.id
  THEN LET old == CHOOSE e \in equates : e.id = r.id
           rest == equates \ {old}
       IN IF \E e \in rest : e.name = r.name
          THEN rest
          ELSE rest \cup {[old EXCEPT !.id = 1 + Max({e.id : e \in equates}), !.name = r.name]}
  ELSE equates

AddEquateRef(equates, r) ==
  {IF e.id = r.id THEN [e EXCEPT !.refs = @ \cup {ToGhidra(r.addr)}] ELSE e : e \in equates}

\* All renames, in the order of an unordered map, then the new references,
\* which name the equate by its key.
ApplyEquates(equates, renames, refs) ==
  FoldLeft(AddEquateRef, FoldLeft(RenameEquate, equates, renames), SetToSeq(refs))

AdvanceEquates(base, renames, refs) ==
  [eqName |-> [id \in DOMAIN base.eqName |->
                 IF \E r \in ToSet(renames) : r.id = id
                 THEN (CHOOSE r \in ToSet(renames) : r.id = id).name ELSE base.eqName[id]],
   eqRefs |-> [id \in DOMAIN base.eqRefs |->
                 base.eqRefs[id] \cup {ToGhidra(r.addr) : r \in {x \in refs : x.id = id}}]]

=============================================================================
