----------------------------- MODULE SyncTypes -----------------------------
(***************************************************************************)
(* Data types and typed data items on their way from a Ghidra program into *)
(* a Binary Ninja view and back.  A type has a kind and a sequence of      *)
(* members: the fields of a struct, the constants of an enum, or the one   *)
(* type behind a typedef.  A field may be unnamed in Ghidra.  All fields   *)
(* are four bytes wide, so that a member's place is its offset.            *)
(***************************************************************************)
EXTENDS Annotations, SequencesExt, TLC

CONSTANT TypeNames  \* the names of types, in alphabetical order

Kinds == {"struct", "enum", "typedef"}
KindOrder == [struct |-> 1, enum |-> 2, typedef |-> 3]

\* The export lists structs, then enums, then typedefs, each by key.
ExportTypes(types) ==
  SetToSortSeq(DOMAIN types,
    LAMBDA m, n : LET k == KindOrder[types[m].kind]
                      l == KindOrder[types[n].kind]
                  IN k < l \/ (k = l /\ types[m].id < types[n].id))

\* resolveTypeName: a type the view has, a primitive, or an unsigned integer
\* as wide as the member.
ResolveTypeName(known, ty) ==
  IF ty \in known THEN ty ELSE IF ty \in GhidraPrimitives THEN BnSpelling(ty) ELSE "uint32_t"

\* One round of the import loop.  A struct loses its unnamed members, and a
\* member's type is looked up among the types the view has at that moment.
\* A type the user has defined is not replaced.
ImportType(view, types, n) ==
  LET t == types[n]
      named == SelectSeq(t.members, LAMBDA m : m.name # "")
      members == IF t.kind = "struct"
                 THEN [i \in DOMAIN named |->
                         [named[i] EXCEPT !.ty = ResolveTypeName(DOMAIN view.types, @)]]
                 ELSE t.members
  IN IF n \in DOMAIN view.types /\ view.types[n].user
     THEN view
     ELSE [view EXCEPT !.types = (n :> [kind |-> t.kind, members |-> members, user |-> FALSE]) @@ @]

ImportTypes(view, types) == FoldLeft(LAMBDA v, n : ImportType(v, types, n), view, ExportTypes(types))

\* The diff of one type: number, names and canonical type names of members.
Different(mine, theirs) ==
  \/ Len(mine) # Len(theirs)
  \/ \E i \in DOMAIN mine : \/ mine[i].name # theirs[i].name \/ mine[i].off # theirs[i].off
                            \/ CanonicalTypeName(mine[i].ty) # CanonicalTypeName(theirs[i].ty)

\* Types of the user or of the baseline that differ, and types of the
\* baseline that the view no longer has.  Types without members are passed
\* over.
CollectTypes(view, base) ==
  LET Change(op, n, t) == [op |-> op, name |-> n, kind |-> t.kind, members |-> t.members]
      named == {n \in DOMAIN view.types : view.types[n].members # <<>>}
  IN {Change("add", n, view.types[n]) :
        n \in {x \in named : view.types[x].user /\ x \notin DOMAIN base.types}}
     \cup {Change("update", n, view.types[n]) :
             n \in {x \in named \cap DOMAIN base.types :
                      Different(view.types[x].members, base.types[x].members)}}
     \cup {Change("delete", n, [base.types[n] EXCEPT !.members = <<>>]) :
             n \in DOMAIN base.types \ DOMAIN view.types}

-----------------------------------------------------------------------------
\* The bridge: resolveDataType and applyDataTypes.

Resolvable(names, ty) == NormalizePrimitives(ty) \in GhidraPrimitives \cup names

\* A member whose type is unknown keeps its place as undefined bytes.
ResolveMember(names, m) ==
  [m EXCEPT !.ty = IF Resolvable(names, @) THEN NormalizePrimitives(@) ELSE "undefined4"]

\* Ghidra removes the typedefs of a removed type with it and leaves undefined
\* bytes where a struct used one of them (external).
RemovedWith(types, n) ==
  LET gone[i \in 0..Cardinality(DOMAIN types)] ==
        IF i = 0 THEN {n}
        ELSE gone[i-1] \cup {m \in DOMAIN types : types[m].kind = "typedef"
                                                /\ types[m].members[1].ty \in gone[i-1]}
  IN gone[Cardinality(DOMAIN types)]

RemoveType(types, n) ==
  LET gone == RemovedWith(types, n)
  IN [m \in DOMAIN types \ gone |->
        [types[m] EXCEPT !.members =
           [i \in DOMAIN @ |-> IF @[i].ty \in gone THEN [@[i] EXCEPT !.ty = "undefined4"] ELSE @[i]]]]

\* The second pass for one change; "names" are the types known once the stubs
\* of the first pass exist.  A type is found by its name: it keeps its key, a
\* new one gets the next.
ApplyType(types, names, c) ==
  LET id == IF c.name \in DOMAIN types THEN types[c.name].id
            ELSE 1 + Max({0} \cup {types[n].id : n \in DOMAIN types})
      members == IF c.kind = "enum" THEN c.members
                 ELSE [i \in DOMAIN c.members |-> ResolveMember(names, c.members[i])]
  IN CASE c.op = "delete" -> RemoveType(types, c.name)
       [] c.op # "delete" /\ c.kind = "typedef" /\ ~Resolvable(names, c.members[1].ty) -> types
       [] OTHER -> (c.name :> [id |-> id, kind |-> c.kind, members |-> members]) @@ types

\* A request lists the types by name, the order of GetTypes, and the removals
\* after them.
ApplyTypes(types, changes) ==
  LET sent == {c \in changes : c.op # "delete"}
      stubs == {c.name : c \in {x \in sent : x.kind # "typedef"}}
      Place(c) == SelectInSeq(TypeNames, LAMBDA n : n = c.name)
  IN FoldLeft(LAMBDA ts, c : ApplyType(ts, DOMAIN ts \cup stubs, c), types,
              SetToSortSeq(sent, LAMBDA c, d : Place(c) < Place(d)) \o SetToSeq(changes \ sent))

\* The baseline takes the types as they were sent.
AdvanceTypes(baseTypes, changes) ==
  LET gone == {c.name : c \in {x \in changes : x.op = "delete"}}
      sent == {c \in changes : c.op # "delete"}
      names == {c.name : c \in sent}
  IN [n \in (DOMAIN baseTypes \ gone) \cup names |->
        IF n \in names
        THEN LET c == CHOOSE x \in sent : x.name = n
             IN [id |-> IF n \in DOMAIN baseTypes THEN baseTypes[n].id ELSE 0,
                 kind |-> c.kind, members |-> c.members]
        ELSE baseTypes[n]]

-----------------------------------------------------------------------------
\* Typed data items: the type of the data at an address.

\* An item becomes a user data variable if its type is one of the exported
\* data types; primitives are not among them.
ImportItems(view, types, items) ==
  LET known == {va \in DOMAIN items : items[va] \in DOMAIN types \cap DOMAIN view.types}
  IN [view EXCEPT !.items = [a \in {ToBn(va) : va \in known} |-> items[ToGhidra(a)]] @@ @]

\* Addresses only: what was typed and what no longer is.
CollectItems(view, base) ==
  {[op |-> "add", addr |-> a, ty |-> view.items[a]] :
     a \in {x \in DOMAIN view.items : ToGhidra(x) \notin base.items}}
  \cup {[op |-> "delete", addr |-> ToBn(va), ty |-> ""] :
          va \in {x \in base.items : ToBn(x) \notin DOMAIN view.items}}

ApplyItem(items, types, c) ==
  LET va == ToGhidra(c.addr)
  IN IF c.op = "delete" THEN Restrict(items, DOMAIN items \ {va})
     ELSE IF Resolvable(DOMAIN types, c.ty) THEN (va :> NormalizePrimitives(c.ty)) @@ items
     ELSE items

ApplyItems(items, types, changes) ==
  FoldLeft(LAMBDA i, c : ApplyItem(i, types, c), items, SetToSeq(changes))

AdvanceItems(baseItems, changes) ==
  (baseItems \cup {ToGhidra(c.addr) : c \in {x \in changes : x.op = "add"}})
  \ {ToGhidra(c.addr) : c \in {x \in changes : x.op = "delete"}}

\* Ghidra clears the data of a type that is removed (external).
ClearItems(items, types) ==
  Restrict(items, {va \in DOMAIN items : items[va] \in GhidraPrimitives \cup DOMAIN types})

=============================================================================
