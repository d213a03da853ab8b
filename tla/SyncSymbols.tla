---------------------------- MODULE SyncSymbols ----------------------------
(***************************************************************************)
(* Symbol names on their way from a Ghidra program into a Binary Ninja     *)
(* view and back: the exporter's table, the import (SyncEngine), the       *)
(* baseline kept for check-in and the diff against it (GhidraConnection),  *)
(* the request (GhidraJson) and its application to the program             *)
(* (ProgramApplier).  Every operator takes the program's symbols, the view *)
(* or the baseline it reads as an argument.                                *)
(*                                                                         *)
(* A program has a set of symbols, several of which may share an address;  *)
(* a view has one name per address.                                        *)
(***************************************************************************)
EXTENDS Annotations, SequencesExt

\* Names analysis gives to things nobody has named: the importer's list of
\* them, and the longer list of the check-in diff.
IsAutoGenName(n) == n = "sub_"
IsAutoGeneratedSymbolName(n) == n \in {"sub_", "data_"}

\* The symbols of the export, in the order of their keys.
ExportSymbols(symbols) ==
  SetToSortSeq({s \in symbols : s.name # "" /\ s.va # NoVa}, LAMBDA s, t : s.key < t.key)

\* Mutant: the name is taken whatever the view has.
ImportSymbolAlways(view, s) ==
  [view EXCEPT !.name[ToBn(s.va)] = s.name, !.funcs = IF s.func THEN @ \cup {ToBn(s.va)} ELSE @]

\* One round of the import loop: the name is taken unless the view already
\* has another one that is not auto-generated; a function the view lacks is
\* created.
ImportSymbol(view, s) ==
  LET a == ToBn(s.va)
      existing == view.name[a]
  IN [view EXCEPT !.name[a] = IF existing \in {"", s.name} \/ IsAutoGenName(existing)
                              THEN s.name ELSE @,
                  !.funcs = IF s.func THEN @ \cup {a} ELSE @]

ImportSymbols(view, symbols) == FoldLeft(ImportSymbol, view, ExportSymbols(symbols))

\* addrToKey and addrToOriginalName: the last symbol exported at an address
\* is the baseline, whatever name the view kept.
SymbolBaseline(symbols) ==
  LET exported == ToSet(ExportSymbols(symbols))
      LastAt(a) == CHOOSE s \in exported :
                     ToBn(s.va) = a /\ \A t \in exported : ToBn(t.va) = a => t.key <= s.key
      addrs == {ToBn(s.va) : s \in exported}
  IN [key  |-> [a \in addrs |-> LastAt(a).key],
      name |-> [a \in addrs |-> LastAt(a).name]]

CollectRenames(view, base) ==
  {[key |-> base.key[a], addr |-> a, name |-> view.name[a]] :
     a \in {x \in DOMAIN base.key : view.name[x] \notin {"", base.name[x]}}}

CollectNewSymbols(view, base) ==
  {[addr |-> a, name |-> view.name[a]] :
     a \in {x \in Address \ DOMAIN base.key :
              /\ view.name[x] # "" /\ ~IsAutoGeneratedSymbolName(view.name[x])
              /\ ~(x \in DOMAIN base.name /\ base.name[x] = view.name[x])}}

\* A program has no two symbols of one name at one address: the rename of a
\* second symbol to that name raises DuplicateNameException and is skipped.
CanRename(symbols, r) ==
  \E s \in symbols : /\ s.key = r.key
                     /\ \A t \in symbols : t.va = s.va /\ t.key # s.key => t.name # r.name

RenameSymbol(symbols, r) ==
  IF CanRename(symbols, r)
  THEN {IF s.key = r.key THEN [s EXCEPT !.name = r.name] ELSE s : s \in symbols}
  ELSE symbols

\* createLabel finds the label if it is there already.
CreateLabel(symbols, n) ==
  LET va == ToGhidra(n.addr)
  IN IF \E s \in symbols : s.va = va /\ s.name = n.name
     THEN symbols
     ELSE symbols \cup {[key |-> 1 + Max({0} \cup {s.key : s \in symbols}),
                         va |-> va, name |-> n.name, func |-> FALSE]}

\* Renames first, then new symbols, each in the order of an unordered map.
ApplySymbols(symbols, renames, news) ==
  FoldLeft(CreateLabel, FoldLeft(RenameSymbol, symbols, SetToSeq(renames)), SetToSeq(news))

\* After a check-in the baseline holds what was sent.
AdvanceSymbols(base, renames, news) ==
  LET sent == renames \cup news
      addrs == {e.addr : e \in sent}
  IN [a \in DOMAIN base.name \cup addrs |->
        IF a \in addrs THEN (CHOOSE e \in sent : e.addr = a).name ELSE base.name[a]]

=============================================================================
