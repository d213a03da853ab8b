----------------------------- MODULE SyncFuncs -----------------------------
(***************************************************************************)
(* Parameters, local variables and signatures of functions on their way    *)
(* from a Ghidra program into a Binary Ninja view and back.                *)
(*                                                                         *)
(* A program holds a symbol for each variable: a parameter by its ordinal, *)
(* a local by its stack offset.  Ghidra stores it at an address of its     *)
(* variable space; "bad" marks the symbols that earlier versions of the    *)
(* bridge wrote at an address in RAM.  A view has the variables its        *)
(* analysis finds: parameters, locals on the stack and locals in registers. *)
(* A slot <<function, kind, number>> names a variable, in a view by Binary *)
(* Ninja's address of the function and in the baseline by Ghidra's.        *)
(*                                                                         *)
(* The function table is that of Ghidra 11 and later, of which the export  *)
(* reads the return type and not the calling convention.                   *)
(***************************************************************************)
EXTENDS SyncTypes

DefaultCC == "win64"  \* of the platform

\* The name a convention has in the program's compiler specification: its own
\* or the one with two underscores before it.  The default has none.
GhidraCC == [fastcall |-> "__fastcall", vectorcall |-> "__vectorcall"]

\* Names by which each of the loops tells that nobody has chosen a name: a
\* prefix, or (in a register) the register's name.  "argc" has the prefix of
\* Binary Ninja's "arg1".
AutoVarNames == [param |-> {"", "arg1", "arg2", "argc"}, stack |-> {"", "var_4"}, reg |-> {"", "rax"}]

IsAutoVar(kind, name) == name \in AutoVarNames[kind]

FirstVarKey == 10  \* keys of variables are above those of the other symbols

SlotToGhidra(s) == <<ToGhidra(s[1]), s[2], s[3]>>
SlotToBn(s) == <<ToBn(s[1]), s[2], s[3]>>
SlotOf(p) == <<p.va, IF p.param THEN "param" ELSE "stack", p.ord>>

\* decode() has no address for the variable space: the variables exported are
\* those that are stored in the wrong place.
ExportVars(vars) == SetToSortSeq({p \in vars : p.bad}, LAMBDA p, q : p.key < q.key)

\* The return types, by the key of the function's symbol.
ExportSigs(sigs) == [k \in {x \in DOMAIN sigs : sigs[x].ret # ""} |-> sigs[k].ret]

\* resolveTypeName without a size: no type for an unknown name.
KnownType(view, ty) == ty \in DOMAIN view.types \cup GhidraPrimitives

\* One round of the import loop: a variable the view has, under an
\* auto-generated name, takes Ghidra's name, and its type if that is known.
ImportVar(view, p) ==
  LET s == SlotToBn(SlotOf(p))
  IN IF s \in DOMAIN view.vars /\ IsAutoVar(s[2], view.vars[s].name)
     THEN [view EXCEPT !.vars[s] = [name |-> p.name,
                                    ty |-> IF KnownType(view, p.ty) THEN BnSpelling(p.ty) ELSE @.ty]]
     ELSE view

ImportVars(view, vars) == FoldLeft(ImportVar, view, ExportVars(vars))

\* Signatures come after the data types.  The return type is set whatever the
\* view has; whether Binary Ninja lets it displace one that the user has set
\* with more confidence is left open.
ImportSigs(view, symbols, sigs, displaces) ==
  LET ret == ExportSigs(sigs)
      Typed(a) == {s \in symbols : /\ s.va # NoVa /\ ToBn(s.va) = a
                                   /\ s.key \in DOMAIN ret /\ KnownType(view, ret[s.key])}
  IN [view EXCEPT !.sigs = [a \in DOMAIN @ |->
        IF Typed(a) # {} /\ (displaces \/ ~view.sigs[a].user)
        THEN [view.sigs[a] EXCEPT !.ret = BnSpelling(ret[(CHOOSE s \in Typed(a) : TRUE).key]),
                                  !.user = TRUE]
        ELSE view.sigs[a]]]

\* m_paramKeyByAddrOrdinal, m_localKeyByAddrOffset and the names and types by
\* key; the maps of variables sent as new start empty.
FuncBaseline(vars, sigs) ==
  LET export == ExportVars(vars)
      slots == {SlotOf(p) : p \in ToSet(export)}
      Latest(s) == export[Max({i \in DOMAIN export : SlotOf(export[i]) = s})]
  IN [slots |-> [s \in slots |-> [key |-> Latest(s).key, name |-> Latest(s).name, ty |-> Latest(s).ty]],
      sent  |-> <<>>,
      ret   |-> ExportSigs(sigs),
      cc    |-> <<>>]

\* Variables with a key: a new name, or the old one with a new type.
CollectVars(view, base) ==
  LET tracked == {s \in DOMAIN view.vars : SlotToGhidra(s) \in DOMAIN base.slots}
      Old(s) == base.slots[SlotToGhidra(s)]
      Renamed(s) == view.vars[s].name # Old(s).name /\ ~IsAutoVar(s[2], view.vars[s].name)
      Retyped(s) == CanonicalTypeName(view.vars[s].ty) # CanonicalTypeName(Old(s).ty)
  IN {[slot |-> s, key |-> Old(s).key,
       name |-> IF Renamed(s) THEN view.vars[s].name ELSE Old(s).name,
       ty |-> IF Retyped(s) THEN view.vars[s].ty ELSE ""] : s \in {x \in tracked : Renamed(x) \/ Retyped(x)}}

\* Mutant: a variable that was sent once is not sent again.
CollectNewVarsOnce(view, base) ==
  {[slot |-> s, name |-> view.vars[s].name, ty |-> view.vars[s].ty] :
     s \in {x \in DOMAIN view.vars :
              /\ x[2] \in {"param", "reg"} /\ SlotToGhidra(x) \notin DOMAIN base.slots \cup DOMAIN base.sent
              /\ ~IsAutoVar(x[2], view.vars[x].name)}}

\* Parameters and register variables without a key, unless they were sent
\* under their name before.
CollectNewVars(view, base) ==
  {[slot |-> s, name |-> view.vars[s].name, ty |-> view.vars[s].ty] :
     s \in {x \in DOMAIN view.vars :
              /\ x[2] \in {"param", "reg"} /\ SlotToGhidra(x) \notin DOMAIN base.slots
              /\ ~IsAutoVar(x[2], view.vars[x].name)
              /\ ~(/\ SlotToGhidra(x) \in DOMAIN base.sent
                   /\ base.sent[SlotToGhidra(x)] = view.vars[x].name)}}

\* Functions typed by the user or by an import.  The first loop takes those
\* whose convention has been sent before and leaves a return type without a
\* baseline alone; the second takes the rest.
CollectSig(view, base, a) ==
  LET k == base.key[a]
      f == view.sigs[a]
      cc == IF k \in DOMAIN base.cc
            THEN IF f.cc # base.cc[k] THEN f.cc ELSE ""
            ELSE IF f.cc # DefaultCC THEN f.cc ELSE ""
      ret == IF k \in DOMAIN base.ret
             THEN IF CanonicalTypeName(f.ret) # CanonicalTypeName(base.ret[k]) THEN f.ret ELSE ""
             ELSE IF k \in DOMAIN base.cc /\ cc # "" THEN "" ELSE f.ret
  IN [addr |-> a, key |-> k, cc |-> cc, ret |-> ret]

CollectSigs(view, base) ==
  {c \in {CollectSig(view, base, a) : a \in {x \in DOMAIN view.sigs \cap DOMAIN base.key : view.sigs[x].user}} :
     c.cc # "" \/ c.ret # ""}

-----------------------------------------------------------------------------
\* The bridge.

\* Every check-in first removes the symbols stored in the wrong place.
CleanupBadVariableSymbols(vars) == {p \in vars : ~p.bad}

\* A function has no two variables of one name (external).
FreeName(vars, p, name) == \A q \in vars : q.va = p.va /\ q.name = name => q.key = p.key

Retype(types, p, ty) == IF Resolvable(DOMAIN types, ty) THEN [p EXCEPT !.ty = NormalizePrimitives(ty)] ELSE p

RenameVar(vars, types, p, c) ==
  IF FreeName(vars, p, c.name)
  THEN (vars \ {p}) \cup {Retype(types, [p EXCEPT !.name = c.name], c.ty)}
  ELSE vars

\* An entry with a key is about the symbol of that key, if there is one.
ApplyVar(vars, types, c) ==
  LET found == {p \in vars : p.key = c.key}
  IN IF found = {} THEN vars ELSE RenameVar(vars, types, CHOOSE p \in found : TRUE, c)

\* An entry without one is about the parameter of that ordinal; beyond the
\* last a parameter is appended.  Register variables and functions that the
\* program does not have are passed over.
ApplyNewVar(vars, types, entries, c) ==
  LET va == ToGhidra(c.slot[1])
      params == {p \in vars : p.va = va /\ p.param}
      at == {p \in params : p.ord = c.slot[3]}
      new == [key |-> 1 + Max({FirstVarKey} \cup {p.key : p \in vars}), va |-> va, param |-> TRUE,
              ord |-> Cardinality(params), name |-> c.name, ty |-> "undefined", bad |-> FALSE]
  IN IF c.slot[2] = "reg" \/ va \notin entries THEN vars
     ELSE IF at # {} THEN RenameVar(vars, types, CHOOSE p \in at : TRUE, c)
     ELSE IF FreeName(vars, new, c.name) THEN vars \cup {Retype(types, new, c.ty)}
     ELSE vars

\* The request lists the parameters of a function by their ordinal, after the
\* variables that have a key.
InOrder(news) == SetToSortSeq(news, LAMBDA c, d : c.slot[3] < d.slot[3])

ApplyNewVars(vars, types, entries, news) ==
  FoldLeft(LAMBDA vs, c : ApplyNewVar(vs, types, entries, c), vars, news)

ApplyKeyedVars(vars, types, changes) ==
  FoldLeft(LAMBDA vs, c : ApplyVar(vs, types, c), CleanupBadVariableSymbols(vars), SetToSeq(changes))

ApplyVars(vars, types, entries, changes, news) ==
  ApplyNewVars(ApplyKeyedVars(vars, types, changes), types, entries, InOrder(news))

\* Entries without a key that leave the program without what they ask for.
PassedOver(vars, types, entries, news) ==
  LET seq == InOrder(news)
      Before(i) == ApplyNewVars(vars, types, entries, SubSeq(seq, 1, i - 1))
      Missing(i) == \A p \in Before(i) : SlotToBn(SlotOf(p)) = seq[i].slot => p.name # seq[i].name
  IN {seq[i].slot : i \in {j \in DOMAIN seq : Missing(j) /\ Before(j + 1) = Before(j)}}

\* A signature is found by the key of the function's symbol.
ApplySig(sigs, types, c) ==
  IF c.key \in DOMAIN sigs
  THEN [sigs EXCEPT ![c.key] =
          [ret |-> IF Resolvable(DOMAIN types, c.ret) THEN NormalizePrimitives(c.ret) ELSE @.ret,
           cc  |-> IF c.cc \in DOMAIN GhidraCC THEN GhidraCC[c.cc] ELSE @.cc]]
  ELSE sigs

ApplySigs(sigs, types, changes) ==
  FoldLeft(LAMBDA ss, c : ApplySig(ss, types, c), sigs, SetToSeq(changes))

\* A removed type leaves the functions that return it without one (external).
ClearSigs(sigs, types) ==
  [k \in DOMAIN sigs |-> IF sigs[k].ret \in GhidraPrimitives \cup DOMAIN types THEN sigs[k]
                         ELSE [sigs[k] EXCEPT !.ret = ""]]

\* The baseline takes what was sent, whether it was applied or not.
AdvanceFuncs(base, changes, news, sigs) ==
  LET Change(s) == {c \in changes : SlotToGhidra(c.slot) = s}
      sentKeys(field) == {c.key : c \in {x \in sigs : x[field] # ""}}
      Of(k) == CHOOSE c \in sigs : c.key = k
  IN [slots |-> [s \in DOMAIN base.slots |->
                   IF Change(s) = {} THEN base.slots[s]
                   ELSE LET c == CHOOSE x \in Change(s) : TRUE
                        IN [base.slots[s] EXCEPT !.name = c.name, !.ty = IF c.ty # "" THEN c.ty ELSE @]],
      sent  |-> [s \in {SlotToGhidra(c.slot) : c \in news} |->
                   (CHOOSE c \in news : SlotToGhidra(c.slot) = s).name] @@ base.sent,
      ret   |-> [k \in sentKeys("ret") |-> Of(k).ret] @@ base.ret,
      cc    |-> [k \in sentKeys("cc") |-> Of(k).cc] @@ base.cc]

=============================================================================
