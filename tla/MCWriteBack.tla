---------------------------- MODULE MCWriteBack ----------------------------
(***************************************************************************)
(* Three addresses, a function at Ghidra's 0 and data at Ghidra's 1, which *)
(* Binary Ninja loads one address further on, the last wrapping around.    *)
(* Each program brings out some of the shapes that the two tools represent *)
(* differently.                                                            *)
(***************************************************************************)
EXTENDS WriteBack

Sym(k, va, n, f) == [key |-> k, va |-> va, name |-> n, func |-> f]
Fld(n, off, ty) == [name |-> n, off |-> off, ty |-> ty]
Row(c, text) == [NoComment EXCEPT ![c] = text]

Plain == [symbols |-> {Sym(1, 0, "main", TRUE), Sym(2, NoVa, "ext", FALSE)},
          comments |-> (0 :> Row("pre", <<"t1">>)) @@ (1 :> NoComment) @@ (2 :> NoComment),
          equates |-> {}, bookmarks |-> {}, types |-> <<>>, items |-> <<>>, vars |-> {},
          sigs |-> (1 :> [ret |-> "", cc |-> ""])]

Crowded == [Plain EXCEPT
  !.symbols = {Sym(1, 0, "main", TRUE), Sym(2, 0, "alias", FALSE)},
  !.comments = (0 :> [Row("eol", <<"t1">>) EXCEPT !.plate = <<"t2">>])
               @@ (1 :> [Row("pre", <<"t1">>) EXCEPT !.post = <<"t2">>])
               @@ (2 :> NoComment)]

Marked == [Plain EXCEPT
  !.equates = {[id |-> 1, name |-> "E1", value |-> 5, refs |-> {0}],
               [id |-> 2, name |-> "E2", value |-> 7, refs |-> {0}]},
  !.bookmarks = {[va |-> 0, type |-> "Note", category |-> <<"c">>, comment |-> <<"t1">>]}]

Typed == [Plain EXCEPT
  !.types = ("S" :> [id |-> 1, kind |-> "struct", members |-> <<Fld("f", 0, "int")>>])
            @@ ("T" :> [id |-> 2, kind |-> "typedef", members |-> <<Fld("", 0, "S")>>]),
  !.items = (1 :> "S")]

Shaped == [Plain EXCEPT
  !.types = ("S" :> [id |-> 1, kind |-> "struct",
                     members |-> <<Fld("f", 0, "G"), Fld("", 4, "int")>>])
            @@ ("G" :> [id |-> 2, kind |-> "enum", members |-> <<Fld("on", 1, "")>>]),
  !.items = (0 :> "int") @@ (1 :> "S")]

Var(k, va, i, n, ty, bad) ==
  [key |-> k, va |-> va, param |-> TRUE, ord |-> i, name |-> n, ty |-> ty, bad |-> bad]

Called == [Plain EXCEPT !.vars = {Var(11, 0, 0, "len", "int", FALSE)}, !.sigs = (1 :> [ret |-> "int", cc |-> ""])]

Damaged == [Called EXCEPT
  !.types = ("S" :> [id |-> 1, kind |-> "struct", members |-> <<Fld("f", 0, "int")>>]),
  !.vars = {Var(11, 0, 0, "len", "int", TRUE), Var(12, 0, 1, "buf", "S", TRUE),
            [Var(13, 0, 4, "tmp", "int", TRUE) EXCEPT !.param = FALSE]},
  !.sigs = (1 :> [ret |-> "S", cc |-> ""])]

Analysed ==
  [name |-> (ToBn(0) :> "sub_") @@ (ToBn(1) :> "data_") @@ (ToBn(2) :> ""), funcs |-> {ToBn(0)},
   comment |-> [a \in Address |-> <<>>], funcComment |-> [a \in Address |-> <<>>],
   tags |-> EmptyBag, eqType |-> <<>>, eqRef |-> {}, types |-> <<>>, items |-> <<>>,
   vars |-> <<>>, sigs |-> (ToBn(0) :> [ret |-> "uint32_t", cc |-> DefaultCC, user |-> FALSE])]

\* Variables that the decompiler has found, of two functions.
Decompiled(slots) ==
  LET Found == ("param" :> "arg1") @@ ("stack" :> "var_4") @@ ("reg" :> "rax")
  IN [Analysed EXCEPT !.funcs = {ToBn(0), ToBn(1)},
                      !.vars = [s \in slots |-> [name |-> Found[s[2]], ty |-> "int32_t"]]]

Passed == Decompiled({ToBn(0)} \X {"param"} \X {0, 1} \cup {<<ToBn(0), "reg", 0>>})
Stacked == Decompiled({<<ToBn(0), "param", 0>>, <<ToBn(0), "stack", 4>>, <<ToBn(1), "param", 0>>})

Nothing == [names |-> {}, texts |-> {}, columns |-> {}, labels |-> {}, tags |-> {},
            types |-> <<>>, itemTypes |-> {}, varNames |-> {}, varTypes |-> {}, returnTypes |-> {},
            conventions |-> {}]

\* Kinds that no operation mixes are edited in scenes of their own, and
\* together in Erasing and Recalling.
Naming == [Nothing EXCEPT !.names = {"mine"}]
Commenting == [Nothing EXCEPT !.texts = {<<"t3">>}]
Erasing == [Nothing EXCEPT !.names = {"sub_"}, !.texts = {<<"t3">>, <<>>}, !.columns = {"plate"}]

Labelling == [Nothing EXCEPT !.labels = {"E2", "E3"}]
Tagging == [Nothing EXCEPT
  !.tags = {[addr |-> ToBn(0), type |-> "Note", data |-> d] : d \in {<<"t3">>, <<"[", "c", "]", "t3">>}}]

Typing == [Nothing EXCEPT
  !.types = ("S" :> [kind |-> "struct", members |-> <<Fld("f", 0, "int32_t"), Fld("g", 4, "N")>>])
            @@ ("N" :> [kind |-> "typedef", members |-> <<Fld("", 0, "uint32_t")>>]),
  !.itemTypes = {"N"}]
Reshaping == [Typing EXCEPT !.types = [n \in {"S"} |-> @[n]], !.itemTypes = {}]
Retyping == [Nothing EXCEPT !.itemTypes = {"int"}]

Passing == [Nothing EXCEPT !.varNames = {"argc", "count", "size"}, !.varTypes = {"uint32_t"}]
Returning == [Nothing EXCEPT !.returnTypes = {"uint32_t"}, !.conventions = {"fastcall"}]
Recalling == [Nothing EXCEPT !.varNames = {"count"}, !.returnTypes = {"uint32_t"}]
Recasting == [Nothing EXCEPT !.varTypes = {"uint32_t"}]

TypeNamesDef == <<"G", "N", "S", "T">>

Scene(p, v, i) == [prog |-> p, view |-> v, inputs |-> i]

ScenariosDef ==
  {Scene(Plain, Analysed, Erasing), Scene(Crowded, Analysed, Naming), Scene(Crowded, Analysed, Commenting),
   Scene(Marked, Analysed, Labelling), Scene(Marked, Analysed, Tagging),
   Scene(Typed, Analysed, Typing), Scene(Typed, Analysed, Retyping), Scene(Shaped, Analysed, Reshaping),
   Scene(Called, Passed, Passing), Scene(Called, Passed, Returning),
   Scene(Damaged, Stacked, Recalling), Scene(Damaged, Stacked, Recasting)}
=============================================================================
