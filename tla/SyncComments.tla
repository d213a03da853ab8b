---------------------------- MODULE SyncComments ----------------------------
(***************************************************************************)
(* Comments on their way from a Ghidra program into a Binary Ninja view    *)
(* and back.  A program has five comment columns per address, each a       *)
(* sequence of lines; a view has one comment per address and one per       *)
(* function.  The four address columns are merged into the view's comment, *)
(* the plate column becomes the comment of the function that starts there. *)
(***************************************************************************)
EXTENDS Annotations, SequencesExt, TLC

AddressColumns == {"eol", "rep", "pre", "post"}
Columns == AddressColumns \cup {"plate"}
NoComment == [c \in Columns |-> <<>>]

Filled(row) == {c \in AddressColumns : row[c] # <<>>}

\* The columns joined by newlines, in the order of commParts.
MergedText(row) == row.eol \o row.rep \o row.pre \o row.post

\* Where the text goes back to: its own column, or "eol" if it was merged.
SoleColumn(row) == IF Cardinality(Filled(row)) = 1 THEN CHOOSE c \in Filled(row) : TRUE ELSE "eol"

\* The comment rows of the export, by Binary Ninja's address; a row without
\* text is not exported.
ExportComments(rows) ==
  [a \in {ToBn(va) : va \in {x \in Address : rows[x] # NoComment}} |-> rows[ToGhidra(a)]]

\* Ghidra's text is taken where the view has none or the same; the baseline
\* is Ghidra's text in either case.
ImportComments(view, rows) ==
  LET export == ExportComments(rows)
      Kept(mine, theirs) == IF theirs # <<>> /\ mine = <<>> THEN theirs ELSE mine
  IN [view EXCEPT
        !.comment = [a \in Address |-> IF a \in DOMAIN export
                                       THEN Kept(view.comment[a], MergedText(export[a]))
                                       ELSE view.comment[a]],
        !.funcComment = [a \in Address |-> IF a \in DOMAIN export \cap view.funcs
                                           THEN Kept(view.funcComment[a], export[a].plate)
                                           ELSE view.funcComment[a]]]

\* addrToOriginalComment, addrToCommentField and addrToOriginalFuncComment.
\* The import notes a plate comment only where the view has a function
\* (plates = view.funcs); the maps rebuilt for a check-in note all of them.
CommentBaseline(rows, plates) ==
  LET export == ExportComments(rows)
      texts == {a \in DOMAIN export : MergedText(export[a]) # <<>>}
  IN [comment     |-> [a \in texts |-> MergedText(export[a])],
      column      |-> [a \in texts |-> SoleColumn(export[a])],
      funcComment |-> [a \in {x \in DOMAIN export \cap plates : export[x].plate # <<>>} |->
                         export[a].plate]]

Original(texts, a) == IF a \in DOMAIN texts THEN texts[a] ELSE <<>>

\* The changed comments, at most one for an address: a function's comment is
\* passed over where the address comment has changed too.
CollectComments(view, base) ==
  LET changed == {a \in Address : view.comment[a] \notin {<<>>, Original(base.comment, a)}}
      changedFunc == {a \in view.funcs :
                        view.funcComment[a] \notin {<<>>, Original(base.funcComment, a)}}
  IN [a \in changed \cup changedFunc |->
        IF a \in changed THEN view.comment[a] ELSE view.funcComment[a]]

\* The column a changed comment is written to.
CommentColumn(base, a) ==
  IF a \in DOMAIN base.funcComment THEN "plate"
  ELSE IF a \in DOMAIN base.column THEN base.column[a] ELSE "eol"

\* Mutant: the text replaces the whole row.
ApplyCommentsAlone(rows, changes, base) ==
  [va \in Address |->
     IF ToBn(va) \in DOMAIN changes
     THEN [NoComment EXCEPT ![CommentColumn(base, ToBn(va))] = changes[ToBn(va)]]
     ELSE rows[va]]

ApplyComments(rows, changes, base) ==
  [va \in Address |->
     IF ToBn(va) \in DOMAIN changes
     THEN [rows[va] EXCEPT ![CommentColumn(base, ToBn(va))] = changes[ToBn(va)]]
     ELSE rows[va]]

\* Mutant: the column of a new comment is not noted.
AdvanceTextOnly(base, changes) ==
  [comment |-> changes @@ base.comment, column |-> base.column, funcComment |-> base.funcComment]

\* The text sent becomes the baseline of the map that had the address; a new
\* comment is taken for an address comment in the "eol" column.
AdvanceComments(base, changes) ==
  LET asFunc == {a \in DOMAIN changes : a \notin DOMAIN base.comment
                                        /\ a \in DOMAIN base.funcComment}
      asNew == {a \in DOMAIN changes : a \notin DOMAIN base.comment
                                       /\ a \notin DOMAIN base.funcComment}
  IN [comment     |-> [a \in DOMAIN base.comment \cup asNew |->
                         IF a \in DOMAIN changes THEN changes[a] ELSE base.comment[a]],
      column      |-> [a \in DOMAIN base.column \cup asNew |->
                         IF a \in asNew THEN "eol" ELSE base.column[a]],
      funcComment |-> [a \in DOMAIN base.funcComment |->
                         IF a \in asFunc THEN changes[a] ELSE base.funcComment[a]]]

=============================================================================
