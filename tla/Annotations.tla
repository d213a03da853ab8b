---------------------------- MODULE Annotations ----------------------------
(***************************************************************************)
(* What the annotation kinds share: the two address spaces of one binary   *)
(* and the two spellings of a type name.                                   *)
(*                                                                         *)
(* Ghidra's addresses and Binary Ninja's differ by the distance between    *)
(* the two load bases.  The export and the check-in request carry Ghidra's *)
(* addresses; the view and most baseline maps are keyed by Binary Ninja's. *)
(* Addresses are unsigned words: they wrap at Space.                       *)
(***************************************************************************)
EXTENDS Integers, Sequences

CONSTANTS Space,     \* size of the address space (2^64 in the code)
          ImageBase, \* image_base of the export
          BnBase     \* view->GetStart()

ASSUME SpaceAssumption == Space \in Nat \ {0} /\ ImageBase \in 0..Space-1 /\ BnBase \in 0..Space-1

Address == 0..Space-1

\* The export's marker for an address outside RAM (decode returns -1).
NoVa == -1

Rebase == BnBase - ImageBase

ToBn(va) == (va + Rebase) % Space

ToGhidra(addr) == (addr - Rebase) % Space

-----------------------------------------------------------------------------
\* Type names.  Ghidra says "int" where Binary Ninja says "int32_t".

GhidraPrimitives == {"int", "uint"}

\* How Binary Ninja renders the integer that resolveTypeName builds for a
\* Ghidra primitive.
BnSpelling(ty) == IF ty = "int" THEN "int32_t" ELSE IF ty = "uint" THEN "uint32_t" ELSE ty

\* Mutant: names are compared as they are spelled.
CanonicalVerbatim(ty) == ty

\* Spellings of one type compare equal in the check-in diff.
CanonicalTypeName(ty) == IF ty = "int32_t" THEN "int" ELSE IF ty = "uint32_t" THEN "uint" ELSE ty

\* The bridge folds the same spellings before it looks a name up.
NormalizePrimitives(ty) == IF ty = "int32_t" THEN "int" ELSE IF ty = "uint32_t" THEN "uint" ELSE ty

=============================================================================
