\* Two items of different names, the project may come to hold two files.
CONSTANTS
  Items = {i1, i2}
  Names = {i1, i2}
  NameOf <- MCNameOf
  Selections <- MCSelections
  Files = {f1, f2}
  MaxJobs = 2
  MaxTurns = 3
SPECIFICATION Spec
SYMMETRY Symmetry
INVARIANTS TypeOK PanelInSync AddedOnce HoldsItsItem LinkHasServer ClearedStaysCleared
CHECK_DEADLOCK FALSE
