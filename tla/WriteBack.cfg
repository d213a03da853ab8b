\* Seven programs in twelve scenes; two edits, by the user or a colleague, and a re-import.
CONSTANTS
  Space = 3
  ImageBase = 0
  BnBase = 1
  TypeNames <- TypeNamesDef
  Scenarios <- ScenariosDef
  MaxEdits = 2
  MaxImports = 2
SPECIFICATION Spec
INVARIANTS TypeOK PreviewFromEdits Converges NothingHidden
PROPERTIES LandsAsShown TouchesOnlyShown
CHECK_DEADLOCK FALSE
