\* The same seven programs, without any edit.
CONSTANTS
  Space = 3
  ImageBase = 0
  BnBase = 1
  TypeNames <- TypeNamesDef
  Scenarios <- ScenariosDef
  MaxEdits = 0
  MaxImports = 1
SPECIFICATION Spec
INVARIANTS NoEditsNoPreview
CHECK_DEADLOCK FALSE
