\* Two items, a project file, three worker jobs.
CONSTANTS
  a = a
  b = b
  v1 = v1
  Items = {a, b}
  Views = {v1}
  InProject = {v1}
  MaxJobs = 3
SYMMETRY ItemSymmetry
SPECIFICATION Spec
INVARIANTS TypeOK ReviewIsWhole RequestIsWhole SettledIsWhole
CHECK_DEADLOCK FALSE
