\* One repository whose node is rebuilt and fetched again while folders load.
CONSTANTS
  r1 = r1
  r2 = r2
  Repos = {r1}
  MaxNodes = 4
  MaxJobs = 4
SPECIFICATION Spec
INVARIANTS TypeOK NoWriteAfterRebuild FetchedOnce
CHECK_DEADLOCK FALSE
