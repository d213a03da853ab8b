\* Two repositories; reconnects and reopens use up the handles and streamers.
CONSTANTS
  r1 = r1
  r2 = r2
  Repos = {r1, r2}
  MaxHandles = 3
  MaxStreamers = 2
  MaxBatch = 2
SPECIFICATION FairSpec
INVARIANTS TypeOK OneStreamerPerRepo LateEventsBounded
PROPERTY StreamersEnd
CHECK_DEADLOCK FALSE
