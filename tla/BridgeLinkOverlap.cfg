\* Two workers at once: warming up and connecting overlap.
CONSTANTS
  t1 = t1
  t2 = t2
  Threads = {t1, t2}
  MaxObjects = 3
SPECIFICATION Spec
INVARIANT SafeToCallRepeatedly
CHECK_DEADLOCK FALSE
