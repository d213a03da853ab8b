\* One worker at a time; the bridge is started up to three times.
CONSTANTS
  t1 = t1
  t2 = t2
  Threads = {t1}
  MaxObjects = 3
SPECIFICATION Spec
INVARIANTS TypeOK NoOrphanBridge
CHECK_DEADLOCK FALSE
