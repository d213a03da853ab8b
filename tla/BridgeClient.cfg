CONSTANTS
  Callers = {c1, c2}
  MaxCalls = 2
  MaxConnects = 3
  MaxEvents = 1
  CloseWakesRecv = FALSE
SPECIFICATION Spec
SYMMETRY CallerSymmetry
INVARIANTS TypeOK AtMostOnce OwnAnswer NoOrphanedRequest
PROPERTY ImplementsRequestService
CHECK_DEADLOCK FALSE
