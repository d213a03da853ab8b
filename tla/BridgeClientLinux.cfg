CONSTANTS
  Callers = {c1, c2}
  MaxCalls = 2
  MaxConnects = 2
  MaxEvents = 0
  CloseWakesRecv = FALSE
SPECIFICATION FairSpec
PROPERTY DisconnectReturns
CHECK_DEADLOCK FALSE
