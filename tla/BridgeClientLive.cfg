CONSTANTS
  Callers = {c1, c2}
  MaxCalls = 2
  MaxConnects = 2
  MaxEvents = 0
  CloseWakesRecv = TRUE
SPECIFICATION FairSpec
PROPERTIES DisconnectReturns DisconnectFailsPending
CHECK_DEADLOCK FALSE
