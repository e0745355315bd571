SPECIFICATION Spec
CONSTANTS
  Socks = {s1, s2}
  Timed = {s1}
  MaxConnections = 1
  ChanSize = 1
  MaxStarts = 2
  MaxConns = 2
  MaxReconnectAttempts = 2
INVARIANTS HandedOnce StopLeavesNothing DisconnectIsFinal
PROPERTIES StopReturns Reconnects
CHECK_DEADLOCK FALSE
