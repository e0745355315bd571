SPECIFICATION Spec
CONSTANTS
  Nodes = {n1, n2}
  Self = n1
  MaxConns = 2
  MaxStarts = 2
INVARIANTS ClosedAtMostOnce EventsPanicExplained
PROPERTY StopEndsConnections
CHECK_DEADLOCK FALSE
