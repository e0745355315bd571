SPECIFICATION Spec
CONSTANTS
  Conns = {c1}
  Frames = {beat, user1}
  Beats = {beat}
  SendQueue = 1
  MaxHeartbeats = 2
INVARIANTS QueuedInOrder OffMeansJoinedOrTold
PROPERTIES AcceptedIsWritten StopHeartbeatReturns
CHECK_DEADLOCK FALSE
