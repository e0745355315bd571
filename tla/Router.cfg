SPECIFICATION MCSpec
CONSTANTS
  None = None
  NoName = NoName
  Actors = {x1, x2}
  Names = {n1, n2}
  Workers = {w1, w2}
  NodeID = 1
  NodeSpan = 2
  HandleSpace = 7
  HandleLimit = 6
  NoOne = NoOne
  Owners = {o1, o2, o3}
  IdSpace = 2
INVARIANTS NoGhostNames ChannelsUsedOnce
PROPERTIES NumbersNeverReused AnsweredOrDropped NoLeak
CHECK_DEADLOCK FALSE
