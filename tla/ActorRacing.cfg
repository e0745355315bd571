CONSTANTS
  a1 = a1
  c1 = c1
  c2 = c2
  l1 = l1
  p1 = p1
  p2 = p2
  p3 = p3
  None = None
  Clients <- TwoCallersOneSender
  Callers <- TwoCallers
  Starters <- OneLoop
  Stoppers <- OneStopper
  InHandler <- NoStopper
  MailboxSize = 2
  SessionSpace = 4
SPECIFICATION Spec
CHECK_DEADLOCK FALSE
INVARIANT AnswerIsOwn
PROPERTY ServesInOrder
