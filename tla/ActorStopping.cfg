CONSTANTS
  a1 = a1
  c1 = c1
  c2 = c2
  l1 = l1
  p1 = p1
  p2 = p2
  p3 = p3
  None = None
  Clients <- OneCallerOneSender
  Callers <- OneCaller
  Starters <- OneLoop
  Stoppers <- ThreeStoppers
  InHandler <- SecondStopper
  MailboxSize = 1
  SessionSpace = 2
SPECIFICATION FairStartedSpec
CHECK_DEADLOCK FALSE
INVARIANT NoWorkAfterStop
PROPERTIES CallReturns StopReturns
