CONSTANTS
  c1 = c1
  c2 = c2
  c3 = c3
  n1 = n1
  None = None
  NoName = NoName
  Unnamed = Unnamed
  Creators <- ThreeCreators
  InHandler <- SecondOnly
  Names <- OneName
  MaxSends = 1
SPECIFICATION FairSpec
CHECK_DEADLOCK FALSE
INVARIANTS ServicesAgree NoActorMissed ShutdownStopsAll
PROPERTY ShutdownReturns
