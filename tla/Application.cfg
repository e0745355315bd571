CONSTANTS
  ActorSystemService = ActorSystemService
  NetworkServerService = NetworkServerService
  s1 = s1
  s2 = s2
  r1 = r1
  r2 = r2
  k1 = k1
  Nobody = Nobody
  MaxDeps = 2
  Services <- CoreAndTwoServices
  Infallible <- CoreInfallible
  Runners <- TwoRunners
  Closers <- OneCloser
  Callers <- RunnersAndCloser
SPECIFICATION Spec
SYMMETRY Interchangeable
CHECK_DEADLOCK FALSE
INVARIANTS StartsInOrder DependenciesUp NothingLeftRunning
