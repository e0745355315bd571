CONSTANTS
  n1 = n1
  n2 = n2
  i1 = i1
  i2 = i2
  i3 = i3
  w1 = w1
  k1 = k1
  Healthy = Healthy
  Unhealthy = Unhealthy
  None = None
  Names <- TwoNames
  Infos <- ThreeInfos
  Statuses <- TwoStatuses
  Watchers <- OneWatcher
  Clients <- OneClient
  ChanCap = 2
  MaxBalancers = 2
SPECIFICATION MCSpec
SYMMETRY Interchangeable
CHECK_DEADLOCK FALSE
INVARIANTS DiscoverIsLinearizable WatchersUpToDate
