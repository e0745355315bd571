SPECIFICATION Spec
CONSTANTS
  RemoteCallers = {c1, c2}
  MaxCalls = 2
  Registrars = {r1, r2}
  Watchers = {w1, w2}
  WatchSize = 1
  MaxClients = 3
  Uids = {u1}
  GameServers = {g1}
  Subids = {1, 2}
  MaxPeers = 3
  Usernames = {n1}
  MaxSeq = 2
  Users = {x1, x2, x3}
  Names = {a}
  Absent = absent
  Garbled = garbled
  Failed = failed
  Words = {"", "info", "warn", "error", "fatal", "loud", "true", "no"}
  Contents <- MCContents
  Fallback <- MCFallback
  Envs <- MCEnvs
  Reloads = {d1, d2}
  MaxEdits = 2
  CleanName = TRUE
INVARIANTS OwnAnswer LastEventTrue OneSessionPerUser FdsOwned SeqUsedOnce OneInstance
PROPERTIES RemoteCallReturns ConfigCatchesUp
CHECK_DEADLOCK FALSE
