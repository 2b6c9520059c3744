CONSTANTS
  Conns = {c1, c2}
  NoConn = NoConn
  StaleAge = 1
  ReapAge = 2
  HealWindow = 2
  AeWindow = 2
  AgeCap = 3
  PingEvery = 1
  Blocked = 1
  MaxAge = 3
  MaxJobs = 2
  MaxMoves = 2
  MaxFaults = 1
SPECIFICATION Spec
INVARIANT TypeOK
PROPERTIES LiveShownOnline DeadShownOffline
