CONSTANTS
  Conns = {c1, c2}
  NoConn = NoConn
  StaleAge = 1
  ReapAge = 2
  HealWindow = 3
  AeWindow = 3
  AgeCap = 3
  PingEvery = 1
  Blocked = 1
  MaxAge = 4
  MaxJobs = 2
  MaxMoves = 1
  MaxFaults = 1
SPECIFICATION Spec
PROPERTY InboundRepairs
