SPECIFICATION FairSpec
CONSTANTS
  NServers = 3
  Alive = {0, 2}
  NLoops = 3
  timeouts <- MCtimeouts
  TcpTimeout = 10
  QueryLen = 2
  Radix = 2
  AtOnce = FALSE
  Eager = TRUE
INVARIANTS NoLeak RoundRobin PosIsSent TimeBound
PROPERTY Returns
