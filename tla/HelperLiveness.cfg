CONSTANTS
  MaxOps = 2
  MaxConns = 1
  MaxProcs = 1
  MaxPings = 1
  Crashes = TRUE
SPECIFICATION FairSpec
CHECK_DEADLOCK FALSE
PROPERTIES
  LossIsSignalled
  NoOrphanEngine
  RunnerCallsReturn
