CONSTANTS
  MaxOps = 3
  MaxConns = 2
  MaxProcs = 2
  MaxPings = 1
  Crashes = TRUE
SPECIFICATION Spec
CHECK_DEADLOCK FALSE
INVARIANTS
  StopSettles
  StartedIsUp
  ClientInv
