CONSTANTS
  Free = Free
  None = None
  Runs = {r1, r2}
  Callers = {c1}
  Ops = {"connect", "disconnect", "setAuto"}
  StartOutcomes = {"ok", "fail", "failUp"}
  MaxLosses = 2
  MaxAttempts = 1
  Timing = "slow"
SPECIFICATION Spec
SYMMETRY Symmetry
INVARIANTS
  NoOrphanTunnel
  BackoffIsDark
  ConnectedIsUp
  DisconnectSettles
  UiIsCurrent
  RunningToIsExact
PROPERTIES
  StaleRunsKeepOff
  FollowsFsm
