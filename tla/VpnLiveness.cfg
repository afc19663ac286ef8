CONSTANTS
  Free = Free
  None = None
  Runs = {r1}
  Callers = {c1}
  Ops = {"connect", "disconnect", "reconnect"}
  StartOutcomes = {"ok", "fail", "failUp"}
  MaxLosses = 2
  MaxAttempts = 2
  Timing = "slow"
SPECIFICATION FairSpec
PROPERTIES
  CallsReturn
  RetriesEnd
