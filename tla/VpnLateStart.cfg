CONSTANTS
  Free = Free
  None = None
  Runs = {r1, r2}
  Callers = {c1}
  Ops = {"connect", "disconnect"}
  StartOutcomes = {"ok", "fail"}
  MaxLosses = 0
  MaxAttempts = 1
  Timing = "race"
SPECIFICATION Spec
SYMMETRY Symmetry
INVARIANTS
  NoOrphanTunnel
