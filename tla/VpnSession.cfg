CONSTANTS
  Free = Free
  None = None
  Runs = {r1, r2}
  Callers = {c1, c2}
  Ops = {"connect", "disconnect"}
  StartOutcomes = {"ok", "fail"}
  MaxLosses = 0
  MaxAttempts = 1
  Timing = "any"
SPECIFICATION Spec
SYMMETRY Symmetry
INVARIANTS
  IInv
PROPERTIES
  SessionFrozen
