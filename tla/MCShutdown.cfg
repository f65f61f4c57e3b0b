CONSTANTS
  Procs = {p1, p2, p3}
  Started = TRUE
  MaxAttempts = 1
SPECIFICATION Spec
INVARIANTS ReleasedSafely SameAnswer
PROPERTIES CloseReturns
