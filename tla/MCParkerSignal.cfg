CONSTANTS
  Procs = {p1, p2, p3}
  Parkers = {k1, k2}
  None = None
SPECIFICATION Spec
INVARIANTS WokenRightly NoLostSignal
PROPERTIES ImplementsSignal CancelReturns
