CONSTANTS
  a = a
  b = b
  Procs = {p1, p2}
  Items <- MCItems
  MaxSize = 2
  Batches <- MCBatches
  PopSizes = {1, 2}
  DelArgs <- MCDelArgs
  Restores <- MCRestores
SPECIFICATION Spec
INVARIANTS Bounded HydratedPrefix NoLostWakeup MirrorAgrees
PROPERTIES ClosedAnswered CallsEnd ImplementsQueue UsesSignals
