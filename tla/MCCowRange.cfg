CONSTANTS
  Writers = {w1}
  Iters = {i1, i2}
  Depth = 2
  None = None
SPECIFICATION Spec
INVARIANTS YieldsOneSnapshot CowYieldsToWriter
PROPERTIES WriterServed
