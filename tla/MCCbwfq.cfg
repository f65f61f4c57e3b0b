CONSTANTS
  x = x
  y = y
  z = z
  None = None
  Pushers = {p1, p2}
  Pullers = {c1}
  Weighted <- MCWeighted
  Weight <- MCWeight
  Prio = z
  Cap = 2
  PullSizes = {1, 3}
SPECIFICATION Spec
INVARIANTS PopNeverBlocks NoLostPull BoundedWait
PROPERTIES PullServed
