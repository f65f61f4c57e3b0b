CONSTANTS
  Prios = {1, 2, 3}
  Kinds = {"fifo", "priority", "indexed"}
  MaxSize = 2
  Batches <- MCBatches
  PopSizes = {1, 2}
  DelArgs <- MCDel
  Restores <- MCRestores
  MaxSeq = 5
SPECIFICATION Spec
INVARIANTS IndexFindsAll RestartLosesNothing BoundExact
