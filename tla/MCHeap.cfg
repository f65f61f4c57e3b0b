CONSTANTS
  Prios = {1, 2, 3}
  MaxSize = 3
  Batches <- MCBatches
  PopSizes = {1, 3}
  DelArgs <- MCDel
  Restores <- MCRestores
  MaxSeq = 7
SPECIFICATION Spec
INVARIANTS PopsInOrder ExactAndAwake RestartLosesNothing
PROPERTIES AbandonedUntouched
