CONSTANTS
  a = a
  b = b
  Procs = {p1, p2}
  Items <- MCItems
  Priority <- NoPriority
  MaxSize = 3
  MaxBatch = 2
  Batches <- MCBatches
  PopSizes = {1, 2}
  DelArgs <- MCDelArgs
  Stored <- MCStored
  Indexed = FALSE
  StoreFails = FALSE
  HashUnwinds = FALSE
  MaxSeq = 3
SPECIFICATION Spec
INVARIANT NoLostWakeupEmpty
