CONSTANTS
  a = a
  b = b
  Procs = {p1, p2}
  Items <- MCItems
  Priority <- NoPriority
  MaxSize = 2
  MaxBatch = 2
  Batches <- MCBatches
  PopSizes = {1, 2}
  DelArgs <- MCDelArgs
  Stored <- MCStored
  Indexed = TRUE
  StoreFails = FALSE
  HashUnwinds = FALSE
  MaxSeq = 3
SPECIFICATION Spec
SYMMETRY Symmetry
INVARIANTS BooksAgree NobodyStranded
