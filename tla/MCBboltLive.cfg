CONSTANTS
  a = a
  b = b
  Procs = {p1, p2}
  Items <- MCItems
  Priority <- NoPriority
  MaxSize = 0
  MaxBatch = 1
  Batches <- OneItem
  PopSizes = {1}
  DelArgs = {}
  Stored <- Empty
  Indexed = TRUE
  StoreFails = TRUE
  HashUnwinds = TRUE
  MaxSeq = 1
SPECIFICATION Spec
INVARIANT BooksSurvive
PROPERTY FlusherAnswers
