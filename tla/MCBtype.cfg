CONSTANTS
  MaxItems = 3
  Ptrs = {1, 2, 3, 4, 5, 6, 7, 8, 9, 10, 11, 12, 13, 14, 15, 16, 17, 18, 19, 20, 21, 22, 23, 24}
  Nil = Nil
  Writer = Writer
  Snaps = {s1, s2}
  MaxHeight = 3
  MaxSize = 3
  PushSizes = {2}
  PopSizes = {1, 3}
  DelSets <- MCDel
  Restores = {2, 5, 12}
  MaxCalls <- MCCalls
SYMMETRY Symmetry
SPECIFICATION Spec
INVARIANTS SnapshotStable RefsNeverShort TreeIsQueue ExactAndAwake
