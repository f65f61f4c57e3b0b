CONSTANTS
  HydrateBatch = 2
  Restores = {0, 2, 3}
  BatchSizes = {1, 2}
  RemoveSizes = {1, 2}
  MaxItems = 5
  MaxLives = 3
SPECIFICATION Spec
INVARIANTS AckedDurable GoneForGood RestoreComplete
