SPECIFICATION Spec
CONSTANTS
  Gap = 3
  Batch = 2
  Longest = 5
  Handed <- HandedOut
  MaxCoins = 4
  MaxAhead = 1
  None = None
INVARIANT ChangeIsNotReused
CHECK_DEADLOCK FALSE
