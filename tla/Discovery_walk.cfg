SPECIFICATION Spec
CONSTANTS
  Gap = 3
  Batch = 2
  Longest = 5
  Handed <- HandedOut
  MaxCoins = 3
  MaxAhead = 4
  None = None
INVARIANTS
  TypeOK
  BalanceIsWhole
  ChangeStaysInReach
PROPERTIES
  ChangeIsFresh
CHECK_DEADLOCK FALSE
