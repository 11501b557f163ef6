SPECIFICATION FairSpec
CONSTANTS
  v1 = v1
  v2 = v2
  h1 = h1
  o1 = o1
  o2 = o2
  o3 = o3
  None = None
  Addr = {v1, v2, h1}
  Wallets <- WalletsOf
  Births <- BornAt
  Output = {o1, o2, o3}
  Owner <- OwnerOf
  Paid <- PaidAt
  Budget = 1
  MaxTip = 2
  MaxMoves = 3
CHECK_DEADLOCK FALSE
INVARIANTS
TypeOK
WalkedWhole
ResumedWhereWalked
SettledSpendsAreKnown
PROPERTIES
  RefreshEnds
