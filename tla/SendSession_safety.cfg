SPECIFICATION FairSpec
CONSTANTS
  hot = hot
  vault = vault
  None = None
  Draft = {d1, d2}
  Account <- TheAccounts
  SigningAccount <- TheSigners
  Demo = TRUE
INVARIANTS
  TypeOK
  LastVerifiedCameFromVault
  VaultCoinsNeverSignedHere
  DraftKeepsItsAccount
PROPERTIES
  KeepsThePromise
  DoneNamesItsPayment
  SigningSettles
  BroadcastSettles
