SPECIFICATION Spec
CONSTANTS
  Secret = {s1, s2}
  Passphrase = {p1, p2}
  Half = {h1, h2, h3}
  None = None
  FromOldBuild = TRUE
  MayKill = TRUE
  MayRefuse = TRUE
  MayMiss = FALSE
  MayRearm = FALSE
SYMMETRY SealSymmetry
INVARIANTS
  TypeOK
  LayeredHasHalf
  SetupIsEmpty
  RightPassphraseOpens
PROPERTIES
  MigrationKeepsTheVault
