SPECIFICATION Spec
CONSTANTS
  Secret = {s1, s2}
  Passphrase = {p1, p2}
  Half = {h1, h2, h3}
  None = None
  FromOldBuild = TRUE
  MayKill = FALSE
  MayRefuse = FALSE
  MayMiss = FALSE
  MayRearm = FALSE
SYMMETRY SealSymmetry
INVARIANTS
  KeysSurvive
  StoredPassphraseOpens
PROPERTY
  KeepsTheVault
