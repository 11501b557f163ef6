SPECIFICATION Spec
CONSTANTS
  Monero = {m1, m2, m3}
  Bitcoin = {b1, b2}
  None = None
  MayMiss = TRUE
  MayRefuse = TRUE
SYMMETRY KeySymmetry
INVARIANTS
  TypeOK
  NothingHeldUnwritten
  ScansFromBirth
PROPERTIES
  KeepsTheOther
