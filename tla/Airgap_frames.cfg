SPECIFICATION FairSpec
CONSTANTS
  psbt = psbt
  outputs = outputs
  long = long
  short = short
  account = account
  None = None
  Own <- OwnWire
  Ur <- UrWire
  Opaque <- NotOneString
  Total <- Totals3
  MaxTotal = 3
INVARIANTS
  TypeOK
  PiecesAreTrue
  NothingLeftToPeel
PROPERTIES
  KeepsTheRelay
  FramesAddUp
