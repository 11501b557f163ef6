SPECIFICATION Spec
CONSTANTS
  own = own
  xmr = xmr
  demoTx = demoTx
  bad = bad
  outputs = outputs
  file = file
  None = None
  Payload <- Payloads
  Kind <- Kinded
  Owner <- Owned
  Fatal = {bad}
  DemoTx = demoTx
INVARIANTS
  TypeOK
  ApprovalBelongsToSession
  DemoKeysStayInDemo
PROPERTIES
  RefusalIsDeadEnd
  OnlyADerivationWarms
  KeepsTheApproval
