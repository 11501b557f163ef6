------------------------------ MODULE MCAirgap ------------------------------
EXTENDS Airgap, TLC

CONSTANTS psbt, outputs, long, short, account

OwnWire == {psbt, outputs}
UrWire == {long, short, account}
Totals3 == (psbt :> 2) @@ (outputs :> 2) @@ (long :> 3) @@ (short :> 2) @@ (account :> 1)
NotOneString == {account}
=============================================================================
