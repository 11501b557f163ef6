---------------------------- MODULE MCVaultSigning ---------------------------
(* VaultSigning for TLC: a payment of each chain from the wallet that is   *)
(* asked, the demonstration, one that refuses, and a key image request.    *)
EXTENDS VaultSigning, TLC

CONSTANTS own, xmr, demoTx, bad, outputs, file

Payloads == {own, xmr, demoTx, bad, outputs, file}
Kinded   == (own :> "PSBT") @@ (demoTx :> "PSBT") @@ (bad :> "PSBT") @@ (xmr :> "XMRUNSIGNED")
            @@ (outputs :> "XMROUTPUTS") @@ (file :> "XMRFILE")
Owned    == (demoTx :> "demo") @@ (bad :> "other") @@ (own :> "vault") @@ (xmr :> "vault")
            @@ (outputs :> "vault") @@ (file :> "vault")
=============================================================================
