---------------------------- MODULE MCSealedVault ----------------------------
(* SealedVault for TLC: two vaults' secrets, two passphrases and three     *)
(* draws of a device secret, each interchangeable.                         *)
EXTENDS SealedVault, TLC

SealSymmetry == Permutations(Secret) \cup Permutations(Passphrase) \cup Permutations(Half)
=============================================================================
