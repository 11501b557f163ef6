---------------------------- MODULE MCSpendingKeys ----------------------------
(* SpendingKeys for TLC: the seeds of a chain are interchangeable.         *)
EXTENDS SpendingKeys, TLC

KeySymmetry == Permutations(Monero) \cup Permutations(Bitcoin)
=============================================================================
