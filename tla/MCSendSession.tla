---------------------------- MODULE MCSendSession ----------------------------
(* SendSession for TLC: the drafts are interchangeable, and the accounts   *)
(* are the two of accounts.ts.                                             *)
EXTENDS SendSession, TLC

CONSTANTS hot, vault

TheAccounts == {hot, vault}
TheSigners  == {hot}
DraftSymmetry == Permutations(Draft)
=============================================================================
