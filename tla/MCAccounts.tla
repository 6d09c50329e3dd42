----------------------------- MODULE MCAccounts -----------------------------
(***************************************************************************)
(* Instances of the accounts for TLC.                                      *)
(***************************************************************************)
EXTENDS Accounts, TLC

RequestSymmetry == Permutations(Requests)
=============================================================================
