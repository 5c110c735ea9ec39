----------------------------- MODULE MCAccounts -----------------------------
(* Two people and two workers.                                             *)
EXTENDS Accounts, TLC

Symmetry == Permutations(People) \cup Permutations(Workers)
=============================================================================
