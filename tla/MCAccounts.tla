----------------------------- MODULE MCAccounts -----------------------------
(* TLC instances of Accounts. *)
EXTENDS Accounts, TLC

Symmetry == Permutations(Tokens) \cup Permutations(Workers)
=============================================================================
