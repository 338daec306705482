----------------------------- MODULE MCAccounts -----------------------------
(* The accounts for TLC: no action tells two requests apart. *)
EXTENDS Accounts, TLC

Symmetry == Permutations(Requests)
=============================================================================
