----------------------------- MODULE MCJobStore -----------------------------
(* JobStore for TLC: no action tells the job IDs apart. *)
EXTENDS JobStore, TLC

Symmetry == Permutations(Jobs)
=============================================================================
