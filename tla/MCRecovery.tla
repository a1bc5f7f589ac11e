----------------------------- MODULE MCRecovery -----------------------------
(* The values of Recovery's constants for the run. *)
EXTENDS Recovery, TLC

Symmetry == Permutations(Members) \cup Permutations(Calls)

=============================================================================
