---------------------------- MODULE MCMembership ----------------------------
(* The values of Membership's constants for the runs. *)
EXTENDS Membership, TLC

\* One person's address typed in two ways, and another's.
MCAddresses == {"Ana@x", "ana@x", "bo@x"}
MCLower == [a \in MCAddresses |-> IF a = "Ana@x" THEN "ana@x" ELSE a]

Symmetry == Permutations(Members)

=============================================================================
