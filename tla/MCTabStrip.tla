----------------------------- MODULE MCTabStrip -----------------------------
(***************************************************************************)
(* TabStrip for TLC: two addresses, three tabs over the life of the        *)
(* window, histories of up to two entries.                               *)
(***************************************************************************)
EXTENDS TabStrip, TLC

\* Addresses are only ever compared.
TargetSymmetry == Permutations(Targets)

=============================================================================
