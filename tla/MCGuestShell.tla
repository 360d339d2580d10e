---------------------------- MODULE MCGuestShell ----------------------------
(***************************************************************************)
(* GuestShell for TLC: two addresses that link to each other.              *)
(***************************************************************************)
EXTENDS GuestShell, TLC

MCLinks == [x \in Targets |-> Targets \ {x}]

\* Addresses are only ever compared, and each links to all others.
TargetSymmetry == Permutations(Targets)

\* For liveness, where which address is loaded does not matter.
SelfLinks == [x \in Targets |-> Targets]

=============================================================================
