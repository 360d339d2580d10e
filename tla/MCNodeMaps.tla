----------------------------- MODULE MCNodeMaps -----------------------------
(***************************************************************************)
(* NodeMaps for TLC.                                                       *)
(***************************************************************************)
EXTENDS NodeMaps, TLC

\* Every slot but the mount's is as good as any other.
Slots == Permutations(Hosts \ {Mount})

\* Straying is never taken back, and what the run checks, the types aside, is
\* said of states before it: those after it are not followed further.
BeforeStraying == ~strayed
=============================================================================
