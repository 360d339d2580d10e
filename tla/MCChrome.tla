------------------------------ MODULE MCChrome ------------------------------
(***************************************************************************)
(* Chrome for TLC: two addresses and two tabs; a bookmarks file that is    *)
(* not there or was edited by hand; a window that is tall, too low for the *)
(* console, or minimized.                                                  *)
(***************************************************************************)
EXTENDS Chrome

CONSTANTS a, b

MCFiles == {NoFile, <<b, Blank, a, b>>, <<a, Blank, b, a>>}

\* Addresses are only ever compared.
TargetSymmetry == Permutations(Targets)

=============================================================================
