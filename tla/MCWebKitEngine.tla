---------------------------- MODULE MCWebKitEngine ----------------------------
(***************************************************************************)
(* The instances of WebKitEngine that TLC checks.  Goroutines are alike,   *)
(* so the run of the invariants takes them up to renaming.                 *)
(***************************************************************************)
EXTENDS WebKitEngine, TLC

Goroutines == Permutations(Callers)
=============================================================================
