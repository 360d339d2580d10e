------------------------------ MODULE GoShell ------------------------------
(***************************************************************************)
(* What the packages of the Go shell (tab, session, window) share: the     *)
(* tabs, and the goroutines that call into them.                           *)
(***************************************************************************)
CONSTANTS
  Tabs,
  NoTab,
  Callers    \* the goroutines that call the methods modelled in steps

ASSUME GoShellAssumption == Tabs # {} /\ NoTab \notin Tabs /\ Callers # {}

=============================================================================
