---------------------------- MODULE TabLifecycle ----------------------------
(***************************************************************************)
(* The tabs of the Go shell, tab/tab.go: the state machine of a tab, the   *)
(* address it has committed to, its snapshot, and what its renderer shows. *)
(*                                                                         *)
(* Every method holds the tab's mutex from its first line to its last, so  *)
(* it is one action, and a failed check (an error return) is a step that   *)
(* changes nothing.  Reload is the exception: it reads the tab under the   *)
(* mutex, lets go of it, and then calls Navigate or Restore.               *)
(***************************************************************************)
EXTENDS GoShell

CONSTANTS
  Urls,
  NoUrl      \* the empty address of a tab that never navigated

ASSUME TabLifecycleAssumption == NoUrl \notin Urls

\* TabState.  Loading and Restoring begin and end while the mutex is held.
States == {"Created", "Loading", "Active", "Background", "Frozen",
           "Discarded", "Crashed", "Restoring", "Closed"}

\* validTransitions
Valid == [s \in States |->
  CASE s = "Created"    -> {"Loading", "Closed"}
    [] s = "Loading"    -> {"Active", "Crashed", "Closed"}
    [] s = "Active"     -> {"Loading", "Background", "Frozen", "Crashed", "Closed"}
    [] s = "Background" -> {"Loading", "Active", "Frozen", "Discarded", "Crashed", "Closed"}
    [] s = "Frozen"     -> {"Loading", "Active", "Discarded", "Crashed", "Closed"}
    [] s = "Discarded"  -> {"Restoring", "Closed"}
    [] s = "Crashed"    -> {"Restoring", "Closed"}
    [] s = "Restoring"  -> {"Active", "Crashed", "Closed"}
    [] s = "Closed"     -> {}]

Page == Urls \cup {NoUrl}
NoSnapshot == "no snapshot"   \* snapshot is nil
NoReload == [tab |-> NoTab, url |-> NoUrl, via |-> "none"]

VARIABLES
  state,     \* tab -> TabState
  url,       \* tab -> committed address
  shown,     \* tab -> address its renderer loaded and its app was mounted on
  snapshot,  \* tab -> address in the last snapshot, or NoSnapshot
  open,      \* tabs whose renderer has not been closed
  reload     \* goroutine -> what its Reload read of the tab, or NoReload

lifeVars == <<state, url, shown, snapshot, open, reload>>

LifeInit ==
  /\ state = [t \in Tabs |-> "Created"]
  /\ url = [t \in Tabs |-> NoUrl]
  /\ shown = [t \in Tabs |-> NoUrl]
  /\ snapshot = [t \in Tabs |-> NoSnapshot]
  /\ open = Tabs
  /\ reload = [c \in Callers |-> NoReload]

-----------------------------------------------------------------------------

\* How LoadHTML and Mount may go: the renderer refuses the document and keeps
\* the old one, the app does not come up on it, or all is well.
Outcomes == {"load fails", "mount fails", "ok"}

\* Bug: the address is committed before the transition is known to be legal.
Load_Bug(t, u, via, o) ==
  /\ state[t] # "Closed"
  /\ url' = [url EXCEPT ![t] = u]
  /\ IF via \in Valid[state[t]]
     THEN /\ state' = [state EXCEPT ![t] = IF o = "ok" THEN "Active" ELSE "Crashed"]
          /\ shown' = [shown EXCEPT ![t] = IF o = "ok" THEN u
                                           ELSE IF o = "load fails" THEN @ ELSE NoUrl]
     ELSE UNCHANGED <<state, shown>>
  /\ UNCHANGED <<snapshot, open>>

\* The common part of Navigate (via Loading) and Restore (via Restoring).
Load(t, u, via, o) ==
  /\ via \in Valid[state[t]]
  /\ url' = [url EXCEPT ![t] = u]
  /\ state' = [state EXCEPT ![t] = IF o = "ok" THEN "Active" ELSE "Crashed"]
  /\ shown' = [shown EXCEPT ![t] = IF o = "ok" THEN u
                                   ELSE IF o = "load fails" THEN @ ELSE NoUrl]
  /\ UNCHANGED <<snapshot, open>>

Navigate(t, u, o) == Load(t, u, "Loading", o) /\ UNCHANGED reload

\* Restore with a snapshot of address u.
Restore(t, u, o) == Load(t, u, "Restoring", o) /\ UNCHANGED reload

\* Freeze, Background, Discard, and Resume or Activate: a bare transition.
Transition(t, to) ==
  /\ to \in Valid[state[t]]
  /\ state' = [state EXCEPT ![t] = to]
  /\ UNCHANGED <<url, shown, snapshot, open, reload>>

\* KillApp: the app crashed.  Not from Created, Discarded, Crashed or Closed.
KillApp(t) ==
  /\ state[t] \in {"Active", "Background", "Frozen"}
  /\ Transition(t, "Crashed")

Snapshot(t) ==
  /\ state[t] # "Closed"
  /\ snapshot' = [snapshot EXCEPT ![t] = url[t]]
  /\ UNCHANGED <<state, url, shown, open, reload>>

\* Close closes the renderer, then the host.  When the renderer fails nothing
\* has happened; when the host fails the tab stays as it is, renderer closed.
Close(t, hostCloses) ==
  /\ state[t] # "Closed"
  /\ open' = open \ {t}
  /\ state' = IF hostCloses THEN [state EXCEPT ![t] = "Closed"] ELSE state
  /\ UNCHANGED <<url, shown, snapshot, reload>>

\* Reload, up to the Unlock: the address and which of the two ways to take.
ReadForReload(c, t) ==
  /\ reload[c] = NoReload
  /\ reload' = [reload EXCEPT ![c] =
       [tab |-> t, url |-> url[t],
        via |-> IF state[t] \in {"Crashed", "Discarded"} THEN "Restoring"
                ELSE "Loading"]]
  /\ UNCHANGED <<state, url, shown, snapshot, open>>

\* Bug: the transition is not checked again, only that the tab was fit for it.
ActOnReload_Bug(c, o) ==
  /\ reload[c] # NoReload
  /\ reload' = [reload EXCEPT ![c] = NoReload]
  /\ LET r == reload[c] IN
       /\ url' = [url EXCEPT ![r.tab] = r.url]
       /\ state' = [state EXCEPT ![r.tab] = "Active"]
       /\ shown' = [shown EXCEPT ![r.tab] = r.url]
       /\ UNCHANGED <<snapshot, open>>

\* Reload, the rest: the transition is checked again and may fail by now.
ActOnReload(c, o) ==
  /\ reload[c] # NoReload
  /\ reload' = [reload EXCEPT ![c] = NoReload]
  /\ LET r == reload[c]
     IN IF r.via \in Valid[state[r.tab]]
        THEN Load(r.tab, r.url, r.via, o)
        ELSE UNCHANGED <<state, url, shown, snapshot, open>>

TabStep(t) ==
  \/ \E u \in Urls, o \in Outcomes : Navigate(t, u, o)
  \/ \E to \in {"Frozen", "Background", "Discarded", "Active"} : Transition(t, to)
  \/ KillApp(t)
  \/ Snapshot(t)
  \/ \E hostCloses \in BOOLEAN : Close(t, hostCloses)

RestoreStep == \E t \in Tabs, u \in Page, o \in Outcomes : Restore(t, u, o)

ReloadStep(c) ==
  \/ \E t \in Tabs : ReadForReload(c, t)
  \/ \E o \in Outcomes : ActOnReload(c, o)

LifeNext ==
  \/ \E t \in Tabs : TabStep(t)
  \/ RestoreStep
  \/ \E c \in Callers : ReloadStep(c)

LifeSpec == LifeInit /\ [][LifeNext]_lifeVars

-----------------------------------------------------------------------------

\* Every variable keeps its type, and a tab at rest is in no passing state.
LifeTypeOK ==
  /\ state \in [Tabs -> States \ {"Loading", "Restoring"}]
  /\ url \in [Tabs -> Page]
  /\ shown \in [Tabs -> Page]
  /\ snapshot \in [Tabs -> Page \cup {NoSnapshot}]
  /\ open \in SUBSET Tabs
  /\ reload \in [Callers -> [tab : Tabs, url : Page, via : {"Loading", "Restoring"}]
                              \cup {NoReload}]

\* What a loaded tab shows is what it says it shows: failed loads, rejected
\* reloads and late restarts never leave the address of one page over another.
ShownIsUrl ==
  \A t \in Tabs :
    state[t] \in {"Active", "Background", "Frozen", "Discarded"}
      => shown[t] = url[t]

StaysClosed(t) ==
  /\ state'[t] = "Closed" /\ t \notin open'
  /\ url'[t] = url[t] /\ shown'[t] = shown[t]

\* A closed tab stays as it is, whoever still holds a reload or a crash
\* report of it.
ClosedStaysClosed ==
  [][\A t \in Tabs : state[t] = "Closed" => StaysClosed(t)]_lifeVars

=============================================================================
