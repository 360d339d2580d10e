------------------------------ MODULE TabStrip ------------------------------
(***************************************************************************)
(* The tab strip of the renderer shell, GwbDocument in                     *)
(* renderer/src/ui.rs: the tabs in strip order, the index of the active    *)
(* one, which mount point is on display, the text of the address bar, and  *)
(* the address and back/forward history of each tab.                       *)
(*                                                                         *)
(* Everything here runs on the UI thread, one handler at a time, so each   *)
(* action is one whole handler.  The outcome of a navigation depends on    *)
(* files (the manifest, the bundle) and on the guest, and is a parameter.  *)
(* What a loaded guest then does is the subject of GuestShell, which       *)
(* EXTENDS this module.                                                    *)
(***************************************************************************)
EXTENDS Integers, Sequences, SequencesExt

CONSTANTS
  Targets,     \* the addresses a user, a bookmark or a guest may name
  Blank,       \* the empty address: a tab that never loaded anything
  MaxTabs,     \* bound: tabs opened in the life of the window
  MaxHistory   \* bound: entries in the history of one tab

ASSUME TabStripAssumption ==
  /\ Targets # {}
  /\ Blank \notin Targets
  /\ MaxTabs \in Nat \ {0}
  /\ MaxHistory \in Nat \ {0}

\* TabState.id: next_tab_id counts up and an id is never handed out twice.
TabId == 0 .. MaxTabs - 1

\* How GwbDocument::navigate may end.  "unresolved": the manifest does not
\* resolve, nothing has been touched.  "failed": the old guest is gone and no
\* new one runs (no GWB exports, load error, gwb_start trapped).
Outcomes == {"unresolved", "failed", "loaded"}

\* TabState: history_idx counts from 0, as in the code.
Tab == [target : Targets \cup {Blank}, history : Seq(Targets),
        historyIdx : Nat, live : BOOLEAN]

VARIABLES
  tabs,            \* ids in strip order
  active,          \* position in tabs (active_idx + 1)
  nextTabId,
  tab,             \* id -> TabState
  visible,         \* ids whose mount point is displayed (display: flex)
  draft,           \* addr_draft, the text in the address bar
  closeRequested,  \* close_window_requested
  exited           \* the event loop has been told to exit

stripVars == <<tabs, active, nextTabId, tab, visible, draft,
               closeRequested, exited>>

FreshTab == [target |-> Blank, history |-> <<>>, historyIdx |-> 0,
             live |-> FALSE]

ActiveId == tabs[active]
Open == ToSet(tabs)

StripInit ==
  /\ tabs = <<0>>
  /\ active = 1
  /\ nextTabId = 1
  /\ tab = [t \in TabId |-> FreshTab]
  /\ visible = {0}
  /\ draft = Blank
  /\ closeRequested = FALSE
  /\ exited = FALSE

-----------------------------------------------------------------------------
(***************************************************************************)
(* navigate: one code path for the address bar, bookmarks, back, forward,  *)
(* reload, new tabs and guest requests.                                    *)
(***************************************************************************)

\* Bug: the current entry is cut along with what lies forward of it.
Truncate_Bug(h, n) == IF n <= Len(h) THEN SubSeq(h, 1, n - 1) ELSE h

\* Vec::truncate: longer vectors are cut, shorter ones are left alone.
Truncate(h, n) == IF n < Len(h) THEN SubSeq(h, 1, n) ELSE h

\* Bug: the cursor is computed from the length before the push.
Pushed_Bug(r, x) ==
  LET h == Truncate(r.history, r.historyIdx + 1)
  IN [r EXCEPT !.history = Append(h, x), !.historyIdx = Len(h) - 1]

\* push_history: forget what lies forward of the current entry, then push.
Pushed(r, x) ==
  LET h == Append(Truncate(r.history, r.historyIdx + 1), x)
  IN [r EXCEPT !.history = h, !.historyIdx = Len(h) - 1]

\* Bug: an address enters the history only if its guest started.
Navigated_Bug(r, x, push, o) ==
  IF o = "unresolved" THEN r
  ELSE [(IF push /\ o = "loaded" THEN Pushed(r, x) ELSE r)
          EXCEPT !.target = x, !.live = (o = "loaded")]

\* The TabState after navigate(x, push) ended with outcome o.
Navigated(r, x, push, o) ==
  IF o = "unresolved" THEN r
  ELSE [(IF push THEN Pushed(r, x) ELSE r)
          EXCEPT !.target = x, !.live = (o = "loaded")]

\* navigate on tab t whose TabState has become r.  The address bar is
\* refreshed only when the tab is the active one and the address resolved.
NavigateTab(t, r, x, push, o) ==
  LET r2 == Navigated(r, x, push, o)
  IN /\ Len(r2.history) <= MaxHistory
     /\ tab' = [tab EXCEPT ![t] = r2]
     /\ draft' = IF t = ActiveId /\ o # "unresolved" THEN x ELSE draft
     /\ UNCHANGED <<tabs, active, nextTabId, visible, closeRequested, exited>>

\* navigate_active: initial load, address bar, bookmarks, script driver.
NavigateActive(x, o) ==
  /\ ~exited
  /\ NavigateTab(ActiveId, tab[ActiveId], x, TRUE, o)

AddressSubmit(o) ==
  /\ draft # Blank
  /\ NavigateActive(draft, o)

\* The Input event carries the whole text of the address bar.
AddressInput(x) ==
  /\ ~exited
  /\ draft' = x
  /\ UNCHANGED <<tabs, active, nextTabId, tab, visible, closeRequested, exited>>

\* history_idx moves before navigate is called, whatever navigate answers.
NavBack(o) ==
  LET r == tab[ActiveId]
      i == r.historyIdx - 1
  IN /\ ~exited
     /\ r.historyIdx # 0
     /\ NavigateTab(ActiveId, [r EXCEPT !.historyIdx = i],
                    r.history[i + 1], FALSE, o)

NavForward(o) ==
  LET r == tab[ActiveId]
      i == r.historyIdx + 1
  IN /\ ~exited
     /\ i < Len(r.history)
     /\ NavigateTab(ActiveId, [r EXCEPT !.historyIdx = i],
                    r.history[i + 1], FALSE, o)

NavReload(o) ==
  LET r == tab[ActiveId]
  IN /\ ~exited
     /\ r.history # <<>>
     /\ NavigateTab(ActiveId, r, r.history[r.historyIdx + 1], FALSE, o)

-----------------------------------------------------------------------------
(***************************************************************************)
(* Opening, activating and closing tabs.                                   *)
(***************************************************************************)

\* activate_tab: hide the old mount point, show the new one, refresh the
\* address bar.  A request for the tab that is already active does nothing.
SwitchTab(t) ==
  /\ ~exited
  /\ t # ActiveId
  /\ \E i \in 1 .. Len(tabs) : tabs[i] = t /\ active' = i
  /\ visible' = (visible \ {ActiveId}) \cup {t}
  /\ draft' = tab[t].target
  /\ UNCHANGED <<tabs, nextTabId, tab, closeRequested, exited>>

\* Bug: the id of a new tab is the number of tabs, not a running count.
OpenActivated_Bug(r) ==
  LET id == Len(tabs) IN
  /\ ~exited
  /\ id < MaxTabs
  /\ tabs' = Append(tabs, id)
  /\ active' = Len(tabs) + 1
  /\ nextTabId' = nextTabId
  /\ tab' = [tab EXCEPT ![id] = r]
  /\ visible' = (visible \ {ActiveId}) \cup {id}
  /\ draft' = r.target
  /\ UNCHANGED <<closeRequested, exited>>

\* open_new_tab followed by activate_tab; the tab ends up with TabState r.
OpenActivated(r) ==
  /\ ~exited
  /\ nextTabId < MaxTabs
  /\ tabs' = Append(tabs, nextTabId)
  /\ active' = Len(tabs) + 1
  /\ nextTabId' = nextTabId + 1
  /\ tab' = [tab EXCEPT ![nextTabId] = r]
  /\ visible' = (visible \ {ActiveId}) \cup {nextTabId}
  /\ draft' = r.target
  /\ UNCHANGED <<closeRequested, exited>>

NewTab == OpenActivated(FreshTab)

\* deliver_nav_request with new_tab set, and the script's "newtab <target>".
OpenTabAt(x, o) == OpenActivated(Navigated(FreshTab, x, TRUE, o))

\* deliver_nav_request for the requesting tab, which need not be active.
NavigateInPlace(t, x, o) ==
  /\ ~exited
  /\ t \in Open
  /\ NavigateTab(t, tab[t], x, TRUE, o)

\* close_tab on the last tab only asks the application to exit.
CloseLastTab(t) ==
  /\ ~exited
  /\ tabs = <<t>>
  /\ closeRequested' = TRUE
  /\ UNCHANGED <<tabs, active, nextTabId, tab, visible, draft, exited>>

\* Bug: the active index stays where it is when a tab before it goes.
CloseBackgroundTab_Bug(t) ==
  /\ ~exited
  /\ t # ActiveId
  /\ \E i \in 1 .. Len(tabs) :
       /\ tabs[i] = t
       /\ tabs' = RemoveAt(tabs, i)
       /\ active' = IF active > Len(tabs') THEN Len(tabs') ELSE active
  /\ tab' = [tab EXCEPT ![t] = FreshTab]
  /\ visible' = visible \ {t}
  /\ UNCHANGED <<nextTabId, draft, closeRequested, exited>>

\* close_tab on a background tab: the active index follows its tab.
CloseBackgroundTab(t) ==
  /\ ~exited
  /\ t # ActiveId
  /\ \E i \in 1 .. Len(tabs) :
       /\ tabs[i] = t
       /\ tabs' = RemoveAt(tabs, i)
       /\ active' = IF active > i THEN active - 1 ELSE active
  /\ tab' = [tab EXCEPT ![t] = FreshTab]
  /\ visible' = visible \ {t}
  /\ UNCHANGED <<nextTabId, draft, closeRequested, exited>>

\* Bug: the neighbour is shown without going through activate_tab, which
\* would refresh the address bar.
CloseActiveTab_Bug(t) ==
  /\ ~exited
  /\ t = ActiveId
  /\ Len(tabs) > 1
  /\ tabs' = RemoveAt(tabs, active)
  /\ active' = IF active > 1 THEN active - 1 ELSE 1
  /\ tab' = [tab EXCEPT ![t] = FreshTab]
  /\ visible' = (visible \ {t}) \cup {tabs'[active']}
  /\ UNCHANGED <<nextTabId, draft, closeRequested, exited>>

\* close_tab on the active tab activates the tab before it, or for the
\* first tab the one that has moved into its place.
CloseActiveTab(t) ==
  /\ ~exited
  /\ t = ActiveId
  /\ Len(tabs) > 1
  /\ tabs' = RemoveAt(tabs, active)
  /\ active' = IF active > 1 THEN active - 1 ELSE 1
  /\ tab' = [tab EXCEPT ![t] = FreshTab]
  /\ visible' = (visible \ {t}) \cup {tabs'[active']}
  /\ draft' = tab[tabs'[active']].target
  /\ UNCHANGED <<nextTabId, closeRequested, exited>>

CloseTab(t) == CloseLastTab(t) \/ CloseBackgroundTab(t) \/ CloseActiveTab(t)

\* about_to_wait takes close_window_requested and stops the event loop.
ExitLoop ==
  /\ ~exited
  /\ closeRequested
  /\ closeRequested' = FALSE
  /\ exited' = TRUE
  /\ UNCHANGED <<tabs, active, nextTabId, tab, visible, draft>>

-----------------------------------------------------------------------------

StripNext ==
  \/ \E o \in Outcomes :
       \/ AddressSubmit(o) \/ NavBack(o) \/ NavForward(o) \/ NavReload(o)
       \/ \E x \in Targets :
            \/ NavigateActive(x, o)
            \/ OpenTabAt(x, o)
            \/ \E t \in TabId : NavigateInPlace(t, x, o)
  \/ \E x \in Targets \cup {Blank} : AddressInput(x)
  \/ NewTab
  \/ \E t \in TabId : SwitchTab(t) \/ CloseTab(t)
  \/ ExitLoop

\* The process ends with the event loop; nothing happens after that.
StripDone == exited /\ UNCHANGED stripVars

StripSpec == StripInit /\ [][StripNext \/ StripDone]_stripVars

-----------------------------------------------------------------------------
(***************************************************************************)
(* Properties.                                                             *)
(***************************************************************************)

\* Every variable of the strip keeps its type.
StripTypeOK ==
  /\ tabs \in Seq(TabId)
  /\ active \in Nat
  /\ nextTabId \in 0 .. MaxTabs
  /\ tab \in [TabId -> Tab]
  /\ visible \in SUBSET TabId
  /\ draft \in Targets \cup {Blank}
  /\ closeRequested \in BOOLEAN
  /\ exited \in BOOLEAN

\* However tabs are opened, switched and closed (by id, from queued clicks),
\* no id appears twice, the active index stays inside the strip, and exactly
\* one mount point is on display: the active tab's.
OneTabShown ==
  /\ \A i, j \in DOMAIN tabs : tabs[i] = tabs[j] => i = j
  /\ \A i \in DOMAIN tabs : tabs[i] < nextTabId
  /\ active \in DOMAIN tabs
  /\ visible = {ActiveId}

\* The history cursor points at an entry (back, forward and reload index the
\* vector unchecked), the address shown is one of the entries, and a tab has
\* a history exactly when it shows an address.
ConsistentHistory(r) ==
  /\ r.history = <<>> => r.historyIdx = 0 /\ r.target = Blank /\ ~r.live
  /\ r.history # <<>> => /\ r.historyIdx < Len(r.history)
                         /\ \E i \in DOMAIN r.history : r.history[i] = r.target

\* So it is in every tab, through failed loads, addresses that stop
\* resolving half way through the history, and navigations that cut it.
HistoryConsistent == \A t \in TabId : ConsistentHistory(tab[t])

\* Closing a background tab never changes which tab is active, on whichever
\* side of the active one it was.
CloseKeepsActive ==
  [][Len(tabs') < Len(tabs) /\ ActiveId \in ToSet(tabs')
       => ActiveId' = ActiveId]_stripVars

\* The entries a tab can go back to, and the one its cursor is on, are never
\* rewritten while the tab is open: only what lies forward of it is dropped.
HistoryBehindKept ==
  [][\A t \in Open \cap ToSet(tabs') :
       \A i \in DOMAIN tab[t].history :
         i <= tab[t].historyIdx + 1
           => /\ i \in DOMAIN tab'[t].history
              /\ tab'[t].history[i] = tab[t].history[i]]_stripVars

\* Whenever another tab becomes active, whether by a click, a close or a
\* guest's request for a new tab, the address bar shows that tab's address:
\* text typed for one tab is never submitted in another.
AddressBarFollowsTab ==
  [][ActiveId' # ActiveId => draft' = tab'[ActiveId'].target]_stripVars

=============================================================================
