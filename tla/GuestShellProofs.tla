-------------------------- MODULE GuestShellProofs --------------------------
(***************************************************************************)
(* Theorems about GuestShell for every value of its constants: the guests  *)
(* leave the strip a strip, a guest lives in one open tab, it navigates    *)
(* only within a gesture and only along the links of its page, every       *)
(* request is answered once, and no result reaches a guest older than it.  *)
(***************************************************************************)
EXTENDS GuestShell, TabStripProofs, FiniteSetTheorems

(***************************************************************************)
(* The inductive invariant.  Types need it whole: the caller of an import  *)
(* is a guest only because calls are made into tabs that have one, and     *)
(* navigation never finds a call in progress or a gesture up.              *)
(***************************************************************************)

\* Calls are made only once there is a window, and the gesture flag is up
\* only in a call that a click or a key press made.
GestureInv ==
  /\ GestureOnlyInDispatch
  /\ call # NoCall => phase = "up"

\* The requests whose results are still to be delivered.
Pending(m) ==
  \/ m \in inflight
  \/ \E j \in DOMAIN queue : queue[j].type = "result" /\ queue[j].req = m

\* The guest in the tab that a pending request belongs to is its issuer or
\* was loaded later.
RoutingInv ==
  \A m \in Request :
    Pending(m) => /\ m.from <= loads
                  /\ guest[m.tab] # NoGuest => guest[m.tab] >= m.from

GuestInv ==
  StripInv /\ GuestTypeOK /\ GuestsInTabs /\ GestureInv /\ RoutingInv

(***************************************************************************)
(* GuestShell implements TabStrip: forget the guests, and each of its      *)
(* steps is a step of the strip or none.                                   *)
(***************************************************************************)

LEMMA QueueHead ==
  ASSUME GuestTypeOK, queue # <<>>
  PROVE  /\ Head(queue) \in ResultEvent \cup NavEvent
         /\ Tail(queue) \in Seq(ResultEvent \cup NavEvent)
         /\ Len(Tail(queue)) = Len(queue) - 1
         /\ \A j \in 1 .. Len(Tail(queue)) : Tail(queue)[j] = queue[j + 1]
         /\ Head(queue) = queue[1] /\ 1 \in DOMAIN queue
  BY DEF GuestTypeOK

\* The event at the head of the queue has the fields of its type.
LEMMA NavHead ==
  ASSUME GuestTypeOK, queue # <<>>, Head(queue).type = "nav"
  PROVE  Head(queue) \in NavEvent
  BY QueueHead DEF ResultEvent, NavEvent

LEMMA ResultHead ==
  ASSUME GuestTypeOK, queue # <<>>, Head(queue).type = "result"
  PROVE  Head(queue).req \in Request
  BY QueueHead DEF ResultEvent, NavEvent

LEMMA GuestStepIsStripStep ==
  ASSUME GuestTypeOK, [Next \/ Done]_vars
  PROVE  [StripNext \/ StripDone]_stripVars
<1>1. ASSUME NEW x \in Targets, NEW o \in Outcomes, Boot(x, o)
      PROVE  StripNext
  BY <1>1 DEF Boot, StripNext
<1>2. ASSUME NEW o \in Outcomes, UserNavigates(o)
      PROVE  StripNext
  BY <1>2 DEF UserNavigates, StripNext
<1>3. CASE UserOpensTab
  BY <1>3 DEF UserOpensTab, StripNext
<1>4. ASSUME NEW t \in TabId, UserSwitchesTab(t) \/ UserClosesTab(t)
      PROVE  StripNext
  BY <1>4 DEF UserSwitchesTab, UserClosesTab, StripNext
<1>5. CASE Exit
  BY <1>5 DEF Exit, StripNext
<1>6. ASSUME NEW o \in Outcomes, DeliverNav(o)
      PROVE  StripNext
  <2>1. Head(queue) \in NavEvent
    BY <1>6, NavHead DEF DeliverNav, Deliverable
  <2>. QED
    BY <1>6, <2>1 DEF DeliverNav, StripNext, NavEvent
<1>7. CASE \/ CreateWindow \/ BeginFrame \/ CallRequestFrame \/ EndCall
           \/ DeliverResult \/ DropNav \/ Done \/ UNCHANGED vars
           \/ \E why \in {"gesture", "other"} : BeginEvent(why)
           \/ \E k \in Kinds : CallRequest(k)
           \/ \E x \in Targets, newTab \in BOOLEAN : CallNavigate(x, newTab)
           \/ \E m \in inflight : ThreadDone(m)
  BY <1>7 DEF CreateWindow, BeginFrame, CallRequestFrame, EndCall,
     DeliverResult, DropNav, Done, vars, BeginEvent, CallRequest,
     CallNavigate, ThreadDone
<1>. QED
  BY <1>1, <1>2, <1>3, <1>4, <1>5, <1>6, <1>7 DEF Next, TakeEvent

(***************************************************************************)
(* Navigations, which load and drop guests.                                *)
(***************************************************************************)

\* Whoever has the UI thread finds no gesture up.
LEMMA NoGestureWhenIdle ==
  ASSUME GuestInv, call = NoCall
  PROVE  gesture = {}
  BY DEF GuestInv, GestureInv, GestureOnlyInDispatch

\* A load on tab t, open afterwards, whose live flag says how it ended.
LEMMA LoadedTypes ==
  ASSUME GuestInv, NEW t \in TabId, NEW o \in Outcomes, SomeLoad(t, o)
  PROVE  /\ guest' \in [TabId -> Guest \cup {NoGuest}]
         /\ loads' \in 0 .. MaxLoads
         /\ lastReq' \in [Guest -> [Kinds -> 0 .. MaxReq]]
         /\ inflight' \in SUBSET Request
         /\ frame' \in SUBSET Guest
<1>1. PICK ks \in SUBSET Kinds, w \in BOOLEAN : Loaded(t, o, ks, w)
  BY DEF SomeLoad
<1>2. CASE UNCHANGED <<guest, loads, lastReq, inflight, frame>>
  BY <1>2 DEF GuestInv, GuestTypeOK
<1>3. CASE o # "unresolved"
  <2>. DEFINE g == loads + 1
              new == {[tab |-> t, from |-> g, kind |-> k, id |-> 1] : k \in ks}
  <2>1. g \in Guest /\ loads' = g /\ g \in 0 .. MaxLoads
    BY <1>1, <1>3, GuestShellAssumption
       DEF Loaded, GuestInv, GuestTypeOK, Guest
  <2>2. 1 \in 1 .. MaxReq /\ 0 \in 0 .. MaxReq /\ 1 \in 0 .. MaxReq
    BY GuestShellAssumption
  <2>3. new \in SUBSET Request
    BY <2>1, <2>2 DEF Request
  <2>4. [k \in Kinds |-> IF k \in ks THEN 1 ELSE 0] \in [Kinds -> 0 .. MaxReq]
    BY <2>2
  <2>. HIDE DEF g, new
  <2>5. /\ guest' = [guest EXCEPT ![t] = IF o = "loaded" THEN g ELSE NoGuest]
        /\ lastReq' = [lastReq EXCEPT ![g] =
                         [k \in Kinds |-> IF k \in ks THEN 1 ELSE 0]]
        /\ inflight' = inflight \cup new
        /\ frame' \subseteq frame \cup {g}
    BY <1>1, <1>3 DEF Loaded, g, new
  <2>. QED
    BY <2>1, <2>3, <2>4, <2>5 DEF GuestInv, GuestTypeOK
<1>. QED
  BY <1>1, <1>2, <1>3 DEF Loaded

\* The queue of a step that takes at most its head.
LEMMA PendingAfter ==
  ASSUME GuestTypeOK, queue' = queue \/ (queue # <<>> /\ queue' = Tail(queue)),
         NEW m \in Request, Pending(m)'
  PROVE  Pending(m) \/ m \in inflight'
<1>1. queue \in Seq(ResultEvent \cup NavEvent)
  BY DEF GuestTypeOK
<1>2. CASE m \in inflight'
  BY <1>2
<1>3. ASSUME NEW j \in DOMAIN queue', queue'[j].type = "result",
             queue'[j].req = m
      PROVE  Pending(m)
  <2>1. CASE queue' = queue
    BY <1>3, <2>1 DEF Pending
  <2>2. CASE queue # <<>> /\ queue' = Tail(queue)
    <3>1. /\ Tail(queue) \in Seq(ResultEvent \cup NavEvent)
          /\ Len(Tail(queue)) = Len(queue) - 1
          /\ \A k \in 1 .. Len(Tail(queue)) : Tail(queue)[k] = queue[k + 1]
      BY <2>2, QueueHead
    <3>2. j \in 1 .. Len(Tail(queue)) /\ queue'[j] = Tail(queue)[j]
      <4>1. DOMAIN Tail(queue) = 1 .. Len(Tail(queue))
        BY <3>1
      <4>. QED
        BY <1>3, <2>2, <4>1, Zenon
    <3>3. j + 1 \in DOMAIN queue /\ queue'[j] = queue[j + 1]
      BY <1>1, <3>1, <3>2
    <3>. QED
      BY <1>3, <3>3 DEF Pending
  <2>. QED
    BY <2>1, <2>2
<1>. QED
  BY <1>2, <1>3 DEF Pending

\* A load puts the newest guest, or none, into its tab, and its first
\* requests on their threads.
LEMMA LoadedGuests ==
  ASSUME GuestInv, NEW t \in TabId, NEW o \in Outcomes, SomeLoad(t, o),
         call = NoCall, call' = NoCall, gesture' = gesture,
         queue' = queue \/ (queue # <<>> /\ queue' = Tail(queue)),
         \A u \in TabId : u # t => tab'[u] = tab[u],
         o = "unresolved" => (tab'[t].live <=> tab[t].live),
         o # "unresolved" => (tab'[t].live <=> o = "loaded"),
         Open \cup {t} \subseteq Open'
  PROVE  GuestsInTabs' /\ RoutingInv'
<1>1. PICK ks \in SUBSET Kinds, w \in BOOLEAN : Loaded(t, o, ks, w)
  BY DEF SomeLoad
<1>2. gesture = {}
  BY NoGestureWhenIdle
<1>3. /\ guest \in [TabId -> Guest \cup {NoGuest}]
      /\ loads \in Nat
      /\ \A u \in TabId : /\ tab[u].live <=> guest[u] # NoGuest
                          /\ guest[u] # NoGuest => u \in Open
                          /\ guest[u] <= loads
      /\ \A u, v \in TabId : guest[u] = guest[v] /\ guest[u] # NoGuest => u = v
      /\ frame \subseteq {guest[u] : u \in TabId} \ {NoGuest}
      /\ inflight \subseteq Request
  BY DEF GuestInv, GuestTypeOK, GuestsInTabs
<1>4. CASE o = "unresolved"
  <2>1. UNCHANGED <<guest, loads, inflight, frame>>
    BY <1>1, <1>4 DEF Loaded
  <2>2. \A u \in TabId : tab'[u].live <=> tab[u].live
    BY <1>4
  <2>3. GuestsInTabs'
    BY <1>2, <1>3, <2>1, <2>2 DEF GuestsInTabs
  <2>4. \A m \in Request : Pending(m)' => Pending(m)
    BY <2>1, PendingAfter DEF GuestInv, Pending
  <2>5. RoutingInv'
    BY <2>1, <2>4 DEF GuestInv, RoutingInv
  <2>. QED
    BY <2>3, <2>5
<1>5. CASE o # "unresolved"
  <2>. DEFINE g == loads + 1
              at == IF o = "loaded" THEN g ELSE NoGuest
              new == {[tab |-> t, from |-> g, kind |-> k, id |-> 1] : k \in ks}
  <2>1. /\ guest' = [guest EXCEPT ![t] = at]
        /\ loads' = loads + 1
        /\ inflight' = inflight \cup new
        /\ frame' = (frame \ {guest[t]}) \cup
                    (IF o = "loaded" /\ w THEN {g} ELSE {})
    BY <1>1, <1>5 DEF Loaded
  <2>2. /\ at = g \/ at = NoGuest
        /\ at # NoGuest <=> tab'[t].live
        /\ at <= loads + 1
        /\ \A u \in TabId : guest[u] # at \/ at = NoGuest
        /\ g # NoGuest
    <3>1. g # NoGuest /\ g \in Nat /\ \A u \in TabId : guest[u] # g
      BY <1>3 DEF NoGuest, Guest
    <3>2. CASE o = "loaded"
      BY <1>3, <1>5, <3>1, <3>2
    <3>3. CASE o # "loaded"
      BY <1>3, <1>5, <3>1, <3>3 DEF NoGuest
    <3>. QED
      BY <3>2, <3>3
  <2>3. guest'[t] = at /\ \A u \in TabId : u # t => guest'[u] = guest[u]
    BY <1>3, <2>1
  <2>4. w /\ o = "loaded" => at = g
    OBVIOUS
  <2>5. \A u \in TabId : guest[u] <= loads => guest[u] <= loads + 1
    BY <1>3 DEF Guest, NoGuest
  <2>6. frame' \subseteq {guest'[u] : u \in TabId} \ {NoGuest}
    <3>. HIDE DEF g, at
    <3>1. ASSUME NEW f \in frame, f # guest[t]
          PROVE  f \in {guest'[u] : u \in TabId} \ {NoGuest}
      BY <1>3, <2>3, <3>1
    <3>2. at # NoGuest => at \in {guest'[u] : u \in TabId} \ {NoGuest}
      BY <2>3
    <3>. QED
      BY <2>1, <2>2, <2>4, <3>1, <3>2
  <2>. HIDE DEF at
  <2>7. GuestsInTabs'
    <3>1. \A u \in TabId : /\ tab'[u].live <=> guest'[u] # NoGuest
                           /\ guest'[u] # NoGuest => u \in Open'
                           /\ guest'[u] <= loads'
      BY <1>3, <2>1, <2>2, <2>3, <2>5
    <3>2. \A u, v \in TabId :
            guest'[u] = guest'[v] /\ guest'[u] # NoGuest => u = v
      BY <1>3, <2>2, <2>3
    <3>. QED
      BY <1>2, <2>6, <3>1, <3>2 DEF GuestsInTabs
  <2>8. RoutingInv'
    <3>. SUFFICES ASSUME NEW m \in Request, Pending(m)'
                  PROVE  /\ m.from <= loads'
                         /\ guest'[m.tab] # NoGuest => guest'[m.tab] >= m.from
      BY DEF RoutingInv
    <3>1. m.from \in Nat /\ m.tab \in TabId
      BY DEF Request, Guest
    <3>2. CASE m \in new
      BY <2>1, <2>2, <2>3, <1>3, <3>2
    <3>3. CASE Pending(m)
      <4>1. m.from <= loads /\ (guest[m.tab] # NoGuest => guest[m.tab] >= m.from)
        BY <3>3 DEF GuestInv, RoutingInv
      <4>. QED
        BY <1>3, <2>1, <2>2, <2>3, <3>1, <4>1
    <3>. QED
      BY <2>1, <3>2, <3>3, PendingAfter DEF GuestInv, Pending
  <2>. QED
    BY <2>7, <2>8
<1>. QED
  BY <1>4, <1>5

\* What navigate leaves in live.
LEMMA NavigatedLive ==
  ASSUME NEW r, SoundTab(r), NEW x \in Targets, NEW push \in BOOLEAN,
         NEW o \in Outcomes
  PROVE  /\ o = "unresolved" => Navigated(r, x, push, o) = r
         /\ o # "unresolved" =>
              (Navigated(r, x, push, o).live <=> o = "loaded")
<1>. DEFINE p == IF push THEN Pushed(r, x) ELSE r
            q == [p EXCEPT !.target = x, !.live = (o = "loaded")]
<1>1. p \in Tab
  BY PushedProperties DEF SoundTab
<1>2. o # "unresolved" => Navigated(r, x, push, o) = q
  BY DEF Navigated
<1>. HIDE DEF p
<1>3. q.live <=> o = "loaded"
  BY <1>1 DEF Tab
<1>. QED
  BY <1>2, <1>3 DEF Navigated

\* The rest of the state in a step that navigates.
NavigationFrame ==
  /\ call = NoCall
  /\ call' = NoCall
  /\ gesture' = gesture
  /\ done' = done
  /\ phase' \in {"boot", "start", "up"}
  /\ queue' = queue \/ (queue # <<>> /\ queue' = Tail(queue))

LEMMA NavigationFrameInv ==
  ASSUME GuestInv, NavigationFrame, NEW t \in TabId, NEW o \in Outcomes,
         SomeLoad(t, o)
  PROVE  GuestTypeOK' /\ GestureInv'
<1>1. gesture' = {}
  BY NoGestureWhenIdle DEF NavigationFrame
<1>2. queue' \in Seq(ResultEvent \cup NavEvent)
  BY QueueHead DEF NavigationFrame, GuestInv, GuestTypeOK
<1>3. GestureInv'
  BY <1>1 DEF NavigationFrame, GestureInv, GestureOnlyInDispatch
<1>. QED
  BY <1>2, <1>3, LoadedTypes DEF NavigationFrame, GuestInv, GuestTypeOK

\* A navigation of tab t, whose cursor may have been moved first.
LEMMA NavigateTabLoads ==
  ASSUME GuestInv, NavigationFrame, NEW t \in TabId, t \in Open,
         NEW r, SoundTab(r), r.live = tab[t].live,
         NEW x \in Targets, NEW push \in BOOLEAN, NEW o \in Outcomes,
         NavigateTab(t, r, x, push, o), SomeLoad(t, o)
  PROVE  GuestTypeOK' /\ GuestsInTabs' /\ GestureInv' /\ RoutingInv'
<1>1. tab' = [tab EXCEPT ![t] = Navigated(r, x, push, o)] /\ tabs' = tabs
  BY DEF NavigateTab
<1>2. tab \in [TabId -> Tab]
  BY DEF GuestInv, StripInv, StripTypeOK
<1>3. /\ tab'[t] = Navigated(r, x, push, o)
      /\ \A u \in TabId : u # t => tab'[u] = tab[u]
  BY <1>1, <1>2
<1>4. /\ o = "unresolved" => (tab'[t].live <=> tab[t].live)
      /\ o # "unresolved" => (tab'[t].live <=> o = "loaded")
  BY <1>3, NavigatedLive
<1>5. Open \cup {t} \subseteq Open'
  BY <1>1 DEF Open
<1>. QED
  BY <1>3, <1>4, <1>5, LoadedGuests, NavigationFrameInv DEF NavigationFrame

LEMMA NavigateActiveLoads ==
  ASSUME GuestInv, NavigationFrame, NEW x \in Targets, NEW o \in Outcomes,
         NavigateActive(x, o), SomeLoad(ActiveId, o)
  PROVE  GuestTypeOK' /\ GuestsInTabs' /\ GestureInv' /\ RoutingInv'
<1>1. ActiveId \in TabId /\ ActiveId \in Open
  BY ActiveIdOpen DEF GuestInv, Open, ToSet, ActiveId
<1>2. SoundTab(tab[ActiveId])
  BY <1>1, InvMeansSound DEF GuestInv
<1>3. NavigateTab(ActiveId, tab[ActiveId], x, TRUE, o)
  BY DEF NavigateActive
<1>. QED
  BY <1>1, <1>2, <1>3, NavigateTabLoads

\* Back, forward and reload, with a cursor that lands on an entry.
LEMMA MoveInHistoryLoads ==
  ASSUME GuestInv, NavigationFrame, NEW o \in Outcomes,
         SomeLoad(ActiveId, o), NavBack(o) \/ NavForward(o) \/ NavReload(o)
  PROVE  GuestTypeOK' /\ GuestsInTabs' /\ GestureInv' /\ RoutingInv'
<1>. DEFINE r == tab[ActiveId]
            moved(i) == [r EXCEPT !.historyIdx = i]
<1>1. ActiveId \in TabId /\ ActiveId \in Open
  BY ActiveIdOpen DEF GuestInv, Open, ToSet, ActiveId
<1>2. SoundTab(r) /\ r \in Tab /\ ConsistentHistory(r)
  BY <1>1, InvMeansSound DEF GuestInv, SoundTab
<1>3. ASSUME NEW i \in 0 .. Len(r.history) - 1,
             NavigateTab(ActiveId, moved(i), r.history[i + 1], FALSE, o)
      PROVE  GuestTypeOK' /\ GuestsInTabs' /\ GestureInv' /\ RoutingInv'
  <2>1. SoundTab(moved(i)) /\ r.history[i + 1] \in Targets
    BY <1>2, MovedCursorSound
  <2>2. moved(i).live = r.live
    BY <1>2 DEF Tab
  <2>. HIDE DEF moved
  <2>. QED
    BY <1>1, <1>3, <2>1, <2>2, NavigateTabLoads
<1>4. CASE NavBack(o)
  <2>1. r.historyIdx - 1 \in 0 .. Len(r.history) - 1
    BY <1>2, <1>4 DEF NavBack, Tab, ConsistentHistory
  <2>. QED
    BY <1>3, <1>4, <2>1 DEF NavBack
<1>5. CASE NavForward(o)
  <2>1. r.historyIdx + 1 \in 0 .. Len(r.history) - 1
    BY <1>2, <1>5 DEF NavForward, Tab
  <2>. QED
    BY <1>3, <1>5, <2>1 DEF NavForward
<1>6. CASE NavReload(o)
  <2>1. r.historyIdx \in 0 .. Len(r.history) - 1
    BY <1>2, <1>6 DEF NavReload, Tab, ConsistentHistory
  <2>2. r.history[r.historyIdx + 1] \in Targets
    BY <1>2, <2>1, MovedCursorSound
  <2>. QED
    BY <1>1, <1>2, <1>6, <2>2, NavigateTabLoads DEF NavReload
<1>. QED
  BY <1>4, <1>5, <1>6

\* A guest's request for a new tab: the tab's id was never used, so it has
\* no guest to drop.
LEMMA OpenTabLoads ==
  ASSUME GuestInv, NavigationFrame, NEW x \in Targets, NEW o \in Outcomes,
         OpenTabAt(x, o), SomeLoad(nextTabId, o)
  PROVE  GuestTypeOK' /\ GuestsInTabs' /\ GestureInv' /\ RoutingInv'
<1>. DEFINE t == nextTabId
            r == Navigated(FreshTab, x, TRUE, o)
<1>1. t \in TabId
  BY TabStripAssumption
     DEF OpenTabAt, OpenActivated, GuestInv, StripInv, StripTypeOK, TabId
<1>2. tabs \in Seq(TabId) /\ tab \in [TabId -> Tab]
  BY DEF GuestInv, StripInv, StripTypeOK
<1>3. t \notin Open
  BY <1>2 DEF GuestInv, StripInv, OneTabShown, Open, ToSet, TabId
<1>4. guest[t] = NoGuest /\ ~tab[t].live
  BY <1>1, <1>3 DEF GuestInv, GuestsInTabs
<1>5. tab' = [tab EXCEPT ![t] = r] /\ tabs' = Append(tabs, t)
  BY DEF OpenTabAt, OpenActivated
<1>6. tab'[t] = r /\ \A u \in TabId : u # t => tab'[u] = tab[u]
  BY <1>1, <1>2, <1>5
<1>7. /\ o = "unresolved" => (tab'[t].live <=> tab[t].live)
      /\ o # "unresolved" => (tab'[t].live <=> o = "loaded")
  <2>1. /\ o = "unresolved" => r = FreshTab
        /\ o # "unresolved" => (r.live <=> o = "loaded")
    BY FreshTabSound, NavigatedLive
  <2>2. ~FreshTab.live
    BY DEF FreshTab
  <2>. HIDE DEF r
  <2>. QED
    BY <1>4, <1>6, <2>1, <2>2
<1>8. Open \cup {t} \subseteq Open'
  <2>1. \A i \in 1 .. Len(tabs) : i \in DOMAIN tabs' /\ tabs'[i] = tabs[i]
    BY <1>1, <1>2, <1>5
  <2>2. Len(tabs) + 1 \in DOMAIN tabs' /\ tabs'[Len(tabs) + 1] = t
    BY <1>1, <1>2, <1>5
  <2>. QED
    BY <1>2, <2>1, <2>2 DEF Open, ToSet
<1>. HIDE DEF t
<1>. QED
  BY <1>1, <1>6, <1>7, <1>8, LoadedGuests, NavigationFrameInv
     DEF NavigationFrame, t

(***************************************************************************)
(* The other handlers.                                                     *)
(***************************************************************************)

\* Tabs may be added and reordered under the guests.
LEMMA SameGuests ==
  ASSUME GuestInv, UNCHANGED guestVars, call = NoCall,
         \A t \in TabId : tab'[t].live <=> tab[t].live,
         Open \subseteq Open'
  PROVE  GuestTypeOK' /\ GuestsInTabs' /\ GestureInv' /\ RoutingInv'
<1>. USE DEF guestVars
<1>1. gesture = {}
  BY NoGestureWhenIdle
<1>2. GuestTypeOK'
  BY DEF GuestInv, GuestTypeOK
<1>3. GuestsInTabs'
  BY <1>1 DEF GuestInv, GuestsInTabs
<1>4. GestureInv'
  BY <1>1 DEF GestureInv, GestureOnlyInDispatch
<1>5. RoutingInv'
  BY DEF GuestInv, RoutingInv, Pending
<1>. QED
  BY <1>2, <1>3, <1>4, <1>5

LEMMA OpensTabKeepsGuests ==
  ASSUME GuestInv, UserOpensTab
  PROVE  GuestTypeOK' /\ GuestsInTabs' /\ GestureInv' /\ RoutingInv'
<1>. DEFINE t == nextTabId
<1>1. t \in TabId
  BY TabStripAssumption
     DEF UserOpensTab, NewTab, OpenActivated, GuestInv, StripInv, StripTypeOK,
         TabId
<1>2. tabs \in Seq(TabId) /\ tab \in [TabId -> Tab]
  BY DEF GuestInv, StripInv, StripTypeOK
<1>3. t \notin Open
  BY <1>2 DEF GuestInv, StripInv, OneTabShown, Open, ToSet, TabId
<1>4. ~tab[t].live
  BY <1>1, <1>3 DEF GuestInv, GuestsInTabs
<1>5. /\ tab' = [tab EXCEPT ![t] = FreshTab] /\ tabs' = Append(tabs, t)
      /\ UNCHANGED guestVars /\ call = NoCall
  BY DEF UserOpensTab, NewTab, OpenActivated, Idle
<1>6. \A u \in TabId : tab'[u].live <=> tab[u].live
  BY <1>1, <1>2, <1>4, <1>5 DEF FreshTab
<1>7. Open \subseteq Open'
  <2>1. \A i \in 1 .. Len(tabs) : i \in DOMAIN tabs' /\ tabs'[i] = tabs[i]
    BY <1>1, <1>2, <1>5
  <2>. QED
    BY <1>2, <2>1 DEF Open, ToSet
<1>. QED
  BY <1>5, <1>6, <1>7, SameGuests

\* Closing a tab: the strip loses it and its TabState together.
LEMMA ClosedTab ==
  ASSUME StripInv, NEW t \in TabId, CloseTab(t)
  PROVE  \/ UNCHANGED <<tabs, tab>> /\ t \in Open
         \/ /\ t \notin Open' /\ Open \subseteq Open' \cup {t}
            /\ tab' = [tab EXCEPT ![t] = FreshTab]
<1>1. tabs \in Seq(TabId)
  BY DEF StripInv, StripTypeOK
<1>2. CASE CloseLastTab(t)
  BY <1>2 DEF CloseLastTab, Open, ToSet
<1>3. ASSUME NEW i \in 1 .. Len(tabs), tabs[i] = t, tabs' = RemoveAt(tabs, i)
      PROVE  t \notin Open' /\ Open \subseteq Open' \cup {t}
  <2>1. /\ tabs' \in Seq(TabId) /\ Len(tabs') = Len(tabs) - 1
        /\ \A j \in 1 .. Len(tabs') :
             tabs'[j] = IF j < i THEN tabs[j] ELSE tabs[j + 1]
    BY <1>3, RemovedTab
  <2>2. \A j, k \in 1 .. Len(tabs) : tabs[j] = tabs[k] => j = k
    BY <1>1 DEF StripInv, OneTabShown
  <2>3. ASSUME NEW j \in 1 .. Len(tabs')
        PROVE  tabs'[j] # t
    <3>1. CASE j < i
      BY <1>1, <1>3, <2>1, <2>2, <3>1
    <3>2. CASE ~(j < i)
      <4>1. j + 1 \in 1 .. Len(tabs) /\ j + 1 # i /\ tabs'[j] = tabs[j + 1]
        BY <1>1, <2>1, <3>2
      <4>. QED
        BY <1>3, <2>2, <4>1
    <3>. QED
      BY <3>1, <3>2
  <2>4. ASSUME NEW k \in 1 .. Len(tabs), k # i
        PROVE  \E j \in 1 .. Len(tabs') : tabs'[j] = tabs[k]
    <3>1. CASE k < i
      BY <1>1, <2>1, <2>4, <3>1
    <3>2. CASE k > i
      <4>1. k - 1 \in 1 .. Len(tabs') /\ ~(k - 1 < i) /\ (k - 1) + 1 = k
        BY <1>1, <2>1, <3>2
      <4>. QED
        BY <2>1, <4>1
    <3>. QED
      BY <1>1, <2>4, <3>1, <3>2
  <2>5. t \notin Open'
    BY <2>1, <2>3 DEF Open, ToSet
  <2>6. ASSUME NEW u \in Open PROVE u = t \/ u \in Open'
    <3>1. PICK k \in 1 .. Len(tabs) : tabs[k] = u
      BY <1>1 DEF Open, ToSet
    <3>2. CASE k = i
      BY <1>3, <3>1, <3>2
    <3>3. CASE k # i
      BY <2>1, <2>4, <3>1, <3>3 DEF Open, ToSet
    <3>. QED
      BY <3>2, <3>3
  <2>. QED
    BY <2>5, <2>6
<1>4. CASE CloseBackgroundTab(t)
  BY <1>3, <1>4 DEF CloseBackgroundTab
<1>5. CASE CloseActiveTab(t)
  <2>1. active \in 1 .. Len(tabs) /\ tabs[active] = t /\ tabs' = RemoveAt(tabs, active)
    BY <1>5, ActiveIdOpen DEF CloseActiveTab, ActiveId
  <2>. QED
    BY <1>3, <1>5, <2>1 DEF CloseActiveTab
<1>. QED
  BY <1>2, <1>4, <1>5 DEF CloseTab

LEMMA ClosesTabDropsGuest ==
  ASSUME GuestInv, NEW t \in TabId, UserClosesTab(t)
  PROVE  GuestTypeOK' /\ GuestsInTabs' /\ GestureInv' /\ RoutingInv'
<1>1. /\ CloseTab(t) /\ call = NoCall
      /\ UNCHANGED <<phase, loads, lastReq, inflight, queue, call, gesture,
                     done>>
  BY DEF UserClosesTab, Idle
<1>2. gesture = {}
  BY <1>1, NoGestureWhenIdle
<1>3. CASE UNCHANGED <<tabs, tab>> /\ t \in Open
  <2>1. guest' = guest /\ frame' = frame
    BY <1>3 DEF UserClosesTab, Open
  <2>. QED
    BY <1>1, <1>3, <2>1, SameGuests DEF guestVars, Open
<1>4. CASE /\ t \notin Open' /\ Open \subseteq Open' \cup {t}
           /\ tab' = [tab EXCEPT ![t] = FreshTab]
  <2>1. guest' = [guest EXCEPT ![t] = NoGuest] /\ frame' = frame \ {guest[t]}
    BY <1>4 DEF UserClosesTab, Open
  <2>2. /\ guest \in [TabId -> Guest \cup {NoGuest}] /\ frame \in SUBSET Guest
        /\ loads \in Nat /\ tab \in [TabId -> Tab]
    BY DEF GuestInv, GuestTypeOK, StripInv, StripTypeOK
  <2>3. /\ guest'[t] = NoGuest /\ ~tab'[t].live
        /\ \A u \in TabId : u # t => guest'[u] = guest[u] /\ tab'[u] = tab[u]
    BY <1>4, <2>1, <2>2 DEF FreshTab
  <2>4. GuestTypeOK'
    BY <1>1, <2>1, <2>2 DEF GuestInv, GuestTypeOK
  <2>5. GuestsInTabs'
    <3>1. \A u \in TabId : /\ tab'[u].live <=> guest'[u] # NoGuest
                           /\ guest'[u] # NoGuest => u \in Open'
                           /\ guest'[u] <= loads'
      BY <1>1, <1>4, <2>2, <2>3 DEF GuestInv, GuestsInTabs, NoGuest
    <3>2. \A u, v \in TabId : guest'[u] = guest'[v] /\ guest'[u] # NoGuest => u = v
      BY <2>3 DEF GuestInv, GuestsInTabs
    <3>3. frame' \subseteq {guest'[u] : u \in TabId} \ {NoGuest}
      BY <2>1, <2>3 DEF GuestInv, GuestsInTabs
    <3>. QED
      BY <1>1, <1>2, <3>1, <3>2, <3>3 DEF GuestsInTabs
  <2>6. GestureInv'
    BY <1>1, <1>2 DEF GestureInv, GestureOnlyInDispatch
  <2>7. RoutingInv'
    <3>1. \A m \in Request : m.tab \in TabId
      BY DEF Request
    <3>. QED
      BY <1>1, <2>3, <3>1 DEF GuestInv, RoutingInv, Pending
  <2>. QED
    BY <2>4, <2>5, <2>6, <2>7
<1>. QED
  BY <1>1, <1>3, <1>4, ClosedTab DEF GuestInv

(***************************************************************************)
(* Calls into a guest, host threads and deliveries.  None of them touches  *)
(* the strip or the guests in it.                                          *)
(***************************************************************************)

\* What such a step leaves alone, and what follows for the guests.
CallFrame ==
  UNCHANGED <<stripVars, phase, guest, loads>>

LEMMA GuestsInTabsCall ==
  ASSUME GuestInv, CallFrame,
         call' # NoCall => guest[call'.tab] # NoGuest,
         gesture' \cup frame' \subseteq {guest[t] : t \in TabId} \ {NoGuest}
  PROVE  GuestsInTabs'
  BY DEF CallFrame, stripVars, GuestInv, GuestsInTabs, Open, Caller

\* The guest being called, and its tab.
LEMMA CallerIsGuest ==
  ASSUME GuestInv, call # NoCall
  PROVE  /\ call.tab \in TabId
         /\ Caller \in Guest
         /\ Caller \in {guest[t] : t \in TabId} \ {NoGuest}
  BY DEF GuestInv, GuestTypeOK, GuestsInTabs, Call, Caller

LEMMA ActiveIsCallable ==
  ASSUME GuestInv, guest[ActiveId] # NoGuest, phase = "up",
         NEW why \in {"gesture", "other"}
  PROVE  LET c == [tab |-> ActiveId, why |-> why]
         IN c \in Call /\ c # NoCall /\ c.tab = ActiveId /\ c.why = why
<1>1. ActiveId \in TabId
  BY ActiveIdOpen DEF GuestInv
<1>. QED
  BY <1>1 DEF Call, NoCall

LEMMA BeginEventInv ==
  ASSUME GuestInv, NEW why \in {"gesture", "other"}, BeginEvent(why)
  PROVE  GuestTypeOK' /\ GuestsInTabs' /\ GestureInv' /\ RoutingInv'
<1>. USE DEF BeginEvent, Idle
<1>1. /\ call' \in Call /\ call' # NoCall /\ call'.tab = ActiveId
      /\ call'.why = why
  BY ActiveIsCallable
<1>2. gesture = {} /\ ActiveId \in TabId
  BY NoGestureWhenIdle, ActiveIdOpen DEF GuestInv
<1>3. gesture' = IF why = "gesture" THEN {guest[ActiveId]} ELSE {}
  BY <1>2
<1>4. GuestTypeOK'
  BY <1>1, <1>2, <1>3 DEF GuestInv, GuestTypeOK, NoGuest
<1>5. GuestsInTabs'
  <2>1. gesture' \cup frame' \subseteq {guest[t] : t \in TabId} \ {NoGuest}
    BY <1>2, <1>3 DEF GuestInv, GuestsInTabs
  <2>. QED
    BY <1>1, <2>1, GuestsInTabsCall DEF CallFrame
<1>6. GestureInv'
  BY <1>1, <1>3 DEF GestureInv, GestureOnlyInDispatch, Caller, stripVars, ActiveId
<1>7. RoutingInv'
  BY DEF GuestInv, RoutingInv, Pending
<1>. QED
  BY <1>4, <1>5, <1>6, <1>7

LEMMA BeginFrameInv ==
  ASSUME GuestInv, BeginFrame
  PROVE  GuestTypeOK' /\ GuestsInTabs' /\ GestureInv' /\ RoutingInv'
<1>. USE DEF BeginFrame, Idle
<1>1. ActiveId \in TabId /\ gesture = {} /\ guest[ActiveId] # NoGuest
  BY NoGestureWhenIdle, ActiveIdOpen DEF GuestInv, GuestTypeOK, Guest, NoGuest
<1>2. call' \in Call /\ call' # NoCall /\ call'.tab = ActiveId
  BY <1>1, ActiveIsCallable
<1>3. GuestTypeOK'
  BY <1>2 DEF GuestInv, GuestTypeOK
<1>4. GuestsInTabs'
  <2>1. gesture' \cup frame' \subseteq {guest[t] : t \in TabId} \ {NoGuest}
    BY <1>1 DEF GuestInv, GuestsInTabs
  <2>. QED
    BY <1>1, <1>2, <2>1, GuestsInTabsCall DEF CallFrame
<1>5. GestureInv'
  BY <1>1 DEF GestureInv, GestureOnlyInDispatch
<1>6. RoutingInv'
  BY DEF GuestInv, RoutingInv, Pending
<1>. QED
  BY <1>3, <1>4, <1>5, <1>6

LEMMA CallRequestInv ==
  ASSUME GuestInv, NEW k \in Kinds, CallRequest(k)
  PROVE  GuestTypeOK' /\ GuestsInTabs' /\ GestureInv' /\ RoutingInv'
<1>. USE DEF CallRequest
<1>. DEFINE m == [tab |-> call.tab, from |-> Caller, kind |-> k,
                  id |-> lastReq'[Caller][k]]
<1>1. /\ call.tab \in TabId /\ Caller \in Guest
      /\ Caller = guest[call.tab] /\ Caller <= loads
  BY CallerIsGuest DEF GuestInv, GuestsInTabs, Caller
<1>2. /\ lastReq' \in [Guest -> [Kinds -> 0 .. MaxReq]]
      /\ lastReq'[Caller][k] \in 1 .. MaxReq
  <2>1. lastReq \in [Guest -> [Kinds -> 0 .. MaxReq]] /\ MaxReq \in Nat
    BY GuestShellAssumption DEF GuestInv, GuestTypeOK
  <2>2. lastReq[Caller][k] + 1 \in 1 .. MaxReq
    BY <1>1, <2>1
  <2>. QED
    BY <1>1, <2>1, <2>2
<1>3. m \in Request /\ inflight' = inflight \cup {m}
  BY <1>1, <1>2 DEF Request
<1>4. m.from = Caller /\ m.tab = call.tab
  OBVIOUS
<1>. HIDE DEF m
<1>5. GuestTypeOK'
  BY <1>2, <1>3 DEF GuestInv, GuestTypeOK
<1>6. GuestsInTabs'
  BY GuestsInTabsCall DEF CallFrame, GuestInv, GuestsInTabs, Caller
<1>7. GestureInv'
  BY DEF GuestInv, GestureInv, GestureOnlyInDispatch, Caller, stripVars, ActiveId
<1>8. RoutingInv'
  <2>1. \A q \in Request : Pending(q)' => q = m \/ Pending(q)
    BY <1>3 DEF Pending
  <2>2. Caller >= Caller
    BY <1>1 DEF Guest
  <2>3. m.from <= loads /\ (guest[m.tab] # NoGuest => guest[m.tab] >= m.from)
    BY <1>1, <1>4, <2>2
  <2>. QED
    BY <2>1, <2>3 DEF GuestInv, RoutingInv
<1>. QED
  BY <1>5, <1>6, <1>7, <1>8

LEMMA CallRequestFrameInv ==
  ASSUME GuestInv, CallRequestFrame
  PROVE  GuestTypeOK' /\ GuestsInTabs' /\ GestureInv' /\ RoutingInv'
<1>. USE DEF CallRequestFrame
<1>1. Caller \in Guest /\ Caller \in {guest[t] : t \in TabId} \ {NoGuest}
  BY CallerIsGuest
<1>2. GuestTypeOK'
  BY <1>1 DEF GuestInv, GuestTypeOK
<1>3. GuestsInTabs'
  <2>1. gesture' \cup frame' \subseteq {guest[t] : t \in TabId} \ {NoGuest}
    BY <1>1 DEF GuestInv, GuestsInTabs
  <2>. QED
    BY <2>1, GuestsInTabsCall DEF CallFrame, GuestInv, GuestsInTabs, Caller
<1>4. GestureInv'
  BY DEF GuestInv, GestureInv, GestureOnlyInDispatch, Caller, stripVars, ActiveId
<1>5. RoutingInv'
  BY DEF GuestInv, RoutingInv, Pending
<1>. QED
  BY <1>2, <1>3, <1>4, <1>5

\* Appending to the queue.
LEMMA QueueAppend ==
  ASSUME GuestTypeOK, NEW e \in ResultEvent \cup NavEvent,
         queue' = Append(queue, e)
  PROVE  /\ queue' \in Seq(ResultEvent \cup NavEvent)
         /\ Len(queue') = Len(queue) + 1
         /\ queue'[Len(queue) + 1] = e
         /\ \A j \in 1 .. Len(queue) : queue'[j] = queue[j]
         /\ DOMAIN queue' = 1 .. Len(queue) + 1
         /\ DOMAIN queue = 1 .. Len(queue)
         /\ Len(queue) \in Nat
  BY DEF GuestTypeOK

LEMMA CallNavigateInv ==
  ASSUME GuestInv, NEW x \in Targets, NEW newTab \in BOOLEAN,
         CallNavigate(x, newTab)
  PROVE  GuestTypeOK' /\ GuestsInTabs' /\ GestureInv' /\ RoutingInv'
<1>. USE DEF CallNavigate
<1>. DEFINE e == [type |-> "nav", tab |-> call.tab, from |-> Caller,
                  target |-> x, newTab |-> newTab]
<1>1. e \in NavEvent /\ e.type # "result"
  BY CallerIsGuest DEF NavEvent
<1>2. queue' = Append(queue, e)
  OBVIOUS
<1>. HIDE DEF e
<1>3. /\ queue' \in Seq(ResultEvent \cup NavEvent)
      /\ Len(queue) \in Nat
      /\ queue'[Len(queue) + 1] = e
      /\ \A j \in 1 .. Len(queue) : queue'[j] = queue[j]
      /\ DOMAIN queue' = 1 .. Len(queue) + 1
      /\ DOMAIN queue = 1 .. Len(queue)
  BY <1>1, <1>2, QueueAppend DEF GuestInv
<1>4. GuestTypeOK'
  BY <1>3 DEF GuestInv, GuestTypeOK
<1>5. GuestsInTabs'
  BY GuestsInTabsCall DEF CallFrame, GuestInv, GuestsInTabs, Caller
<1>6. GestureInv'
  BY DEF GuestInv, GestureInv, GestureOnlyInDispatch, Caller, stripVars, ActiveId
<1>7. RoutingInv'
  <2>1. \A j \in DOMAIN queue' : queue'[j].type = "result"
          => j \in DOMAIN queue /\ queue'[j] = queue[j]
    BY <1>1, <1>3
  <2>2. \A q \in Request : Pending(q)' => Pending(q)
    BY <2>1 DEF Pending
  <2>. QED
    BY <2>2 DEF GuestInv, RoutingInv
<1>. QED
  BY <1>4, <1>5, <1>6, <1>7

LEMMA EndCallInv ==
  ASSUME GuestInv, EndCall
  PROVE  GuestTypeOK' /\ GuestsInTabs' /\ GestureInv' /\ RoutingInv'
<1>. USE DEF EndCall
<1>1. gesture' = {}
  BY DEF GuestInv, GestureInv, GestureOnlyInDispatch
<1>2. GuestTypeOK'
  BY DEF GuestInv, GuestTypeOK
<1>3. GuestsInTabs'
  BY <1>1, GuestsInTabsCall DEF CallFrame, GuestInv, GuestsInTabs
<1>4. GestureInv'
  BY <1>1 DEF GestureInv, GestureOnlyInDispatch
<1>5. RoutingInv'
  BY DEF GuestInv, RoutingInv, Pending
<1>. QED
  BY <1>2, <1>3, <1>4, <1>5

LEMMA ThreadDoneInv ==
  ASSUME GuestInv, NEW m \in inflight, ThreadDone(m)
  PROVE  GuestTypeOK' /\ GuestsInTabs' /\ GestureInv' /\ RoutingInv'
<1>. USE DEF ThreadDone
<1>. DEFINE e == [type |-> "result", req |-> m]
<1>1. m \in Request
  BY DEF GuestInv, GuestTypeOK
<1>2. e \in ResultEvent /\ e.req = m
  BY <1>1 DEF ResultEvent
<1>3. queue' = Append(queue, e)
  OBVIOUS
<1>. HIDE DEF e
<1>4. /\ queue' \in Seq(ResultEvent \cup NavEvent)
      /\ Len(queue) \in Nat
      /\ queue'[Len(queue) + 1] = e
      /\ \A j \in 1 .. Len(queue) : queue'[j] = queue[j]
      /\ DOMAIN queue' = 1 .. Len(queue) + 1
      /\ DOMAIN queue = 1 .. Len(queue)
  BY <1>2, <1>3, QueueAppend DEF GuestInv
<1>5. GuestTypeOK'
  BY <1>4 DEF GuestInv, GuestTypeOK
<1>6. GuestsInTabs'
  BY GuestsInTabsCall DEF CallFrame, GuestInv, GuestsInTabs, Caller
<1>7. GestureInv'
  BY DEF GuestInv, GestureInv, GestureOnlyInDispatch, Caller, stripVars, ActiveId
<1>8. RoutingInv'
  <2>1. \A j \in DOMAIN queue' :
          queue'[j].req = m \/ (j \in DOMAIN queue /\ queue'[j] = queue[j])
    BY <1>2, <1>4
  <2>2. \A q \in Request : Pending(q)' => Pending(q)
    BY <2>1 DEF Pending
  <2>. QED
    BY <2>2 DEF GuestInv, RoutingInv
<1>. QED
  BY <1>5, <1>6, <1>7, <1>8

\* A step that takes the head of the queue and issues no request.
LEMMA TakenFromQueue ==
  ASSUME GuestInv, queue # <<>>, queue' = Tail(queue), inflight' = inflight,
         guest' = guest, loads' = loads
  PROVE  RoutingInv'
<1>1. \A q \in Request : Pending(q)' => Pending(q)
  BY PendingAfter DEF GuestInv, Pending
<1>. QED
  BY <1>1 DEF GuestInv, RoutingInv

LEMMA DropNavInv ==
  ASSUME GuestInv, DropNav
  PROVE  GuestTypeOK' /\ GuestsInTabs' /\ GestureInv' /\ RoutingInv'
<1>. USE DEF DropNav, Deliverable
<1>1. GuestTypeOK'
  BY QueueHead DEF GuestInv, GuestTypeOK
<1>2. GuestsInTabs'
  BY GuestsInTabsCall DEF CallFrame, GuestInv, GuestsInTabs
<1>3. GestureInv'
  BY DEF GuestInv, GestureInv, GestureOnlyInDispatch
<1>4. RoutingInv'
  BY TakenFromQueue
<1>. QED
  BY <1>1, <1>2, <1>3, <1>4

LEMMA DeliverResultInv ==
  ASSUME GuestInv, DeliverResult
  PROVE  GuestTypeOK' /\ GuestsInTabs' /\ GestureInv' /\ RoutingInv'
<1>. USE DEF DeliverResult, Deliverable
<1>. DEFINE m == Head(queue).req
<1>1. m \in Request
  BY ResultHead DEF GuestInv
<1>2. m.tab \in TabId
  BY <1>1 DEF Request
<1>3. Receiver(m) \in Guest \cup {NoGuest}
  BY <1>2 DEF Receiver, GuestInv, GuestTypeOK
<1>4. done' = done \cup {[req |-> m, to |-> Receiver(m)]}
  OBVIOUS
<1>5. /\ call' = IF Receiver(m) = NoGuest THEN NoCall
                 ELSE [tab |-> m.tab, why |-> "other"]
      /\ gesture = {} /\ gesture' = {}
  BY NoGestureWhenIdle
<1>. HIDE DEF m
<1>6. call' \in Call \cup {NoCall}
  BY <1>2, <1>5 DEF Call
<1>7. call' # NoCall => /\ guest[call'.tab] # NoGuest /\ phase = "up"
  BY <1>5 DEF Receiver
<1>8. GuestTypeOK'
  <2>1. queue' \in Seq(ResultEvent \cup NavEvent)
    BY QueueHead DEF GuestInv
  <2>2. done' \in SUBSET [req : Request, to : Guest \cup {NoGuest}]
    BY <1>1, <1>3, <1>4 DEF GuestInv, GuestTypeOK
  <2>. QED
    BY <1>6, <2>1, <2>2 DEF GuestInv, GuestTypeOK
<1>9. GuestsInTabs'
  BY <1>5, <1>7, GuestsInTabsCall DEF CallFrame, GuestInv, GuestsInTabs
<1>10. GestureInv'
  BY <1>5, <1>7 DEF GestureInv, GestureOnlyInDispatch
<1>11. RoutingInv'
  BY TakenFromQueue
<1>. QED
  BY <1>8, <1>9, <1>10, <1>11

LEMMA DeliverNavInv ==
  ASSUME GuestInv, NEW o \in Outcomes, DeliverNav(o)
  PROVE  GuestTypeOK' /\ GuestsInTabs' /\ GestureInv' /\ RoutingInv'
<1>. DEFINE n == Head(queue)
<1>1. n \in NavEvent
  BY NavHead DEF DeliverNav, Deliverable, GuestInv
<1>2. n.target \in Targets /\ n.tab \in TabId
  BY <1>1 DEF NavEvent
<1>3. NavigationFrame
  BY DEF DeliverNav, Deliverable, NavigationFrame, GuestInv, GuestTypeOK
<1>4. n.tab \in Open
  BY DEF DeliverNav
<1>5. CASE OpenTabAt(n.target, o) /\ SomeLoad(nextTabId, o)
  BY <1>2, <1>3, <1>5, OpenTabLoads
<1>6. CASE NavigateInPlace(n.tab, n.target, o) /\ SomeLoad(n.tab, o)
  <2>. DEFINE r == tab[n.tab]
  <2>1. SoundTab(r) /\ NavigateTab(n.tab, r, n.target, TRUE, o)
    BY <1>2, <1>6, InvMeansSound DEF NavigateInPlace, GuestInv
  <2>. HIDE DEF n
  <2>. QED
    BY <1>2, <1>3, <1>4, <1>6, <2>1, NavigateTabLoads
<1>. QED
  BY <1>5, <1>6 DEF DeliverNav

(***************************************************************************)
(* The theorems.                                                           *)
(***************************************************************************)

LEMMA GuestInitInv ==
  Init => GuestInv
<1>. SUFFICES ASSUME Init PROVE GuestInv
  OBVIOUS
<1>. USE DEF Init
<1>1. StripInv
  BY StripInitInv
<1>2. GuestTypeOK
  <2>1. 0 \in 0 .. MaxLoads /\ 0 \in 0 .. MaxReq
    BY GuestShellAssumption
  <2>. QED
    BY <2>1 DEF GuestTypeOK
<1>3. GuestsInTabs
  BY DEF StripInit, FreshTab, GuestsInTabs, NoGuest
<1>4. GestureInv /\ RoutingInv
  BY DEF GestureInv, GestureOnlyInDispatch, RoutingInv, Pending
<1>. QED
  BY <1>1, <1>2, <1>3, <1>4 DEF GuestInv

LEMMA GuestStepInv ==
  ASSUME GuestInv, [Next \/ Done]_vars
  PROVE  GuestInv'
<1>. DEFINE Rest == GuestTypeOK' /\ GuestsInTabs' /\ GestureInv' /\ RoutingInv'
<1>1. StripInv'
  BY GuestStepIsStripStep, StripStepInv DEF GuestInv
<1>2. ASSUME NEW x \in Targets, NEW o \in Outcomes, Boot(x, o) PROVE Rest
  <2>1. NavigationFrame
    BY <1>2 DEF Boot, NavigationFrame, GuestInv, GestureInv
  <2>. QED
    BY <1>2, <2>1, NavigateActiveLoads DEF Boot
<1>3. ASSUME CreateWindow PROVE Rest
  <2>1. call = NoCall
    BY <1>3 DEF CreateWindow, GuestInv, GestureInv
  <2>2. GuestTypeOK'
    BY <1>3 DEF CreateWindow, GuestInv, GuestTypeOK
  <2>3. GuestsInTabs'
    BY <1>3, <2>1, GuestsInTabsCall
       DEF CreateWindow, CallFrame, stripVars, GuestInv, GuestsInTabs, Open
  <2>4. GestureInv'
    BY <1>3, <2>1, NoGestureWhenIdle
       DEF CreateWindow, GestureInv, GestureOnlyInDispatch
  <2>5. RoutingInv'
    BY <1>3 DEF CreateWindow, GuestInv, RoutingInv, Pending
  <2>. QED
    BY <2>2, <2>3, <2>4, <2>5
<1>4. ASSUME NEW o \in Outcomes, UserNavigates(o) PROVE Rest
  <2>1. NavigationFrame /\ SomeLoad(ActiveId, o)
    BY <1>4 DEF UserNavigates, Idle, NavigationFrame
  <2>. QED
    BY <1>4, <2>1, NavigateActiveLoads, MoveInHistoryLoads DEF UserNavigates
<1>5. ASSUME UserOpensTab PROVE Rest
  BY <1>5, OpensTabKeepsGuests
<1>6. ASSUME NEW t \in TabId, UserSwitchesTab(t) PROVE Rest
  BY <1>6, SameGuests DEF UserSwitchesTab, SwitchTab, Idle, Open
<1>7. ASSUME NEW t \in TabId, UserClosesTab(t) PROVE Rest
  BY <1>7, ClosesTabDropsGuest
<1>8. ASSUME Exit PROVE Rest
  BY <1>8, SameGuests DEF Exit, ExitLoop, Idle, Open
<1>9. ASSUME UNCHANGED vars PROVE Rest
  BY <1>9 DEF vars, stripVars, guestVars, GuestInv, GuestTypeOK, GuestsInTabs,
     GestureInv, GestureOnlyInDispatch, RoutingInv, Pending, Open, Caller,
     ActiveId
<1>. HIDE DEF Rest
<1>10. Rest
  <2>1. ASSUME NEW why \in {"gesture", "other"}, BeginEvent(why) PROVE Rest
    BY <2>1, BeginEventInv DEF Rest
  <2>2. ASSUME BeginFrame PROVE Rest
    BY <2>2, BeginFrameInv DEF Rest
  <2>3. ASSUME NEW k \in Kinds, CallRequest(k) PROVE Rest
    BY <2>3, CallRequestInv DEF Rest
  <2>4. ASSUME CallRequestFrame PROVE Rest
    BY <2>4, CallRequestFrameInv DEF Rest
  <2>5. ASSUME NEW x \in Targets, NEW newTab \in BOOLEAN, CallNavigate(x, newTab)
        PROVE  Rest
    BY <2>5, CallNavigateInv DEF Rest
  <2>6. ASSUME EndCall PROVE Rest
    BY <2>6, EndCallInv DEF Rest
  <2>7. ASSUME NEW m \in inflight, ThreadDone(m) PROVE Rest
    BY <2>7, ThreadDoneInv DEF Rest
  <2>8. ASSUME TakeEvent PROVE Rest
    BY <2>8, DeliverResultInv, DropNavInv, DeliverNavInv DEF TakeEvent, Rest
  <2>9. ASSUME CreateWindow \/ UserOpensTab \/ Exit \/ UNCHANGED vars PROVE Rest
    BY <2>9, <1>3, <1>5, <1>8, <1>9 DEF Rest
  <2>. QED
    BY <1>2, <1>4, <1>6, <1>7, <2>1, <2>2, <2>3, <2>4, <2>5, <2>6, <2>7, <2>8,
       <2>9 DEF Next, Done
<1>. QED
  BY <1>1, <1>10 DEF GuestInv, Rest

\* The inductive invariant holds throughout every run of the shell.
THEOREM GuestInvariant == Spec => []GuestInv
<1>1. Init => GuestInv
  BY GuestInitInv
<1>2. GuestInv /\ [Next \/ Done]_vars => GuestInv'
  BY GuestStepInv
<1>. QED
  BY <1>1, <1>2, PTL DEF Spec

\* The shell with its guests implements the tab strip: whatever guests,
\* threads and queued events do, the strip sees only its own handlers, and
\* every theorem about the strip holds of the shell.
THEOREM GuestShellImplementsStrip == Spec => StripSpec
<1>1. Init => StripInit
  BY DEF Init
<1>2. GuestInv /\ [Next \/ Done]_vars => [StripNext \/ StripDone]_stripVars
  BY GuestStepIsStripStep DEF GuestInv
<1>. QED
  BY <1>1, <1>2, GuestInvariant, PTL DEF Spec, StripSpec

\* Every variable of the guests keeps its type.
THEOREM GuestTypesCorrect == Spec => []GuestTypeOK
  BY GuestInvariant, PTL DEF GuestInv

\* A guest lives in one open tab at most, and whoever is called, has the
\* gesture flag up or waits for a frame has not been dropped.
THEOREM GuestsLiveInTabs == Spec => []GuestsInTabs
  BY GuestInvariant, PTL DEF GuestInv

\* The gesture flag is up only while the active tab's click or key press is
\* being dispatched.
THEOREM GestureIsDispatch == Spec => []GestureOnlyInDispatch
<1>1. GuestInv => GestureOnlyInDispatch
  BY DEF GuestInv, GestureInv
<1>. QED
  BY <1>1, GuestInvariant, PTL

(***************************************************************************)
(* What a step may never do.                                               *)
(***************************************************************************)

\* A step that puts a navigation in the queue is an import called in a
\* gesture, with a link of the caller's page.
LEMMA NavigationGatedStep ==
  ASSUME GuestInv, [Next \/ Done]_vars, NEW i \in DOMAIN queue',
         queue'[i].type = "nav", i > Len(queue)
  PROVE  /\ gesture = {queue'[i].from} /\ guest[queue'[i].tab] = queue'[i].from
         /\ queue'[i].target \in Links[tab[queue'[i].tab].target]
<1>1. queue \in Seq(ResultEvent \cup NavEvent)
  BY DEF GuestInv, GuestTypeOK
<1>2. ASSUME queue' = queue PROVE FALSE
  BY <1>1, <1>2
<1>3. ASSUME queue # <<>>, queue' = Tail(queue) PROVE FALSE
  <2>1. /\ Tail(queue) \in Seq(ResultEvent \cup NavEvent)
        /\ Len(Tail(queue)) = Len(queue) - 1
    BY <1>3, QueueHead DEF GuestInv
  <2>2. DOMAIN Tail(queue) = 1 .. Len(queue) - 1
    BY <2>1
  <2>3. i \in 1 .. Len(queue) - 1
    BY <1>3, <2>2, Zenon
  <2>. QED
    BY <1>1, <2>3
<1>4. ASSUME NEW m \in inflight, ThreadDone(m) PROVE FALSE
  <2>. DEFINE e == [type |-> "result", req |-> m]
  <2>1. e \in ResultEvent /\ e.type # "nav"
    BY DEF ResultEvent, GuestInv, GuestTypeOK
  <2>2. queue' = Append(queue, e)
    BY <1>4 DEF ThreadDone
  <2>. HIDE DEF e
  <2>3. i = Len(queue) + 1 /\ queue'[i] = e
    BY <2>1, <2>2, QueueAppend DEF GuestInv
  <2>. QED
    BY <2>1, <2>3
<1>5. ASSUME NEW x \in Targets, NEW newTab \in BOOLEAN, CallNavigate(x, newTab)
      PROVE  /\ gesture = {queue'[i].from}
             /\ guest[queue'[i].tab] = queue'[i].from
             /\ queue'[i].target \in Links[tab[queue'[i].tab].target]
  <2>. DEFINE e == [type |-> "nav", tab |-> call.tab, from |-> Caller,
                    target |-> x, newTab |-> newTab]
  <2>1. e \in NavEvent
    BY <1>5, CallerIsGuest DEF CallNavigate, NavEvent
  <2>2. queue' = Append(queue, e)
    BY <1>5 DEF CallNavigate
  <2>3. e.from = Caller /\ e.tab = call.tab /\ e.target = x
    OBVIOUS
  <2>. HIDE DEF e
  <2>4. queue'[i] = e
    BY <2>1, <2>2, QueueAppend DEF GuestInv
  <2>5. gesture = {Caller} /\ x \in Links[tab[call.tab].target]
    BY <1>5 DEF CallNavigate, GuestInv, GestureInv, GestureOnlyInDispatch
  <2>. QED
    BY <2>3, <2>4, <2>5 DEF Caller
<1>6. \/ queue' = queue
      \/ queue # <<>> /\ queue' = Tail(queue)
      \/ \E m \in inflight : ThreadDone(m)
      \/ \E x \in Targets, newTab \in BOOLEAN : CallNavigate(x, newTab)
  BY DEF Next, Done, vars, guestVars, TakeEvent, Boot, CreateWindow,
     UserNavigates, UserOpensTab, UserSwitchesTab, UserClosesTab, Exit,
     BeginEvent, BeginFrame, CallRequest, CallRequestFrame, EndCall,
     DeliverResult, DeliverNav, DropNav, Deliverable
<1>. QED
  BY <1>2, <1>3, <1>4, <1>5, <1>6

\* A guest issues a navigation only during a gesture and only along a link
\* that the manifest of its page declares.
THEOREM NavigationIsGated == Spec => NavigationGated
<1>1. GuestInv /\ [Next \/ Done]_vars
        => [\A i \in DOMAIN queue' :
              (queue'[i].type = "nav" /\ i > Len(queue)) =>
                /\ gesture = {queue'[i].from} /\ guest[queue'[i].tab] = queue'[i].from
                /\ queue'[i].target \in Links[tab[queue'[i].tab].target]]_vars
  BY NavigationGatedStep
<1>. QED
  BY <1>1, GuestInvariant, PTL DEF Spec, NavigationGated

\* Whoever is told of a result is the guest in the tab that asked, and was
\* not loaded before the request was issued.
LEMMA RoutedStep ==
  ASSUME GuestInv, [Next \/ Done]_vars, NEW d \in done' \ done,
         d.to # NoGuest
  PROVE  d.to = guest[d.req.tab] /\ d.to >= d.req.from
<1>1. DeliverResult
  BY DEF Next, Done, vars, guestVars, TakeEvent, Boot, CreateWindow,
     UserNavigates, UserOpensTab, UserSwitchesTab, UserClosesTab, Exit,
     BeginEvent, BeginFrame, CallRequest, CallRequestFrame, CallNavigate,
     EndCall, ThreadDone, DeliverNav, DropNav
<1>. DEFINE m == Head(queue).req
<1>2. /\ queue # <<>> /\ Head(queue).type = "result"
      /\ done' = done \cup {[req |-> m, to |-> Receiver(m)]}
  BY <1>1 DEF DeliverResult, Deliverable
<1>3. m \in Request /\ Pending(m)
  BY <1>2, ResultHead, QueueHead DEF GuestInv, Pending
<1>. HIDE DEF m
<1>4. d.req = m /\ d.to = Receiver(m)
  BY <1>2
<1>5. Receiver(m) = guest[m.tab]
  BY <1>4 DEF Receiver
<1>. QED
  BY <1>3, <1>4, <1>5 DEF GuestInv, RoutingInv

\* A result wakes no guest but the one in the tab that asked, and never one
\* loaded before the request.
THEOREM ResultsAreRouted == Spec => ResultRoutedToOwner
<1>1. GuestInv /\ [Next \/ Done]_vars
        => [\A d \in done' \ done :
              d.to # NoGuest => d.to = guest[d.req.tab] /\ d.to >= d.req.from]_vars
  BY RoutedStep
<1>. QED
  BY <1>1, GuestInvariant, PTL DEF Spec, ResultRoutedToOwner

(***************************************************************************)
(* Every request is answered once.  A request is named by its issuer, its  *)
(* kind and its id; the names on the threads, in the queue and among the   *)
(* finished ones are apart, no place holds a name twice, and together they *)
(* are the names handed out.  A guest's count starts from zero, because    *)
(* nobody counted for it before it was loaded.                             *)
(***************************************************************************)

Key(m) == <<m.from, m.kind, m.id>>

\* The positions of the results that wait in queue q.
Results(q) == {j \in DOMAIN q : q[j].type = "result"}

ThreadKeys(T) == {Key(m) : m \in T}
QueueKeys(q) == {Key(q[j].req) : j \in Results(q)}
DoneKeys(D) == {Key(d.req) : d \in D}

OneThread(T) == \A m, n \in T : Key(m) = Key(n) => m = n
OneResult(q) == \A j, l \in Results(q) : Key(q[j].req) = Key(q[l].req) => j = l
OneEnd(D) == \A d, e \in D : Key(d.req) = Key(e.req) => d = e

Apart(T, Q, D) == T \cap Q = {} /\ T \cap D = {} /\ Q \cap D = {}

\* The names in K are the ones that the counts in last have handed out.
HandedOut(K, last) ==
  \A g \in Guest, k \in Kinds, i \in 1 .. MaxReq :
    <<g, k, i>> \in K <=> i <= last[g][k]

NotYetCounting ==
  \A g \in Guest, k \in Kinds : g > loads => lastReq[g][k] = 0

PlacesInv ==
  /\ OneThread(inflight) /\ OneResult(queue) /\ OneEnd(done)
  /\ Apart(ThreadKeys(inflight), QueueKeys(queue), DoneKeys(done))
  /\ HandedOut(ThreadKeys(inflight) \cup QueueKeys(queue) \cup DoneKeys(done),
               lastReq)
  /\ NotYetCounting

\* The results of a queue without its head are the others, one place ahead.
LEMMA TailResults ==
  ASSUME GuestTypeOK, queue # <<>>
  PROVE  /\ \A j \in Results(Tail(queue)) :
              j + 1 \in Results(queue) /\ Tail(queue)[j] = queue[j + 1]
                /\ j \in Nat /\ j >= 1
         /\ \A l \in Results(queue) :
              /\ l \in Nat
              /\ l # 1 => /\ l - 1 \in Results(Tail(queue))
                          /\ Tail(queue)[l - 1] = queue[l]
         /\ 1 \in Results(queue) <=> Head(queue).type = "result"
<1>1. /\ Tail(queue) \in Seq(ResultEvent \cup NavEvent)
      /\ Len(Tail(queue)) = Len(queue) - 1
      /\ \A j \in 1 .. Len(Tail(queue)) : Tail(queue)[j] = queue[j + 1]
      /\ Head(queue) = queue[1] /\ 1 \in DOMAIN queue
  BY QueueHead
<1>2. queue \in Seq(ResultEvent \cup NavEvent)
  BY DEF GuestTypeOK
<1>3. /\ DOMAIN queue = 1 .. Len(queue) /\ Len(queue) \in Nat
      /\ DOMAIN Tail(queue) = 1 .. Len(queue) - 1
  BY <1>1, <1>2
<1>4. ASSUME NEW j \in Results(Tail(queue))
      PROVE  j + 1 \in Results(queue) /\ Tail(queue)[j] = queue[j + 1]
               /\ j \in Nat /\ j >= 1
  <2>1. j \in 1 .. Len(queue) - 1 /\ Tail(queue)[j].type = "result"
    BY <1>3, <1>4 DEF Results
  <2>2. Tail(queue)[j] = queue[j + 1] /\ j + 1 \in 1 .. Len(queue)
    BY <1>1, <1>3, <2>1
  <2>. QED
    BY <1>3, <2>1, <2>2 DEF Results
<1>5. ASSUME NEW l \in Results(queue), l # 1
      PROVE  l - 1 \in Results(Tail(queue)) /\ Tail(queue)[l - 1] = queue[l]
  <2>1. l \in 1 .. Len(queue) /\ queue[l].type = "result"
    BY <1>3, <1>5 DEF Results
  <2>2. l - 1 \in 1 .. Len(queue) - 1 /\ (l - 1) + 1 = l
    BY <1>3, <1>5, <2>1
  <2>3. Tail(queue)[l - 1] = queue[l]
    BY <1>1, <2>2
  <2>. QED
    BY <1>3, <2>1, <2>2, <2>3 DEF Results
<1>6. \A l \in Results(queue) : l \in Nat
  BY <1>3 DEF Results
<1>7. 1 \in Results(queue) <=> Head(queue).type = "result"
  BY <1>1 DEF Results
<1>. QED
  BY <1>4, <1>5, <1>6, <1>7

\* The tail of a queue with no name twice has none twice.
LEMMA TailOneResult ==
  ASSUME GuestTypeOK, queue # <<>>, OneResult(queue)
  PROVE  OneResult(Tail(queue))
<1>. SUFFICES ASSUME NEW j \in Results(Tail(queue)),
                     NEW l \in Results(Tail(queue)),
                     Key(Tail(queue)[j].req) = Key(Tail(queue)[l].req)
              PROVE  j = l
  BY DEF OneResult
<1>1. j + 1 \in Results(queue) /\ Tail(queue)[j] = queue[j + 1] /\ j \in Nat
  BY TailResults
<1>2. l + 1 \in Results(queue) /\ Tail(queue)[l] = queue[l + 1] /\ l \in Nat
  BY TailResults
<1>3. j + 1 = l + 1
  BY <1>1, <1>2 DEF OneResult
<1>. QED
  BY <1>1, <1>2, <1>3

\* A navigation taken from the queue leaves the results as they were.
LEMMA NavTaken ==
  ASSUME GuestTypeOK, queue # <<>>, Head(queue).type = "nav", OneResult(queue)
  PROVE  QueueKeys(Tail(queue)) = QueueKeys(queue) /\ OneResult(Tail(queue))
<1>1. 1 \notin Results(queue)
  BY TailResults
<1>2. QueueKeys(Tail(queue)) \subseteq QueueKeys(queue)
  BY TailResults DEF QueueKeys
<1>3. QueueKeys(queue) \subseteq QueueKeys(Tail(queue))
  BY <1>1, TailResults DEF QueueKeys
<1>4. OneResult(Tail(queue))
  BY TailOneResult
<1>. QED
  BY <1>2, <1>3, <1>4

\* A result taken from the queue takes its name with it.
LEMMA ResultTaken ==
  ASSUME GuestTypeOK, queue # <<>>, Head(queue).type = "result",
         OneResult(queue)
  PROVE  /\ Key(Head(queue).req) \in QueueKeys(queue)
         /\ QueueKeys(Tail(queue)) = QueueKeys(queue) \ {Key(Head(queue).req)}
         /\ OneResult(Tail(queue))
<1>1. 1 \in Results(queue) /\ Head(queue) = queue[1]
  BY TailResults, QueueHead
<1>2. Key(Head(queue).req) \in QueueKeys(queue)
  BY <1>1 DEF QueueKeys
<1>3. ASSUME NEW j \in Results(Tail(queue))
      PROVE  Key(Tail(queue)[j].req) \in QueueKeys(queue) \ {Key(queue[1].req)}
  <2>1. /\ j + 1 \in Results(queue) /\ Tail(queue)[j] = queue[j + 1]
        /\ j \in Nat /\ j >= 1
    BY <1>3, TailResults
  <2>2. j + 1 # 1
    BY <2>1
  <2>3. Key(queue[j + 1].req) # Key(queue[1].req)
    BY <1>1, <2>1, <2>2 DEF OneResult
  <2>. QED
    BY <2>1, <2>3 DEF QueueKeys
<1>4. ASSUME NEW l \in Results(queue), Key(queue[l].req) # Key(queue[1].req)
      PROVE  Key(queue[l].req) \in QueueKeys(Tail(queue))
  <2>1. l # 1
    BY <1>4
  <2>. QED
    BY <1>4, <2>1, TailResults DEF QueueKeys
<1>5. QueueKeys(Tail(queue)) = QueueKeys(queue) \ {Key(queue[1].req)}
  BY <1>3, <1>4 DEF QueueKeys
<1>6. OneResult(Tail(queue))
  BY TailOneResult
<1>. QED
  BY <1>1, <1>2, <1>5, <1>6

\* An event put into the queue adds its name, if it is a result.
LEMMA EventPut ==
  ASSUME GuestTypeOK, NEW e \in ResultEvent \cup NavEvent,
         queue' = Append(queue, e), OneResult(queue)
  PROVE  /\ e.type # "result" =>
              QueueKeys(queue') = QueueKeys(queue) /\ OneResult(queue')
         /\ e.type = "result" =>
              /\ QueueKeys(queue') = QueueKeys(queue) \cup {Key(e.req)}
              /\ Key(e.req) \notin QueueKeys(queue) => OneResult(queue')
<1>. DEFINE n == Len(queue) + 1
<1>1. /\ queue'[n] = e
      /\ \A j \in 1 .. Len(queue) : queue'[j] = queue[j]
      /\ DOMAIN queue' = 1 .. n
      /\ DOMAIN queue = 1 .. Len(queue)
      /\ Len(queue) \in Nat
  BY QueueAppend
<1>2. n \in 1 .. n /\ n \notin 1 .. Len(queue)
      /\ 1 .. n = (1 .. Len(queue)) \cup {n}
  BY <1>1
<1>. HIDE DEF n
<1>3. Results(queue') = Results(queue) \cup (IF e.type = "result" THEN {n} ELSE {})
  BY <1>1, <1>2 DEF Results
<1>4. \A j \in Results(queue) : queue'[j] = queue[j] /\ j # n
  BY <1>1, <1>2 DEF Results
<1>5. CASE e.type # "result"
  <2>1. Results(queue') = Results(queue)
    BY <1>3, <1>5
  <2>2. QueueKeys(queue') = QueueKeys(queue)
    BY <1>4, <2>1 DEF QueueKeys
  <2>3. OneResult(queue')
    BY <1>4, <2>1 DEF OneResult
  <2>. QED
    BY <1>5, <2>2, <2>3
<1>6. CASE e.type = "result"
  <2>1. Results(queue') = Results(queue) \cup {n}
    BY <1>3, <1>6
  <2>2. QueueKeys(queue') = QueueKeys(queue) \cup {Key(e.req)}
    BY <1>1, <1>4, <2>1 DEF QueueKeys
  <2>3. ASSUME Key(e.req) \notin QueueKeys(queue)
        PROVE  OneResult(queue')
    <3>1. \A j \in Results(queue) : Key(queue'[j].req) # Key(queue'[n].req)
      BY <1>1, <1>4, <2>3 DEF QueueKeys
    <3>. QED
      BY <1>4, <2>1, <3>1, ZenonT(60) DEF OneResult
  <2>. QED
    BY <1>6, <2>2, <2>3
<1>. QED
  BY <1>5, <1>6

\* Issuing the requests in N, each under the next name of its count.
LEMMA IssuedPlaces ==
  ASSUME GuestInv, PlacesInv, NEW N \in SUBSET Request,
         inflight' = inflight \cup N, done' = done,
         QueueKeys(queue') = QueueKeys(queue), OneResult(queue'),
         OneThread(N), \A m \in N : ~(m.id <= lastReq[m.from][m.kind]),
         \A g \in Guest, k \in Kinds, i \in 1 .. MaxReq :
           i <= lastReq'[g][k] <=> i <= lastReq[g][k]
                                     \/ <<g, k, i>> \in ThreadKeys(N),
         NotYetCounting'
  PROVE  PlacesInv'
<1>. DEFINE T == ThreadKeys(inflight)
            Q == QueueKeys(queue)
            D == DoneKeys(done)
            F == ThreadKeys(N)
<1>1. /\ OneThread(inflight) /\ OneEnd(done) /\ Apart(T, Q, D)
      /\ HandedOut(T \cup Q \cup D, lastReq)
  BY DEF PlacesInv
<1>2. F \cap (T \cup Q \cup D) = {}
  <2>1. ASSUME NEW m \in N PROVE Key(m) \notin T \cup Q \cup D
    <3>1. m.from \in Guest /\ m.kind \in Kinds /\ m.id \in 1 .. MaxReq
      BY <2>1 DEF Request
    <3>. HIDE DEF T, Q, D
    <3>. QED
      BY <1>1, <2>1, <3>1 DEF HandedOut, Key
  <2>. HIDE DEF T, Q, D
  <2>. QED
    BY <2>1 DEF ThreadKeys
<1>3. ThreadKeys(inflight') = T \cup F
  BY DEF ThreadKeys
<1>4. OneThread(inflight')
  BY <1>1, <1>2 DEF OneThread, ThreadKeys
<1>5. QueueKeys(queue') = Q /\ DoneKeys(done') = D /\ OneEnd(done')
  BY <1>1
<1>. HIDE DEF T, Q, D, F
<1>6. Apart(T \cup F, Q, D)
  BY <1>1, <1>2 DEF Apart
<1>7. HandedOut((T \cup F) \cup Q \cup D, lastReq')
  BY <1>1 DEF HandedOut, F
<1>. QED
  BY <1>3, <1>4, <1>5, <1>6, <1>7 DEF PlacesInv

\* A load counts from zero for its guest, with or without first requests.
LEMMA LoadedPlaces ==
  ASSUME GuestInv, PlacesInv, NEW t \in TabId, NEW o \in Outcomes,
         SomeLoad(t, o), done' = done,
         QueueKeys(queue') = QueueKeys(queue), OneResult(queue')
  PROVE  PlacesInv'
<1>1. PICK ks \in SUBSET Kinds, w \in BOOLEAN : Loaded(t, o, ks, w)
  BY DEF SomeLoad
<1>2. CASE UNCHANGED <<guest, loads, lastReq, inflight, frame>>
  BY <1>2 DEF PlacesInv, NotYetCounting
<1>3. CASE o # "unresolved"
  <2>. DEFINE g == loads + 1
              N == {[tab |-> t, from |-> g, kind |-> k, id |-> 1] : k \in ks}
              first == [k \in Kinds |-> IF k \in ks THEN 1 ELSE 0]
  <2>1. /\ g \in Guest /\ loads' = g /\ g > loads /\ loads \in Nat
        /\ lastReq' = [lastReq EXCEPT ![g] = first]
        /\ inflight' = inflight \cup N
    BY <1>1, <1>3, GuestShellAssumption
       DEF Loaded, GuestInv, GuestTypeOK, Guest
  <2>2. 1 \in 1 .. MaxReq
    BY GuestShellAssumption
  <2>3. N \in SUBSET Request
    BY <2>1, <2>2 DEF Request
  <2>4. OneThread(N)
    BY DEF OneThread, Key
  <2>5. lastReq \in [Guest -> [Kinds -> 0 .. MaxReq]]
    BY DEF GuestInv, GuestTypeOK
  <2>6. /\ lastReq'[g] = first
        /\ \A h \in Guest : h # g => lastReq'[h] = lastReq[h]
    BY <2>1, <2>5
  <2>7. \A k \in Kinds : lastReq[g][k] = 0
    BY <2>1 DEF PlacesInv, NotYetCounting
  <2>8. \A m \in N : ~(m.id <= lastReq[m.from][m.kind])
    BY <2>7
  <2>9. ASSUME NEW h \in Guest, NEW k \in Kinds, NEW i \in 1 .. MaxReq
        PROVE  <<h, k, i>> \in ThreadKeys(N) <=> h = g /\ k \in ks /\ i = 1
    <3>1. ThreadKeys(N) = {<<g, c, 1>> : c \in ks}
      <4>1. ASSUME NEW m \in N PROVE Key(m) \in {<<g, c, 1>> : c \in ks}
        <5>1. PICK c \in ks : m = [tab |-> t, from |-> g, kind |-> c, id |-> 1]
          BY <4>1
        <5>2. Key(m) = <<g, c, 1>>
          BY <5>1 DEF Key
        <5>. QED
          BY <5>2
      <4>2. ASSUME NEW c \in ks PROVE <<g, c, 1>> \in ThreadKeys(N)
        <5>. DEFINE m == [tab |-> t, from |-> g, kind |-> c, id |-> 1]
        <5>1. m \in N /\ Key(m) = <<g, c, 1>>
          BY DEF Key
        <5>. HIDE DEF N, m
        <5>. QED
          BY <5>1 DEF ThreadKeys
      <4>. HIDE DEF N
      <4>. QED
        BY <4>1, <4>2 DEF ThreadKeys
    <3>. HIDE DEF N, g
    <3>. QED
      BY <3>1
  <2>10. ASSUME NEW h \in Guest, NEW k \in Kinds, NEW i \in 1 .. MaxReq
         PROVE  i <= lastReq'[h][k] <=> i <= lastReq[h][k]
                                          \/ <<h, k, i>> \in ThreadKeys(N)
    <3>1. CASE h # g
      BY <2>6, <2>9, <3>1
    <3>2. CASE h = g
      <4>1. lastReq'[h][k] = IF k \in ks THEN 1 ELSE 0
        BY <2>6, <3>2
      <4>2. i <= lastReq'[h][k] <=> k \in ks /\ i = 1
        BY <4>1
      <4>3. ~(i <= lastReq[h][k])
        BY <2>7, <3>2
      <4>. HIDE DEF N, g
      <4>. QED
        BY <2>9, <3>2, <4>2, <4>3
    <3>. QED
      BY <3>1, <3>2
  <2>11. NotYetCounting'
    <3>. SUFFICES ASSUME NEW h \in Guest, NEW k \in Kinds, h > loads'
                  PROVE  lastReq'[h][k] = 0
      BY DEF NotYetCounting
    <3>1. h # g /\ h > loads
      BY <2>1 DEF Guest
    <3>. QED
      BY <2>6, <3>1 DEF PlacesInv, NotYetCounting
  <2>. HIDE DEF N, g
  <2>. QED
    BY <2>1, <2>3, <2>4, <2>8, <2>10, <2>11, IssuedPlaces
<1>. QED
  BY <1>1, <1>2, <1>3 DEF Loaded

\* An import numbers its request with the next number of its count.
LEMMA CallRequestPlaces ==
  ASSUME GuestInv, PlacesInv, NEW k \in Kinds, CallRequest(k)
  PROVE  PlacesInv'
<1>. DEFINE g == Caller
            last == lastReq[g][k]
            m == [tab |-> call.tab, from |-> g, kind |-> k, id |-> last + 1]
<1>1. g \in Guest /\ call.tab \in TabId /\ g <= loads
  BY CallerIsGuest DEF CallRequest, GuestInv, GuestsInTabs, Caller
<1>2. lastReq \in [Guest -> [Kinds -> 0 .. MaxReq]]
  BY DEF GuestInv, GuestTypeOK
<1>3. /\ last < MaxReq /\ lastReq' = [lastReq EXCEPT ![g][k] = @ + 1]
      /\ done' = done /\ queue' = queue /\ loads' = loads
      /\ inflight' = inflight \cup {[tab |-> call.tab, from |-> g, kind |-> k,
                                     id |-> lastReq'[g][k]]}
  BY DEF CallRequest
<1>. HIDE DEF g
<1>4. /\ lastReq'[g][k] = last + 1
      /\ \A h \in Guest, c \in Kinds :
           h # g \/ c # k => lastReq'[h][c] = lastReq[h][c]
  BY <1>1, <1>2, <1>3
<1>5. last \in Nat /\ last + 1 \in 1 .. MaxReq
  BY <1>1, <1>2, <1>3, GuestShellAssumption
<1>6. m \in Request /\ inflight' = inflight \cup {m}
  BY <1>1, <1>3, <1>4, <1>5 DEF Request
<1>7. m.from = g /\ m.kind = k /\ m.id = last + 1 /\ Key(m) = <<g, k, last + 1>>
  BY DEF Key
<1>. HIDE DEF m
<1>8. ThreadKeys({m}) = {<<g, k, last + 1>>} /\ OneThread({m})
  BY <1>7 DEF ThreadKeys, OneThread
<1>9. \A q \in {m} : ~(q.id <= lastReq[q.from][q.kind])
  BY <1>5, <1>7
<1>10. ASSUME NEW h \in Guest, NEW c \in Kinds, NEW i \in 1 .. MaxReq
       PROVE  i <= lastReq'[h][c] <=> i <= lastReq[h][c]
                                        \/ <<h, c, i>> \in ThreadKeys({m})
  <2>1. <<h, c, i>> \in ThreadKeys({m}) <=> h = g /\ c = k /\ i = last + 1
    BY <1>8
  <2>2. CASE h # g \/ c # k
    BY <1>4, <2>1, <2>2
  <2>3. CASE h = g /\ c = k
    BY <1>4, <1>5, <2>1, <2>3
  <2>. QED
    BY <2>2, <2>3
<1>11. NotYetCounting'
  <2>. SUFFICES ASSUME NEW h \in Guest, NEW c \in Kinds, h > loads
                PROVE  lastReq'[h][c] = 0
    BY <1>3 DEF NotYetCounting
  <2>1. h # g
    BY <1>1 DEF Guest, GuestInv, GuestTypeOK
  <2>. QED
    BY <1>4, <2>1 DEF PlacesInv, NotYetCounting
<1>12. QueueKeys(queue') = QueueKeys(queue) /\ OneResult(queue')
  BY <1>3 DEF PlacesInv
<1>13. {m} \in SUBSET Request
  BY <1>6
<1>. QED
  BY <1>3, <1>6, <1>8, <1>9, <1>10, <1>11, <1>12, <1>13, IssuedPlaces

\* A thread that ends moves its request's name to the queue.
LEMMA ThreadDonePlaces ==
  ASSUME GuestInv, PlacesInv, NEW m \in inflight, ThreadDone(m)
  PROVE  PlacesInv'
<1>. DEFINE e == [type |-> "result", req |-> m]
            T == ThreadKeys(inflight)
            Q == QueueKeys(queue)
            D == DoneKeys(done)
            c == Key(m)
<1>1. e \in ResultEvent \cup NavEvent /\ e.req = m /\ e.type = "result"
  BY DEF ResultEvent, GuestInv, GuestTypeOK
<1>2. /\ queue' = Append(queue, e) /\ inflight' = inflight \ {m}
      /\ done' = done /\ lastReq' = lastReq /\ loads' = loads
  BY DEF ThreadDone
<1>. HIDE DEF e
<1>3. /\ OneThread(inflight) /\ OneResult(queue) /\ OneEnd(done)
      /\ Apart(T, Q, D) /\ HandedOut(T \cup Q \cup D, lastReq)
      /\ NotYetCounting
  BY DEF PlacesInv
<1>4. c \in T /\ ThreadKeys(inflight') = T \ {c} /\ OneThread(inflight')
  BY <1>2, <1>3 DEF ThreadKeys, OneThread
<1>5. c \notin Q
  BY <1>3, <1>4 DEF Apart
<1>6. QueueKeys(queue') = Q \cup {c} /\ OneResult(queue')
  BY <1>1, <1>2, <1>3, <1>5, EventPut DEF GuestInv
<1>7. DoneKeys(done') = D /\ OneEnd(done') /\ NotYetCounting'
  BY <1>2, <1>3 DEF NotYetCounting
<1>. HIDE DEF T, Q, D, c
<1>8. Apart(T \ {c}, Q \cup {c}, D)
  BY <1>3, <1>4 DEF Apart
<1>9. HandedOut((T \ {c}) \cup (Q \cup {c}) \cup D, lastReq')
  <2>1. (T \ {c}) \cup (Q \cup {c}) \cup D = T \cup Q \cup D
    BY <1>4
  <2>. QED
    BY <1>2, <1>3, <2>1
<1>. QED
  BY <1>4, <1>6, <1>7, <1>8, <1>9 DEF PlacesInv

\* A result that is delivered, or has nobody to go to, is finished.
LEMMA DeliverResultPlaces ==
  ASSUME GuestInv, PlacesInv, DeliverResult
  PROVE  PlacesInv'
<1>. DEFINE m == Head(queue).req
            T == ThreadKeys(inflight)
            Q == QueueKeys(queue)
            D == DoneKeys(done)
            c == Key(m)
            d == [req |-> m, to |-> Receiver(m)]
<1>1. /\ queue # <<>> /\ Head(queue).type = "result"
      /\ queue' = Tail(queue) /\ done' = done \cup {d}
      /\ inflight' = inflight /\ lastReq' = lastReq /\ loads' = loads
  BY DEF DeliverResult, Deliverable
<1>2. /\ OneThread(inflight) /\ OneResult(queue) /\ OneEnd(done)
      /\ Apart(T, Q, D) /\ HandedOut(T \cup Q \cup D, lastReq)
      /\ NotYetCounting
  BY DEF PlacesInv
<1>3. c \in Q /\ QueueKeys(queue') = Q \ {c} /\ OneResult(queue')
  BY <1>1, <1>2, ResultTaken DEF GuestInv
<1>4. d.req = m
  OBVIOUS
<1>. HIDE DEF d
<1>5. DoneKeys(done') = D \cup {c}
  BY <1>1, <1>4 DEF DoneKeys
<1>6. c \notin D
  BY <1>2, <1>3 DEF Apart
<1>7. OneEnd(done')
  <2>. HIDE DEF m
  <2>. QED
    BY <1>1, <1>2, <1>4, <1>6 DEF OneEnd, DoneKeys
<1>8. ThreadKeys(inflight') = T /\ OneThread(inflight') /\ NotYetCounting'
  BY <1>1, <1>2 DEF NotYetCounting
<1>. HIDE DEF T, Q, D, c
<1>9. Apart(T, Q \ {c}, D \cup {c})
  BY <1>2, <1>3 DEF Apart
<1>10. HandedOut(T \cup (Q \ {c}) \cup (D \cup {c}), lastReq')
  <2>1. T \cup (Q \ {c}) \cup (D \cup {c}) = T \cup Q \cup D
    BY <1>3
  <2>. QED
    BY <1>1, <1>2, <2>1
<1>. QED
  BY <1>3, <1>5, <1>7, <1>8, <1>9, <1>10 DEF PlacesInv

\* A navigation from the queue frees its place and loads a guest.
LEMMA DeliverNavPlaces ==
  ASSUME GuestInv, PlacesInv, NEW o \in Outcomes, DeliverNav(o)
  PROVE  PlacesInv'
<1>1. /\ queue # <<>> /\ Head(queue).type = "nav"
      /\ queue' = Tail(queue) /\ done' = done
      /\ \/ SomeLoad(nextTabId, o) /\ OpenTabAt(Head(queue).target, o)
         \/ SomeLoad(Head(queue).tab, o)
  BY DEF DeliverNav, Deliverable
<1>2. Head(queue).tab \in TabId
  BY <1>1, NavHead DEF GuestInv, NavEvent
<1>3. OpenTabAt(Head(queue).target, o) => nextTabId \in TabId
  BY TabStripAssumption
     DEF OpenTabAt, OpenActivated, GuestInv, StripInv, StripTypeOK, TabId
<1>4. QueueKeys(queue') = QueueKeys(queue) /\ OneResult(queue')
  BY <1>1, NavTaken DEF GuestInv, PlacesInv
<1>. QED
  BY <1>1, <1>2, <1>3, <1>4, LoadedPlaces

LEMMA PlacesStep ==
  ASSUME GuestInv, PlacesInv, [Next \/ Done]_vars
  PROVE  PlacesInv'
<1>1. ASSUME NEW o \in Outcomes, SomeLoad(ActiveId, o), done' = done,
             queue' = queue
      PROVE  PlacesInv'
  <2>1. ActiveId \in TabId
    BY ActiveIdOpen DEF GuestInv, ActiveId
  <2>2. QueueKeys(queue') = QueueKeys(queue) /\ OneResult(queue')
    BY <1>1 DEF PlacesInv
  <2>. QED
    BY <1>1, <2>1, <2>2, LoadedPlaces
<1>2. ASSUME UNCHANGED <<inflight, queue, done, lastReq, loads>>
      PROVE  PlacesInv'
  BY <1>2 DEF PlacesInv, NotYetCounting
<1>3. ASSUME NEW x \in Targets, NEW o \in Outcomes, Boot(x, o)
      PROVE  PlacesInv'
  BY <1>1, <1>3 DEF Boot
<1>4. ASSUME NEW o \in Outcomes, UserNavigates(o)
      PROVE  PlacesInv'
  BY <1>1, <1>4 DEF UserNavigates
<1>5. ASSUME NEW x \in Targets, NEW newTab \in BOOLEAN, CallNavigate(x, newTab)
      PROVE  PlacesInv'
  <2>. DEFINE e == [type |-> "nav", tab |-> call.tab, from |-> Caller,
                    target |-> x, newTab |-> newTab]
  <2>1. e \in ResultEvent \cup NavEvent /\ e.type # "result"
    BY <1>5, CallerIsGuest DEF CallNavigate, NavEvent
  <2>2. queue' = Append(queue, e)
        /\ UNCHANGED <<inflight, done, lastReq, loads>>
    BY <1>5 DEF CallNavigate
  <2>. HIDE DEF e
  <2>3. QueueKeys(queue') = QueueKeys(queue) /\ OneResult(queue')
    BY <2>1, <2>2, EventPut DEF GuestInv, PlacesInv
  <2>. QED
    BY <2>2, <2>3 DEF PlacesInv, NotYetCounting
<1>6. ASSUME DropNav
      PROVE  PlacesInv'
  <2>1. QueueKeys(queue') = QueueKeys(queue) /\ OneResult(queue')
    BY <1>6, NavTaken DEF DropNav, Deliverable, GuestInv, PlacesInv
  <2>2. UNCHANGED <<inflight, done, lastReq, loads>>
    BY <1>6 DEF DropNav
  <2>. QED
    BY <2>1, <2>2 DEF PlacesInv, NotYetCounting
<1>7. CASE \/ CreateWindow \/ UserOpensTab \/ BeginFrame \/ CallRequestFrame
           \/ EndCall \/ Exit \/ Done \/ UNCHANGED vars
           \/ \E t \in TabId : UserSwitchesTab(t) \/ UserClosesTab(t)
           \/ \E why \in {"gesture", "other"} : BeginEvent(why)
  BY <1>2, <1>7 DEF CreateWindow, UserOpensTab, BeginFrame, CallRequestFrame,
     EndCall, Exit, Done, vars, guestVars, UserSwitchesTab, UserClosesTab,
     BeginEvent
<1>. QED
  BY <1>3, <1>4, <1>5, <1>6, <1>7, CallRequestPlaces, ThreadDonePlaces,
     DeliverResultPlaces, DeliverNavPlaces DEF Next, TakeEvent

\* Nothing is issued before the first page is loaded.
LEMMA PlacesInit ==
  Init => PlacesInv
<1>. SUFFICES ASSUME Init PROVE PlacesInv
  OBVIOUS
<1>1. /\ inflight = {} /\ queue = <<>> /\ done = {} /\ loads = 0
      /\ \A g \in Guest, k \in Kinds : lastReq[g][k] = 0
  BY DEF Init
<1>2. Results(queue) = {}
  BY <1>1 DEF Results
<1>3. /\ ThreadKeys(inflight) = {} /\ QueueKeys(queue) = {}
      /\ DoneKeys(done) = {}
  BY <1>1, <1>2 DEF ThreadKeys, QueueKeys, DoneKeys
<1>4. OneThread(inflight) /\ OneResult(queue) /\ OneEnd(done)
  BY <1>1, <1>2 DEF OneThread, OneResult, OneEnd
<1>5. HandedOut({}, lastReq)
  BY <1>1 DEF HandedOut
<1>. QED
  BY <1>1, <1>3, <1>4, <1>5 DEF PlacesInv, Apart, NotYetCounting

\* A set of at most one element, which has one when P holds.
LEMMA CountsOne ==
  ASSUME NEW S, NEW P \in BOOLEAN, P <=> S # {}, \A x, y \in S : x = y
  PROVE  Cardinality(S) = IF P THEN 1 ELSE 0
<1>1. CASE S = {}
  BY <1>1, FS_EmptySet
<1>2. CASE S # {}
  <2>1. PICK x \in S : TRUE
    BY <1>2
  <2>2. S = {x}
    BY <2>1
  <2>. QED
    BY <1>2, <2>2, FS_Singleton
<1>. QED
  BY <1>1, <1>2

\* Counting the copies of one request.
LEMMA PlacesCount ==
  ASSUME GuestInv, PlacesInv
  PROVE  OneAnswerPerRequest
<1>. DEFINE T == ThreadKeys(inflight)
            Q == QueueKeys(queue)
            D == DoneKeys(done)
<1>. SUFFICES ASSUME NEW g \in Guest, NEW k \in Kinds, NEW i \in 1 .. MaxReq
              PROVE  Copies(g, k, i) = IF i <= lastReq[g][k] THEN 1 ELSE 0
  BY DEF OneAnswerPerRequest
<1>. DEFINE this(m) == m.from = g /\ m.kind = k /\ m.id = i
            inT == {m \in inflight : this(m)}
            inQ == {j \in DOMAIN queue : queue[j].type = "result"
                                           /\ this(queue[j].req)}
            inD == {d \in done : this(d.req)}
            c == <<g, k, i>>
<1>1. \A m : this(m) <=> Key(m) = c
  BY DEF Key
<1>. HIDE DEF this, c
<1>2. Cardinality(inT) = IF c \in T THEN 1 ELSE 0
  <2>1. c \in T <=> inT # {}
    BY <1>1 DEF ThreadKeys
  <2>2. \A x, y \in inT : x = y
    BY <1>1 DEF PlacesInv, OneThread
  <2>. HIDE DEF inT, T
  <2>. QED
    BY <2>1, <2>2, CountsOne
<1>3. Cardinality(inQ) = IF c \in Q THEN 1 ELSE 0
  <2>1. inQ = {j \in Results(queue) : Key(queue[j].req) = c}
    BY <1>1 DEF Results
  <2>2. c \in Q <=> inQ # {}
    BY <2>1 DEF QueueKeys
  <2>3. \A x, y \in inQ : x = y
    BY <2>1 DEF PlacesInv, OneResult
  <2>. HIDE DEF inQ, Q
  <2>. QED
    BY <2>2, <2>3, CountsOne
<1>4. Cardinality(inD) = IF c \in D THEN 1 ELSE 0
  <2>1. c \in D <=> inD # {}
    BY <1>1 DEF DoneKeys
  <2>2. \A x, y \in inD : x = y
    BY <1>1 DEF PlacesInv, OneEnd
  <2>. HIDE DEF inD, D
  <2>. QED
    BY <2>1, <2>2, CountsOne
<1>5. Copies(g, k, i) = Cardinality(inT) + Cardinality(inQ) + Cardinality(inD)
  BY DEF Copies, this
<1>6. Apart(T, Q, D) /\ (c \in T \cup Q \cup D <=> i <= lastReq[g][k])
  BY DEF PlacesInv, HandedOut, c
<1>. HIDE DEF inT, inQ, inD, T, Q, D
<1>7. CASE c \in T
  BY <1>2, <1>3, <1>4, <1>5, <1>6, <1>7 DEF Apart
<1>8. CASE c \in Q
  BY <1>2, <1>3, <1>4, <1>5, <1>6, <1>8 DEF Apart
<1>9. CASE c \notin T \cup Q
  BY <1>2, <1>3, <1>4, <1>5, <1>6, <1>9 DEF Apart
<1>. QED
  BY <1>7, <1>8, <1>9

\* No request is lost or answered twice, whatever its tab does meanwhile:
\* each one issued is on a thread, in the queue or finished, and only once.
THEOREM RequestsAnsweredOnce == Spec => []OneAnswerPerRequest
<1>1. Init => PlacesInv
  BY PlacesInit
<1>2. GuestInv /\ PlacesInv /\ [Next \/ Done]_vars => PlacesInv'
  BY PlacesStep
<1>3. GuestInv /\ PlacesInv => OneAnswerPerRequest
  BY PlacesCount
<1>. QED
  BY <1>1, <1>2, <1>3, GuestInvariant, PTL DEF Spec

=============================================================================
