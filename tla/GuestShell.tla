----------------------------- MODULE GuestShell -----------------------------
(***************************************************************************)
(* The guests behind the tabs: loading and dropping them on navigation,    *)
(* the calls into a guest (UI events, frames, results), the imports a      *)
(* guest may call meanwhile (fetch, rpc_call, request_frame, navigate),    *)
(* the host threads that carry its requests, and the queue of events       *)
(* through which threads and guests reach the UI thread again.             *)
(* renderer/src/ui.rs (GwbDocument, GwbApplication) with                   *)
(* renderer/src/abi.rs (try_load and the host imports) and main.rs.        *)
(*                                                                         *)
(* The UI thread is one process, so a whole handler is one action, except  *)
(* that a call into a guest is opened, filled with the imports it makes    *)
(* and closed: request threads run meanwhile.  The tab strip is TabStrip;  *)
(* the text of the address bar is left to it (the user navigates at once). *)
(***************************************************************************)
EXTENDS TabStrip, FiniteSets

CONSTANTS
  Kinds,     \* the kinds of request: "fetch" and "rpc"
  Links,     \* address -> addresses its manifest lets its guest navigate to
  MaxLoads,  \* bound: guests loaded in the life of the window
  MaxReq,    \* bound: requests of one kind one guest issues
  MaxQueue   \* bound: events waiting for the UI thread

ASSUME GuestShellAssumption ==
  /\ Kinds # {}
  /\ Links \in [Targets -> SUBSET Targets]
  /\ MaxLoads \in Nat \ {0}
  /\ MaxReq \in Nat \ {0}
  /\ MaxQueue \in Nat \ {0}

\* A GuestRuntime with its Shared state is known by the order of its load.
\* The code has no such number: a result carries only its tab and its id.
Guest == 1 .. MaxLoads
NoGuest == 0

Request == [tab : TabId, from : Guest, kind : Kinds, id : 1 .. MaxReq]
ResultEvent == [type : {"result"}, req : Request]
NavEvent == [type : {"nav"}, tab : TabId, from : Guest, target : Targets,
             newTab : BOOLEAN]

\* Why a guest is being called: a click or a key press, or anything else.
Call == [tab : TabId, why : {"gesture", "other"}]
NoCall == [tab |-> 0, why |-> "none"]

VARIABLES
  phase,     \* "boot", then "start" (no window yet), then "up"
  guest,     \* id of a tab -> its guest, or NoGuest
  loads,     \* guests loaded so far
  lastReq,   \* guest -> kind -> last request id (next_fetch_id, next_rpc_id)
  inflight,  \* requests whose host thread is running
  queue,     \* events posted to the UI thread
  call,      \* the call into a guest in progress
  gesture,   \* guests whose gesture_active is set
  frame,     \* guests whose frame_requested is set
  done       \* history: finished requests, and who was told (NoGuest: nobody)

guestVars == <<phase, guest, loads, lastReq, inflight, queue, call, gesture,
               frame, done>>
vars == <<stripVars, guestVars>>

Init ==
  /\ StripInit
  /\ phase = "boot"
  /\ guest = [t \in TabId |-> NoGuest]
  /\ loads = 0
  /\ lastReq = [g \in Guest |-> [k \in Kinds |-> 0]]
  /\ inflight = {}
  /\ queue = <<>>
  /\ call = NoCall
  /\ gesture = {}
  /\ frame = {}
  /\ done = {}

\* Each queued request for a new tab keeps one of the MaxTabs in reserve, so
\* that the bound never keeps the queue from moving.
TabsReserved ==
  Cardinality({i \in DOMAIN queue : queue[i].type = "nav" /\ queue[i].newTab})
SpareTab == nextTabId + TabsReserved < MaxTabs

\* The UI thread is between two handlers, and there is a window to get input.
Idle == phase = "up" /\ call = NoCall /\ ~exited

-----------------------------------------------------------------------------
(***************************************************************************)
(* Loading a guest: the part of navigate that TabStrip leaves out.         *)
(***************************************************************************)

\* navigate on tab t ended with outcome o.  Unless the address did not
\* resolve the old guest is dropped with its Shared state, and the new one
\* counts its requests from zero again.  Its gwb_start, or its handler of
\* the page_load it may be sent, may issue requests of the kinds in ks and
\* ask for a frame.
Loaded(t, o, ks, wantsFrame) ==
  \/ /\ o = "unresolved"
     /\ UNCHANGED <<guest, loads, lastReq, inflight, frame>>
  \/ LET g == loads + 1 IN
     /\ o # "unresolved"
     /\ loads < MaxLoads
     /\ loads' = g
     /\ guest' = [guest EXCEPT ![t] = IF o = "loaded" THEN g ELSE NoGuest]
     /\ lastReq' = [lastReq EXCEPT ![g] =
                      [k \in Kinds |-> IF k \in ks THEN 1 ELSE 0]]
     /\ inflight' = inflight \cup
          {[tab |-> t, from |-> g, kind |-> k, id |-> 1] : k \in ks}
     /\ frame' = (frame \ {guest[t]}) \cup
                 (IF o = "loaded" /\ wantsFrame THEN {g} ELSE {})

SomeLoad(t, o) ==
  \E ks \in SUBSET Kinds, wantsFrame \in BOOLEAN : Loaded(t, o, ks, wantsFrame)

\* main.rs navigates to the boot target before the event loop runs ...
Boot(x, o) ==
  /\ phase = "boot"
  /\ phase' = "start"
  /\ NavigateActive(x, o)
  /\ SomeLoad(ActiveId, o)
  /\ UNCHANGED <<queue, call, gesture, done>>

\* ... and the window appears some time after it started.
CreateWindow ==
  /\ phase = "start"
  /\ phase' = "up"
  /\ UNCHANGED <<stripVars, guest, loads, lastReq, inflight, queue, call,
                 gesture, frame, done>>

-----------------------------------------------------------------------------
(***************************************************************************)
(* The user at the window chrome.                                          *)
(***************************************************************************)

UserNavigates(o) ==
  /\ Idle
  /\ \/ \E x \in Targets : NavigateActive(x, o)
     \/ NavBack(o)
     \/ NavForward(o)
     \/ NavReload(o)
  /\ SomeLoad(ActiveId, o)
  /\ UNCHANGED <<phase, queue, call, gesture, done>>

UserOpensTab ==
  /\ Idle
  /\ SpareTab
  /\ NewTab
  /\ UNCHANGED guestVars

UserSwitchesTab(t) ==
  /\ Idle
  /\ SwitchTab(t)
  /\ UNCHANGED guestVars

\* Bug: the guest outlives its tab.
UserClosesTab_Bug(t) ==
  /\ Idle
  /\ CloseTab(t)
  /\ UNCHANGED guestVars

\* Removing the TabState drops its GuestRuntime and the Shared state.
UserClosesTab(t) ==
  /\ Idle
  /\ CloseTab(t)
  /\ LET kept == t \in ToSet(tabs')
     IN /\ guest' = IF kept THEN guest ELSE [guest EXCEPT ![t] = NoGuest]
        /\ frame' = IF kept THEN frame ELSE frame \ {guest[t]}
  /\ UNCHANGED <<phase, loads, lastReq, inflight, queue, call, gesture, done>>

Exit ==
  /\ Idle
  /\ ExitLoop
  /\ UNCHANGED guestVars

-----------------------------------------------------------------------------
(***************************************************************************)
(* Calls into a guest.                                                     *)
(***************************************************************************)

\* ShellEventHandler routes DOM events to the active tab's guest only.  The
\* gesture flag is up for the length of a click or a key press.
BeginEvent(why) ==
  /\ Idle
  /\ guest[ActiveId] # NoGuest
  /\ call' = [tab |-> ActiveId, why |-> why]
  /\ gesture' = IF why = "gesture" THEN gesture \cup {guest[ActiveId]}
                ELSE gesture
  /\ UNCHANGED <<stripVars, phase, guest, loads, lastReq, inflight, queue,
                 frame, done>>

\* Bug: frame_requested is not cleared when the frame is delivered.
BeginFrame_Bug ==
  /\ Idle
  /\ guest[ActiveId] \in frame
  /\ call' = [tab |-> ActiveId, why |-> "other"]
  /\ UNCHANGED <<stripVars, phase, guest, loads, lastReq, inflight, queue,
                 gesture, frame, done>>

\* poll, from about_to_wait: a frame goes to the active tab's guest if it
\* asked for one; the request is taken before the guest is called.
BeginFrame ==
  /\ Idle
  /\ guest[ActiveId] \in frame
  /\ frame' = frame \ {guest[ActiveId]}
  /\ call' = [tab |-> ActiveId, why |-> "other"]
  /\ UNCHANGED <<stripVars, phase, guest, loads, lastReq, inflight, queue,
                 gesture, done>>

Caller == guest[call.tab]

\* Bug: the id handed out is the count before this request.
CallRequest_Bug(k) ==
  /\ call # NoCall
  /\ lastReq[Caller][k] < MaxReq
  /\ lastReq' = [lastReq EXCEPT ![Caller][k] = @ + 1]
  /\ inflight' = inflight \cup
       {[tab |-> call.tab, from |-> Caller, kind |-> k, id |-> lastReq[Caller][k]]}
  /\ UNCHANGED <<stripVars, phase, guest, loads, queue, call, gesture, frame,
                 done>>

\* fetch and rpc_call: number the request and start its host thread.
CallRequest(k) ==
  /\ call # NoCall
  /\ lastReq[Caller][k] < MaxReq
  /\ lastReq' = [lastReq EXCEPT ![Caller][k] = @ + 1]
  /\ inflight' = inflight \cup
       {[tab |-> call.tab, from |-> Caller, kind |-> k, id |-> lastReq'[Caller][k]]}
  /\ UNCHANGED <<stripVars, phase, guest, loads, queue, call, gesture, frame,
                 done>>

CallRequestFrame ==
  /\ call # NoCall
  /\ frame' = frame \cup {Caller}
  /\ UNCHANGED <<stripVars, phase, guest, loads, lastReq, inflight, queue,
                 call, gesture, done>>

\* Bug: the gesture flag is not looked at.
CallNavigate_Bug(x, newTab) ==
  /\ call # NoCall
  /\ x \in Links[tab[call.tab].target]
  /\ Len(queue) < MaxQueue
  /\ newTab => SpareTab
  /\ queue' = Append(queue, [type |-> "nav", tab |-> call.tab, from |-> Caller,
                             target |-> x, newTab |-> newTab])
  /\ UNCHANGED <<stripVars, phase, guest, loads, lastReq, inflight, call,
                 gesture, frame, done>>

\* navigate: honoured only while the gesture flag is up and for a link the
\* manifest declares; what it does happens later, in DeliverNav.
CallNavigate(x, newTab) ==
  /\ call # NoCall
  /\ Caller \in gesture
  /\ x \in Links[tab[call.tab].target]
  /\ Len(queue) < MaxQueue
  /\ newTab => SpareTab
  /\ queue' = Append(queue, [type |-> "nav", tab |-> call.tab, from |-> Caller,
                             target |-> x, newTab |-> newTab])
  /\ UNCHANGED <<stripVars, phase, guest, loads, lastReq, inflight, call,
                 gesture, frame, done>>

\* Bug: a guest that traps leaves its gesture flag up.
EndCall_Bug ==
  /\ call # NoCall
  /\ call' = NoCall
  /\ gesture' = gesture \/ gesture' = gesture \ {Caller}
  /\ UNCHANGED <<stripVars, phase, guest, loads, lastReq, inflight, queue,
                 frame, done>>

\* The guest returns, or traps: either way the gesture is over.
EndCall ==
  /\ call # NoCall
  /\ call' = NoCall
  /\ gesture' = gesture \ {Caller}
  /\ UNCHANGED <<stripVars, phase, guest, loads, lastReq, inflight, queue,
                 frame, done>>

-----------------------------------------------------------------------------
(***************************************************************************)
(* Host threads and the event queue.                                       *)
(***************************************************************************)

\* Bug: a timeout is reported, and the late answer as well.
ThreadDone_Bug(m) ==
  /\ ~exited
  /\ m \in inflight
  /\ Len(queue) < MaxQueue
  /\ inflight' = inflight \/ inflight' = inflight \ {m}
  /\ queue' = Append(queue, [type |-> "result", req |-> m])
  /\ UNCHANGED <<stripVars, phase, guest, loads, lastReq, call, gesture,
                 frame, done>>

\* A request thread ends, with an answer or a timeout, in any order.
ThreadDone(m) ==
  /\ ~exited
  /\ m \in inflight
  /\ Len(queue) < MaxQueue
  /\ inflight' = inflight \ {m}
  /\ queue' = Append(queue, [type |-> "result", req |-> m])
  /\ UNCHANGED <<stripVars, phase, guest, loads, lastReq, call, gesture,
                 frame, done>>

\* proxy_wake_up takes events off the queue, with or without a window.
Deliverable(type) ==
  /\ phase # "boot" /\ call = NoCall /\ ~exited
  /\ queue # <<>>
  /\ Head(queue).type = type

\* Bug: the result goes to the tab on display.
Receiver_Bug(m) ==
  IF phase = "up" /\ m.tab \in Open THEN guest[ActiveId] ELSE NoGuest

\* Who deliver_net_result and deliver_rpc_result tell about result m: the
\* guest that is in the tab now.  Nobody, when there is no window to look
\* for the tab in, the tab is closed, or it has no guest.
Receiver(m) ==
  IF phase = "up" /\ m.tab \in Open THEN guest[m.tab] ELSE NoGuest

\* Bug: a result waits at the head of the queue for its tab to be shown.
DeliverResult_Bug ==
  /\ Deliverable("result")
  /\ LET m == Head(queue).req IN
     /\ m.tab = ActiveId
     /\ done' = done \cup {[req |-> m, to |-> Receiver(m)]}
     /\ call' = IF Receiver(m) = NoGuest THEN NoCall
                ELSE [tab |-> m.tab, why |-> "other"]
  /\ queue' = Tail(queue)
  /\ UNCHANGED <<stripVars, phase, guest, loads, lastReq, inflight, gesture,
                 frame>>

DeliverResult ==
  /\ Deliverable("result")
  /\ LET m == Head(queue).req IN
     /\ done' = done \cup {[req |-> m, to |-> Receiver(m)]}
     /\ call' = IF Receiver(m) = NoGuest THEN NoCall
                ELSE [tab |-> m.tab, why |-> "other"]
  /\ queue' = Tail(queue)
  /\ UNCHANGED <<stripVars, phase, guest, loads, lastReq, inflight, gesture,
                 frame>>

\* deliver_nav_request when the requesting tab is still open.
DeliverNav(o) ==
  /\ Deliverable("nav")
  /\ LET n == Head(queue) IN
     /\ n.tab \in Open
     /\ \/ n.newTab /\ OpenTabAt(n.target, o) /\ SomeLoad(nextTabId, o)
        \/ ~n.newTab /\ NavigateInPlace(n.tab, n.target, o) /\ SomeLoad(n.tab, o)
  /\ queue' = Tail(queue)
  /\ UNCHANGED <<phase, call, gesture, done>>

\* deliver_nav_request for a tab that was closed meanwhile.
DropNav ==
  /\ Deliverable("nav")
  /\ Head(queue).tab \notin Open
  /\ queue' = Tail(queue)
  /\ UNCHANGED <<stripVars, phase, guest, loads, lastReq, inflight, call,
                 gesture, frame, done>>

TakeEvent == DeliverResult \/ DropNav \/ \E o \in Outcomes : DeliverNav(o)

-----------------------------------------------------------------------------

Next ==
  \/ \E x \in Targets, o \in Outcomes : Boot(x, o)
  \/ CreateWindow
  \/ \E o \in Outcomes : UserNavigates(o)
  \/ UserOpensTab
  \/ \E t \in TabId : UserSwitchesTab(t) \/ UserClosesTab(t)
  \/ \E why \in {"gesture", "other"} : BeginEvent(why)
  \/ BeginFrame
  \/ \E k \in Kinds : CallRequest(k)
  \/ CallRequestFrame
  \/ \E x \in Targets, newTab \in BOOLEAN : CallNavigate(x, newTab)
  \/ EndCall
  \/ \E m \in inflight : ThreadDone(m)
  \/ TakeEvent
  \/ Exit

Done == exited /\ UNCHANGED vars

\* The user owes nothing.  The event loop keeps turning: it delivers events,
\* pumps frames, creates the window and exits when asked; a guest returns
\* from every call; a request thread has a timeout of 15 seconds.
Fairness ==
  /\ WF_vars(CreateWindow)
  /\ WF_vars(EndCall)
  /\ SF_vars(TakeEvent)
  /\ SF_vars(BeginFrame)
  /\ WF_vars(Exit)
  /\ \A t \in TabId, g \in Guest, k \in Kinds, i \in 1 .. MaxReq :
       SF_vars(ThreadDone([tab |-> t, from |-> g, kind |-> k, id |-> i]))

Spec == Init /\ [][Next \/ Done]_vars
FairSpec == Spec /\ Fairness

-----------------------------------------------------------------------------
(***************************************************************************)
(* Properties that hold.                                                   *)
(***************************************************************************)

\* Every variable of the guests keeps its type.
GuestTypeOK ==
  /\ phase \in {"boot", "start", "up"}
  /\ guest \in [TabId -> Guest \cup {NoGuest}]
  /\ loads \in 0 .. MaxLoads
  /\ lastReq \in [Guest -> [Kinds -> 0 .. MaxReq]]
  /\ inflight \in SUBSET Request
  /\ queue \in Seq(ResultEvent \cup NavEvent)
  /\ call \in Call \cup {NoCall}
  /\ gesture \in SUBSET Guest
  /\ frame \in SUBSET Guest
  /\ done \in SUBSET [req : Request, to : Guest \cup {NoGuest}]

\* A guest lives in one open tab at most, exactly the tabs marked live have
\* one, and whoever is being called, has the gesture flag up or waits for a
\* frame is a guest that has not been dropped.
GuestsInTabs ==
  /\ \A t \in TabId : /\ tab[t].live <=> guest[t] # NoGuest
                      /\ guest[t] # NoGuest => t \in Open
                      /\ guest[t] <= loads
  /\ \A t, u \in TabId : guest[t] = guest[u] /\ guest[t] # NoGuest => t = u
  /\ call # NoCall => Caller # NoGuest
  /\ gesture \cup frame \subseteq {guest[t] : t \in TabId} \ {NoGuest}

\* Where request i of kind k of guest g is: on a thread, queued, finished.
Copies(g, k, i) ==
  LET this(m) == m.from = g /\ m.kind = k /\ m.id = i
  IN Cardinality({m \in inflight : this(m)})
     + Cardinality({j \in DOMAIN queue :
                      queue[j].type = "result" /\ this(queue[j].req)})
     + Cardinality({d \in done : this(d.req)})

\* No request is lost or answered twice, whatever its tab does meanwhile:
\* each one issued is in exactly one place, one not issued is in none.
OneAnswerPerRequest ==
  \A g \in Guest, k \in Kinds, i \in 1 .. MaxReq :
    Copies(g, k, i) = IF i <= lastReq[g][k] THEN 1 ELSE 0

\* A guest has the gesture flag up only while the active tab's click or key
\* press is being dispatched to it, so no result, frame or other tab's event
\* can carry a navigation.
GestureOnlyInDispatch ==
  gesture # {} => /\ call # NoCall /\ call.why = "gesture"
                  /\ call.tab = ActiveId
                  /\ gesture = {Caller}

\* A guest issues a navigation only during a gesture and only to an address
\* that the manifest of the page it is running in declares.
NavigationGated ==
  [][\A i \in DOMAIN queue' :
       (queue'[i].type = "nav" /\ i > Len(queue)) =>
         /\ gesture = {queue'[i].from} /\ guest[queue'[i].tab] = queue'[i].from
         /\ queue'[i].target \in Links[tab[queue'[i].tab].target]]_vars

\* A result wakes no guest but the one in the tab that asked, active or not,
\* and never one that was loaded before the request was issued.
ResultRoutedToOwner ==
  [][\A d \in done' \ done :
       d.to # NoGuest => d.to = guest[d.req.tab] /\ d.to >= d.req.from]_vars

\* Every request is answered or discarded in the end, unless the window is
\* closed first.
EveryRequestEnds ==
  \A t \in TabId, g \in Guest, k \in Kinds, i \in 1 .. MaxReq :
    LET m == [tab |-> t, from |-> g, kind |-> k, id |-> i]
    IN m \in inflight ~> (exited \/ \E d \in done : d.req = m)

\* A tab's guest that asked for a frame gets it, or the tab stops being the
\* active one, or the guest goes; and what it asked for in the background is
\* still asked for when its tab is shown again: only the frame itself, or the
\* end of the guest, takes a request back.
FramesCatchUp ==
  /\ \A g \in Guest :
       (g \in frame /\ guest[ActiveId] = g)
         ~> (g \notin frame \/ guest[ActiveId] # g \/ exited)
  /\ [][\A g \in frame \ frame' :
          \/ /\ call = NoCall /\ call' # NoCall /\ queue' = queue
             /\ call'.why = "other" /\ guest[call'.tab] = g
          \/ \A t \in TabId : guest'[t] # g]_vars

-----------------------------------------------------------------------------
(***************************************************************************)
(* What the documentation says and the code does not do.                   *)
(***************************************************************************)

\* docs/04-WEB-RPC.md: a result correlates to the right request id under
\* concurrent calls.  A guest that has issued a request under some id gets,
\* under that id, the answer to that request.
AnswersOwnRequest ==
  [][\A d \in done' \ done :
       (d.to # NoGuest /\ d.req.id <= lastReq[d.to][d.req.kind])
         => d.to = d.req.from]_vars

=============================================================================
