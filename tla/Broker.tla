------------------------------- MODULE Broker -------------------------------
(***************************************************************************)
(* Tabs and supervisor put together as cmd/broker/main.go does: a crash is *)
(* reported to the supervisor, whose restart callback takes the last       *)
(* snapshot of the tab and restores the tab from it.  Any number of        *)
(* goroutines use the tabs meanwhile.                                      *)
(***************************************************************************)
EXTENDS TabLifecycle, Supervisor

VARIABLE
  last   \* goroutine -> address to restart from, and how far the callback is

vars == <<lifeVars, supVars, last>>

NoLast == [url |-> NoUrl, at |-> "none"]

Init ==
  /\ LifeInit
  /\ SupInit
  /\ last = [c \in Callers |-> NoLast]

-----------------------------------------------------------------------------

\* Whoever uses a tab, and the goroutines that reload one.
Use(t) == TabStep(t) /\ UNCHANGED <<supVars, last>>

Reload(c) ==
  /\ stage[c] = "idle"
  /\ ReloadStep(c)
  /\ UNCHANGED <<supVars, last>>

\* A goroutine sees the tab crashed and calls HandleCrash with its LastURL.
ReportCrash(c, t) ==
  /\ reload[c] = NoReload
  /\ state[t] = "Crashed"
  /\ Report(c, t)
  /\ last' = [last EXCEPT ![c] = [url |-> url[t], at |-> "event"]]
  /\ UNCHANGED lifeVars

Judge(c) ==
  /\ Decide(c)
  /\ last' = IF Charge(c) THEN last ELSE [last EXCEPT ![c] = NoLast]
  /\ UNCHANGED lifeVars

\* The callback: LastSnapshot, or the address of the event if there is none.
FindSnapshot(c) ==
  /\ stage[c] = "restarting"
  /\ last[c].at = "event"
  /\ LET s == snapshot[crash[c]]
     IN last' = [last EXCEPT ![c] =
          [url |-> IF s = NoSnapshot THEN @.url ELSE s, at |-> "snapshot"]]
  /\ UNCHANGED <<lifeVars, supVars>>

\* The callback: Restore.  It fails if the tab is not crashed any more.
RestoreTab(c, o) ==
  /\ stage[c] = "restarting"
  /\ last[c].at = "snapshot"
  /\ IF "Restoring" \in Valid[state[crash[c]]]
     THEN Restore(crash[c], last[c].url, o)
     ELSE UNCHANGED lifeVars
  /\ last' = [last EXCEPT ![c].at = "restored"]
  /\ UNCHANGED supVars

\* Bug: the mutex is let go of while the callback is still at work.
FinishCrash_Bug(c) ==
  /\ last[c].at # "event"
  /\ stage[c] = "restarting"
  /\ holder' = NoCaller
  /\ IF last[c].at = "restored"
     THEN Ends(c) /\ last' = [last EXCEPT ![c] = NoLast]
     ELSE UNCHANGED <<stage, crash, last>>
  /\ UNCHANGED <<lifeVars, now, attempts, started>>

FinishCrash(c) ==
  /\ last[c].at = "restored"
  /\ Return(c)
  /\ last' = [last EXCEPT ![c] = NoLast]
  /\ UNCHANGED lifeVars

Forgive(t) == ResetTab(t) /\ UNCHANGED <<lifeVars, last>>

Clock == Tick /\ UNCHANGED <<lifeVars, last>>

\* Inside HandleCrash a goroutine takes its next step as soon as it can.
Handle(c) ==
  \/ Judge(c)
  \/ FindSnapshot(c)
  \/ \E o \in Outcomes : RestoreTab(c, o)
  \/ FinishCrash(c)

Next ==
  \/ \E t \in Tabs : Use(t) \/ Forgive(t)
  \/ \E c \in Callers : Reload(c) \/ Handle(c)
  \/ \E c \in Callers, t \in Tabs : ReportCrash(c, t)
  \/ Clock

\* A goroutine inside HandleCrash runs on; sync.Mutex starves nobody.
Fairness == \A c \in Callers : SF_vars(Handle(c))

Spec == Init /\ [][Next]_vars /\ Fairness

-----------------------------------------------------------------------------

\* Every variable keeps its type, and the callback belongs to its stage.
BrokerTypeOK ==
  /\ LifeTypeOK
  /\ SupTypeOK
  /\ last \in [Callers -> [url : Page, at : {"none", "event", "snapshot", "restored"}]]
  /\ \A c \in Callers :
       /\ stage[c] = "restarting" <=> holder = c
       /\ stage[c] = "idle" <=> last[c].at = "none"

\* HandleCrash holds its mutex over the restart callback, which takes the
\* tab's in turn, and gives it back on every path: every report returns.
CrashReportsReturn ==
  \A c \in Callers : stage[c] # "idle" ~> stage[c] = "idle"

=============================================================================
