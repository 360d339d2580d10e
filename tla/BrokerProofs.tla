---------------------------- MODULE BrokerProofs ----------------------------
(***************************************************************************)
(* The crash supervisor keeps its budget and the tabs of the Go shell      *)
(* their invariant, each by itself, for any policy, any tabs and any       *)
(* number of goroutines; and the broker implements both: what is proved of *)
(* either holds of the two put together.                                   *)
(***************************************************************************)
EXTENDS Broker, FiniteSetTheorems, TLAPS

-----------------------------------------------------------------------------
(* The supervisor *)

\* What the history remembers: never a restart that did not happen, and every
\* restart that the window still covers.
Remembered ==
  \A t \in Tabs :
    /\ IsFiniteSet(started[t])
    /\ attempts[t] \subseteq started[t]
    /\ Trimmed(started[t]) \subseteq attempts[t]

\* Restarts lie in the past, and their numbers tell them apart.
Numbered ==
  \A t \in Tabs : \A s \in started[t] :
    s.at <= now /\ s.n <= Cardinality(started[t])

SupInv == SupTypeOK /\ Remembered /\ Numbered /\ RestartBudget

-----------------------------------------------------------------------------

LEMMA SupInitInv == SupInit => SupInv
  BY FS_EmptySet, SupervisorAssumption, GoShellAssumption
  DEF SupInit, SupInv, SupTypeOK, Remembered, Numbered, RestartBudget, Trimmed, Restart

\* Only these four variables matter to the history of restarts.
LEMMA HistoryKept ==
  ASSUME SupInv, UNCHANGED <<now, started>>,
         \A t \in Tabs : attempts'[t] \subseteq attempts[t],
         \A t \in Tabs : Trimmed(attempts[t]) \subseteq attempts'[t]
  PROVE  (Remembered /\ Numbered /\ RestartBudget)'
<1>1. Remembered'
  BY DEF SupInv, Remembered, Trimmed
<1>2. Numbered'
  BY DEF SupInv, Numbered
<1>3. RestartBudget'
  BY DEF SupInv, RestartBudget, Burst
<1> QED BY <1>1, <1>2, <1>3

LEMMA TickInv == SupInv /\ Tick => SupInv'
<1> SUFFICES ASSUME SupInv, Tick PROVE SupInv'
  OBVIOUS
<1>1. SupTypeOK'
  BY SupervisorAssumption DEF SupInv, SupTypeOK, Tick
<1>2. Remembered'
  <2> SUFFICES ASSUME NEW t \in Tabs
               PROVE /\ IsFiniteSet(started'[t])
                     /\ attempts'[t] \subseteq started'[t]
                     /\ Trimmed(started[t])' \subseteq attempts'[t]
    BY DEF Remembered
  <2>1. started[t] \in SUBSET Restart /\ now \in Nat
    BY DEF SupInv, SupTypeOK
  <2>2. Trimmed(started[t])' \subseteq Trimmed(started[t])
    BY <2>1, SupervisorAssumption DEF Trimmed, Tick, Restart
  <2> QED BY <2>2 DEF SupInv, Remembered, Tick
<1>3. Numbered'
  BY DEF SupInv, SupTypeOK, Numbered, Tick, Restart
<1>4. RestartBudget'
  BY DEF SupInv, RestartBudget, Burst, Tick
<1> QED BY <1>1, <1>2, <1>3, <1>4 DEF SupInv

LEMMA ReportInv ==
  ASSUME NEW c \in Callers, NEW t \in Tabs, SupInv, Report(c, t)
  PROVE  SupInv'
<1>1. SupTypeOK'
  BY GoShellAssumption DEF SupInv, SupTypeOK, Report
<1>2. (Remembered /\ Numbered /\ RestartBudget)'
  BY HistoryKept DEF Report, Trimmed
<1> QED BY <1>1, <1>2 DEF SupInv

LEMMA RefuseInv ==
  ASSUME NEW c \in Callers, SupInv, Refuse(c)
  PROVE  SupInv'
<1>1. SupTypeOK'
  BY GoShellAssumption DEF SupInv, SupTypeOK, Refuse, Ends
<1>2. (Remembered /\ Numbered /\ RestartBudget)'
  BY HistoryKept DEF Refuse, Trimmed
<1> QED BY <1>1, <1>2 DEF SupInv

\* A goroutine in HandleCrash reports a crash of some tab.
LEMMA Reported ==
  ASSUME NEW c \in Callers, SupInv, Decides(c)
  PROVE  crash[c] \in Tabs
  BY DEF SupInv, SupTypeOK, Decides

LEMMA GiveUpInv ==
  ASSUME NEW c \in Callers, SupInv, GiveUp(c)
  PROVE  SupInv'
<1>1. crash[c] \in Tabs
  BY Reported DEF GiveUp
<1>2. attempts' = [attempts EXCEPT ![crash[c]] = Trimmed(attempts[crash[c]])]
  BY DEF GiveUp
<1>3. SupTypeOK'
  BY <1>1, <1>2, GoShellAssumption DEF SupInv, SupTypeOK, GiveUp, Ends, Trimmed
<1>4. (Remembered /\ Numbered /\ RestartBudget)'
  <2>1. UNCHANGED <<now, started>>
    BY DEF GiveUp
  <2>2. \A t \in Tabs : attempts'[t] = attempts[t] \/ attempts'[t] = Trimmed(attempts[t])
    BY <1>1, <1>2 DEF SupInv, SupTypeOK
  <2>3. \A t \in Tabs : Trimmed(attempts[t]) \subseteq attempts[t]
    BY DEF Trimmed
  <2> QED BY <2>1, <2>2, <2>3, HistoryKept
<1> QED BY <1>3, <1>4 DEF SupInv

\* Adding a restart made now to a history S whose part within the window is
\* below the budget exceeds the budget in no window.
LEMMA OneMore ==
  ASSUME NEW S, IsFiniteSet(S), S \subseteq Restart, now \in Nat,
         \A s \in S : s.at <= now,
         NEW A, A \subseteq S, Trimmed(S) \subseteq A,
         Cardinality(A) < MaxRestarts,
         NEW new \in Restart, new.at = now,
         \A r \in S : Cardinality(Burst(S, r)) <= MaxRestarts
  PROVE  \A r \in S \cup {new} : Cardinality(Burst(S \cup {new}, r)) <= MaxRestarts
<1> SUFFICES ASSUME NEW r \in S \cup {new}
             PROVE  Cardinality(Burst(S \cup {new}, r)) <= MaxRestarts
  OBVIOUS
<1>1. IsFiniteSet(A) /\ Cardinality(A) \in Nat
  BY FS_Subset, FS_CardinalityType
<1>2. CASE new \in Burst(S \cup {new}, r)
  <2>1. Burst(S \cup {new}, r) \subseteq A \cup {new}
    <3> SUFFICES ASSUME NEW s \in Burst(S \cup {new}, r), s # new
                 PROVE  s \in A
      OBVIOUS
    <3>1. s \in S /\ s \in Restart /\ r \in Restart
      BY DEF Burst
    <3>2. s.at >= r.at /\ (Window > 0 => now < r.at + Window)
      BY <1>2 DEF Burst
    <3>3. Window > 0 => s.at > now - Window
      BY <3>1, <3>2, SupervisorAssumption DEF Restart
    <3> QED BY <3>1, <3>3 DEF Trimmed
  <2>2. IsFiniteSet(A \cup {new}) /\ Cardinality(A \cup {new}) <= Cardinality(A) + 1
    <3>1. /\ IsFiniteSet(A \cup {new})
          /\ Cardinality(A \cup {new}) =
               IF new \in A THEN Cardinality(A) ELSE Cardinality(A) + 1
      BY <1>1, FS_AddElement
    <3> QED BY <1>1, <3>1
  <2>3. /\ Cardinality(Burst(S \cup {new}, r)) <= Cardinality(A \cup {new})
        /\ IsFiniteSet(Burst(S \cup {new}, r))
    BY <2>1, <2>2, FS_Subset
  <2>4. /\ Cardinality(Burst(S \cup {new}, r)) \in Nat
        /\ Cardinality(A \cup {new}) \in Nat
    BY <2>2, <2>3, FS_CardinalityType
  <2> QED BY <1>1, <2>2, <2>3, <2>4, SupervisorAssumption
<1>3. CASE new \notin Burst(S \cup {new}, r)
  <2>1. r # new
    BY <1>3, SupervisorAssumption DEF Burst, Restart
  <2>2. Burst(S \cup {new}, r) = Burst(S, r)
    BY <1>3 DEF Burst
  <2> QED BY <2>1, <2>2
<1> QED BY <1>2, <1>3

LEMMA ChargeInv ==
  ASSUME NEW c \in Callers, SupInv, Charge(c)
  PROVE  SupInv'
<1>1. PICK t \in Tabs : t = crash[c]
  BY Reported DEF Charge
<1> DEFINE kept == Trimmed(attempts[t])
           new == [n |-> Cardinality(started[t]) + 1, at |-> now]
<1>2. /\ Cardinality(kept) < MaxRestarts
      /\ attempts' = [attempts EXCEPT ![t] = kept \cup {new}]
      /\ started' = [started EXCEPT ![t] = started[t] \cup {new}]
      /\ UNCHANGED <<now, crash>>
  BY <1>1 DEF Charge
<1>3. /\ IsFiniteSet(started[t]) /\ Cardinality(started[t]) \in Nat
      /\ attempts[t] \subseteq started[t] /\ Trimmed(started[t]) \subseteq attempts[t]
  BY <1>1, FS_CardinalityType DEF SupInv, Remembered
<1>4. new \in Restart /\ new.at = now /\ new.n = Cardinality(started[t]) + 1
  BY <1>3 DEF Restart, SupInv, SupTypeOK
<1>5. /\ attempts'[t] = kept \cup {new} /\ started'[t] = started[t] \cup {new}
      /\ \A u \in Tabs \ {t} : attempts'[u] = attempts[u] /\ started'[u] = started[u]
  BY <1>1, <1>2 DEF SupInv, SupTypeOK
<1>6. kept \subseteq attempts[t] /\ Trimmed(started[t]) \subseteq kept
  BY <1>3 DEF Trimmed
<1>7. started[t] \subseteq Restart /\ now \in Nat
  BY <1>1 DEF SupInv, SupTypeOK
<1>8. SupTypeOK'
  <2>1. attempts' \in [Tabs -> SUBSET Restart] /\ started' \in [Tabs -> SUBSET Restart]
    BY <1>1, <1>2, <1>3, <1>4, <1>6 DEF SupInv, SupTypeOK
  <2>2. /\ holder' \in Callers \cup {NoCaller}
        /\ stage' \in [Callers -> {"idle", "waiting", "restarting"}]
        /\ \A d \in Callers : stage'[d] = "idle" <=> crash'[d] = NoTab
    BY DEF SupInv, SupTypeOK, Charge, Decides
  <2> QED BY <1>2, <2>1, <2>2 DEF SupInv, SupTypeOK
<1>9. Remembered'
  <2> SUFFICES ASSUME NEW u \in Tabs
               PROVE /\ IsFiniteSet(started'[u])
                     /\ attempts'[u] \subseteq started'[u]
                     /\ Trimmed(started[u])' \subseteq attempts'[u]
    BY DEF Remembered
  <2>1. CASE u = t
    <3>1. IsFiniteSet(started[t] \cup {new})
      BY <1>3, FS_AddElement
    <3>2. Trimmed(started[t])' \subseteq Trimmed(started[t]) \cup {new}
      BY <1>2, <1>5 DEF Trimmed
    <3>3. Trimmed(started[u])' = Trimmed(started[t])'
      BY <2>1 DEF Trimmed
    <3> HIDE DEF kept, new
    <3> QED BY <2>1, <3>1, <3>2, <3>3, <1>3, <1>5, <1>6
  <2>2. CASE u # t
    <3>1. Trimmed(started[u])' = Trimmed(started[u])
      BY <2>2, <1>2, <1>5 DEF Trimmed
    <3> QED BY <2>2, <3>1, <1>5 DEF SupInv, Remembered
  <2> QED BY <2>1, <2>2
<1>10. Numbered'
  <2>1. new \notin started[t]
    BY <1>1, <1>3, <1>4 DEF SupInv, Numbered
  <2>2. Cardinality(started'[t]) = Cardinality(started[t]) + 1
    <3> HIDE DEF kept, new
    <3>1. Cardinality(started[t] \cup {new}) =
            IF new \in started[t] THEN Cardinality(started[t])
            ELSE Cardinality(started[t]) + 1
      BY <1>3, FS_AddElement
    <3> QED BY <2>1, <3>1, <1>5
  <2>3. \A s \in started'[t] : s.at <= now' /\ s.n <= Cardinality(started'[t])
    BY <2>2, <1>1, <1>2, <1>3, <1>4, <1>5, <1>7 DEF SupInv, Numbered, Restart
  <2> QED BY <2>3, <1>2, <1>5 DEF SupInv, Numbered
<1>11. RestartBudget'
  <2>1. \A r \in started[t] \cup {new} :
          Cardinality(Burst(started[t] \cup {new}, r)) <= MaxRestarts
    <3>1. \A s \in started[t] : s.at <= now
      BY <1>1 DEF SupInv, Numbered
    <3>2. \A r \in started[t] : Cardinality(Burst(started[t], r)) <= MaxRestarts
      BY <1>1 DEF SupInv, RestartBudget
    <3>3. kept \subseteq started[t]
      BY <1>3, <1>6
    <3> HIDE DEF kept, new
    <3> QED BY <1>2, <1>3, <1>4, <1>6, <1>7, <3>1, <3>2, <3>3, OneMore
  <2>2. \A u \in Tabs : \A r \in started'[u] :
          Cardinality(Burst(started'[u], r)) <= MaxRestarts
    BY <2>1, <1>5 DEF SupInv, RestartBudget
  <2> QED BY <2>2 DEF RestartBudget, Burst
<1> QED BY <1>8, <1>9, <1>10, <1>11 DEF SupInv

LEMMA ReturnInv ==
  ASSUME NEW c \in Callers, SupInv, Return(c)
  PROVE  SupInv'
<1>1. SupTypeOK'
  BY GoShellAssumption DEF SupInv, SupTypeOK, Return, Ends
<1>2. (Remembered /\ Numbered /\ RestartBudget)'
  BY HistoryKept DEF Return, Trimmed
<1> QED BY <1>1, <1>2 DEF SupInv

LEMMA ResetInv ==
  ASSUME NEW t \in Tabs, SupInv, ResetTab(t)
  PROVE  SupInv'
<1>1. SupTypeOK'
  BY DEF SupInv, SupTypeOK, ResetTab
<1>2. /\ attempts'[t] = {} /\ started'[t] = {} /\ now' = now
      /\ \A u \in Tabs \ {t} : attempts'[u] = attempts[u] /\ started'[u] = started[u]
  BY DEF SupInv, SupTypeOK, ResetTab
<1>3. Remembered'
  BY <1>2, FS_EmptySet DEF SupInv, Remembered, Trimmed
<1>4. Numbered'
  BY <1>2 DEF SupInv, Numbered
<1>5. RestartBudget'
  BY <1>2 DEF SupInv, RestartBudget, Burst
<1> QED BY <1>1, <1>3, <1>4, <1>5 DEF SupInv

LEMMA SupStutter == SupInv /\ UNCHANGED supVars => SupInv'
  BY DEF SupInv, supVars, SupTypeOK, Remembered, Numbered, RestartBudget, Trimmed, Burst

-----------------------------------------------------------------------------

LEMMA SupNextInv == SupInv /\ [SupNext]_supVars => SupInv'
  BY TickInv, ReportInv, RefuseInv, GiveUpInv, ChargeInv, ReturnInv, ResetInv, SupStutter
  DEF SupNext, Decide

\* The history remembers what the window covers, and so the budget is kept.
THEOREM SupervisorInvariant == SupSpec => []SupInv
  BY SupNextInv, SupInitInv, PTL DEF SupSpec

\* session.go on CrashPolicy: however crashes are reported, no window of the
\* policy's length holds more restarts of one tab than the policy allows.
THEOREM BudgetIsKept == SupSpec => []RestartBudget
  BY SupervisorInvariant, PTL DEF SupInv

\* session.go on HandleCrash: a tab is given up only when its restarts within
\* the current window have used up the budget.
THEOREM GivenUpWhenSpent == SupSpec => GivesUpOnlyWhenSpent
<1>1. SupInv /\ [SupNext]_supVars =>
        [\A c \in Callers : GiveUp(c) =>
           Cardinality({s \in started[crash[c]] : Window > 0 => s.at + Window > now})
             >= MaxRestarts]_supVars
  <2> SUFFICES ASSUME SupInv, NEW c \in Callers, GiveUp(c)
               PROVE  Cardinality({s \in started[crash[c]] :
                                     Window > 0 => s.at + Window > now}) >= MaxRestarts
    OBVIOUS
  <2>1. crash[c] \in Tabs
    BY Reported DEF GiveUp
  <2>2. started[crash[c]] \subseteq Restart /\ now \in Nat
    BY <2>1 DEF SupInv, SupTypeOK
  <2>3. Trimmed(attempts[crash[c]]) = {s \in started[crash[c]] : Window > 0 => s.at + Window > now}
    BY <2>1, <2>2, SupervisorAssumption DEF SupInv, Remembered, Trimmed, Restart
  <2> QED BY <2>3 DEF GiveUp
<1> QED BY <1>1, SupervisorInvariant, PTL DEF SupSpec, GivesUpOnlyWhenSpent

-----------------------------------------------------------------------------
(* The tabs *)

LifeInv ==
  /\ LifeTypeOK
  /\ ShownIsUrl
  /\ \A t \in Tabs : state[t] = "Closed" => t \notin open

LEMMA LifeInitInv == LifeInit => LifeInv
  BY DEF LifeInit, LifeInv, LifeTypeOK, ShownIsUrl, States, Page

\* Navigate and Restore keep the invariant of the tabs.
LEMMA LoadInv ==
  ASSUME NEW t \in Tabs, NEW u \in Page, NEW via \in {"Loading", "Restoring"},
         NEW o \in Outcomes, LifeInv, Load(t, u, via, o),
         reload' \in [Callers -> [tab : Tabs, url : Page, via : {"Loading", "Restoring"}]
                                   \cup {NoReload}]
  PROVE  LifeInv'
<1>1. state[t] # "Closed"
  BY DEF LifeInv, LifeTypeOK, Load, Valid, States
<1>2. LifeTypeOK'
  BY DEF LifeInv, LifeTypeOK, Load, States, Page
<1>3. ShownIsUrl'
  BY DEF LifeInv, LifeTypeOK, ShownIsUrl, Load, Outcomes
<1>4. \A v \in Tabs : state'[v] = "Closed" => v \notin open'
  BY <1>1 DEF LifeInv, LifeTypeOK, Load
<1> QED BY <1>2, <1>3, <1>4 DEF LifeInv

LEMMA TransitionInv ==
  ASSUME NEW t \in Tabs,
         NEW to \in {"Frozen", "Background", "Discarded", "Active", "Crashed"},
         LifeInv, Transition(t, to)
  PROVE  LifeInv'
<1>1. /\ state[t] # "Closed"
      /\ to # "Crashed" => state[t] \in {"Active", "Background", "Frozen", "Discarded"}
  BY DEF LifeInv, LifeTypeOK, Transition, Valid, States
<1>2. LifeTypeOK'
  BY DEF LifeInv, LifeTypeOK, Transition, States
<1>3. ShownIsUrl'
  BY <1>1 DEF LifeInv, LifeTypeOK, ShownIsUrl, Transition
<1>4. \A v \in Tabs : state'[v] = "Closed" => v \notin open'
  BY DEF LifeInv, LifeTypeOK, Transition
<1> QED BY <1>2, <1>3, <1>4 DEF LifeInv

LEMMA TabStepInv ==
  ASSUME NEW t \in Tabs, LifeInv, TabStep(t)
  PROVE  LifeInv'
<1>1. ASSUME NEW u \in Urls, NEW o \in Outcomes, Navigate(t, u, o)
      PROVE  LifeInv'
  BY <1>1, LoadInv DEF Navigate, Page, LifeInv, LifeTypeOK
<1>2. ASSUME NEW to \in {"Frozen", "Background", "Discarded", "Active"}, Transition(t, to)
      PROVE  LifeInv'
  BY <1>2, TransitionInv
<1>3. CASE KillApp(t)
  BY <1>3, TransitionInv DEF KillApp
<1>4. CASE Snapshot(t)
  BY <1>4 DEF Snapshot, LifeInv, LifeTypeOK, ShownIsUrl
<1>5. ASSUME NEW hostCloses \in BOOLEAN, Close(t, hostCloses)
      PROVE  LifeInv'
  BY <1>5 DEF Close, LifeInv, LifeTypeOK, ShownIsUrl, States
<1> QED BY <1>1, <1>2, <1>3, <1>4, <1>5 DEF TabStep

LEMMA ReloadStepInv ==
  ASSUME NEW c \in Callers, LifeInv, ReloadStep(c)
  PROVE  LifeInv'
<1>1. ASSUME NEW t \in Tabs, ReadForReload(c, t)
      PROVE  LifeInv'
  BY <1>1 DEF ReadForReload, LifeInv, LifeTypeOK, ShownIsUrl, NoReload
<1>2. ASSUME NEW o \in Outcomes, ActOnReload(c, o)
      PROVE  LifeInv'
  <2> DEFINE r == reload[c]
  <2>1. r \in [tab : Tabs, url : Page, via : {"Loading", "Restoring"}]
    BY <1>2 DEF ActOnReload, LifeInv, LifeTypeOK
  <2>2. r.tab \in Tabs /\ r.url \in Page /\ r.via \in {"Loading", "Restoring"}
    BY <2>1
  <2>3. reload' \in [Callers -> [tab : Tabs, url : Page, via : {"Loading", "Restoring"}]
                                  \cup {NoReload}]
    BY <1>2 DEF ActOnReload, LifeInv, LifeTypeOK
  <2>4. CASE Load(r.tab, r.url, r.via, o)
    <3> HIDE DEF r
    <3> QED BY <2>2, <2>3, <2>4, LoadInv
  <2>5. CASE UNCHANGED <<state, url, shown, snapshot, open>>
    BY <2>3, <2>5 DEF LifeInv, LifeTypeOK, ShownIsUrl
  <2> QED BY <1>2, <2>4, <2>5 DEF ActOnReload
<1> QED BY <1>1, <1>2 DEF ReloadStep

LEMMA RestoreStepInv == LifeInv /\ RestoreStep => LifeInv'
<1> SUFFICES ASSUME LifeInv, NEW t \in Tabs, NEW u \in Page, NEW o \in Outcomes,
                    Restore(t, u, o)
             PROVE  LifeInv'
  BY DEF RestoreStep
<1> QED BY LoadInv DEF Restore, LifeInv, LifeTypeOK

LEMMA LifeNextInv == LifeInv /\ [LifeNext]_lifeVars => LifeInv'
<1>1. LifeInv /\ UNCHANGED lifeVars => LifeInv'
  BY DEF LifeInv, LifeTypeOK, ShownIsUrl, lifeVars
<1> QED BY <1>1, TabStepInv, ReloadStepInv, RestoreStepInv DEF LifeNext

-----------------------------------------------------------------------------

\* Every step of the tabs leaves a closed tab as it is.
LEMMA ClosedStep ==
  ASSUME LifeInv, LifeNext, NEW t \in Tabs, state[t] = "Closed"
  PROVE  StaysClosed(t)
<1> USE DEF StaysClosed
<1>1. Valid["Closed"] = {} /\ t \notin open
  BY DEF Valid, States, LifeInv
<1>2. ASSUME NEW v \in Tabs, NEW u, NEW via, NEW o, Load(v, u, via, o)
      PROVE  StaysClosed(t)
  BY <1>1, <1>2 DEF Load, LifeInv, LifeTypeOK
<1>3. ASSUME NEW v \in Tabs, NEW to, Transition(v, to)
      PROVE  StaysClosed(t)
  BY <1>1, <1>3 DEF Transition, LifeInv, LifeTypeOK
<1>4. ASSUME NEW v \in Tabs, TabStep(v)
      PROVE  StaysClosed(t)
  <2>1. CASE Snapshot(v)
    BY <1>1, <2>1 DEF Snapshot
  <2>2. ASSUME NEW b \in BOOLEAN, Close(v, b)
        PROVE  StaysClosed(t)
    BY <1>1, <2>2 DEF Close, LifeInv, LifeTypeOK
  <2> QED BY <1>2, <1>3, <1>4, <2>1, <2>2 DEF TabStep, Navigate, KillApp
<1>5. ASSUME NEW c \in Callers, ReloadStep(c)
      PROVE  StaysClosed(t)
  <2>1. ASSUME NEW v \in Tabs, ReadForReload(c, v)
        PROVE  StaysClosed(t)
    BY <1>1, <2>1 DEF ReadForReload
  <2>2. ASSUME NEW o \in Outcomes, ActOnReload(c, o)
        PROVE  StaysClosed(t)
    <3>1. reload[c].tab \in Tabs
      BY <2>2 DEF ActOnReload, LifeInv, LifeTypeOK
    <3>2. \/ Load(reload[c].tab, reload[c].url, reload[c].via, o)
          \/ UNCHANGED <<state, url, shown, snapshot, open>>
      BY <2>2 DEF ActOnReload
    <3>3. CASE UNCHANGED <<state, url, shown, snapshot, open>>
      BY <1>1, <3>3
    <3> QED BY <1>2, <3>1, <3>2, <3>3
  <2> QED BY <1>5, <2>1, <2>2 DEF ReloadStep
<1> QED BY <1>2, <1>4, <1>5 DEF LifeNext, RestoreStep, Restore

\* The types of the tabs, what they show, and closed renderers.
THEOREM TabInvariant == LifeSpec => []LifeInv
  BY LifeInitInv, LifeNextInv, PTL DEF LifeSpec

-----------------------------------------------------------------------------

\* The broker's own part: a goroutine inside the callback holds the mutex,
\* and knows an address to restart from.
BrokerInv ==
  /\ LifeInv
  /\ SupInv
  /\ BrokerTypeOK

LEMMA BrokerInitInv == Init => BrokerInv
<1> SUFFICES ASSUME Init PROVE BrokerInv
  OBVIOUS
<1>1. LifeInv /\ SupInv
  BY LifeInitInv, SupInitInv DEF Init
<1>2. \A c \in Callers : /\ stage[c] = "idle" /\ last[c] = NoLast /\ holder # c
  BY SupervisorAssumption DEF Init, SupInit
<1>3. last \in [Callers -> [url : Page, at : {"none", "event", "snapshot", "restored"}]]
  BY DEF Init, NoLast, Page
<1> QED BY <1>1, <1>2, <1>3 DEF BrokerInv, BrokerTypeOK, LifeInv, SupInv, NoLast

\* Every step of the broker is a step of the tabs or leaves them alone ...
LEMMA BrokerTabs == BrokerInv /\ [Next]_vars => [LifeNext]_lifeVars
<1> SUFFICES ASSUME BrokerInv, [Next]_vars PROVE [LifeNext]_lifeVars
  OBVIOUS
<1>1. CASE UNCHANGED vars
  BY <1>1 DEF vars
<1>2. ASSUME NEW t \in Tabs, Use(t) \/ Forgive(t)
      PROVE  [LifeNext]_lifeVars
  BY <1>2 DEF Use, Forgive, LifeNext
<1>3. ASSUME NEW c \in Callers, Reload(c)
      PROVE  [LifeNext]_lifeVars
  BY <1>3 DEF Reload, LifeNext
<1>4. ASSUME NEW c \in Callers, NEW o \in Outcomes, RestoreTab(c, o)
      PROVE  [LifeNext]_lifeVars
  <2>1. crash[c] \in Tabs /\ last[c].url \in Page
    BY <1>4 DEF RestoreTab, BrokerInv, BrokerTypeOK, SupTypeOK
  <2> QED BY <1>4, <2>1 DEF RestoreTab, LifeNext, RestoreStep
<1>5. ASSUME NEW c \in Callers, Judge(c) \/ FindSnapshot(c) \/ FinishCrash(c)
      PROVE  [LifeNext]_lifeVars
  BY <1>5 DEF Judge, FindSnapshot, FinishCrash
<1>6. ASSUME NEW c \in Callers, NEW t \in Tabs, ReportCrash(c, t)
      PROVE  [LifeNext]_lifeVars
  BY <1>6 DEF ReportCrash
<1>7. CASE Clock
  BY <1>7 DEF Clock
<1> QED BY <1>1, <1>2, <1>3, <1>4, <1>5, <1>6, <1>7 DEF Next, Handle

\* ... and a step of the supervisor or leaves it alone.
LEMMA BrokerSupervisor == [Next]_vars => [SupNext]_supVars
<1> SUFFICES ASSUME [Next]_vars PROVE [SupNext]_supVars
  OBVIOUS
<1>1. CASE UNCHANGED vars
  BY <1>1 DEF vars
<1>2. ASSUME NEW t \in Tabs, Use(t) \/ Forgive(t)
      PROVE  [SupNext]_supVars
  BY <1>2 DEF Use, Forgive, SupNext
<1>3. ASSUME NEW c \in Callers, Reload(c) \/ Handle(c)
      PROVE  [SupNext]_supVars
  BY <1>3 DEF Reload, Handle, Judge, FindSnapshot, RestoreTab, FinishCrash, SupNext
<1>4. ASSUME NEW c \in Callers, NEW t \in Tabs, ReportCrash(c, t)
      PROVE  [SupNext]_supVars
  BY <1>4 DEF ReportCrash, SupNext
<1>5. CASE Clock
  BY <1>5 DEF Clock, SupNext
<1> QED BY <1>1, <1>2, <1>3, <1>4, <1>5 DEF Next

\* What the broker adds to the types of its parts.
CallbackOK ==
  /\ last \in [Callers -> [url : Page, at : {"none", "event", "snapshot", "restored"}]]
  /\ \A c \in Callers :
       /\ stage[c] = "restarting" <=> holder = c
       /\ stage[c] = "idle" <=> last[c].at = "none"

LEMMA CallbackStep == BrokerInv /\ [Next]_vars => CallbackOK'
<1> SUFFICES ASSUME BrokerInv, [Next]_vars PROVE CallbackOK'
  OBVIOUS
<1> USE DEF CallbackOK
<1>0. CallbackOK /\ LifeTypeOK /\ SupTypeOK /\ NoCaller \notin Callers
  BY SupervisorAssumption DEF BrokerInv, BrokerTypeOK
<1>1. CASE UNCHANGED vars
  BY <1>0, <1>1 DEF vars, supVars
<1>2. ASSUME NEW t \in Tabs, Use(t) \/ Forgive(t)
      PROVE  CallbackOK'
  BY <1>0, <1>2 DEF Use, Forgive, ResetTab, supVars
<1>3. ASSUME NEW c \in Callers, Reload(c)
      PROVE  CallbackOK'
  BY <1>0, <1>3 DEF Reload, supVars
<1>4. ASSUME NEW c \in Callers, NEW o \in Outcomes, RestoreTab(c, o)
      PROVE  CallbackOK'
  BY <1>0, <1>4 DEF RestoreTab, supVars, SupTypeOK
<1>5. ASSUME NEW c \in Callers, Judge(c)
      PROVE  CallbackOK'
  <2>1. CASE Charge(c)
    <3>1. last' = last
      BY <1>5, <2>1 DEF Judge
    <3>2. stage' = [stage EXCEPT ![c] = "restarting"] /\ holder' = c
          /\ stage[c] = "waiting" /\ holder = NoCaller
      BY <2>1 DEF Charge, Decides
    <3> QED BY <1>0, <3>1, <3>2 DEF SupTypeOK
  <2>2. CASE ~Charge(c)
    <3>1. last' = [last EXCEPT ![c] = NoLast]
      BY <1>5, <2>2 DEF Judge
    <3>2. stage' = [stage EXCEPT ![c] = "idle"] /\ holder' = holder
          /\ stage[c] = "waiting"
      BY <1>5, <2>2 DEF Judge, Decide, Refuse, GiveUp, Ends, Decides
    <3> QED BY <1>0, <3>1, <3>2 DEF SupTypeOK, NoLast, Page
  <2> QED BY <2>1, <2>2
<1>6. ASSUME NEW c \in Callers, FindSnapshot(c)
      PROVE  CallbackOK'
  <2>1. crash[c] \in Tabs
    BY <1>0, <1>6 DEF FindSnapshot, SupTypeOK
  <2>2. snapshot[crash[c]] = NoSnapshot \/ snapshot[crash[c]] \in Page
    BY <1>0, <2>1 DEF LifeTypeOK
  <2>3. \E u \in Page : last' = [last EXCEPT ![c] = [url |-> u, at |-> "snapshot"]]
    BY <1>0, <1>6, <2>2 DEF FindSnapshot
  <2> QED BY <1>0, <1>6, <2>3 DEF FindSnapshot, supVars, SupTypeOK
<1>7. ASSUME NEW c \in Callers, FinishCrash(c)
      PROVE  CallbackOK'
  BY <1>0, <1>7 DEF FinishCrash, Return, Ends, SupTypeOK, NoLast, Page
<1>8. ASSUME NEW c \in Callers, NEW t \in Tabs, ReportCrash(c, t)
      PROVE  CallbackOK'
  <2>1. url[t] \in Page
    BY <1>0 DEF LifeTypeOK
  <2> QED BY <1>0, <1>8, <2>1 DEF ReportCrash, Report, SupTypeOK
<1>9. CASE Clock
  BY <1>0, <1>9 DEF Clock, Tick
<1> QED BY <1>1, <1>2, <1>3, <1>4, <1>5, <1>6, <1>7, <1>8, <1>9 DEF Next, Handle

\* Everything the broker keeps: the invariants of its parts, and their bond.
THEOREM BrokerInvariant == Spec => []BrokerInv
<1>1. BrokerInv /\ [Next]_vars => BrokerInv'
  <2> SUFFICES ASSUME BrokerInv, [Next]_vars PROVE BrokerInv'
    OBVIOUS
  <2>1. LifeInv'
    BY BrokerTabs, LifeNextInv DEF BrokerInv
  <2>2. SupInv'
    BY BrokerSupervisor, SupNextInv DEF BrokerInv
  <2>3. CallbackOK'
    BY CallbackStep
  <2> QED BY <2>1, <2>2, <2>3 DEF BrokerInv, BrokerTypeOK, CallbackOK, LifeInv, SupInv
<1> QED BY <1>1, BrokerInitInv, PTL DEF Spec

\* cmd/broker/main.go: every variable of the broker keeps its type, and the
\* supervisor's mutex is held by exactly the goroutine that is restarting.
THEOREM BrokerTypes == Spec => []BrokerTypeOK
  BY BrokerInvariant, PTL DEF BrokerInv

\* What the broker does to tabs, the tabs allow: its behaviours are
\* behaviours of tab.go.
THEOREM BrokerImplementsTabs == Spec => LifeSpec
<1>1. Init => LifeInit
  BY DEF Init
<1> QED BY <1>1, BrokerTabs, BrokerInvariant, PTL DEF Spec, LifeSpec

\* What it does with crashes is what session.go does.
THEOREM BrokerImplementsSupervisor == Spec => SupSpec
<1>1. Init => SupInit
  BY DEF Init
<1> QED BY <1>1, BrokerSupervisor, PTL DEF Spec, SupSpec

\* tab.go: with restarts and reloads by any number of goroutines, a loaded
\* tab shows the page whose address it has.
THEOREM ShownPageIsUrl == Spec => []ShownIsUrl
  BY BrokerInvariant, PTL DEF BrokerInv, LifeInv

\* tab.go on TabClosed: terminal, also for a reload or a crash report that
\* began before the tab was closed.
THEOREM ClosedIsTerminal == Spec => ClosedStaysClosed
<1>1. LifeInv /\ [LifeNext]_lifeVars =>
        [\A t \in Tabs : state[t] = "Closed" => StaysClosed(t)]_lifeVars
  BY ClosedStep
<1>2. LifeSpec => ClosedStaysClosed
  BY <1>1, TabInvariant, PTL DEF LifeSpec, ClosedStaysClosed
<1> QED BY <1>2, BrokerImplementsTabs

\* session.go: the restart budget holds of the broker as a whole.
THEOREM BrokerKeepsBudget == Spec => []RestartBudget /\ GivesUpOnlyWhenSpent
  BY BrokerImplementsSupervisor, BudgetIsKept, GivenUpWhenSpent

=============================================================================
