----------------------------- MODULE Supervisor -----------------------------
(***************************************************************************)
(* The crash supervisor, session/session.go: how often a crashed tab is    *)
(* started again.  Goroutines report crashes; HandleCrash runs under the   *)
(* supervisor's mutex, the restart callback included, which is left open   *)
(* here (Broker fills it in).                                              *)
(***************************************************************************)
EXTENDS GoShell, Integers, FiniteSets

CONSTANTS
  NoCaller,
  MaxRestarts,  \* CrashPolicy.MaxRestarts
  Window,       \* CrashPolicy.RestartWindow in ticks; 0 never expires
  MaxClock      \* bound: ticks of the clock

ASSUME SupervisorAssumption ==
  /\ NoCaller \notin Callers
  /\ MaxRestarts \in Nat
  /\ Window \in Nat
  /\ MaxClock \in Nat

\* A restart in the history of a tab.  The code keeps the time alone, in a
\* slice; the number tells restarts at the same time apart.
Restart == [n : Nat \ {0}, at : 0 .. MaxClock]

VARIABLES
  now,       \* the clock
  attempts,  \* tab -> restarts remembered
  holder,    \* the goroutine that holds the mutex, or NoCaller
  stage,     \* goroutine -> where it is in HandleCrash
  crash,     \* goroutine -> tab of the CrashEvent it reports, or NoTab
  started    \* history: tab -> all restarts since the last ResetTab

supVars == <<now, attempts, holder, stage, crash, started>>

SupInit ==
  /\ now = 0
  /\ attempts = [t \in Tabs |-> {}]
  /\ holder = NoCaller
  /\ stage = [c \in Callers |-> "idle"]
  /\ crash = [c \in Callers |-> NoTab]
  /\ started = [t \in Tabs |-> {}]

-----------------------------------------------------------------------------

Tick ==
  /\ now < MaxClock
  /\ now' = now + 1
  /\ UNCHANGED <<attempts, holder, stage, crash, started>>

\* HandleCrash is called and waits for the mutex.
Report(c, t) ==
  /\ stage[c] = "idle"
  /\ stage' = [stage EXCEPT ![c] = "waiting"]
  /\ crash' = [crash EXCEPT ![c] = t]
  /\ UNCHANGED <<now, attempts, holder, started>>

\* HandleCrash returns.
Ends(c) ==
  /\ stage' = [stage EXCEPT ![c] = "idle"]
  /\ crash' = [crash EXCEPT ![c] = NoTab]

\* HandleCrash has the mutex.
Decides(c) == holder = NoCaller /\ stage[c] = "waiting"

\* Bug: a restart exactly as old as the window still counts.
Trimmed_Bug(history) ==
  {r \in history : Window > 0 => r.at >= now - Window}

\* The history within the window; all of it when the window is zero.
Trimmed(history) ==
  {r \in history : Window > 0 => r.at > now - Window}

\* The event says it is not recoverable, which is the reporter's choice, or
\* the policy allows no restarts: an error and nothing more.
Refuse(c) ==
  /\ Decides(c)
  /\ Ends(c)
  /\ UNCHANGED <<now, attempts, holder, started>>

\* The budget is spent: the trimmed history is stored and the tab given up.
GiveUp(c) ==
  /\ Decides(c)
  /\ MaxRestarts > 0
  /\ LET kept == Trimmed(attempts[crash[c]]) IN
       /\ Cardinality(kept) >= MaxRestarts
       /\ attempts' = [attempts EXCEPT ![crash[c]] = kept]
  /\ Ends(c)
  /\ UNCHANGED <<now, holder, started>>

\* Bug: the attempt replaces the history instead of joining it.
Charge_Bug(c) ==
  /\ Decides(c)
  /\ MaxRestarts > 0
  /\ LET t == crash[c]
         kept == Trimmed(attempts[t])
         new == [n |-> Cardinality(started[t]) + 1, at |-> now]
     IN /\ Cardinality(kept) < MaxRestarts
        /\ attempts' = [attempts EXCEPT ![t] = {new}]
        /\ started' = [started EXCEPT ![t] = @ \cup {new}]
  /\ holder' = c
  /\ stage' = [stage EXCEPT ![c] = "restarting"]
  /\ UNCHANGED <<now, crash>>

\* The attempt is recorded, then the callback runs, mutex held.
Charge(c) ==
  /\ Decides(c)
  /\ MaxRestarts > 0
  /\ LET t == crash[c]
         kept == Trimmed(attempts[t])
         new == [n |-> Cardinality(started[t]) + 1, at |-> now]
     IN /\ Cardinality(kept) < MaxRestarts
        /\ attempts' = [attempts EXCEPT ![t] = kept \cup {new}]
        /\ started' = [started EXCEPT ![t] = @ \cup {new}]
  /\ holder' = c
  /\ stage' = [stage EXCEPT ![c] = "restarting"]
  /\ UNCHANGED <<now, crash>>

\* Bug: the mutex is let go of only when the callback succeeded.
Return_Bug(c) ==
  /\ stage[c] = "restarting"
  /\ holder' \in {holder, NoCaller}
  /\ Ends(c)
  /\ UNCHANGED <<now, attempts, started>>

\* The callback returned, with or without an error, and so does HandleCrash.
Return(c) ==
  /\ stage[c] = "restarting"
  /\ holder' = NoCaller
  /\ Ends(c)
  /\ UNCHANGED <<now, attempts, started>>

ResetTab(t) ==
  /\ holder = NoCaller
  /\ attempts' = [attempts EXCEPT ![t] = {}]
  /\ started' = [started EXCEPT ![t] = {}]
  /\ UNCHANGED <<now, holder, stage, crash>>

Decide(c) == Refuse(c) \/ GiveUp(c) \/ Charge(c)

SupNext ==
  \/ Tick
  \/ \E c \in Callers : Decide(c) \/ Return(c)
  \/ \E c \in Callers, t \in Tabs : Report(c, t)
  \/ \E t \in Tabs : ResetTab(t)

SupSpec == SupInit /\ [][SupNext]_supVars

-----------------------------------------------------------------------------

SupTypeOK ==
  /\ now \in 0 .. MaxClock
  /\ attempts \in [Tabs -> SUBSET Restart]
  /\ holder \in Callers \cup {NoCaller}
  /\ stage \in [Callers -> {"idle", "waiting", "restarting"}]
  /\ crash \in [Callers -> Tabs \cup {NoTab}]
  /\ \A c \in Callers : stage[c] = "idle" <=> crash[c] = NoTab
  /\ started \in [Tabs -> SUBSET Restart]

\* The restarts in S within a window that begins with r.
Burst(S, r) == {s \in S : s.at >= r.at /\ (Window > 0 => s.at < r.at + Window)}

\* session.go: at most MaxRestarts restarts within RestartWindow.  No window
\* of that length, wherever it begins, holds more of them.
RestartBudget ==
  \A t \in Tabs : \A r \in started[t] :
    Cardinality(Burst(started[t], r)) <= MaxRestarts

\* A tab is given up only if all its restarts were spent in the window that
\* ends now; restarts before it, or of other tabs, do not count.
GivesUpOnlyWhenSpent ==
  [][\A c \in Callers : GiveUp(c) =>
       Cardinality({s \in started[crash[c]] : Window > 0 => s.at + Window > now})
         >= MaxRestarts]_supVars

=============================================================================
