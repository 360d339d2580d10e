----------------------------- MODULE WebKitHost -----------------------------
(***************************************************************************)
(* host/host.go on top of WebKitEngine, as cmd/run puts them together: a   *)
(* goroutine mounts the app, which renders, and then pumps the engine's    *)
(* events into the app, which renders again.  Every rendering submits a    *)
(* batch and waits for its answer, so that the reader of Events() is       *)
(* itself a caller of the engine.                                          *)
(*                                                                         *)
(* The pump is a goroutine of its own in the code; here it goes by the     *)
(* name of the goroutine that called Mount.                                *)
(***************************************************************************)
EXTENDS WebKitEngine

VARIABLES
  role,    \* goroutine -> what it does for the host
  appRev   \* currentRevision of the app (sdk/app/app.go)

hostVars == <<webkitVars, role, appRev>>

HostInit ==
  /\ WebKitInit
  /\ role = [g \in Callers |-> "none"]
  /\ appRev = 0

Becomes(g, r) == role' = [role EXCEPT ![g] = r]

\* Mount resolves the root node.
Mount(g) ==
  /\ role[g] = "none"
  /\ Call(g, Promise!RootCall)
  /\ Becomes(g, "resolving")
  /\ UNCHANGED appRev

\* The pump takes an event and calls the app with it.
PumpEvent(g) ==
  /\ role[g] = "pumping"
  /\ Read
  /\ Becomes(g, "handling")
  /\ UNCHANGED appRev

\* rerender: one batch, built on the revision the app believes in.
Render(g) ==
  /\ role[g] \in {"mounting", "handling"}
  /\ appRev < MaxRev
  /\ Call(g, [op |-> "apply", base |-> appRev, good |-> TRUE])
  /\ Becomes(g, "submitting")
  /\ UNCHANGED appRev

\* Bound: after MaxRev renderings the app lets events pass.
RenderedOut(g) ==
  /\ role[g] \in {"mounting", "handling"}
  /\ appRev = MaxRev
  /\ Becomes(g, "pumping")
  /\ UNCHANGED <<webkitVars, appRev>>

\* A call of the engine returns to Mount, or through submit_batch to the app,
\* which takes what it gets for its revision: 0 if the batch was refused.
HostReturn(g) ==
  /\ Return(g)
  /\ IF role[g] = "resolving"
     THEN /\ Becomes(g, IF answer[g].status = "ok" THEN "mounting" ELSE "none")
          /\ UNCHANGED appRev
     ELSE /\ Becomes(g, "pumping")
          /\ appRev' = answer[g].v

EngineStep(g) ==
  /\ Reject(g) \/ Send(g) \/ Push(g) \/ CutShort(g) \/ TakeAck(g) \/ TakeMountAck(g)
  /\ UNCHANGED <<role, appRev>>

Loops ==
  /\ \/ RecvTake \/ RecvRoute \/ RecvStop
     \/ Inject \/ RelayTake \/ RelayPush \/ RelayStop
     \/ CloseDone \/ CloseTransport
  /\ UNCHANGED <<role, appRev>>

HostStep(g) == PumpEvent(g) \/ Render(g) \/ RenderedOut(g) \/ HostReturn(g) \/ EngineStep(g)

HostNext ==
  \/ \E g \in Callers : Mount(g) \/ HostStep(g)
  \/ Loops

HostSpec ==
  /\ HostInit /\ [][HostNext]_hostVars
  /\ WorkFairness
  /\ \A g \in Callers : SF_hostVars(HostStep(g))

=============================================================================
