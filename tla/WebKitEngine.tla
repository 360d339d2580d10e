---------------------------- MODULE WebKitEngine ----------------------------
(***************************************************************************)
(* webkitengine/engine.go over its loopback transport and the TestDOM.     *)
(* Goroutines call Apply and RootNode one at a time, under callMu; a call  *)
(* sends a frame, and the answer comes back through the transport's one    *)
(* channel, in line with the input events, to the receive loop, which      *)
(* hands it on.  Every channel is bounded and every send may block.        *)
(*                                                                         *)
(* LoadHTML does nothing here but take and leave callMu.  A batch whose    *)
(* header is short is refused before anything happens.                     *)
(***************************************************************************)
EXTENDS Integers, Sequences

CONSTANTS
  Callers,    \* goroutines
  NoCaller,
  MaxRev,     \* bound: batches are built on revisions below it
  MaxEvents,  \* bound: input events injected
  RecvBuf,    \* capacity of loopbackTransport.recvCh
  EventBuf,   \* capacity of Engine.events
  DomBuf      \* capacity of TestDOM.events

ASSUME WebKitAssumption ==
  /\ NoCaller \notin Callers
  /\ MaxRev \in Nat \ {0}
  /\ MaxEvents \in Nat
  /\ RecvBuf \in Nat \ {0}
  /\ EventBuf \in Nat \ {0}
  /\ DomBuf \in Nat \ {0}

VARIABLES
  domRev,    \* TestDOM.rev
  torn,      \* history: a batch that was refused has committed
  rev,       \* Engine.rev
  lock,      \* the goroutine that holds callMu, or NoCaller
  stage,     \* goroutine -> where it is in Apply or RootNode
  call,      \* goroutine -> its call, or NoCall
  answer,    \* goroutine -> what the DOM made of its call, then what it returns
  recvCh,    \* frames from the web process
  hand,      \* the frame the receive loop holds, or NoFrame
  receiving, \* the receive loop runs
  ackCh,     \* to Apply
  mountCh,   \* to RootNode
  events,    \* to the reader of Events()
  domEvents, \* TestDOM.events
  relay,     \* the event forwardEvents holds, or NoFrame
  relaying,  \* forwardEvents runs
  done,      \* Engine.done is closed
  trClosed,  \* the transport is closed
  injected,  \* events injected so far
  seen       \* history: events read from Events()

doms == <<domRev, torn>>
callers == <<rev, lock, stage, call, answer>>
loop == <<hand, receiving>>
answers == <<ackCh, mountCh>>
forwarder == <<domEvents, relay, relaying>>
closing == <<done, trClosed>>
input == <<injected, seen>>
webkitVars == <<doms, callers, loop, answers, recvCh, events, forwarder, closing, input>>

Promise == INSTANCE Engine WITH open <- ~done

Frame(k, v) == [kind |-> k, v |-> v]
NoFrame == Frame("none", 0)
AckFrames == [kind : {"domAck"}, v : 0 .. MaxRev]
MountFrames == [kind : {"mountAck"}, v : {Promise!RootId}]
EventFrames == [kind : {"event"}, v : 1 .. MaxEvents]
Frames == AckFrames \cup MountFrames \cup EventFrames

WebKitInit ==
  /\ domRev = 0 /\ torn = FALSE /\ rev = 0
  /\ lock = NoCaller
  /\ stage = [g \in Callers |-> "idle"]
  /\ call = [g \in Callers |-> Promise!NoCall]
  /\ answer = [g \in Callers |-> Promise!NoAnswer]
  /\ recvCh = <<>> /\ ackCh = <<>> /\ mountCh = <<>>
  /\ events = <<>> /\ domEvents = <<>>
  /\ hand = NoFrame /\ relay = NoFrame
  /\ receiving = TRUE /\ relaying = TRUE
  /\ done = FALSE /\ trClosed = FALSE
  /\ injected = 0 /\ seen = <<>>

-----------------------------------------------------------------------------
(* A call of Apply or RootNode *)

Call(g, c) ==
  /\ stage[g] = "idle"
  /\ stage' = [stage EXCEPT ![g] = "locking"]
  /\ call' = [call EXCEPT ![g] = c]
  /\ UNCHANGED <<doms, rev, lock, answer, loop, answers, recvCh, events, forwarder, closing, input>>

Locks(g) ==
  /\ stage[g] = "locking"
  /\ lock = NoCaller
  /\ lock' = g

Fits(c) == c.op = "apply" => c.base = rev

\* Apply, the local check: the batch was not built on the engine's revision.
Reject(g) ==
  /\ Locks(g)
  /\ ~Fits(call[g])
  /\ answer' = [answer EXCEPT ![g] = Promise!Stale]
  /\ stage' = [stage EXCEPT ![g] = "returning"]
  /\ UNCHANGED <<doms, rev, call, loop, answers, recvCh, events, forwarder, closing, input>>

\* TestDOM.RootNode and TestDOM.Apply: the answer a and what becomes of the
\* revision.  Records are applied one by one, so a batch that runs into a bad
\* record may have committed already.
DomAnswers(c, a) ==
  \/ /\ c.op = "root"
     /\ a = Promise!Ok(Promise!RootId)
     /\ UNCHANGED doms
  \/ /\ c.op = "apply" /\ c.base # domRev
     /\ a = Promise!Stale
     /\ UNCHANGED doms
  \/ /\ c.op = "apply" /\ c.base = domRev /\ c.good
     /\ a = Promise!Ok(domRev + 1)
     /\ domRev' = domRev + 1
     /\ UNCHANGED torn
  \/ /\ c.op = "apply" /\ c.base = domRev /\ ~c.good
     /\ a = Promise!Stale
     /\ domRev' \in {domRev, domRev + 1}
     /\ torn' = (torn \/ domRev' # domRev)

\* The loopback transport carries the call out while it sends it.
Send(g) ==
  /\ Locks(g)
  /\ Fits(call[g])
  /\ \E a \in Promise!Answers :
       /\ DomAnswers(call[g], a)
       /\ answer' = [answer EXCEPT ![g] = a]
  /\ stage' = [stage EXCEPT ![g] = "pushing"]
  /\ UNCHANGED <<rev, call, loop, answers, recvCh, events, forwarder, closing, input>>

\* The answer as a frame: zero stands for every error.
AnswerFrame(g) ==
  Frame(IF call[g].op = "root" THEN "mountAck" ELSE "domAck",
        IF answer[g].status = "ok" THEN answer[g].v ELSE 0)

Push(g) ==
  /\ stage[g] = "pushing"
  /\ Len(recvCh) < RecvBuf
  /\ recvCh' = Append(recvCh, AnswerFrame(g))
  /\ stage' = [stage EXCEPT ![g] = "waiting"]
  /\ UNCHANGED <<doms, rev, lock, call, answer, loop, answers, events, forwarder, closing, input>>

\* Bug: cut short, the call returns with callMu still locked.
CutShort_Bug(g) ==
  /\ \/ stage[g] = "pushing" /\ trClosed
     \/ stage[g] = "waiting" /\ done
  /\ answer' = [answer EXCEPT ![g] = Promise!NoAnswer]
  /\ call' = [call EXCEPT ![g] = Promise!NoCall]
  /\ stage' = [stage EXCEPT ![g] = "idle"]
  /\ UNCHANGED <<doms, rev, lock, loop, answers, recvCh, events, forwarder, closing, input>>

\* push or the wait is cut short by Close.
CutShort(g) ==
  /\ \/ stage[g] = "pushing" /\ trClosed
     \/ stage[g] = "waiting" /\ done
  /\ answer' = [answer EXCEPT ![g] = Promise!Closed]
  /\ stage' = [stage EXCEPT ![g] = "returning"]
  /\ UNCHANGED <<doms, rev, lock, call, loop, answers, recvCh, events, forwarder, closing, input>>

\* Bug: zero is taken for a revision.
Returns_Bug(g, v) ==
  /\ answer' = [answer EXCEPT ![g] = [status |-> "ok", v |-> v]]
  /\ stage' = [stage EXCEPT ![g] = "returning"]

Returns(g, v) ==
  /\ answer' = [answer EXCEPT ![g] = IF v = 0 THEN Promise!Stale ELSE Promise!Ok(v)]
  /\ stage' = [stage EXCEPT ![g] = "returning"]

\* Bug: the answer is looked at but left in the channel.
TakeAck_Bug(g) ==
  /\ stage[g] = "waiting" /\ call[g].op = "apply"
  /\ ackCh # <<>>
  /\ Returns(g, Head(ackCh).v)
  /\ rev' = IF Head(ackCh).v = 0 THEN rev ELSE Head(ackCh).v
  /\ UNCHANGED <<doms, lock, call, answers, loop, recvCh, events, forwarder, closing, input>>

\* Bug: the revision is returned but not adopted.
TakeAck_Forgets(g) ==
  /\ stage[g] = "waiting" /\ call[g].op = "apply"
  /\ ackCh # <<>>
  /\ Returns(g, Head(ackCh).v)
  /\ ackCh' = Tail(ackCh)
  /\ UNCHANGED <<doms, rev, lock, call, mountCh, loop, recvCh, events, forwarder, closing, input>>

\* Bug: a batch the agent refused is sent again.
TakeAck_Retries(g) ==
  /\ stage[g] = "waiting" /\ call[g].op = "apply"
  /\ ackCh # <<>>
  /\ IF Head(ackCh).v = 0
     THEN /\ stage' = [stage EXCEPT ![g] = "locking"]
          /\ answer' = [answer EXCEPT ![g] = Promise!NoAnswer]
          /\ lock' = NoCaller
          /\ UNCHANGED rev
     ELSE /\ Returns(g, Head(ackCh).v)
          /\ rev' = Head(ackCh).v
          /\ UNCHANGED lock
  /\ ackCh' = Tail(ackCh)
  /\ UNCHANGED <<doms, call, mountCh, loop, recvCh, events, forwarder, closing, input>>

\* Apply takes the next DOMAck, whosever it is, and adopts its revision.
TakeAck(g) ==
  /\ stage[g] = "waiting" /\ call[g].op = "apply"
  /\ ackCh # <<>>
  /\ Returns(g, Head(ackCh).v)
  /\ rev' = IF Head(ackCh).v = 0 THEN rev ELSE Head(ackCh).v
  /\ ackCh' = Tail(ackCh)
  /\ UNCHANGED <<doms, lock, call, mountCh, loop, recvCh, events, forwarder, closing, input>>

TakeMountAck(g) ==
  /\ stage[g] = "waiting" /\ call[g].op = "root"
  /\ mountCh # <<>>
  /\ Returns(g, Head(mountCh).v)
  /\ mountCh' = Tail(mountCh)
  /\ UNCHANGED <<doms, rev, lock, call, ackCh, loop, recvCh, events, forwarder, closing, input>>

Return(g) ==
  /\ stage[g] = "returning"
  /\ lock' = NoCaller
  /\ stage' = [stage EXCEPT ![g] = "idle"]
  /\ call' = [call EXCEPT ![g] = Promise!NoCall]
  /\ answer' = [answer EXCEPT ![g] = Promise!NoAnswer]
  /\ UNCHANGED <<doms, rev, loop, answers, recvCh, events, forwarder, closing, input>>

CallerStep(g) ==
  \/ Reject(g) \/ Send(g) \/ Push(g) \/ CutShort(g)
  \/ TakeAck(g) \/ TakeMountAck(g) \/ Return(g)

-----------------------------------------------------------------------------
(* recvLoop *)

RecvTake ==
  /\ receiving /\ hand = NoFrame
  /\ recvCh # <<>>
  /\ hand' = Head(recvCh)
  /\ recvCh' = Tail(recvCh)
  /\ UNCHANGED <<doms, callers, receiving, answers, events, forwarder, closing, input>>

\* Bug: an event that finds its channel full is dropped.
RecvRoute_Bug ==
  /\ hand' = NoFrame
  /\ \/ /\ hand.kind = "domAck" /\ Len(ackCh) < 1
        /\ ackCh' = Append(ackCh, hand)
        /\ UNCHANGED <<mountCh, events>>
     \/ /\ hand.kind = "mountAck" /\ Len(mountCh) < 1
        /\ mountCh' = Append(mountCh, hand)
        /\ UNCHANGED <<ackCh, events>>
     \/ /\ hand.kind = "event"
        /\ events' = IF Len(events) < EventBuf THEN Append(events, hand.v) ELSE events
        /\ UNCHANGED answers
  /\ UNCHANGED <<doms, callers, receiving, recvCh, forwarder, closing, input>>

\* The frame goes to the channel of its kind, and waits while that is full.
RecvRoute ==
  /\ hand' = NoFrame
  /\ \/ /\ hand.kind = "domAck" /\ Len(ackCh) < 1
        /\ ackCh' = Append(ackCh, hand)
        /\ UNCHANGED <<mountCh, events>>
     \/ /\ hand.kind = "mountAck" /\ Len(mountCh) < 1
        /\ mountCh' = Append(mountCh, hand)
        /\ UNCHANGED <<ackCh, events>>
     \/ /\ hand.kind = "event" /\ Len(events) < EventBuf
        /\ events' = Append(events, hand.v)
        /\ UNCHANGED answers
  /\ UNCHANGED <<doms, callers, receiving, recvCh, forwarder, closing, input>>

\* Bug: a send is not given up when the engine is closed.
RecvStop_Bug ==
  /\ receiving
  /\ hand = NoFrame /\ trClosed
  /\ receiving' = FALSE
  /\ hand' = NoFrame
  /\ UNCHANGED <<doms, callers, recvCh, answers, events, forwarder, closing, input>>

\* Recv fails on a closed transport; a send is given up once done is closed.
RecvStop ==
  /\ receiving
  /\ IF hand = NoFrame THEN trClosed ELSE done
  /\ receiving' = FALSE
  /\ hand' = NoFrame
  /\ UNCHANGED <<doms, callers, recvCh, answers, events, forwarder, closing, input>>

-----------------------------------------------------------------------------
(* TestDOM.InjectEvent, forwardEvents, and the reader of Events() *)

Inject ==
  /\ injected < MaxEvents
  /\ Len(domEvents) < DomBuf
  /\ injected' = injected + 1
  /\ domEvents' = Append(domEvents, injected + 1)
  /\ UNCHANGED <<doms, callers, recvCh, loop, answers, events, relay, relaying, closing, seen>>

RelayTake ==
  /\ relaying /\ relay = NoFrame
  /\ domEvents # <<>>
  /\ relay' = Frame("event", Head(domEvents))
  /\ domEvents' = Tail(domEvents)
  /\ UNCHANGED <<doms, callers, recvCh, loop, answers, events, relaying, closing, input>>

RelayPush ==
  /\ relay # NoFrame
  /\ Len(recvCh) < RecvBuf
  /\ recvCh' = Append(recvCh, relay)
  /\ relay' = NoFrame
  /\ UNCHANGED <<doms, callers, loop, answers, events, domEvents, relaying, closing, input>>

RelayStop ==
  /\ relaying /\ trClosed
  /\ relaying' = FALSE
  /\ relay' = NoFrame
  /\ UNCHANGED <<doms, callers, recvCh, loop, answers, events, domEvents, closing, input>>

Read ==
  /\ events # <<>>
  /\ seen' = Append(seen, Head(events))
  /\ events' = Tail(events)
  /\ UNCHANGED <<doms, callers, recvCh, loop, answers, forwarder, closing, injected>>

-----------------------------------------------------------------------------
(* Close: the engine's done first, then the transport *)

CloseDone ==
  /\ ~done
  /\ done' = TRUE
  /\ UNCHANGED <<doms, callers, recvCh, loop, answers, events, forwarder, trClosed, input>>

CloseTransport ==
  /\ done /\ ~trClosed
  /\ trClosed' = TRUE
  /\ UNCHANGED <<doms, callers, recvCh, loop, answers, events, forwarder, done, input>>

-----------------------------------------------------------------------------

\* Everything but the reader.
Work ==
  \/ \E g \in Callers, c \in Promise!Calls : Call(g, c)
  \/ \E g \in Callers : CallerStep(g)
  \/ RecvTake \/ RecvRoute \/ RecvStop
  \/ Inject \/ RelayTake \/ RelayPush \/ RelayStop
  \/ CloseDone \/ CloseTransport

WebKitNext == Work \/ Read

\* The mutex and the channels serve waiters in turn, and a select that keeps
\* finding a closed channel ready takes it in the end.
WorkFairness ==
  /\ \A g \in Callers : SF_webkitVars(CallerStep(g))
  /\ WF_webkitVars(RecvTake \/ RecvRoute) /\ SF_webkitVars(RecvStop)
  /\ SF_webkitVars(RelayTake \/ RelayPush) /\ SF_webkitVars(RelayStop)
  /\ WF_webkitVars(CloseTransport)

\* Somebody reads Events(), and does nothing else.
WebKitSpec ==
  WebKitInit /\ [][WebKitNext]_webkitVars /\ WorkFairness /\ WF_webkitVars(Read)

-----------------------------------------------------------------------------

\* Every variable keeps its type; the channels keep their capacities, and
\* callMu is held by whoever is past the lock.
WebKitTypeOK ==
  /\ domRev \in 0 .. MaxRev /\ rev \in 0 .. MaxRev
  /\ torn \in BOOLEAN /\ done \in BOOLEAN /\ trClosed \in BOOLEAN
  /\ receiving \in BOOLEAN /\ relaying \in BOOLEAN
  /\ lock \in Callers \cup {NoCaller}
  /\ stage \in [Callers -> {"idle", "locking", "pushing", "waiting", "returning"}]
  /\ call \in [Callers -> Promise!Calls \cup {Promise!NoCall}]
  /\ answer \in [Callers -> Promise!Answers \cup {Promise!NoAnswer}]
  /\ recvCh \in Seq(Frames) /\ Len(recvCh) <= RecvBuf
  /\ ackCh \in Seq(AckFrames) /\ Len(ackCh) <= 1
  /\ mountCh \in Seq(MountFrames) /\ Len(mountCh) <= 1
  /\ hand \in Frames \cup {NoFrame} /\ relay \in EventFrames \cup {NoFrame}
  /\ events \in Seq(1 .. MaxEvents) /\ Len(events) <= EventBuf
  /\ domEvents \in Seq(1 .. MaxEvents) /\ Len(domEvents) <= DomBuf
  /\ injected \in 0 .. MaxEvents /\ seen \in Seq(1 .. MaxEvents)
  /\ \A g \in Callers :
       lock = g <=> stage[g] \in {"pushing", "waiting", "returning"}

FramesOf(name, ch) == {<<name, i, ch[i]>> : i \in DOMAIN ch}

\* The answers under way, and where: all channels and the receive loop's hand.
InFlight ==
  {p \in FramesOf("recvCh", recvCh) \cup FramesOf("hand", <<hand>>)
          \cup FramesOf("ackCh", ackCh) \cup FramesOf("mountCh", mountCh) :
     p[3].kind \notin {"none", "event"}}

\* engine.go on the single call in flight: its answer is the only one under
\* way, and no answer is left over for the next call to find.
OneAnswerInFlight ==
  ~done =>
    /\ \A p, q \in InFlight : p = q
    /\ {p[3] : p \in InFlight} = IF \E g \in Callers : stage[g] = "waiting"
                                 THEN {AnswerFrame(lock)} ELSE {}

\* The revision the engine reports is the DOM's whenever no batch is on its
\* way, as long as no batch was refused half way through.
RevisionAgrees ==
  ~done /\ ~torn /\ (\A g \in Callers : stage[g] \in {"idle", "locking"})
    => rev = domRev

AsFrames(s) == [i \in DOMAIN s |-> Frame("event", s[i])]

\* All there is between the reader of Events() and InjectEvent.
Pipeline ==
  AsFrames(seen \o events) \o <<hand>> \o recvCh \o <<relay>> \o AsFrames(domEvents)

\* Input events come out in the order they went in, and while the engine is
\* open every one of them is somewhere on its way.
EventsInOrder ==
  LET out == seen \o events
      at == {i \in DOMAIN Pipeline : Pipeline[i].kind = "event"}
  IN /\ out = [i \in 1 .. Len(out) |-> i]
     /\ ~done => /\ {Pipeline[i].v : i \in at} = 1 .. injected
                 /\ \A i, j \in at : i < j => Pipeline[i].v < Pipeline[j].v

\* engine/engine.go: every call takes effect at one moment, and returns what
\* was decided then.
KeepsPromise == Promise!EngineSpec

\* Every call returns, also when the engine is closed under it.
CallsReturn == \A g \in Callers : stage[g] # "idle" ~> stage[g] = "idle"

\* engine.go on Close: it stops the receive loop, and the forwarder with it.
CloseStopsLoops == done ~> ~receiving /\ ~relaying

=============================================================================
