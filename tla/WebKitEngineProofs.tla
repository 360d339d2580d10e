------------------------- MODULE WebKitEngineProofs -------------------------
(***************************************************************************)
(* The WebKit bridge keeps its invariants and implements what the engine's *)
(* interface promises, for any number of goroutines, revisions and events  *)
(* and channels of any capacity.                                           *)
(***************************************************************************)
EXTENDS WebKitEngine, SequenceTheorems, TLAPS

InCall(g) == stage[g] \in {"pushing", "waiting"}

\* What the DOM may have made of a call.
Decided(c, a) ==
  IF c.op = "root" THEN a = Promise!Ok(Promise!RootId)
                   ELSE a = Promise!Stale \/ \E v \in 1 .. MaxRev : a = Promise!Ok(v)

\* A goroutine has a call while it is not idle, and an answer once it is past
\* the lock.
CallsMatchStages ==
  /\ \A g \in Callers : call[g] = Promise!NoCall <=> stage[g] = "idle"
  /\ \A g \in Callers : answer[g] = Promise!NoAnswer <=> stage[g] \in {"idle", "locking"}
  /\ \A g \in Callers : InCall(g) => Decided(call[g], answer[g])

\* Close goes one way, and what has stopped holds nothing.
LoopsHold ==
  /\ trClosed => done
  /\ hand # NoFrame => receiving
  /\ relay # NoFrame => relaying

Waiting == \E g \in Callers : stage[g] = "waiting"

IsAnswer(f) == f.kind \in {"domAck", "mountAck"}

\* The places an answer can be in, of which at most one is taken.
InStream == \E i \in DOMAIN recvCh : IsAnswer(recvCh[i])

OneAnswer ==
  /\ \A i, j \in DOMAIN recvCh : IsAnswer(recvCh[i]) /\ IsAnswer(recvCh[j]) => i = j
  /\ InStream => ~IsAnswer(hand) /\ ackCh = <<>> /\ mountCh = <<>>
  /\ IsAnswer(hand) => ackCh = <<>> /\ mountCh = <<>>
  /\ ackCh = <<>> \/ mountCh = <<>>
  /\ Waiting <=> InStream \/ IsAnswer(hand) \/ ackCh # <<>> \/ mountCh # <<>>

\* And what is there is the answer of the call in flight.
TheCallersAnswer ==
  /\ \A i \in DOMAIN recvCh : IsAnswer(recvCh[i]) => recvCh[i] = AnswerFrame(lock)
  /\ IsAnswer(hand) => hand = AnswerFrame(lock)
  /\ \A i \in DOMAIN ackCh : ackCh[i] = AnswerFrame(lock)
  /\ \A i \in DOMAIN mountCh : mountCh[i] = AnswerFrame(lock)

AnswerInv == ~done => OneAnswer /\ TheCallersAnswer

\* A batch has committed and its answer has not been read.
Ahead(g) == InCall(g) /\ call[g].op = "apply" /\ answer[g].status = "ok"

\* The engine's revision is the DOM's unless a commit is on its way to it.
RevisionInv ==
  /\ \A g \in Callers : Ahead(g) => answer[g].v = domRev
  /\ ~done /\ ~torn /\ (\A g \in Callers : ~Ahead(g)) => rev = domRev

-----------------------------------------------------------------------------

\* The last event to have left the receive loop, its hand included, and the
\* last to have reached the stream.
Out == Len(seen) + Len(events)
Handed == IF hand.kind = "event" THEN Out + 1 ELSE Out
Streamed == IF relay = NoFrame THEN injected - Len(domEvents)
                               ELSE injected - Len(domEvents) - 1

IsEvent(f) == f.kind = "event"

\* The events in the stream carry on from the one in hand without a gap.
StreamInOrder ==
  /\ \A i, j \in DOMAIN recvCh :
       IsEvent(recvCh[i]) /\ IsEvent(recvCh[j]) /\ i < j => recvCh[i].v < recvCh[j].v
  /\ \A i \in DOMAIN recvCh : IsEvent(recvCh[i]) =>
       /\ recvCh[i].v > Handed
       /\ \A n \in Handed + 1 .. recvCh[i].v - 1 :
            \E j \in DOMAIN recvCh : IsEvent(recvCh[j]) /\ recvCh[j].v = n

\* As long as the forwarder runs, they reach up to the one it holds.
StreamUpToRelay ==
  /\ Handed <= Streamed
  /\ \A i \in DOMAIN recvCh : IsEvent(recvCh[i]) => recvCh[i].v <= Streamed
  /\ Handed = Streamed \/
       \E i \in DOMAIN recvCh : IsEvent(recvCh[i]) /\ recvCh[i].v = Streamed

EventInv ==
  /\ \A i \in 1 .. Len(seen) : seen[i] = i
  /\ \A i \in 1 .. Len(events) : events[i] = Len(seen) + i
  /\ IsEvent(hand) => hand.v = Out + 1
  /\ relay # NoFrame => relay.v = Streamed + 1
  /\ \A i \in 1 .. Len(domEvents) : domEvents[i] = injected - Len(domEvents) + i
  /\ Len(domEvents) <= injected
  /\ receiving => StreamInOrder
  /\ receiving /\ relaying => StreamUpToRelay
  /\ ~done => receiving /\ relaying

WebKitInv ==
  /\ WebKitTypeOK
  /\ CallsMatchStages
  /\ LoopsHold
  /\ AnswerInv
  /\ RevisionInv
  /\ EventInv

-----------------------------------------------------------------------------

USE WebKitAssumption DEF WebKitAssumption

\* Calls: a batch or the root, told apart from none by the operation.
LEMMA CallFacts ==
  /\ Promise!NoCall \notin Promise!Calls
  /\ \A c \in Promise!Calls : c.op = "root" \/ (c.op = "apply" /\ c.base \in 0 .. MaxRev - 1)
  /\ Promise!NoCall.op = "none"
  BY DEF Promise!RootCall, Promise!NoCall, Promise!Calls, Promise!Batch

\* Answers: a revision or the root, or an error, told apart by the status.
LEMMA AnswerFacts ==
  /\ Promise!NoAnswer \notin Promise!Answers
  /\ \A a \in Promise!Answers : a.v \in 0 .. MaxRev
  /\ \A a \in Promise!Answers : a.status = "ok" => a = Promise!Ok(a.v) /\ a.v \in 1 .. MaxRev
  /\ \A v \in 1 .. MaxRev : Promise!Ok(v) \in Promise!Answers
  /\ Promise!Stale \in Promise!Answers /\ Promise!Closed \in Promise!Answers
  /\ Promise!Ok(Promise!RootId) \in Promise!Answers
<1> USE DEF Promise!NoAnswer, Promise!Answers, Promise!Ok, Promise!Stale, Promise!Closed,
            Promise!RootId
<1>1. Promise!NoAnswer \notin Promise!Answers
  OBVIOUS
<1>2. \A a \in Promise!Answers : a.v \in 0 .. MaxRev
  OBVIOUS
<1>3. \A a \in Promise!Answers : a.status = "ok" => a = Promise!Ok(a.v) /\ a.v \in 1 .. MaxRev
  OBVIOUS
<1>4. \A v \in 1 .. MaxRev : Promise!Ok(v) \in Promise!Answers
  OBVIOUS
<1>5. /\ Promise!Stale \in Promise!Answers /\ Promise!Closed \in Promise!Answers
      /\ Promise!Ok(Promise!RootId) \in Promise!Answers
  OBVIOUS
<1> QED BY <1>1, <1>2, <1>3, <1>4, <1>5

\* The answer of a call in flight is a frame of the kind its caller waits for.
LEMMA AnswerFrames ==
  ASSUME NEW g \in Callers, WebKitTypeOK, CallsMatchStages, InCall(g)
  PROVE  /\ call[g].op = "root" => AnswerFrame(g) = Frame("mountAck", Promise!RootId)
         /\ call[g].op = "apply" => AnswerFrame(g) \in AckFrames
         /\ call[g].op \in {"root", "apply"}
  BY CallFacts, AnswerFacts, SMTT(30) DEF WebKitTypeOK, CallsMatchStages, InCall, Decided, AnswerFrame, Frame, AckFrames,
     Promise!Ok, Promise!Stale, Promise!RootId

\* Frames are told apart by their kind.
LEMMA FrameFacts ==
  /\ \A f \in Frames : f.kind = "domAck" => f \in AckFrames
  /\ \A f \in Frames : f.kind = "mountAck" => f \in MountFrames
  /\ \A f \in Frames : f.kind = "event" => f \in EventFrames
  /\ \A f \in Frames : f.kind \in {"domAck", "mountAck", "event"} /\ f # NoFrame
  /\ \A f \in AckFrames : f.kind = "domAck" /\ f.v \in 0 .. MaxRev
  /\ \A f \in MountFrames : f.kind = "mountAck" /\ f.v = 1 /\ f = Frame("mountAck", 1)
  /\ \A f \in EventFrames : f.kind = "event" /\ f.v \in 1 .. MaxEvents
  /\ \A n \in 1 .. MaxEvents : Frame("event", n) \in EventFrames
  /\ NoFrame.kind = "none" /\ NoFrame \notin Frames
<1> USE DEF Frames, AckFrames, MountFrames, EventFrames, Frame, NoFrame, Promise!RootId
<1>1. \A f \in Frames : f.kind = "domAck" => f \in AckFrames
  OBVIOUS
<1>2. \A f \in Frames : f.kind = "mountAck" => f \in MountFrames
  OBVIOUS
<1>3. \A f \in Frames : f.kind = "event" => f \in EventFrames
  OBVIOUS
<1>4. \A f \in Frames : f.kind \in {"domAck", "mountAck", "event"} /\ f # NoFrame
  OBVIOUS
<1>5. \A f \in AckFrames : f.kind = "domAck" /\ f.v \in 0 .. MaxRev
  OBVIOUS
<1>6. \A f \in MountFrames : f.kind = "mountAck" /\ f.v = 1 /\ f = Frame("mountAck", 1)
  OBVIOUS
<1>7. \A f \in EventFrames : f.kind = "event" /\ f.v \in 1 .. MaxEvents
  OBVIOUS
<1>8. \A n \in 1 .. MaxEvents : Frame("event", n) \in EventFrames
  OBVIOUS
<1>9. NoFrame.kind = "none" /\ NoFrame \notin Frames
  OBVIOUS
<1> QED BY <1>1, <1>2, <1>3, <1>4, <1>5, <1>6, <1>7, <1>8, <1>9

\* Every step keeps the types.
LEMMA TypesKept ==
  ASSUME WebKitTypeOK, CallsMatchStages, [WebKitNext]_webkitVars
  PROVE  WebKitTypeOK'
<1> USE DEF WebKitTypeOK, doms, callers, loop, answers, forwarder, closing, input
<1>1. ASSUME NEW g \in Callers, NEW c \in Promise!Calls, Call(g, c) PROVE WebKitTypeOK'
  BY <1>1 DEF Call
<1>2. ASSUME NEW g \in Callers, CallerStep(g) PROVE WebKitTypeOK'
  <2>1. CASE Reject(g)
    BY <2>1, AnswerFacts DEF Reject, Locks
  <2>2. CASE Send(g)
    <3>1. call[g] \in Promise!Calls
      BY <2>2 DEF Send, Locks, CallsMatchStages
    <3>2. PICK a \in Promise!Answers : DomAnswers(call[g], a) /\ answer' = [answer EXCEPT ![g] = a]
      BY <2>2 DEF Send
    <3>3. domRev' \in 0 .. MaxRev
      BY <3>1, <3>2, CallFacts, SMTT(30) DEF DomAnswers
    <3>4. torn' \in BOOLEAN
      BY <3>2 DEF DomAnswers
    <3> QED BY <2>2, <3>2, <3>3, <3>4 DEF Send, Locks
  <2>3. CASE Push(g)
    <3>1. AnswerFrame(g) \in Frames
      <4>1. InCall(g)
        BY <2>3 DEF Push, InCall
      <4> HIDE DEF WebKitTypeOK
      <4>2. Frame("mountAck", Promise!RootId) \in Frames
        BY DEF Frames, MountFrames, Frame
      <4> QED BY <4>1, <4>2, AnswerFrames DEF Frames
    <3> QED BY <2>3, <3>1 DEF Push
  <2>4. CASE CutShort(g)
    BY <2>4, AnswerFacts DEF CutShort
  <2>5. CASE TakeAck(g)
    <3>1. Head(ackCh).v \in 0 .. MaxRev
      BY <2>5, FrameFacts DEF TakeAck
    <3> QED BY <2>5, <3>1, AnswerFacts, SMTT(30) DEF TakeAck, Returns
  <2>6. CASE TakeMountAck(g)
    <3>1. Head(mountCh).v \in 0 .. MaxRev
      BY <2>6, FrameFacts DEF TakeMountAck
    <3> QED BY <2>6, <3>1, AnswerFacts DEF TakeMountAck, Returns
  <2>7. CASE Return(g)
    BY <2>7 DEF Return
  <2> QED BY <1>2, <2>1, <2>2, <2>3, <2>4, <2>5, <2>6, <2>7 DEF CallerStep
<1>3. CASE RecvTake
  BY <1>3 DEF RecvTake
<1>4. CASE RecvRoute
  <2>1. CASE hand.kind = "domAck"
    BY <1>4, <2>1, FrameFacts DEF RecvRoute
  <2>2. CASE hand.kind = "mountAck"
    BY <1>4, <2>2, FrameFacts DEF RecvRoute
  <2>3. CASE hand.kind = "event"
    <3>1. hand.v \in 1 .. MaxEvents
      BY <2>3, FrameFacts
    <3>2. events' = Append(events, hand.v) /\ Len(events) < EventBuf
      BY <1>4, <2>3 DEF RecvRoute
    <3> QED BY <1>4, <2>3, <3>1, <3>2 DEF RecvRoute
  <2> QED BY <1>4, <2>1, <2>2, <2>3 DEF RecvRoute
<1>5. CASE RecvStop
  BY <1>5 DEF RecvStop
<1>6. CASE Inject
  BY <1>6 DEF Inject
<1>7. CASE RelayTake
  BY <1>7, FrameFacts DEF RelayTake
<1>8. CASE RelayPush
  BY <1>8 DEF RelayPush, Frames
<1>9. CASE RelayStop
  BY <1>9 DEF RelayStop
<1>10. CASE Read
  BY <1>10, SMTT(30) DEF Read
<1>11. CASE CloseDone \/ CloseTransport
  BY <1>11 DEF CloseDone, CloseTransport
<1>12. CASE UNCHANGED webkitVars
  BY <1>12 DEF webkitVars
<1> QED
  BY <1>1, <1>2, <1>3, <1>4, <1>5, <1>6, <1>7, <1>8, <1>9, <1>10, <1>11, <1>12
  DEF WebKitNext, Work

\* Every step keeps calls and answers in line with the stages.
LEMMA CallsMatchKept ==
  ASSUME WebKitTypeOK, CallsMatchStages, [WebKitNext]_webkitVars
  PROVE  CallsMatchStages'
<1> USE DEF CallsMatchStages, InCall
<1>1. ASSUME NEW g \in Callers, NEW c \in Promise!Calls, Call(g, c) PROVE CallsMatchStages'
  BY <1>1, CallFacts DEF WebKitTypeOK, Call
<1>2. ASSUME NEW g \in Callers, CallerStep(g) PROVE CallsMatchStages'
  <2>1. CASE Reject(g)
    BY <2>1, AnswerFacts DEF WebKitTypeOK, Reject, Locks
  <2>2. CASE Send(g)
    <3>1. call[g] \in Promise!Calls
      BY <2>2 DEF WebKitTypeOK, Send, Locks
    <3>2. PICK a \in Promise!Answers : DomAnswers(call[g], a) /\ answer' = [answer EXCEPT ![g] = a]
      BY <2>2 DEF Send
    <3>3. Decided(call[g], a)
      BY <3>1, <3>2, CallFacts DEF DomAnswers, Decided, WebKitTypeOK
    <3>4. a # Promise!NoAnswer
      BY AnswerFacts
    <3> QED BY <2>2, <3>2, <3>3, <3>4 DEF WebKitTypeOK, Send, Locks
  <2>3. CASE Push(g)
    BY <2>3 DEF WebKitTypeOK, Push, callers
  <2>4. CASE CutShort(g)
    BY <2>4, AnswerFacts DEF WebKitTypeOK, CutShort
  <2>5. CASE TakeAck(g)
    BY <2>5, AnswerFacts DEF WebKitTypeOK, TakeAck, Returns, Promise!NoAnswer, Promise!Stale, Promise!Ok
  <2>6. CASE TakeMountAck(g)
    BY <2>6, AnswerFacts DEF WebKitTypeOK, TakeMountAck, Returns, Promise!NoAnswer, Promise!Stale, Promise!Ok
  <2>7. CASE Return(g)
    BY <2>7 DEF WebKitTypeOK, Return
  <2> QED BY <1>2, <2>1, <2>2, <2>3, <2>4, <2>5, <2>6, <2>7 DEF CallerStep
<1>3. CASE UNCHANGED callers
  BY <1>3 DEF callers
<1>4. RecvTake \/ RecvRoute \/ RecvStop \/ Inject \/ RelayTake \/ RelayPush \/ RelayStop \/ Read
        \/ CloseDone \/ CloseTransport \/ UNCHANGED webkitVars => UNCHANGED callers
  BY DEF RecvTake, RecvRoute, RecvStop, Inject, RelayTake, RelayPush, RelayStop, Read, CloseDone,
     CloseTransport, webkitVars
<1> QED
  BY <1>1, <1>2, <1>3, <1>4 DEF WebKitNext, Work

\* Every step keeps Close going one way and stopped goroutines empty-handed.
LEMMA LoopsKept ==
  ASSUME LoopsHold, [WebKitNext]_webkitVars
  PROVE  LoopsHold'
<1> USE DEF LoopsHold
<1>1. CASE UNCHANGED <<loop, relay, relaying, closing>>
  BY <1>1 DEF loop, closing
<1>2. ASSUME NEW g \in Callers, CallerStep(g) PROVE UNCHANGED <<loop, relay, relaying, closing>>
  BY <1>2 DEF CallerStep, Reject, Send, Push, CutShort, TakeAck, TakeMountAck, Return, forwarder
<1>3. ASSUME NEW g \in Callers, NEW c \in Promise!Calls, Call(g, c)
      PROVE UNCHANGED <<loop, relay, relaying, closing>>
  BY <1>3 DEF Call, forwarder
<1>4. CASE RecvTake \/ RecvRoute \/ RecvStop
  BY <1>4 DEF RecvTake, RecvRoute, RecvStop, forwarder, closing
<1>5. CASE RelayTake \/ RelayPush \/ RelayStop
  BY <1>5 DEF RelayTake, RelayPush, RelayStop, loop, closing
<1>6. CASE CloseDone \/ CloseTransport
  BY <1>6 DEF CloseDone, CloseTransport, loop, forwarder
<1>7. Inject \/ Read \/ UNCHANGED webkitVars => UNCHANGED <<loop, relay, relaying, closing>>
  BY DEF Inject, Read, webkitVars, forwarder
<1> QED
  BY <1>1, <1>2, <1>3, <1>4, <1>5, <1>6, <1>7 DEF WebKitNext, Work

-----------------------------------------------------------------------------
(* The one answer under way *)

\* Who waits is the goroutine that holds the lock, and it alone.
LEMMA WaiterHoldsLock ==
  ASSUME WebKitTypeOK
  PROVE  /\ Waiting <=> lock \in Callers /\ stage[lock] = "waiting"
         /\ \A g \in Callers : stage[g] = "waiting" => lock = g
  BY DEF WebKitTypeOK, Waiting

\* A step that moves no answer, nor the goroutine that waits for it.
LEMMA AnswerUntouched ==
  ASSUME AnswerInv, UNCHANGED <<recvCh, hand, ackCh, mountCh>>,
         ~done' => ~done, Waiting' <=> Waiting,
         Waiting => AnswerFrame(lock)' = AnswerFrame(lock)
  PROVE  AnswerInv'
<1> USE DEF AnswerInv
<1>1. SUFFICES ASSUME ~done' PROVE OneAnswer' /\ TheCallersAnswer'
  OBVIOUS
<1>2. OneAnswer /\ TheCallersAnswer
  BY <1>1
<1>3. OneAnswer'
  BY <1>2 DEF OneAnswer, InStream, IsAnswer
<1>4. CASE Waiting
  BY <1>2, <1>3, <1>4 DEF TheCallersAnswer, IsAnswer
<1>5. CASE ~Waiting
  BY <1>2, <1>3, <1>5 DEF OneAnswer, TheCallersAnswer, InStream, IsAnswer
<1> QED BY <1>3, <1>4, <1>5

\* A caller's step keeps the answer where it is, sends it or takes it.
LEMMA AnswerKeptByCaller ==
  ASSUME WebKitTypeOK, CallsMatchStages, LoopsHold, AnswerInv, NEW g \in Callers, CallerStep(g)
  PROVE  AnswerInv'
<1> DEFINE Still == UNCHANGED <<recvCh, hand, ackCh, mountCh, done>>
<1>1. CASE Reject(g)
  <2>1. Still
    BY <1>1 DEF Reject, loop, answers, closing
  <2>2. ~Waiting /\ ~Waiting'
    BY <1>1 DEF WebKitTypeOK, Reject, Locks, Waiting
  <2> QED BY <2>1, <2>2, AnswerUntouched
<1>2. CASE Send(g)
  <2>1. Still
    BY <1>2 DEF Send, loop, answers, closing
  <2>2. ~Waiting /\ ~Waiting'
    BY <1>2 DEF WebKitTypeOK, Send, Locks, Waiting
  <2> QED BY <2>1, <2>2, AnswerUntouched
<1>3. CASE Push(g)
  <2>1. SUFFICES ASSUME ~done' PROVE OneAnswer' /\ TheCallersAnswer'
    BY DEF AnswerInv
  <2>2. ~Waiting /\ Waiting' /\ lock = g /\ lock' = g
    BY <1>3 DEF WebKitTypeOK, Push, Waiting, callers
  <2>3. OneAnswer /\ ~done
    BY <1>3, <2>1 DEF Push, closing, AnswerInv
  <2>4. ~InStream /\ ~IsAnswer(hand) /\ ackCh = <<>> /\ mountCh = <<>>
    BY <2>2, <2>3 DEF OneAnswer
  <2>5. IsAnswer(AnswerFrame(g)) /\ AnswerFrame(g)' = AnswerFrame(g)
    BY <1>3 DEF Push, AnswerFrame, Frame, IsAnswer
  <2>6. /\ recvCh' = Append(recvCh, AnswerFrame(g)) /\ UNCHANGED <<hand, ackCh, mountCh>>
        /\ recvCh \in Seq(Frames)
    BY <1>3 DEF WebKitTypeOK, Push, loop, answers
  <2> DEFINE a == AnswerFrame(g)
  <2> HIDE DEF a
  <2>7. \A i \in DOMAIN recvCh' : IsAnswer(recvCh'[i]) => i = Len(recvCh) + 1
    BY <2>4, <2>6 DEF InStream, a
  <2>8. Len(recvCh) + 1 \in DOMAIN recvCh' /\ recvCh'[Len(recvCh) + 1] = a
    BY <2>6 DEF a
  <2>9. OneAnswer'
    BY <2>2, <2>4, <2>5, <2>6, <2>7, <2>8 DEF OneAnswer, InStream, IsAnswer, a
  <2>10. TheCallersAnswer'
    BY <2>2, <2>4, <2>5, <2>6, <2>7, <2>8 DEF TheCallersAnswer, IsAnswer, a
  <2> QED BY <2>9, <2>10
<1>4. CASE CutShort(g)
  BY <1>4 DEF LoopsHold, CutShort, AnswerInv, closing
<1>5. CASE TakeAck(g)
  <2>1. SUFFICES ASSUME ~done' PROVE OneAnswer' /\ TheCallersAnswer'
    BY DEF AnswerInv
  <2>2. OneAnswer
    BY <1>5, <2>1 DEF TakeAck, closing, AnswerInv
  <2>3. ~InStream /\ ~IsAnswer(hand) /\ mountCh = <<>>
    BY <1>5, <2>2 DEF TakeAck, OneAnswer
  <2>4. ackCh' = <<>>
    BY <1>5, SMTT(30) DEF WebKitTypeOK, TakeAck
  <2>5. ~Waiting'
    BY <1>5 DEF WebKitTypeOK, TakeAck, Returns, Waiting
  <2>6. UNCHANGED <<recvCh, hand, mountCh>>
    BY <1>5 DEF TakeAck, loop
  <2> QED BY <2>3, <2>4, <2>5, <2>6 DEF OneAnswer, TheCallersAnswer, InStream, IsAnswer
<1>6. CASE TakeMountAck(g)
  <2>1. SUFFICES ASSUME ~done' PROVE OneAnswer' /\ TheCallersAnswer'
    BY DEF AnswerInv
  <2>2. OneAnswer
    BY <1>6, <2>1 DEF TakeMountAck, closing, AnswerInv
  <2>3. ~InStream /\ ~IsAnswer(hand) /\ ackCh = <<>>
    BY <1>6, <2>2 DEF TakeMountAck, OneAnswer
  <2>4. mountCh' = <<>>
    BY <1>6 DEF WebKitTypeOK, TakeMountAck
  <2>5. ~Waiting'
    BY <1>6 DEF WebKitTypeOK, TakeMountAck, Returns, Waiting
  <2>6. UNCHANGED <<recvCh, hand, ackCh>>
    BY <1>6 DEF TakeMountAck, loop
  <2> QED BY <2>3, <2>4, <2>5, <2>6 DEF OneAnswer, TheCallersAnswer, InStream, IsAnswer
<1>7. CASE Return(g)
  <2>1. Still
    BY <1>7 DEF Return, loop, answers, closing
  <2>2. ~Waiting /\ ~Waiting'
    BY <1>7 DEF WebKitTypeOK, Return, Waiting
  <2> QED BY <2>1, <2>2, AnswerUntouched
<1> QED BY <1>1, <1>2, <1>3, <1>4, <1>5, <1>6, <1>7 DEF CallerStep

\* The receive loop and the forwarder pass the answer on.
LEMMA AnswerKept ==
  ASSUME WebKitTypeOK, CallsMatchStages, LoopsHold, AnswerInv, [WebKitNext]_webkitVars
  PROVE  AnswerInv'
<1> DEFINE Still == UNCHANGED <<hand, ackCh, mountCh, recvCh, callers, done>>
<1>1. ASSUME Still PROVE AnswerInv'
  BY <1>1, AnswerUntouched DEF callers, Waiting, AnswerFrame
<1>2. ASSUME NEW g \in Callers, NEW c \in Promise!Calls, Call(g, c) PROVE AnswerInv'
  <2>1. UNCHANGED <<recvCh, hand, ackCh, mountCh, done, lock>>
    BY <1>2 DEF Call, loop, answers, closing
  <2>2. Waiting' <=> Waiting
    BY <1>2 DEF WebKitTypeOK, Call, Waiting
  <2>3. Waiting => AnswerFrame(lock)' = AnswerFrame(lock)
    BY <1>2, WaiterHoldsLock DEF WebKitTypeOK, Call, AnswerFrame
  <2> QED BY <2>1, <2>2, <2>3, AnswerUntouched
<1>3. CASE Inject \/ RelayTake \/ RelayStop \/ Read \/ CloseTransport \/ UNCHANGED webkitVars
  BY <1>1, <1>3 DEF Inject, RelayTake, RelayStop, Read, CloseTransport, webkitVars, loop, answers, closing
<1>4. CASE CloseDone
  BY <1>4 DEF CloseDone, AnswerInv
<1>5. CASE RecvStop
  BY <1>5 DEF RecvStop, LoopsHold, AnswerInv, closing
<1>6. ASSUME RecvTake \/ RecvRoute \/ RelayPush, ~done'
      PROVE  /\ UNCHANGED callers /\ (Waiting' <=> Waiting)
             /\ AnswerFrame(lock)' = AnswerFrame(lock)
             /\ OneAnswer /\ TheCallersAnswer
  BY <1>6 DEF RecvTake, RecvRoute, RelayPush, callers, closing, Waiting, AnswerFrame, AnswerInv
<1>7. ASSUME RecvTake, ~done' PROVE OneAnswer' /\ TheCallersAnswer'
  <2>1. /\ hand = NoFrame /\ recvCh # <<>> /\ hand' = Head(recvCh) /\ recvCh' = Tail(recvCh)
        /\ recvCh \in Seq(Frames) /\ ~IsAnswer(hand) /\ UNCHANGED <<ackCh, mountCh>>
    BY <1>7 DEF RecvTake, answers, WebKitTypeOK, IsAnswer, NoFrame, Frame
  <2>2. \A i \in DOMAIN recvCh' : i + 1 \in DOMAIN recvCh /\ recvCh'[i] = recvCh[i + 1]
    BY <2>1
  <2>3. 1 \in DOMAIN recvCh /\ hand' = recvCh[1]
    BY <2>1
  <2>4. \A i \in DOMAIN recvCh : i # 1 => i - 1 \in DOMAIN recvCh' /\ recvCh'[i - 1] = recvCh[i]
    BY <2>1
  <2>5. InStream <=> InStream' \/ IsAnswer(hand')
    BY <2>1, <2>2, <2>3, <2>4 DEF InStream
  <2>6. ~(InStream' /\ IsAnswer(hand'))
    BY <1>6, <1>7, <2>1, <2>2, <2>3 DEF InStream, OneAnswer
  <2>7. \A i, j \in DOMAIN recvCh' : IsAnswer(recvCh'[i]) /\ IsAnswer(recvCh'[j]) => i = j
    BY <1>6, <1>7, <2>1, <2>2 DEF OneAnswer
  <2>8. OneAnswer'
    BY <1>6, <1>7, <2>1, <2>5, <2>6, <2>7 DEF OneAnswer, IsAnswer
  <2>9. TheCallersAnswer'
    BY <1>6, <1>7, <2>1, <2>2, <2>3 DEF TheCallersAnswer, IsAnswer
  <2> QED BY <2>8, <2>9
<1>8. ASSUME RecvRoute, ~done' PROVE OneAnswer' /\ TheCallersAnswer'
  <2>1. hand' = NoFrame /\ ~IsAnswer(hand') /\ UNCHANGED recvCh
    BY <1>8 DEF RecvRoute, NoFrame, Frame, IsAnswer
  <2>2. CASE hand.kind = "event"
    BY <1>6, <1>8, <2>1, <2>2 DEF RecvRoute, OneAnswer, TheCallersAnswer, InStream, IsAnswer, answers
  <2>3. CASE hand.kind = "domAck"
    <3>1. ackCh = <<>> /\ mountCh = <<>> /\ ~InStream /\ Waiting /\ hand = AnswerFrame(lock)
      BY <1>6, <1>8, <2>3 DEF OneAnswer, TheCallersAnswer, IsAnswer
    <3>2. ackCh' = <<hand>> /\ mountCh' = <<>>
      BY <1>8, <2>3, <3>1 DEF RecvRoute
    <3> QED BY <1>6, <1>8, <2>1, <3>1, <3>2 DEF OneAnswer, TheCallersAnswer, InStream, IsAnswer
  <2>4. CASE hand.kind = "mountAck"
    <3>1. ackCh = <<>> /\ mountCh = <<>> /\ ~InStream /\ Waiting /\ hand = AnswerFrame(lock)
      BY <1>6, <1>8, <2>4 DEF OneAnswer, TheCallersAnswer, IsAnswer
    <3>2. mountCh' = <<hand>> /\ ackCh' = <<>>
      BY <1>8, <2>4, <3>1 DEF RecvRoute
    <3> QED BY <1>6, <1>8, <2>1, <3>1, <3>2 DEF OneAnswer, TheCallersAnswer, InStream, IsAnswer
  <2> QED BY <1>8, <2>2, <2>3, <2>4 DEF RecvRoute
<1>9. ASSUME RelayPush, ~done' PROVE OneAnswer' /\ TheCallersAnswer'
  <2>1. /\ recvCh' = Append(recvCh, relay) /\ recvCh \in Seq(Frames) /\ ~IsAnswer(relay)
        /\ UNCHANGED <<hand, ackCh, mountCh>>
    BY <1>9, FrameFacts DEF RelayPush, loop, answers, WebKitTypeOK, IsAnswer
  <2>2. /\ DOMAIN recvCh \subseteq DOMAIN recvCh'
        /\ \A i \in DOMAIN recvCh : recvCh'[i] = recvCh[i]
        /\ \A i \in DOMAIN recvCh' : IsAnswer(recvCh'[i]) => i \in DOMAIN recvCh
    BY <2>1
  <2>3. InStream' <=> InStream
    BY <2>2 DEF InStream
  <2>4. OneAnswer'
    BY <1>6, <1>9, <2>1, <2>2, <2>3 DEF OneAnswer, IsAnswer
  <2>5. TheCallersAnswer'
    BY <1>6, <1>9, <2>1, <2>2 DEF TheCallersAnswer, IsAnswer
  <2> QED BY <2>4, <2>5
<1>10. ASSUME NEW g \in Callers, CallerStep(g) PROVE AnswerInv'
  BY <1>10, AnswerKeptByCaller
<1> QED
  BY <1>2, <1>3, <1>4, <1>5, <1>7, <1>8, <1>9, <1>10 DEF WebKitNext, Work, AnswerInv

-----------------------------------------------------------------------------
(* The two revisions *)

\* What the caller reads from its channel is what the DOM made of its call.
LEMMA OwnAnswer ==
  ASSUME WebKitTypeOK, CallsMatchStages, AnswerInv, ~done,
         NEW g \in Callers, TakeAck(g) \/ TakeMountAck(g)
  PROVE  /\ InCall(g) /\ lock = g
         /\ TakeAck(g) => Head(ackCh) = AnswerFrame(g)
         /\ TakeMountAck(g) => Head(mountCh) = AnswerFrame(g)
         /\ answer' = answer
<1>1. InCall(g) /\ lock = g
  BY DEF WebKitTypeOK, TakeAck, TakeMountAck, InCall
<1>2. TakeAck(g) => Head(ackCh) = AnswerFrame(g)
  BY <1>1 DEF WebKitTypeOK, TakeAck, AnswerInv, TheCallersAnswer
<1>3. TakeMountAck(g) => Head(mountCh) = AnswerFrame(g)
  BY <1>1 DEF WebKitTypeOK, TakeMountAck, AnswerInv, TheCallersAnswer
<1>4. Decided(call[g], answer[g]) /\ answer \in [Callers -> Promise!Answers \cup {Promise!NoAnswer}]
  BY <1>1 DEF WebKitTypeOK, CallsMatchStages
<1>5. answer[g] = IF AnswerFrame(g).v = 0 THEN Promise!Stale ELSE Promise!Ok(AnswerFrame(g).v)
  BY <1>4 DEF Decided, AnswerFrame, Frame, Promise!Stale, Promise!Ok, Promise!RootId
<1>6. answer' = [answer EXCEPT ![g] = answer[g]]
  BY <1>2, <1>3, <1>5 DEF TakeAck, TakeMountAck, Returns
<1> QED BY <1>1, <1>2, <1>3, <1>4, <1>6

\* Only the call in flight can be ahead of the engine.
LEMMA RevisionKept ==
  ASSUME WebKitTypeOK, CallsMatchStages, LoopsHold, AnswerInv, RevisionInv, [WebKitNext]_webkitVars
  PROVE  RevisionInv'
<1> USE DEF RevisionInv
<1>1. ASSUME UNCHANGED <<domRev, torn, rev, stage, call, answer>>, ~done' => ~done PROVE RevisionInv'
  BY <1>1 DEF Ahead, InCall
<1>2. ASSUME NEW g \in Callers, NEW c \in Promise!Calls, Call(g, c) PROVE RevisionInv'
  <2>1. \A h \in Callers : Ahead(h)' <=> Ahead(h)
    BY <1>2 DEF WebKitTypeOK, Call, Ahead, InCall
  <2>2. UNCHANGED <<domRev, torn, rev, answer, done>>
    BY <1>2 DEF Call, doms, closing
  <2> QED BY <2>1, <2>2
<1>3. ASSUME NEW g \in Callers, CallerStep(g) PROVE RevisionInv'
  <2>1. CASE Reject(g)
    <3>1. \A h \in Callers : ~Ahead(h) /\ ~Ahead(h)'
      BY <2>1 DEF WebKitTypeOK, Reject, Locks, Ahead, InCall
    <3> QED BY <2>1, <3>1 DEF Reject, doms, closing
  <2>2. CASE Send(g)
    <3>1. call[g] \in Promise!Calls /\ lock = NoCaller
      BY <2>2 DEF WebKitTypeOK, Send, Locks, CallsMatchStages
    <3>2. PICK a \in Promise!Answers : DomAnswers(call[g], a) /\ answer' = [answer EXCEPT ![g] = a]
      BY <2>2 DEF Send
    <3>3. (\A h \in Callers : ~Ahead(h)) /\ (\A h \in Callers : h # g => ~Ahead(h)')
      BY <2>2, <3>1 DEF WebKitTypeOK, Send, Ahead, InCall
    <3>4. Ahead(g)' <=> call[g].op = "apply" /\ a.status = "ok"
      BY <2>2, <3>2 DEF WebKitTypeOK, Send, Ahead, InCall
    <3>5. answer'[g] = a /\ UNCHANGED <<rev, done>>
      BY <2>2, <3>2 DEF WebKitTypeOK, Send, closing
    <3>6. CASE Ahead(g)'
      <4>1. a = Promise!Ok(domRev + 1) /\ domRev' = domRev + 1
        BY <3>2, <3>4, <3>6 DEF DomAnswers, Promise!Stale
      <4> QED BY <3>3, <3>5, <3>6, <4>1 DEF Promise!Ok
    <3>7. CASE ~Ahead(g)'
      <4>1. ~torn' => ~torn /\ domRev' = domRev
        <5>1. CASE call[g].op = "apply" /\ call[g].base = domRev /\ ~call[g].good
          <6>1. torn' = (torn \/ domRev' # domRev)
            BY <3>2, <5>1 DEF DomAnswers
          <6> QED BY <6>1
        <5>2. CASE UNCHANGED doms
          BY <5>2 DEF doms
        <5>3. a.status # "ok" \/ call[g].op # "apply"
          BY <3>4, <3>7
        <5>4. ~(call[g].op = "apply" /\ call[g].base = domRev /\ call[g].good)
          BY <3>2, <5>3 DEF DomAnswers, Promise!Ok
        <5> QED BY <3>2, <5>1, <5>2, <5>4 DEF DomAnswers
      <4> QED BY <3>3, <3>5, <3>7, <4>1
    <3> QED BY <3>6, <3>7
  <2>3. CASE Push(g)
    <3>1. \A h \in Callers : Ahead(h)' <=> Ahead(h)
      BY <2>3 DEF WebKitTypeOK, Push, Ahead, InCall
    <3> QED BY <2>3, <3>1 DEF Push, doms, closing
  <2>4. CASE CutShort(g)
    <3>1. \A h \in Callers : Ahead(h)' => Ahead(h) /\ answer'[h] = answer[h]
      BY <2>4 DEF WebKitTypeOK, CutShort, Ahead, InCall
    <3> QED BY <2>4, <3>1 DEF CutShort, doms, closing, LoopsHold
  <2>5. CASE TakeAck(g) \/ TakeMountAck(g)
    <3>1. \A h \in Callers : ~Ahead(h)'
      BY <2>5 DEF WebKitTypeOK, TakeAck, TakeMountAck, Returns, Ahead, InCall
    <3>2. UNCHANGED <<domRev, torn, done>>
      BY <2>5 DEF TakeAck, TakeMountAck, doms, closing
    <3>3. CASE done
      BY <3>1, <3>2, <3>3
    <3>4. CASE ~done
      <4>1. InCall(g) /\ lock = g /\ Decided(call[g], answer[g])
        BY <2>5, <3>4, OwnAnswer DEF CallsMatchStages
      <4>2. \A h \in Callers : h # g => ~Ahead(h)
        BY <4>1 DEF WebKitTypeOK, Ahead, InCall
      <4>3. CASE TakeAck(g)
        <5>1. Head(ackCh) = AnswerFrame(g)
          BY <3>4, <4>3, OwnAnswer
        <5>2. rev' = IF answer[g].status = "ok" THEN answer[g].v ELSE rev
          <6>1. call[g].op = "apply" /\ rev' = IF AnswerFrame(g).v = 0 THEN rev ELSE AnswerFrame(g).v
            BY <4>3, <5>1 DEF TakeAck
          <6>2. answer[g].status = "ok" => answer[g].v # 0
            <7>1. answer[g] \in Promise!Answers \cup {Promise!NoAnswer}
              BY DEF WebKitTypeOK
            <7> QED BY <7>1, AnswerFacts DEF Promise!NoAnswer
          <6>3. AnswerFrame(g).v = IF answer[g].status = "ok" THEN answer[g].v ELSE 0
            BY DEF AnswerFrame, Frame
          <6> QED BY <6>1, <6>2, <6>3
        <5>3. Ahead(g) <=> answer[g].status = "ok"
          BY <4>1, <4>3 DEF TakeAck, Ahead
        <5> QED BY <3>1, <3>2, <4>2, <5>2, <5>3
      <4>4. CASE TakeMountAck(g)
        <5>1. ~Ahead(g) /\ rev' = rev
          BY <4>4 DEF TakeMountAck, Ahead
        <5> QED BY <3>1, <3>2, <4>2, <5>1
      <4> QED BY <2>5, <4>3, <4>4
    <3> QED BY <3>3, <3>4
  <2>6. CASE Return(g)
    <3>1. \A h \in Callers : (Ahead(h)' <=> Ahead(h)) /\ (Ahead(h) => answer'[h] = answer[h])
      BY <2>6 DEF WebKitTypeOK, Return, Ahead, InCall
    <3> QED BY <2>6, <3>1 DEF Return, doms, closing
  <2> QED BY <1>3, <2>1, <2>2, <2>3, <2>4, <2>5, <2>6 DEF CallerStep
<1>4. RecvTake \/ RecvRoute \/ RecvStop \/ Inject \/ RelayTake \/ RelayPush \/ RelayStop \/ Read
        \/ CloseDone \/ CloseTransport \/ UNCHANGED webkitVars
      => UNCHANGED <<domRev, torn, rev, stage, call, answer>> /\ (~done' => ~done)
  BY DEF RecvTake, RecvRoute, RecvStop, Inject, RelayTake, RelayPush, RelayStop, Read, CloseDone,
     CloseTransport, webkitVars, doms, callers, closing
<1> QED
  BY <1>1, <1>2, <1>3, <1>4 DEF WebKitNext, Work

-----------------------------------------------------------------------------
(* The order of events *)

\* The stream is in order for whatever it is seen from the same ends.
LEMMA StreamUntouched ==
  ASSUME UNCHANGED <<recvCh, receiving, relaying>>, Handed' = Handed, Streamed' = Streamed,
         receiving => StreamInOrder, receiving /\ relaying => StreamUpToRelay
  PROVE  /\ receiving' => StreamInOrder'
         /\ receiving' /\ relaying' => StreamUpToRelay'
  BY DEF StreamInOrder, StreamUpToRelay, IsEvent

\* The stream takes a frame at its end: an answer, or the next event.
LEMMA StreamGrows ==
  ASSUME NEW f, recvCh \in Seq(Frames), f \in Frames, recvCh' = Append(recvCh, f),
         injected \in Nat, Len(domEvents) \in Nat, Len(seen) \in Nat, Len(events) \in Nat,
         Handed' = Handed,
         IF IsEvent(f) THEN f.v = Streamed + 1 /\ Streamed' = Streamed + 1 /\ StreamUpToRelay
                       ELSE Streamed' = Streamed,
         StreamInOrder
  PROVE  StreamInOrder' /\ (StreamUpToRelay => StreamUpToRelay')
<1>1. /\ \A i \in DOMAIN recvCh : i \in DOMAIN recvCh' /\ recvCh'[i] = recvCh[i] /\ i < Len(recvCh) + 1
      /\ Len(recvCh) + 1 \in DOMAIN recvCh' /\ recvCh'[Len(recvCh) + 1] = f
      /\ \A i \in DOMAIN recvCh' : i \in DOMAIN recvCh \/ i = Len(recvCh) + 1
      /\ DOMAIN recvCh \subseteq Nat /\ Len(recvCh) \in Nat
  OBVIOUS
<1>2. \A i \in DOMAIN recvCh : IsEvent(recvCh[i]) => recvCh[i].v \in Nat
  BY FrameFacts DEF IsEvent
<1>3. Handed \in Nat /\ Streamed \in Int
  BY DEF Handed, Streamed, Out
<1> DEFINE end == Len(recvCh) + 1
<1> HIDE DEF end
<1>4. /\ \A i \in DOMAIN recvCh : i \in DOMAIN recvCh' /\ recvCh'[i] = recvCh[i] /\ i < end
      /\ end \in DOMAIN recvCh' /\ recvCh'[end] = f
      /\ \A i \in DOMAIN recvCh' : i \in DOMAIN recvCh \/ i = end
      /\ DOMAIN recvCh \subseteq Nat /\ end \in Nat
  BY <1>1 DEF end
<1>5. CASE ~IsEvent(f)
  <2>1. \A i \in DOMAIN recvCh' : IsEvent(recvCh'[i]) => i \in DOMAIN recvCh
    BY <1>4, <1>5
  <2>2. \A i, j \in DOMAIN recvCh' :
          IsEvent(recvCh'[i]) /\ IsEvent(recvCh'[j]) /\ i < j => recvCh'[i].v < recvCh'[j].v
    BY <1>4, <2>1 DEF StreamInOrder
  <2>3. \A i \in DOMAIN recvCh' : IsEvent(recvCh'[i]) =>
          /\ recvCh'[i].v > Handed
          /\ \A n \in Handed + 1 .. recvCh'[i].v - 1 :
               \E j \in DOMAIN recvCh' : IsEvent(recvCh'[j]) /\ recvCh'[j].v = n
    BY <1>4, <2>1, SMTT(30) DEF StreamInOrder
  <2>4. StreamInOrder'
    BY <2>2, <2>3 DEF StreamInOrder, IsEvent
  <2>5. Streamed' = Streamed
    BY <1>5
  <2>6. StreamUpToRelay => StreamUpToRelay'
    BY <1>4, <2>1, <2>5 DEF StreamUpToRelay, IsEvent
  <2> QED BY <2>4, <2>6
<1>6. CASE IsEvent(f)
  <2>1. \A i, j \in DOMAIN recvCh' :
          IsEvent(recvCh'[i]) /\ IsEvent(recvCh'[j]) /\ i < j => recvCh'[i].v < recvCh'[j].v
    BY <1>2, <1>3, <1>4, <1>6 DEF StreamInOrder, StreamUpToRelay
  <2>2. \A i \in DOMAIN recvCh' : IsEvent(recvCh'[i]) =>
          /\ recvCh'[i].v > Handed
          /\ \A n \in Handed + 1 .. recvCh'[i].v - 1 :
               \E j \in DOMAIN recvCh' : IsEvent(recvCh'[j]) /\ recvCh'[j].v = n
    <3>1. \A i \in DOMAIN recvCh : IsEvent(recvCh[i]) =>
            /\ recvCh[i].v > Handed
            /\ \A n \in Handed + 1 .. recvCh[i].v - 1 :
                 \E j \in DOMAIN recvCh' : IsEvent(recvCh'[j]) /\ recvCh'[j].v = n
      BY <1>4 DEF StreamInOrder
    <3>2. f.v = Streamed + 1 /\ StreamUpToRelay
      BY <1>6
    <3>3. f.v > Handed
      BY <1>3, <3>2 DEF StreamUpToRelay
    <3>4. ASSUME NEW n \in Handed + 1 .. f.v - 1
          PROVE  \E j \in DOMAIN recvCh' : IsEvent(recvCh'[j]) /\ recvCh'[j].v = n
      <4>1. PICK k \in DOMAIN recvCh : IsEvent(recvCh[k]) /\ recvCh[k].v = Streamed
        BY <1>3, <3>2, <3>4 DEF StreamUpToRelay
      <4>2. CASE n = Streamed
        BY <1>4, <4>1, <4>2
      <4>3. CASE n # Streamed
        <5>1. n \in Handed + 1 .. recvCh[k].v - 1
          BY <1>3, <3>2, <3>4, <4>1, <4>3
        <5> QED BY <1>4, <4>1, <5>1 DEF StreamInOrder
      <4> QED BY <4>2, <4>3
    <3> QED BY <1>4, <3>1, <3>3, <3>4
  <2>3. StreamInOrder'
    BY <2>1, <2>2 DEF StreamInOrder, IsEvent
  <2>4. StreamUpToRelay'
    BY <1>2, <1>3, <1>4, <1>6 DEF StreamUpToRelay, IsEvent
  <2> QED BY <2>3, <2>4
<1> QED BY <1>5, <1>6

\* The receive loop takes a frame: the stream begins after it.
LEMMA StreamShrinks ==
  ASSUME recvCh \in Seq(Frames), recvCh # <<>>, recvCh' = Tail(recvCh),
         injected \in Nat, Len(domEvents) \in Nat, Len(seen) \in Nat, Len(events) \in Nat,
         Handed' = IF IsEvent(Head(recvCh)) THEN Handed + 1 ELSE Handed, Streamed' = Streamed,
         StreamInOrder
  PROVE  /\ StreamInOrder'
         /\ IsEvent(Head(recvCh)) => Head(recvCh).v = Handed + 1
         /\ StreamUpToRelay => StreamUpToRelay'
<1>1. /\ \A i \in DOMAIN recvCh' : i + 1 \in DOMAIN recvCh /\ recvCh'[i] = recvCh[i + 1] /\ i \in Nat /\ i > 0
      /\ \A i \in DOMAIN recvCh : i # 1 => i - 1 \in DOMAIN recvCh' /\ recvCh[i] = recvCh'[i - 1] /\ i > 1
      /\ 1 \in DOMAIN recvCh /\ Head(recvCh) = recvCh[1]
      /\ DOMAIN recvCh \subseteq Nat
  OBVIOUS
<1>2. \A i \in DOMAIN recvCh : IsEvent(recvCh[i]) => recvCh[i].v \in Nat
  BY FrameFacts DEF IsEvent
<1>3. Handed \in Nat /\ Streamed \in Int
  BY DEF Handed, Streamed, Out
<1>4. IsEvent(recvCh[1]) => recvCh[1].v = Handed + 1
  <2>1. SUFFICES ASSUME IsEvent(recvCh[1]), recvCh[1].v # Handed + 1 PROVE FALSE
    OBVIOUS
  <2>2. Handed + 1 \in Handed + 1 .. recvCh[1].v - 1
    BY <1>1, <1>2, <1>3, <2>1 DEF StreamInOrder
  <2>3. PICK j \in DOMAIN recvCh : IsEvent(recvCh[j]) /\ recvCh[j].v = Handed + 1
    BY <1>1, <2>1, <2>2 DEF StreamInOrder
  <2>4. j # 1
    BY <2>1, <2>3
  <2>5. recvCh[1].v < recvCh[j].v /\ recvCh[1].v > Handed
    BY <1>1, <2>1, <2>3, <2>4 DEF StreamInOrder
  <2> QED BY <1>1, <1>2, <1>3, <2>1, <2>3, <2>5
<1>5. \A i, j \in DOMAIN recvCh' :
        IsEvent(recvCh'[i]) /\ IsEvent(recvCh'[j]) /\ i < j => recvCh'[i].v < recvCh'[j].v
  BY <1>1, SMTT(30) DEF StreamInOrder
<1>6. ASSUME NEW i \in DOMAIN recvCh', IsEvent(recvCh'[i])
      PROVE  /\ recvCh'[i].v > Handed'
             /\ \A n \in Handed' + 1 .. recvCh'[i].v - 1 :
                  \E j \in DOMAIN recvCh' : IsEvent(recvCh'[j]) /\ recvCh'[j].v = n
  <2>1. /\ i + 1 \in DOMAIN recvCh /\ recvCh'[i] = recvCh[i + 1] /\ 1 < i + 1
        /\ recvCh[i + 1].v \in Nat /\ recvCh[i + 1].v > Handed
    BY <1>1, <1>2, <1>6 DEF StreamInOrder
  <2>2. IsEvent(recvCh[1]) => recvCh[i + 1].v > Handed + 1
    BY <1>1, <1>4, <1>6, <2>1 DEF StreamInOrder
  <2>3. recvCh'[i].v > Handed'
    BY <1>1, <2>1, <2>2
  <2>4. ASSUME NEW n \in Handed' + 1 .. recvCh'[i].v - 1
        PROVE  \E j \in DOMAIN recvCh' : IsEvent(recvCh'[j]) /\ recvCh'[j].v = n
    <3>1. Handed' \in Nat /\ Handed' >= Handed
      BY <1>3
    <3>2. n \in Handed + 1 .. recvCh[i + 1].v - 1 /\ n > Handed'
      BY <1>3, <2>1, <3>1
    <3>3. PICK j \in DOMAIN recvCh : IsEvent(recvCh[j]) /\ recvCh[j].v = n
      BY <1>6, <2>1, <3>2 DEF StreamInOrder
    <3>4. j # 1
      BY <1>1, <1>3, <1>4, <3>2, <3>3
    <3> QED BY <1>1, <3>3, <3>4
  <2> QED BY <2>3, <2>4
<1>7. StreamInOrder'
  BY <1>5, <1>6 DEF StreamInOrder, IsEvent
<1>8. ASSUME StreamUpToRelay PROVE StreamUpToRelay'
  <2>1. \A i \in DOMAIN recvCh' : IsEvent(recvCh'[i]) => recvCh'[i].v <= Streamed
    BY <1>1, <1>8 DEF StreamUpToRelay
  <2>2. Handed' <= Streamed
    BY <1>1, <1>3, <1>4, <1>8 DEF StreamUpToRelay
  <2>3. Handed' = Streamed \/ \E i \in DOMAIN recvCh' : IsEvent(recvCh'[i]) /\ recvCh'[i].v = Streamed
    <3>1. CASE Handed = Streamed
      BY <1>1, <1>3, <1>4, <1>8, <3>1 DEF StreamUpToRelay
    <3>2. CASE Handed # Streamed
      <4>1. PICK i \in DOMAIN recvCh : IsEvent(recvCh[i]) /\ recvCh[i].v = Streamed
        BY <1>8, <3>2 DEF StreamUpToRelay
      <4>2. CASE i = 1
        BY <1>1, <1>4, <4>1, <4>2
      <4>3. CASE i # 1
        BY <1>1, <4>1, <4>3
      <4> QED BY <4>2, <4>3
    <3> QED BY <3>1, <3>2
  <2> QED BY <2>1, <2>2, <2>3 DEF StreamUpToRelay, IsEvent
<1> QED BY <1>1, <1>4, <1>7, <1>8

\* Every step keeps the events in order.
LEMMA EventsKept ==
  ASSUME WebKitTypeOK, CallsMatchStages, LoopsHold, EventInv, [WebKitNext]_webkitVars
  PROVE  EventInv'
<1> DEFINE Ends == <<seen, events, hand, relay, domEvents, injected, receiving, relaying>>
<1>1. /\ recvCh \in Seq(Frames) /\ injected \in Nat /\ seen \in Seq(1 .. MaxEvents)
      /\ events \in Seq(1 .. MaxEvents) /\ domEvents \in Seq(1 .. MaxEvents)
      /\ Len(domEvents) \in Nat /\ Len(seen) \in Nat /\ Len(events) \in Nat
      /\ receiving \in BOOLEAN /\ relaying \in BOOLEAN /\ done \in BOOLEAN
      /\ hand \in Frames \cup {NoFrame} /\ relay \in EventFrames \cup {NoFrame}
  BY DEF WebKitTypeOK
<1>2. Handed \in Nat /\ Streamed \in Int /\ Out \in Nat
  BY <1>1 DEF Handed, Streamed, Out
<1>3. ~IsEvent(NoFrame)
  BY DEF IsEvent, NoFrame, Frame
<1>4. ASSUME UNCHANGED <<Ends, recvCh>>, ~done' => ~done PROVE EventInv'
  <2>1. Handed' = Handed /\ Streamed' = Streamed /\ Out' = Out
    BY <1>4 DEF Handed, Streamed, Out
  <2> QED BY <1>4, <2>1, StreamUntouched DEF EventInv, IsEvent
<1>5. ASSUME NEW g \in Callers, NEW c \in Promise!Calls, Call(g, c) PROVE EventInv'
  BY <1>4, <1>5 DEF Call, loop, forwarder, closing, input
<1>6. ASSUME NEW g \in Callers, CallerStep(g) PROVE EventInv'
  <2>1. CASE Push(g)
    <3>1. UNCHANGED <<Ends, done>>
      BY <2>1 DEF Push, loop, forwarder, closing, input
    <3>2. recvCh' = Append(recvCh, AnswerFrame(g)) /\ AnswerFrame(g) \in Frames /\ ~IsEvent(AnswerFrame(g))
      <4>1. recvCh' = Append(recvCh, AnswerFrame(g)) /\ InCall(g)
        BY <2>1 DEF Push, InCall
      <4>2. Frame("mountAck", Promise!RootId) \in Frames
        BY DEF Frames, MountFrames, Frame
      <4>3. AnswerFrame(g) \in Frames
        BY <4>1, <4>2, AnswerFrames DEF Frames
      <4>4. ~IsEvent(AnswerFrame(g))
        BY DEF AnswerFrame, Frame, IsEvent
      <4> QED BY <4>1, <4>3, <4>4
    <3>3. Handed' = Handed /\ Streamed' = Streamed /\ Out' = Out
      BY <3>1 DEF Handed, Streamed, Out
    <3>4. receiving => StreamInOrder' /\ (StreamUpToRelay => StreamUpToRelay')
      BY <1>1, <3>2, <3>3, StreamGrows DEF EventInv
    <3> QED BY <3>1, <3>3, <3>4 DEF EventInv, IsEvent
  <2>2. Reject(g) \/ Send(g) \/ CutShort(g) \/ TakeAck(g) \/ TakeMountAck(g) \/ Return(g)
        => UNCHANGED <<Ends, recvCh, done>>
    BY DEF Reject, Send, CutShort, TakeAck, TakeMountAck, Return, loop, forwarder, closing, input
  <2> QED BY <1>4, <1>6, <2>1, <2>2 DEF CallerStep
<1>7. CASE RecvTake
  <2>1. /\ UNCHANGED <<seen, events, relay, domEvents, injected, receiving, relaying, done>>
        /\ receiving /\ hand = NoFrame /\ recvCh # <<>> /\ hand' = Head(recvCh) /\ recvCh' = Tail(recvCh)
    BY <1>7 DEF RecvTake, forwarder, closing, input
  <2>2. Streamed' = Streamed /\ Out' = Out /\ Handed = Out
    BY <1>3, <2>1 DEF Handed, Streamed, Out, IsEvent
  <2>3. Handed' = IF IsEvent(Head(recvCh)) THEN Handed + 1 ELSE Handed
    BY <2>1, <2>2 DEF Handed, IsEvent
  <2>4. /\ StreamInOrder' /\ (StreamUpToRelay => StreamUpToRelay')
        /\ IsEvent(Head(recvCh)) => Head(recvCh).v = Handed + 1
    BY <1>1, <2>1, <2>2, <2>3, StreamShrinks DEF EventInv
  <2> QED BY <2>1, <2>2, <2>4 DEF EventInv, IsEvent
<1>8. CASE RecvRoute
  <2>1. /\ UNCHANGED <<seen, relay, domEvents, injected, receiving, relaying, recvCh, done>>
        /\ hand' = NoFrame
    BY <1>8 DEF RecvRoute, forwarder, closing, input
  <2>2. Streamed' = Streamed
    BY <2>1 DEF Streamed
  <2>3. CASE IsEvent(hand)
    <3>1. events' = Append(events, hand.v) /\ hand.v = Out + 1
      BY <1>8, <2>3 DEF RecvRoute, EventInv, IsEvent
    <3>2. Len(events') = Len(events) + 1
      BY <1>1, <3>1
    <3>3. Out' = Out + 1 /\ Handed' = Handed
      BY <1>1, <1>3, <2>1, <2>3, <3>2 DEF Out, Handed, IsEvent
    <3>4. \A i \in 1 .. Len(events') : events'[i] = Len(seen) + i
      <4>1. \A i \in 1 .. Len(events) : events'[i] = events[i]
        BY <1>1, <3>1
      <4>2. events'[Len(events) + 1] = Len(seen) + (Len(events) + 1)
        BY <1>1, <3>1 DEF Out
      <4>3. \A i \in 1 .. Len(events') : i \in 1 .. Len(events) \/ i = Len(events) + 1
        BY <1>1, <3>2
      <4> QED BY <4>1, <4>2, <4>3 DEF EventInv
    <3>5. /\ receiving' => StreamInOrder'
          /\ receiving' /\ relaying' => StreamUpToRelay'
      BY <2>1, <2>2, <3>3, StreamUntouched DEF EventInv
    <3> QED BY <1>3, <2>1, <2>2, <3>4, <3>5 DEF EventInv, IsEvent
  <2>4. CASE ~IsEvent(hand)
    <3>1. UNCHANGED events
      BY <1>8, <2>4 DEF RecvRoute, IsEvent
    <3>2. Out' = Out /\ Handed' = Handed
      BY <1>3, <2>1, <2>4, <3>1 DEF Out, Handed, IsEvent
    <3>3. /\ receiving' => StreamInOrder'
          /\ receiving' /\ relaying' => StreamUpToRelay'
      BY <2>1, <2>2, <3>2, StreamUntouched DEF EventInv
    <3> QED BY <1>3, <2>1, <2>2, <3>1, <3>2, <3>3 DEF EventInv, IsEvent
  <2> QED BY <2>3, <2>4
<1>9. CASE RecvStop
  <2>1. /\ UNCHANGED <<seen, events, relay, domEvents, injected, relaying, recvCh, done>>
        /\ hand' = NoFrame /\ ~receiving' /\ done
    BY <1>9 DEF RecvStop, LoopsHold, forwarder, closing, input
  <2>2. Streamed' = Streamed
    BY <2>1 DEF Streamed
  <2> QED BY <1>3, <2>1, <2>2 DEF EventInv, IsEvent
<1>10. CASE Inject
  <2>1. /\ UNCHANGED <<seen, events, hand, relay, receiving, relaying, recvCh, done>>
        /\ injected' = injected + 1 /\ domEvents' = Append(domEvents, injected + 1)
    BY <1>10 DEF Inject, loop, closing
  <2>2. Len(domEvents') = Len(domEvents) + 1
    BY <1>1, <2>1
  <2>3. Streamed' = Streamed /\ Out' = Out /\ Handed' = Handed
    BY <1>1, <2>1, <2>2 DEF Streamed, Out, Handed
  <2>4. \A i \in 1 .. Len(domEvents') : domEvents'[i] = injected' - Len(domEvents') + i
    <3>1. \A i \in 1 .. Len(domEvents) : domEvents'[i] = domEvents[i]
      BY <1>1, <2>1
    <3>2. domEvents'[Len(domEvents) + 1] = injected + 1
      BY <1>1, <2>1
    <3>3. \A i \in 1 .. Len(domEvents') : i \in 1 .. Len(domEvents) \/ i = Len(domEvents) + 1
      BY <1>1, <2>2
    <3>4. injected' - Len(domEvents') = injected - Len(domEvents)
      BY <1>1, <2>1, <2>2
    <3>5. \A i \in 1 .. Len(domEvents) : domEvents'[i] = injected - Len(domEvents) + i
      BY <3>1 DEF EventInv
    <3>6. domEvents'[Len(domEvents) + 1] = injected - Len(domEvents) + (Len(domEvents) + 1)
      BY <1>1, <3>2
    <3> QED BY <3>3, <3>4, <3>5, <3>6
  <2>5. Len(domEvents') <= injected'
    BY <1>1, <2>1, <2>2 DEF EventInv
  <2>6. /\ receiving' => StreamInOrder'
        /\ receiving' /\ relaying' => StreamUpToRelay'
    BY <2>1, <2>3, StreamUntouched DEF EventInv
  <2> QED BY <2>1, <2>3, <2>4, <2>5, <2>6 DEF EventInv, IsEvent
<1>11. CASE RelayTake
  <2>1. /\ UNCHANGED <<seen, events, hand, injected, receiving, relaying, recvCh, done>>
        /\ relay = NoFrame /\ domEvents # <<>>
        /\ relay' = Frame("event", Head(domEvents)) /\ domEvents' = Tail(domEvents)
    BY <1>11 DEF RelayTake, loop, closing, input
  <2>2. Len(domEvents') = Len(domEvents) - 1 /\ relay' # NoFrame /\ relay'.v = domEvents[1]
    BY <1>1, <2>1 DEF Frame, NoFrame
  <2>3. Streamed' = Streamed /\ Out' = Out /\ Handed' = Handed
    BY <1>1, <2>1, <2>2 DEF Streamed, Out, Handed
  <2>4. \A i \in 1 .. Len(domEvents') : domEvents'[i] = injected' - Len(domEvents') + i
    <3>1. \A i \in 1 .. Len(domEvents') : i + 1 \in 1 .. Len(domEvents) /\ domEvents'[i] = domEvents[i + 1]
      BY <1>1, <2>1
    <3>2. injected' - Len(domEvents') = injected - Len(domEvents) + 1
      BY <1>1, <2>1, <2>2
    <3>3. \A i \in 1 .. Len(domEvents') : domEvents'[i] = injected - Len(domEvents) + (i + 1)
      BY <3>1 DEF EventInv
    <3> QED BY <1>1, <3>2, <3>3
  <2>5. relay'.v = Streamed' + 1
    BY <1>1, <2>1, <2>2, <2>3 DEF EventInv, Streamed
  <2>6. /\ receiving' => StreamInOrder'
        /\ receiving' /\ relaying' => StreamUpToRelay'
    BY <2>1, <2>3, StreamUntouched DEF EventInv
  <2>7. Len(domEvents') <= injected'
    BY <1>1, <2>1, <2>2 DEF EventInv
  <2> QED BY <2>1, <2>3, <2>4, <2>5, <2>6, <2>7 DEF EventInv, IsEvent
<1>12. CASE RelayPush
  <2>1. /\ UNCHANGED <<seen, events, hand, domEvents, injected, receiving, relaying, done>>
        /\ relay # NoFrame /\ relay' = NoFrame /\ recvCh' = Append(recvCh, relay)
    BY <1>12 DEF RelayPush, loop, closing, input
  <2>2. relay \in Frames /\ IsEvent(relay) /\ relay.v = Streamed + 1 /\ relaying
    BY <1>1, <2>1, FrameFacts DEF EventInv, LoopsHold, IsEvent, Frames
  <2>3. Streamed' = Streamed + 1 /\ Out' = Out /\ Handed' = Handed
    BY <1>1, <2>1 DEF Streamed, Out, Handed
  <2>4. receiving => StreamInOrder' /\ (StreamUpToRelay => StreamUpToRelay')
    BY <1>1, <2>1, <2>2, <2>3, StreamGrows DEF EventInv
  <2> QED BY <2>1, <2>2, <2>3, <2>4 DEF EventInv, IsEvent
<1>13. CASE RelayStop
  <2>1. /\ UNCHANGED <<seen, events, hand, domEvents, injected, receiving, recvCh, done>>
        /\ relay' = NoFrame /\ ~relaying' /\ done
    BY <1>13 DEF RelayStop, LoopsHold, loop, closing, input
  <2>2. Out' = Out /\ Handed' = Handed
    BY <2>1 DEF Out, Handed
  <2>3. receiving' => StreamInOrder'
    BY <2>1, <2>2 DEF EventInv, StreamInOrder, IsEvent
  <2> QED BY <2>1, <2>2, <2>3 DEF EventInv, IsEvent
<1>14. CASE Read
  <2>1. /\ UNCHANGED <<hand, relay, domEvents, injected, receiving, relaying, recvCh, done>>
        /\ events # <<>> /\ seen' = Append(seen, Head(events)) /\ events' = Tail(events)
    BY <1>14 DEF Read, loop, forwarder, closing
  <2>2. Len(seen') = Len(seen) + 1 /\ Len(events') = Len(events) - 1
    BY <1>1, <2>1
  <2>3. Streamed' = Streamed /\ Out' = Out /\ Handed' = Handed
    BY <1>1, <2>1, <2>2 DEF Streamed, Out, Handed
  <2>4. \A i \in 1 .. Len(seen') : seen'[i] = i
    <3>1. \A i \in 1 .. Len(seen) : seen'[i] = seen[i]
      BY <1>1, <2>1
    <3>2. seen'[Len(seen) + 1] = events[1] /\ 1 \in 1 .. Len(events)
      BY <1>1, <2>1
    <3>3. \A i \in 1 .. Len(seen') : i \in 1 .. Len(seen) \/ i = Len(seen) + 1
      BY <1>1, <2>2, SMTT(30)
    <3> QED BY <3>1, <3>2, <3>3 DEF EventInv
  <2>5. \A i \in 1 .. Len(events') : events'[i] = Len(seen') + i
    <3>1. \A i \in 1 .. Len(events') : i + 1 \in 1 .. Len(events) /\ events'[i] = events[i + 1]
      BY <1>1, <2>1
    <3>2. \A i \in 1 .. Len(events') : events'[i] = Len(seen) + (i + 1)
      BY <3>1 DEF EventInv
    <3> QED BY <1>1, <2>2, <3>2
  <2>6. /\ receiving' => StreamInOrder'
        /\ receiving' /\ relaying' => StreamUpToRelay'
    BY <2>1, <2>3, StreamUntouched DEF EventInv
  <2> QED BY <2>1, <2>3, <2>4, <2>5, <2>6 DEF EventInv, IsEvent
<1>15. CloseDone \/ CloseTransport \/ UNCHANGED webkitVars
       => UNCHANGED <<Ends, recvCh>> /\ (~done' => ~done)
  BY DEF CloseDone, CloseTransport, webkitVars, loop, forwarder, closing, input
<1> QED
  BY <1>4, <1>5, <1>6, <1>7, <1>8, <1>9, <1>10, <1>11, <1>12, <1>13, <1>14, <1>15
  DEF WebKitNext, Work

-----------------------------------------------------------------------------
(* The invariant, and what follows from it *)

\* The invariant holds at the start.
LEMMA WebKitInitInv == WebKitInit => WebKitInv
<1>1. ASSUME WebKitInit PROVE WebKitTypeOK
  <2>1. \A S : <<>> \in Seq(S)
    OBVIOUS
  <2>2. Len(<<>>) = 0
    BY <2>1, EmptySeq
  <2>3. /\ recvCh \in Seq(Frames) /\ ackCh \in Seq(AckFrames) /\ mountCh \in Seq(MountFrames)
        /\ events \in Seq(1 .. MaxEvents) /\ domEvents \in Seq(1 .. MaxEvents) /\ seen \in Seq(1 .. MaxEvents)
    BY <1>1, <2>1 DEF WebKitInit
  <2>4. Len(recvCh) = 0 /\ Len(ackCh) = 0 /\ Len(mountCh) = 0 /\ Len(events) = 0 /\ Len(domEvents) = 0
    BY <1>1, <2>2 DEF WebKitInit
  <2>5. /\ Len(recvCh) <= RecvBuf /\ Len(ackCh) <= 1 /\ Len(mountCh) <= 1
        /\ Len(events) <= EventBuf /\ Len(domEvents) <= DomBuf
    BY <2>4
  <2>6. \A g \in Callers : lock = g <=> stage[g] \in {"pushing", "waiting", "returning"}
    BY <1>1 DEF WebKitInit
  <2>7. /\ stage \in [Callers -> {"idle", "locking", "pushing", "waiting", "returning"}]
        /\ call \in [Callers -> Promise!Calls \cup {Promise!NoCall}]
        /\ answer \in [Callers -> Promise!Answers \cup {Promise!NoAnswer}]
    BY <1>1 DEF WebKitInit
  <2>8. /\ domRev \in 0 .. MaxRev /\ rev \in 0 .. MaxRev /\ injected \in 0 .. MaxEvents
        /\ hand \in Frames \cup {NoFrame} /\ relay \in EventFrames \cup {NoFrame}
        /\ lock \in Callers \cup {NoCaller}
    BY <1>1 DEF WebKitInit
  <2>9. torn \in BOOLEAN /\ done \in BOOLEAN /\ trClosed \in BOOLEAN /\ receiving \in BOOLEAN /\ relaying \in BOOLEAN
    BY <1>1 DEF WebKitInit
  <2> QED BY <2>3, <2>5, <2>6, <2>7, <2>8, <2>9 DEF WebKitTypeOK
<1>2. ASSUME WebKitInit PROVE CallsMatchStages /\ LoopsHold
  BY <1>2 DEF WebKitInit, CallsMatchStages, LoopsHold, InCall
<1>3. ASSUME WebKitInit PROVE AnswerInv /\ RevisionInv
  BY <1>3 DEF WebKitInit, AnswerInv, OneAnswer, TheCallersAnswer, InStream, IsAnswer, Waiting,
     RevisionInv, Ahead, InCall, NoFrame, Frame
<1>4. ASSUME WebKitInit PROVE EventInv
  <2>1. Out = 0 /\ Handed = 0 /\ Streamed = 0
    <3>1. Len(seen) = 0 /\ Len(events) = 0 /\ Len(domEvents) = 0
      BY <1>4, EmptySeq DEF WebKitInit
    <3>2. Out = 0
      BY <3>1 DEF Out
    <3>3. hand.kind # "event" /\ relay = NoFrame /\ injected = 0
      BY <1>4 DEF WebKitInit, NoFrame, Frame
    <3> QED BY <3>1, <3>2, <3>3 DEF Handed, Streamed
  <2> QED BY <1>4, <2>1 DEF WebKitInit, EventInv, StreamInOrder, StreamUpToRelay, IsEvent, NoFrame, Frame
<1> QED BY <1>1, <1>2, <1>3, <1>4 DEF WebKitInv

\* Every step keeps it.
LEMMA WebKitNextInv == WebKitInv /\ [WebKitNext]_webkitVars => WebKitInv'
  BY TypesKept, CallsMatchKept, LoopsKept, AnswerKept, RevisionKept, EventsKept DEF WebKitInv

\* The inductive invariant of the bridge: where the one answer is, whose revision is ahead, which
\* events are where.
THEOREM WebKitInvariant == WebKitSpec => []WebKitInv
  BY WebKitInitInv, WebKitNextInv, PTL DEF WebKitSpec

\* Every variable keeps its type, every channel its capacity, and callMu is held by whoever is past it.
THEOREM WebKitTypesHold == WebKitSpec => []WebKitTypeOK
<1>1. WebKitInv => WebKitTypeOK
  BY DEF WebKitInv
<1> QED BY <1>1, WebKitInvariant, PTL

\* What is in a channel or in the hand is under way if it is an answer.
LEMMA InFlightPlaces ==
  ASSUME WebKitTypeOK
  PROVE  \A p : p \in InFlight <=>
           \/ \E i \in DOMAIN recvCh : IsAnswer(recvCh[i]) /\ p = <<"recvCh", i, recvCh[i]>>
           \/ IsAnswer(hand) /\ p = <<"hand", 1, hand>>
           \/ \E i \in DOMAIN ackCh : p = <<"ackCh", i, ackCh[i]>>
           \/ \E i \in DOMAIN mountCh : p = <<"mountCh", i, mountCh[i]>>
<1>1. \A f \in Frames \cup {NoFrame} : f.kind \notin {"none", "event"} <=> IsAnswer(f)
  BY FrameFacts DEF IsAnswer
<1>2. /\ \A i \in DOMAIN recvCh : recvCh[i] \in Frames
      /\ \A i \in DOMAIN ackCh : ackCh[i].kind = "domAck"
      /\ \A i \in DOMAIN mountCh : mountCh[i].kind = "mountAck"
      /\ hand \in Frames \cup {NoFrame}
  BY FrameFacts DEF WebKitTypeOK
<1>3. \A p : p \in FramesOf("hand", <<hand>>) <=> p = <<"hand", 1, hand>>
  BY DEF FramesOf
<1>4. \A p : p \in FramesOf("recvCh", recvCh) <=> \E i \in DOMAIN recvCh : p = <<"recvCh", i, recvCh[i]>>
  BY DEF FramesOf
<1>5. \A p : p \in FramesOf("ackCh", ackCh) <=> \E i \in DOMAIN ackCh : p = <<"ackCh", i, ackCh[i]>>
  BY DEF FramesOf
<1>6. \A p : p \in FramesOf("mountCh", mountCh) <=> \E i \in DOMAIN mountCh : p = <<"mountCh", i, mountCh[i]>>
  BY DEF FramesOf
<1> QED BY <1>1, <1>2, <1>3, <1>4, <1>5, <1>6 DEF InFlight

\* engine.go on the single call in flight: while a goroutine waits, its answer, and nothing else, is
\* under way; otherwise nothing is.
THEOREM OneAnswerHolds == WebKitSpec => []OneAnswerInFlight
<1>1. WebKitInv => OneAnswerInFlight
  <2>1. SUFFICES ASSUME WebKitInv, ~done
                 PROVE /\ \A p, q \in InFlight : p = q
                       /\ {p[3] : p \in InFlight} = IF Waiting THEN {AnswerFrame(lock)} ELSE {}
    BY DEF OneAnswerInFlight, Waiting
  <2>2. WebKitTypeOK /\ OneAnswer /\ TheCallersAnswer
    BY <2>1 DEF WebKitInv, AnswerInv
  <2>3. \A p \in InFlight : \/ \E i \in DOMAIN recvCh : IsAnswer(recvCh[i]) /\ p = <<"recvCh", i, recvCh[i]>>
                            \/ IsAnswer(hand) /\ p = <<"hand", 1, hand>>
                            \/ \E i \in DOMAIN ackCh : p = <<"ackCh", i, ackCh[i]>>
                            \/ \E i \in DOMAIN mountCh : p = <<"mountCh", i, mountCh[i]>>
    BY <2>2, InFlightPlaces
  <2>4. /\ \A i \in DOMAIN ackCh : i = 1
        /\ \A i \in DOMAIN mountCh : i = 1
        /\ ackCh # <<>> => 1 \in DOMAIN ackCh
        /\ mountCh # <<>> => 1 \in DOMAIN mountCh
        /\ ackCh = <<>> => DOMAIN ackCh = {}
        /\ mountCh = <<>> => DOMAIN mountCh = {}
    BY <2>2 DEF WebKitTypeOK
  <2>5. \A p, q \in InFlight : p = q
    BY <2>2, <2>3, <2>4 DEF OneAnswer, InStream
  <2>6. \A p \in InFlight : p[3] = AnswerFrame(lock) /\ Waiting
    BY <2>2, <2>3, <2>4 DEF OneAnswer, TheCallersAnswer, InStream
  <2>7. Waiting => InFlight # {}
    <3>1. InStream => \E i \in DOMAIN recvCh : <<"recvCh", i, recvCh[i]>> \in InFlight
      BY <2>2, InFlightPlaces DEF InStream
    <3>2. IsAnswer(hand) => <<"hand", 1, hand>> \in InFlight
      BY <2>2, InFlightPlaces
    <3>3. ackCh # <<>> => <<"ackCh", 1, ackCh[1]>> \in InFlight
      BY <2>2, <2>4, InFlightPlaces
    <3>4. mountCh # <<>> => <<"mountCh", 1, mountCh[1]>> \in InFlight
      BY <2>2, <2>4, InFlightPlaces
    <3> QED BY <2>2, <3>1, <3>2, <3>3, <3>4 DEF OneAnswer
  <2> QED BY <2>5, <2>6, <2>7
<1> QED BY <1>1, WebKitInvariant, PTL

\* Whenever no batch is on its way and none was refused half way through, the revision the engine
\* reports is the DOM's.
THEOREM RevisionsStayTogether == WebKitSpec => []RevisionAgrees
<1>1. WebKitInv => RevisionAgrees
  BY DEF WebKitInv, RevisionInv, RevisionAgrees, Ahead, InCall
<1> QED BY <1>1, WebKitInvariant, PTL

\* Two sequences one after the other, position by position.
IsConcat(p, s, t) ==
  /\ Len(p) = Len(s) + Len(t)
  /\ \A i \in 1 .. Len(s) : p[i] = s[i]
  /\ \A i \in 1 .. Len(t) : p[Len(s) + i] = t[i]

\* Concatenation is just that.
LEMMA ConcatAt ==
  ASSUME NEW S, NEW s \in Seq(S), NEW t \in Seq(S)
  PROVE  s \o t \in Seq(S) /\ IsConcat(s \o t, s, t)
  BY DEF IsConcat

\* A function on 1 .. n is a sequence.
LEMMA FunctionIsSeq ==
  ASSUME NEW S, NEW n \in Nat, NEW f \in [1 .. n -> S]
  PROVE  f \in Seq(S) /\ Len(f) = n
  OBVIOUS

\* What stands where between the reader and the input.
LEMMA PipelinePlaces ==
  ASSUME WebKitTypeOK
  PROVE  /\ DOMAIN Pipeline = 1 .. Out + Len(recvCh) + Len(domEvents) + 2
         /\ \A i \in 1 .. Out : Pipeline[i] = Frame("event", (seen \o events)[i])
         /\ Pipeline[Out + 1] = hand
         /\ \A i \in 1 .. Len(recvCh) : Pipeline[Out + 1 + i] = recvCh[i]
         /\ Pipeline[Out + Len(recvCh) + 2] = relay
         /\ \A i \in 1 .. Len(domEvents) :
              Pipeline[Out + Len(recvCh) + 2 + i] = Frame("event", domEvents[i])
<1> DEFINE out == seen \o events
           F == Frames \cup {NoFrame}
           A == AsFrames(out)
           B == AsFrames(domEvents)
           P1 == A \o <<hand>>
           P2 == P1 \o recvCh
           P3 == P2 \o <<relay>>
<1>1. out \in Seq(1 .. MaxEvents) /\ Len(out) = Out /\ Out \in Nat /\ DOMAIN out = 1 .. Out
  BY DEF WebKitTypeOK, Out
<1>2. /\ domEvents \in Seq(1 .. MaxEvents) /\ Len(domEvents) \in Nat
      /\ DOMAIN domEvents = 1 .. Len(domEvents)
      /\ recvCh \in Seq(F) /\ Len(recvCh) \in Nat /\ DOMAIN recvCh = 1 .. Len(recvCh)
      /\ hand \in F /\ relay \in F
  BY DEF WebKitTypeOK, Frames
<1>3. A \in Seq(F) /\ Len(A) = Out /\ \A i \in 1 .. Out : A[i] = Frame("event", out[i])
  <2>1. A \in [1 .. Out -> F]
    BY <1>1, FrameFacts DEF AsFrames, Frames
  <2>2. \A i \in 1 .. Out : A[i] = Frame("event", out[i])
    BY <1>1 DEF AsFrames
  <2> HIDE DEF A
  <2> QED BY <1>1, <2>1, <2>2, FunctionIsSeq
<1>4. B \in Seq(F) /\ Len(B) = Len(domEvents)
      /\ \A i \in 1 .. Len(domEvents) : B[i] = Frame("event", domEvents[i])
  <2>1. B \in [1 .. Len(domEvents) -> F]
    BY <1>2, FrameFacts DEF AsFrames, Frames
  <2>2. \A i \in 1 .. Len(domEvents) : B[i] = Frame("event", domEvents[i])
    BY <1>2 DEF AsFrames
  <2> HIDE DEF B
  <2> QED BY <1>2, <2>1, <2>2, FunctionIsSeq
<1> HIDE DEF A, B, out, F
<1>5. P1 \in Seq(F) /\ Len(P1) = Out + 1 /\ P1[Out + 1] = hand /\ \A i \in 1 .. Out : P1[i] = A[i]
  <2>1. <<hand>> \in Seq(F) /\ Len(<<hand>>) = 1 /\ <<hand>>[1] = hand
    BY <1>2
  <2>2. P1 \in Seq(F) /\ IsConcat(P1, A, <<hand>>)
    BY <1>3, <2>1, ConcatAt
  <2> HIDE DEF P1
  <2> QED BY <1>1, <1>3, <2>1, <2>2 DEF IsConcat
<1> HIDE DEF P1
<1>6. /\ P2 \in Seq(F) /\ Len(P2) = Out + 1 + Len(recvCh)
      /\ \A i \in 1 .. Out + 1 : P2[i] = P1[i]
      /\ \A i \in 1 .. Len(recvCh) : P2[Out + 1 + i] = recvCh[i]
  <2>1. P2 \in Seq(F) /\ IsConcat(P2, P1, recvCh)
    BY <1>2, <1>5, ConcatAt
  <2> HIDE DEF P2
  <2> QED BY <1>1, <1>2, <1>5, <2>1 DEF IsConcat
<1> HIDE DEF P2
<1>7. /\ P3 \in Seq(F) /\ Len(P3) = Out + Len(recvCh) + 2
      /\ \A i \in 1 .. Out + 1 + Len(recvCh) : P3[i] = P2[i]
      /\ P3[Out + Len(recvCh) + 2] = relay
  <2>1. <<relay>> \in Seq(F) /\ Len(<<relay>>) = 1 /\ <<relay>>[1] = relay
    BY <1>2
  <2>2. P3 \in Seq(F) /\ IsConcat(P3, P2, <<relay>>)
    BY <1>6, <2>1, ConcatAt
  <2> HIDE DEF P3
  <2> QED BY <1>1, <1>2, <1>6, <2>1, <2>2 DEF IsConcat
<1> HIDE DEF P3
<1> DEFINE P == P3 \o B
<1>8. /\ P \in Seq(F) /\ Len(P) = Out + Len(recvCh) + Len(domEvents) + 2
      /\ \A i \in 1 .. Out + Len(recvCh) + 2 : P[i] = P3[i]
      /\ \A i \in 1 .. Len(domEvents) : P[Out + Len(recvCh) + 2 + i] = B[i]
  <2>1. P \in Seq(F) /\ IsConcat(P, P3, B)
    BY <1>4, <1>7, ConcatAt
  <2> HIDE DEF P
  <2> QED BY <1>1, <1>2, <1>4, <1>7, <2>1 DEF IsConcat
<1>9. Pipeline = P
  BY DEF Pipeline, P, P3, P2, P1, A, B, out
<1> HIDE DEF P
<1>10. DOMAIN P = 1 .. Out + Len(recvCh) + Len(domEvents) + 2
  BY <1>8
<1>11. \A i \in 1 .. Out : P[i] = Frame("event", out[i])
  BY <1>1, <1>2, <1>3, <1>5, <1>6, <1>7, <1>8
<1>12. P[Out + 1] = hand
  <2>1. /\ Out + 1 \in 1 .. Out + 1
        /\ Out + 1 \in 1 .. Out + 1 + Len(recvCh)
        /\ Out + 1 \in 1 .. Out + Len(recvCh) + 2
    BY <1>1, <1>2
  <2>2. P[Out + 1] = P3[Out + 1] /\ P3[Out + 1] = P2[Out + 1] /\ P2[Out + 1] = P1[Out + 1]
    BY <1>6, <1>7, <1>8, <2>1
  <2> QED BY <1>5, <2>2
<1>13. ASSUME NEW i \in 1 .. Len(recvCh) PROVE P[Out + 1 + i] = recvCh[i]
  <2>1. Out + 1 + i \in 1 .. Out + 1 + Len(recvCh) /\ Out + 1 + i \in 1 .. Out + Len(recvCh) + 2
    BY <1>1, <1>2
  <2>2. P2[Out + 1 + i] = recvCh[i]
    BY <1>6
  <2> QED BY <1>7, <1>8, <2>1, <2>2
<1>14. P[Out + Len(recvCh) + 2] = relay
  <2>1. Out + Len(recvCh) + 2 \in 1 .. Out + Len(recvCh) + 2
    BY <1>1, <1>2
  <2>2. P[Out + Len(recvCh) + 2] = P3[Out + Len(recvCh) + 2]
    BY <1>8, <2>1
  <2> QED BY <1>7, <2>2
<1>15. \A i \in 1 .. Len(domEvents) : P[Out + Len(recvCh) + 2 + i] = Frame("event", domEvents[i])
  BY <1>1, <1>2, <1>4, <1>8
<1> QED BY <1>9, <1>10, <1>11, <1>12, <1>13, <1>14, <1>15 DEF out

\* Input events come out in the order they went in, and while the engine is open each of them is
\* somewhere between the two ends, in its place.
THEOREM EventsStayInOrder == WebKitSpec => []EventsInOrder
<1>1. ASSUME WebKitInv PROVE EventsInOrder
  <2> DEFINE out == seen \o events
             a == Out + 1
             b == Out + Len(recvCh) + 2
             P == Pipeline
             at == {i \in DOMAIN P : P[i].kind = "event"}
  <2>1. /\ WebKitTypeOK /\ EventInv /\ LoopsHold
        /\ Len(recvCh) \in Nat /\ Len(domEvents) \in Nat /\ Out \in Nat /\ injected \in Nat
        /\ Len(seen) \in Nat /\ Len(events) \in Nat
        /\ DOMAIN recvCh = 1 .. Len(recvCh)
    BY <1>1 DEF WebKitInv, WebKitTypeOK, Out
  <2>2. out \in Seq(1 .. MaxEvents) /\ Len(out) = Out /\ \A i \in 1 .. Out : out[i] = i
    <3>1. out \in Seq(1 .. MaxEvents) /\ IsConcat(out, seen, events)
      BY <2>1, ConcatAt DEF WebKitTypeOK
    <3>2. \A i \in 1 .. Len(events) : out[Len(seen) + i] = Len(seen) + i
      BY <2>1, <3>1 DEF IsConcat, EventInv
    <3>3. \A i \in 1 .. Out : i \in 1 .. Len(seen) \/ i - Len(seen) \in 1 .. Len(events)
      BY <2>1 DEF Out
    <3> HIDE DEF out
    <3>4. ASSUME NEW i \in 1 .. Out PROVE out[i] = i
      <4>1. CASE i \in 1 .. Len(seen)
        BY <2>1, <3>1, <4>1 DEF IsConcat, EventInv
      <4>2. CASE i - Len(seen) \in 1 .. Len(events)
        <5>1. Len(seen) + (i - Len(seen)) = i
          BY <2>1
        <5> QED BY <3>2, <4>2, <5>1
      <4> QED BY <3>3, <4>1, <4>2
    <3> QED BY <3>1, <3>4 DEF IsConcat, Out
  <2>3. out = [i \in 1 .. Len(out) |-> i]
    <3>1. out \in [1 .. Len(out) -> 1 .. MaxEvents]
      BY <2>2, LenProperties
    <3> HIDE DEF out
    <3> QED BY <2>2, <3>1
  <2>4. SUFFICES ASSUME ~done
                 PROVE  /\ {P[i].v : i \in at} = 1 .. injected
                        /\ \A i, j \in at : i < j => P[i].v < P[j].v
    BY <2>3 DEF EventsInOrder
  <2>5. StreamInOrder /\ StreamUpToRelay
    BY <2>1, <2>4 DEF EventInv
  <2>6. /\ Handed \in Nat /\ Streamed \in Int /\ Handed <= Streamed /\ Out <= Handed
        /\ Streamed <= injected - Len(domEvents)
    BY <2>1, <2>5 DEF Handed, Streamed, StreamUpToRelay
  <2> HIDE DEF P, out
  <2>7. /\ DOMAIN P = 1 .. b + Len(domEvents)
        /\ \A i \in 1 .. Out : P[i] = Frame("event", i)
        /\ P[a] = hand
        /\ \A i \in 1 .. Len(recvCh) : P[a + i] = recvCh[i]
        /\ P[b] = relay
        /\ \A i \in 1 .. Len(domEvents) : P[b + i] = Frame("event", injected - Len(domEvents) + i)
    <3>1. \A i \in 1 .. Len(domEvents) : domEvents[i] = injected - Len(domEvents) + i
      BY <2>1 DEF EventInv
    <3>2. Out + Len(recvCh) + Len(domEvents) + 2 = b + Len(domEvents)
      BY <2>1
    <3> QED BY <2>1, <2>2, <3>1, <3>2, PipelinePlaces, ZenonT(60) DEF P, out
  \* Each kind of place has its range of numbers.
  <2>8. \A i \in DOMAIN P : \/ i \in 1 .. Out
                            \/ i = a
                            \/ i - a \in 1 .. Len(recvCh) /\ a + (i - a) = i
                            \/ i = b
                            \/ i - b \in 1 .. Len(domEvents) /\ b + (i - b) = i
    <3>1. DOMAIN P = 1 .. b + Len(domEvents) /\ b = a + Len(recvCh) + 1 /\ a = Out + 1
      BY <2>1, <2>7
    <3>2. ASSUME NEW i \in 1 .. b + Len(domEvents)
          PROVE  \/ i \in 1 .. Out
                 \/ i = a
                 \/ i - a \in 1 .. Len(recvCh) /\ a + (i - a) = i
                 \/ i = b
                 \/ i - b \in 1 .. Len(domEvents) /\ b + (i - b) = i
      <4> HIDE DEF a, b
      <4>1. /\ Out \in Nat /\ a \in Nat /\ b \in Nat /\ i \in Nat
            /\ Len(recvCh) \in Nat /\ Len(domEvents) \in Nat
        BY <2>1, <3>1
      <4> QED BY <3>1, <4>1
    <3> QED BY <3>1, <3>2
  <2>0. \A n : Frame("event", n).kind = "event" /\ Frame("event", n).v = n
    BY DEF Frame
  <2>9. \A i \in 1 .. Out : P[i].kind = "event" /\ P[i].v = i
    BY <2>0, <2>7
  <2>10. P[a].kind = "event" => P[a].v = Out + 1 /\ Handed = Out + 1
    BY <2>1, <2>7 DEF EventInv, IsEvent, Handed
  <2>11. \A i \in 1 .. Len(recvCh) : P[a + i].kind = "event" =>
           P[a + i].v \in Nat /\ Handed < P[a + i].v /\ P[a + i].v <= Streamed
    <3>1. \A i \in DOMAIN recvCh : recvCh[i] \in Frames
      BY <2>1 DEF WebKitTypeOK
    <3>2. \A i \in DOMAIN recvCh : recvCh[i].kind = "event" =>
            recvCh[i].v \in Nat /\ Handed < recvCh[i].v /\ recvCh[i].v <= Streamed
      BY <2>5, <2>6, <3>1, FrameFacts DEF StreamInOrder, StreamUpToRelay, IsEvent
    <3> QED BY <2>1, <2>7, <3>2
  <2>12. P[b].kind = "event" => P[b].v = Streamed + 1 /\ Streamed + 1 = injected - Len(domEvents)
    <3>1. NoFrame.kind # "event"
      BY FrameFacts
    <3> QED BY <2>1, <2>7, <3>1 DEF EventInv, Streamed
  <2>13. \A i \in 1 .. Len(domEvents) :
           P[b + i].kind = "event" /\ P[b + i].v = injected - Len(domEvents) + i
    BY <2>0, <2>7
  <2>14. ASSUME NEW i \in at, NEW j \in at, i < j PROVE P[i].v < P[j].v
    <3>0. /\ i \in DOMAIN P /\ j \in DOMAIN P /\ i \in Nat /\ j \in Nat
          /\ P[i].kind = "event" /\ P[j].kind = "event"
      BY <2>1, <2>7
    <3>1. CASE i \in 1 .. Out
      <4>1. P[i].v = i /\ i <= Out
        BY <2>1, <2>9, <3>1
      <4>2. CASE j \in 1 .. Out
        BY <2>9, <2>14, <4>1, <4>2
      <4>3. CASE j = a
        BY <2>1, <2>10, <3>0, <4>1, <4>3
      <4>4. CASE j - a \in 1 .. Len(recvCh) /\ a + (j - a) = j
        BY <2>6, <2>11, <3>0, <4>1, <4>4, <2>1, SMTT(30)
      <4>5. CASE j = b
        BY <2>1, <2>6, <2>12, <3>0, <4>1, <4>5
      <4>6. CASE j - b \in 1 .. Len(domEvents) /\ b + (j - b) = j
        <5>1. P[j].v = injected - Len(domEvents) + (j - b)
          BY <2>13, <4>6
        <5>2. injected - Len(domEvents) + (j - b) > Out
          BY <2>1, <2>6, <3>0, <4>6, SMTT(30)
        <5>3. P[i].v <= Out /\ P[i].v \in Nat
          BY <3>0, <4>1
        <5> QED BY <2>1, <3>0, <5>1, <5>2, <5>3
      <4> QED BY <2>8, <3>0, <4>2, <4>3, <4>4, <4>5, <4>6
    <3>2. CASE i = a
      <4>1. P[i].v = Out + 1 /\ Handed = Out + 1
        BY <2>10, <3>0, <3>2
      <4>2. CASE j - a \in 1 .. Len(recvCh) /\ a + (j - a) = j
        BY <2>1, <2>11, <3>0, <4>1, <4>2
      <4>3. CASE j = b
        BY <2>1, <2>6, <2>12, <3>0, <4>1, <4>3
      <4>4. CASE j - b \in 1 .. Len(domEvents) /\ b + (j - b) = j
        BY <2>1, <2>6, <2>13, <4>1, <4>4
      <4>5. j \notin 1 .. Out /\ j # a
        BY <2>1, <2>14, <3>0, <3>2
      <4> QED BY <2>8, <3>0, <4>2, <4>3, <4>4, <4>5
    <3>3. CASE i - a \in 1 .. Len(recvCh) /\ a + (i - a) = i
      <4>1. CASE j - a \in 1 .. Len(recvCh) /\ a + (j - a) = j
        <5>1. P[i] = recvCh[i - a] /\ P[j] = recvCh[j - a] /\ i - a < j - a
          BY <2>1, <2>7, <2>14, <3>3, <4>1
        <5> QED BY <2>1, <2>5, <2>14, <3>3, <4>1, <5>1 DEF StreamInOrder, IsEvent
      <4>2. CASE j = b
        BY <2>6, <2>11, <2>12, <2>14, <3>3, <4>2
      <4>3. CASE j - b \in 1 .. Len(domEvents) /\ b + (j - b) = j
        BY <2>1, <2>6, <2>11, <2>13, <2>14, <3>3, <4>3, SMTT(30)
      <4> QED BY <2>1, <2>8, <2>14, <3>3, <4>1, <4>2, <4>3
    <3>4. CASE i = b
      BY <2>1, <2>6, <2>8, <2>12, <2>13, <2>14, <3>4, SMTT(30)
    <3>5. CASE i - b \in 1 .. Len(domEvents) /\ b + (i - b) = i
      <4>1. j - b \in 1 .. Len(domEvents) /\ b + (j - b) = j
        BY <2>1, <2>8, <2>14, <3>5
      <4> QED BY <2>1, <2>13, <2>14, <3>5, <4>1
    <3> QED BY <2>8, <3>1, <3>2, <3>3, <3>4, <3>5
  <2>15. ASSUME NEW i \in at PROVE P[i].v \in 1 .. injected
    <3>1. CASE i \in 1 .. Out
      BY <2>1, <2>6, <2>9, <3>1
    <3>2. CASE i = a
      BY <2>1, <2>6, <2>10, <2>15, <3>2
    <3>3. CASE i - a \in 1 .. Len(recvCh) /\ a + (i - a) = i
      BY <2>1, <2>6, <2>11, <2>15, <3>3
    <3>4. CASE i = b
      BY <2>1, <2>6, <2>12, <2>15, <3>4
    <3>5. CASE i - b \in 1 .. Len(domEvents) /\ b + (i - b) = i
      BY <2>1, <2>6, <2>13, <3>5
    <3> QED BY <2>8, <3>1, <3>2, <3>3, <3>4, <3>5
  <2>16. ASSUME NEW n \in 1 .. injected PROVE \E i \in at : P[i].v = n
    <3>1. CASE n <= Out
      BY <2>1, <2>7, <2>9, <3>1, SMTT(30)
    <3>2. CASE Out < n /\ n <= Handed
      <4>1. IsEvent(hand) /\ n = Out + 1
        BY <2>1, <3>2 DEF Handed, IsEvent
      <4>2. a \in DOMAIN P
        BY <2>1, <2>7
      <4> QED BY <2>7, <2>10, <4>1, <4>2 DEF IsEvent
    <3>3. CASE Handed < n /\ n <= Streamed
      <4>1. PICK k \in DOMAIN recvCh : IsEvent(recvCh[k]) /\ recvCh[k].v = Streamed
        BY <2>5, <2>6, <3>3 DEF StreamUpToRelay
      <4>2. PICK j \in DOMAIN recvCh : IsEvent(recvCh[j]) /\ recvCh[j].v = n
        <5>1. CASE n = Streamed
          BY <4>1, <5>1
        <5>2. CASE n # Streamed
          <6>1. n \in Handed + 1 .. recvCh[k].v - 1
            BY <2>6, <3>3, <4>1, <5>2
          <6> QED BY <2>5, <4>1, <6>1 DEF StreamInOrder
        <5> QED BY <5>1, <5>2
      <4>3. j \in 1 .. Len(recvCh) /\ a + j \in 1 .. b + Len(domEvents)
        BY <2>1
      <4>4. a + j \in DOMAIN P /\ P[a + j] = recvCh[j]
        BY <2>7, <4>3
      <4> QED BY <4>2, <4>4 DEF IsEvent
    <3>4. CASE Streamed < n /\ n <= injected - Len(domEvents)
      <4>1. relay # NoFrame /\ n = Streamed + 1
        BY <2>1, <3>4 DEF Streamed
      <4>2. relay.kind = "event" /\ relay.v = Streamed + 1
        BY <2>1, <4>1, FrameFacts DEF WebKitTypeOK, EventInv
      <4>3. b \in DOMAIN P
        BY <2>1, <2>7
      <4> QED BY <2>7, <4>1, <4>2, <4>3
    <3>5. CASE injected - Len(domEvents) < n
      <4>1. n - (injected - Len(domEvents)) \in 1 .. Len(domEvents)
        BY <2>1, <3>5 DEF EventInv
      <4> DEFINE k == n - (injected - Len(domEvents))
      <4>2. b + k \in DOMAIN P /\ injected - Len(domEvents) + k = n
        BY <2>1, <2>7, <4>1
      <4> HIDE DEF k
      <4>3. k \in 1 .. Len(domEvents)
        BY <4>1 DEF k
      <4> QED BY <2>13, <4>2, <4>3
    <3> QED BY <2>1, <2>6, <3>1, <3>2, <3>3, <3>4, <3>5
  <2>17. {P[i].v : i \in at} = 1 .. injected
    <3> HIDE DEF at
    <3> QED BY <2>15, <2>16
  <2> QED BY <2>14, <2>17
<1> QED BY <1>1, WebKitInvariant, PTL

-----------------------------------------------------------------------------
(* The bridge implements the interface *)

\* The start of the bridge is a start of the interface.
LEMMA PromiseInit == WebKitInit => Promise!EngineInit
  BY DEF WebKitInit, Promise!EngineInit

\* The DOM decides a call as the interface has it.
LEMMA SendDecides ==
  ASSUME WebKitInv, NEW g \in Callers, Send(g)
  PROVE  Promise!ResolveRoot(g) \/ Promise!Commit(g) \/ Promise!RefuseBatch(g) \/ Promise!Tear(g)
<1>1. call[g] # Promise!NoCall /\ answer[g] = Promise!NoAnswer
  BY DEF WebKitInv, WebKitTypeOK, CallsMatchStages, Send, Locks
<1>2. PICK a \in Promise!Answers : DomAnswers(call[g], a) /\ answer' = [answer EXCEPT ![g] = a]
  BY DEF Send
<1>3. Promise!Decides(g, a)
  BY <1>1, <1>2 DEF Promise!Decides, Send, closing
<1>4. CASE call[g].op = "root" /\ a = Promise!Ok(Promise!RootId) /\ UNCHANGED doms
  BY <1>3, <1>4 DEF Promise!ResolveRoot, doms
<1>5. CASE call[g].op = "apply" /\ call[g].base # domRev /\ a = Promise!Stale /\ UNCHANGED doms
  BY <1>3, <1>5 DEF Promise!RefuseBatch, doms
<1>6. CASE /\ call[g].op = "apply" /\ call[g].base = domRev /\ call[g].good
           /\ a = Promise!Ok(domRev + 1) /\ domRev' = domRev + 1 /\ UNCHANGED torn
  BY <1>3, <1>6 DEF Promise!Commit
<1>7. CASE /\ call[g].op = "apply" /\ call[g].base = domRev /\ ~call[g].good
           /\ a = Promise!Stale /\ domRev' \in {domRev, domRev + 1}
           /\ torn' = (torn \/ domRev' # domRev)
  BY <1>3, <1>7 DEF Promise!Tear
<1> QED BY <1>2, <1>4, <1>5, <1>6, <1>7 DEF DomAnswers

\* A batch refused by the engine itself is one the DOM would refuse.
LEMMA RejectRefuses ==
  ASSUME WebKitInv, ~done, NEW g \in Callers, Reject(g)
  PROVE  Promise!RefuseBatch(g)
<1>1. call[g] # Promise!NoCall /\ answer[g] = Promise!NoAnswer
  BY DEF WebKitInv, WebKitTypeOK, CallsMatchStages, Reject, Locks
<1>2. call[g].op = "apply" /\ call[g].base # rev
  BY DEF Reject, Fits
<1>3. \A h \in Callers : ~Ahead(h)
  BY DEF WebKitInv, WebKitTypeOK, Reject, Locks, Ahead, InCall
<1>4. torn \/ rev = domRev
  BY <1>3 DEF WebKitInv, RevisionInv
<1>5. Promise!Decides(g, Promise!Stale)
  BY <1>1 DEF Promise!Decides, Reject, closing
<1> QED BY <1>2, <1>4, <1>5 DEF Promise!RefuseBatch, Reject, doms

\* Once the engine is closed a caller may be given any answer.
LEMMA ClosedAnswers ==
  ASSUME WebKitInv, done, NEW g \in Callers,
         Reject(g) \/ CutShort(g) \/ TakeAck(g) \/ TakeMountAck(g)
  PROVE  Promise!AnyAnswer(g)
<1>1. call[g] # Promise!NoCall
  BY DEF WebKitInv, WebKitTypeOK, CallsMatchStages, Reject, Locks, CutShort, TakeAck, TakeMountAck
<1>2. UNCHANGED <<done, domRev, torn, call>>
  BY DEF Reject, CutShort, TakeAck, TakeMountAck, doms, closing
<1>3. \E a \in Promise!Answers : answer' = [answer EXCEPT ![g] = a]
  <2>1. CASE Reject(g) \/ CutShort(g)
    BY <2>1, AnswerFacts DEF Reject, CutShort
  <2>2. CASE TakeAck(g) \/ TakeMountAck(g)
    <3>1. answer' \in [Callers -> Promise!Answers \cup {Promise!NoAnswer}] /\ WebKitTypeOK
      BY <2>2, TypesKept DEF WebKitInv, WebKitTypeOK, WebKitNext, Work, CallerStep
    <3>2. PICK v : answer' = [answer EXCEPT ![g] = IF v = 0 THEN Promise!Stale ELSE Promise!Ok(v)]
      BY <2>2 DEF TakeAck, TakeMountAck, Returns
    <3>3. answer'[g] = IF v = 0 THEN Promise!Stale ELSE Promise!Ok(v)
      BY <3>1, <3>2 DEF WebKitTypeOK
    <3>4. answer'[g] \in Promise!Answers
      BY <3>1, <3>3 DEF Promise!NoAnswer, Promise!Stale, Promise!Ok
    <3> QED BY <3>2, <3>3, <3>4
  <2> QED BY <2>1, <2>2
<1> QED BY <1>1, <1>2, <1>3 DEF Promise!AnyAnswer

\* Every step of the bridge is a step of the interface, or none.
LEMMA PromiseStep ==
  ASSUME WebKitInv, [WebKitNext]_webkitVars
  PROVE  [Promise!EngineNext]_(Promise!engineVars)
<1> DEFINE Nothing == UNCHANGED <<done, domRev, torn, call, answer>>
<1>1. ASSUME NEW g \in Callers, NEW c \in Promise!Calls, Call(g, c) PROVE Promise!EngineNext
  <2>1. Promise!Start(g, c)
    BY <1>1 DEF WebKitInv, CallsMatchStages, Call, Promise!Start, doms, closing
  <2> QED BY <2>1 DEF Promise!EngineNext
<1>2. ASSUME NEW g \in Callers, CallerStep(g) PROVE Promise!EngineNext \/ Nothing
  <2>1. CASE Reject(g)
    BY <2>1, RejectRefuses, ClosedAnswers DEF Promise!EngineNext
  <2>2. CASE Send(g)
    BY <2>2, SendDecides DEF Promise!EngineNext
  <2>3. CASE Push(g)
    BY <2>3 DEF Push, doms, closing
  <2>4. CASE CutShort(g)
    <3>1. done
      BY <2>4 DEF CutShort, WebKitInv, LoopsHold
    <3> QED BY <2>4, <3>1, ClosedAnswers DEF Promise!EngineNext
  <2>5. CASE TakeAck(g) \/ TakeMountAck(g)
    <3>1. CASE done
      BY <2>5, <3>1, ClosedAnswers DEF Promise!EngineNext
    <3>2. CASE ~done
      <4>1. answer' = answer
        BY <2>5, <3>2, OwnAnswer DEF WebKitInv
      <4> QED BY <2>5, <4>1 DEF TakeAck, TakeMountAck, doms, closing
    <3> QED BY <3>1, <3>2
  <2>6. CASE Return(g)
    <3>1. answer[g] # Promise!NoAnswer
      BY <2>6 DEF WebKitInv, CallsMatchStages, Return
    <3>2. Promise!Finish(g)
      BY <2>6, <3>1 DEF Return, Promise!Finish, doms, closing
    <3> QED BY <3>2 DEF Promise!EngineNext
  <2> QED BY <1>2, <2>1, <2>2, <2>3, <2>4, <2>5, <2>6 DEF CallerStep
<1>3. CASE CloseDone
  <2>1. Promise!Shut
    BY <1>3 DEF CloseDone, Promise!Shut, doms, callers
  <2> QED BY <2>1 DEF Promise!EngineNext
<1>4. RecvTake \/ RecvRoute \/ RecvStop \/ Inject \/ RelayTake \/ RelayPush \/ RelayStop \/ Read
        \/ CloseTransport \/ UNCHANGED webkitVars => Nothing
  BY DEF RecvTake, RecvRoute, RecvStop, Inject, RelayTake, RelayPush, RelayStop, Read,
     CloseTransport, webkitVars, doms, callers, closing
<1>5. Nothing => UNCHANGED Promise!engineVars
  BY DEF Promise!engineVars
<1> QED
  BY <1>1, <1>2, <1>3, <1>4, <1>5 DEF WebKitNext, Work

\* engine/engine.go: every call takes effect at one moment between its start and its return, and
\* returns what was decided then.
THEOREM BridgeKeepsPromise == WebKitSpec => KeepsPromise
<1>1. WebKitInv /\ [WebKitNext]_webkitVars => [Promise!EngineNext]_(Promise!engineVars)
  BY PromiseStep
<1> QED BY <1>1, PromiseInit, WebKitInvariant, PTL DEF WebKitSpec, KeepsPromise, Promise!EngineSpec

=============================================================================
