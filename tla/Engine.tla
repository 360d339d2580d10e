------------------------------- MODULE Engine -------------------------------
(***************************************************************************)
(* What engine/engine.go promises of a rendering engine that several       *)
(* goroutines call: a call takes effect at one moment between its start    *)
(* and its return, and returns what that moment decided.  A batch built on *)
(* the committed revision commits the next one, any other batch is refused *)
(* and changes nothing.  Nothing is promised of the answers of an engine   *)
(* that has been closed.                                                   *)
(***************************************************************************)
EXTENDS Integers

CONSTANTS
  Callers,   \* goroutines that call the engine
  MaxRev     \* bound: batches are built on revisions below it

\* A batch and the revision it was built on.  A batch that is not good runs
\* into a record that cannot be decoded.
Batch == [op : {"apply"}, base : 0 .. MaxRev - 1, good : BOOLEAN]
RootCall == [op |-> "root", base |-> 0, good |-> TRUE]
NoCall == [op |-> "none", base |-> 0, good |-> TRUE]
Calls == Batch \cup {RootCall}

\* What a call returns: a revision or the root's node id, or an error.
Ok(v) == [status |-> "ok", v |-> v]
Stale == [status |-> "stale", v |-> 0]      \* ErrRevisionMismatch
Closed == [status |-> "closed", v |-> 0]
NoAnswer == [status |-> "none", v |-> 0]
RootId == 1
Answers == {Ok(v) : v \in 1 .. MaxRev} \cup {Stale, Closed, Ok(RootId)}

VARIABLES
  open,      \* the engine has not been closed
  domRev,    \* the committed revision
  torn,      \* a batch that was refused has committed
  call,      \* goroutine -> its call, or NoCall
  answer     \* goroutine -> what its call will return, or NoAnswer

engineVars == <<open, domRev, torn, call, answer>>

EngineInit ==
  /\ open = TRUE
  /\ domRev = 0
  /\ torn = FALSE
  /\ call = [g \in Callers |-> NoCall]
  /\ answer = [g \in Callers |-> NoAnswer]

Start(g, c) ==
  /\ call[g] = NoCall
  /\ call' = [call EXCEPT ![g] = c]
  /\ UNCHANGED <<open, domRev, torn, answer>>

Decides(g, a) ==
  /\ call[g] # NoCall
  /\ answer[g] = NoAnswer
  /\ answer' = [answer EXCEPT ![g] = a]
  /\ UNCHANGED <<open, call>>

ResolveRoot(g) ==
  /\ call[g].op = "root"
  /\ Decides(g, Ok(RootId))
  /\ UNCHANGED <<domRev, torn>>

Commit(g) ==
  /\ call[g].op = "apply"
  /\ call[g].good
  /\ call[g].base = domRev
  /\ Decides(g, Ok(domRev + 1))
  /\ domRev' = domRev + 1
  /\ UNCHANGED torn

\* A stale batch; after a torn one, no batch need fit any more.
RefuseBatch(g) ==
  /\ call[g].op = "apply"
  /\ call[g].base # domRev \/ torn
  /\ Decides(g, Stale)
  /\ UNCHANGED <<domRev, torn>>

\* A batch that cannot be decoded to its end is reported stale, and what came
\* before the bad record stays, a commit included.
Tear(g) ==
  /\ call[g].op = "apply"
  /\ ~call[g].good
  /\ call[g].base = domRev
  /\ Decides(g, Stale)
  /\ domRev' \in {domRev, domRev + 1}
  /\ torn' = (torn \/ domRev' # domRev)

\* Once closed, a call may return anything.
AnyAnswer(g) ==
  /\ ~open
  /\ call[g] # NoCall
  /\ answer' \in {[answer EXCEPT ![g] = a] : a \in Answers}
  /\ UNCHANGED <<open, domRev, torn, call>>

Finish(g) ==
  /\ answer[g] # NoAnswer
  /\ call' = [call EXCEPT ![g] = NoCall]
  /\ answer' = [answer EXCEPT ![g] = NoAnswer]
  /\ UNCHANGED <<open, domRev, torn>>

Shut ==
  /\ open
  /\ open' = FALSE
  /\ UNCHANGED <<domRev, torn, call, answer>>

EngineNext ==
  \/ \E g \in Callers, c \in Calls : Start(g, c)
  \/ \E g \in Callers :
       ResolveRoot(g) \/ Commit(g) \/ RefuseBatch(g) \/ Tear(g) \/ AnyAnswer(g) \/ Finish(g)
  \/ Shut

EngineSpec == EngineInit /\ [][EngineNext]_engineVars

=============================================================================
