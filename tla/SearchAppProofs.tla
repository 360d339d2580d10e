-------------------------- MODULE SearchAppProofs --------------------------
(***************************************************************************)
(* Theorems about SearchApp for any texts, corpus and manifests, any       *)
(* number of page loads and searches, and any timeout that is not longer   *)
(* than a signature lasts.                                                 *)
(***************************************************************************)
EXTENDS SearchApp, TLAPS

-----------------------------------------------------------------------------
(***************************************************************************)
(* Types.                                                                  *)
(***************************************************************************)

\* A call with another phase is a call, with the query it had.
LEMMA PhaseChanged ==
  ASSUME call \in [PageId -> [ReqId -> Call]], NEW p \in PageId,
         NEW i \in ReqId, NEW f \in Phases,
         call' = [call EXCEPT ![p][i].phase = f]
  PROVE  /\ call' \in [PageId -> [ReqId -> Call]]
         /\ call'[p][i].phase = f
         /\ \A q \in PageId, j \in ReqId : call'[q][j].query = call[q][j].query
         /\ \A q \in PageId, j \in ReqId :
              q # p \/ j # i => call'[q][j] = call[q][j]
<1>. DEFINE c == [call[p][i] EXCEPT !.phase = f]
            row == [call[p] EXCEPT ![i] = c]
<1>1. call[p] \in [ReqId -> Call] /\ call[p][i] \in Call
  OBVIOUS
<1>2. c \in Call /\ c.query = call[p][i].query /\ c.phase = f
  BY <1>1 DEF Call
<1>3. call' = [call EXCEPT ![p] = row]
  OBVIOUS
<1>. HIDE DEF c
<1>4. /\ row \in [ReqId -> Call] /\ row[i] = c
      /\ \A j \in ReqId : j # i => row[j] = call[p][j]
  BY <1>1, <1>2
<1>. HIDE DEF row
<1>5. /\ call' \in [PageId -> [ReqId -> Call]] /\ call'[p] = row
      /\ \A q \in PageId : q # p => call'[q] = call[q]
  BY <1>3, <1>4
<1>. QED
  BY <1>2, <1>4, <1>5

\* A new call takes its place.
LEMMA CallMade ==
  ASSUME call \in [PageId -> [ReqId -> Call]], NEW p \in PageId,
         NEW i \in ReqId, NEW q \in Texts,
         call' = [call EXCEPT ![p][i] = [phase |-> "sent", query |-> q]]
  PROVE  /\ call' \in [PageId -> [ReqId -> Call]]
         /\ call'[p][i].phase = "sent"
         /\ \A s \in PageId, j \in ReqId :
              s # p \/ j # i => call'[s][j] = call[s][j]
<1>. DEFINE c == [phase |-> "sent", query |-> q]
            row == [call[p] EXCEPT ![i] = c]
<1>1. c \in Call /\ c.phase = "sent"
  BY DEF Call, Phases
<1>2. call' = [call EXCEPT ![p] = row]
  OBVIOUS
<1>. HIDE DEF c
<1>3. row \in [ReqId -> Call] /\ row[i] = c
      /\ \A j \in ReqId : j # i => row[j] = call[p][j]
  BY <1>1
<1>. HIDE DEF row
<1>4. /\ call' \in [PageId -> [ReqId -> Call]] /\ call'[p] = row
      /\ \A s \in PageId : s # p => call'[s] = call[s]
  BY <1>2, <1>3
<1>. QED
  BY <1>1, <1>3, <1>4

LEMMA SubmitTypes ==
  ASSUME SearchTypeOK, SubmitSearch
  PROVE  SearchTypeOK' /\ nextReq' \in ReqId
<1>1. /\ nextReq' = nextReq + 1 /\ pending' = nextReq' /\ nextReq < MaxReq
      /\ nextReq \in 0 .. MaxReq /\ MaxReq \in Nat
  BY SearchAssumption DEF SubmitSearch, SearchTypeOK
<1>2. nextReq' \in ReqId /\ nextReq' \in 0 .. MaxReq /\ pending' \in 0 .. MaxReq
  BY <1>1 DEF ReqId
<1>3. status'.query \in Texts
  BY SearchAssumption DEF SubmitSearch, Line
<1>4. call' \in [PageId -> [ReqId -> Call]]
  BY <1>2, CallMade DEF SubmitSearch, SearchTypeOK
<1>. QED
  BY <1>2, <1>3, <1>4 DEF SubmitSearch, SearchTypeOK

LEMMA DeliverTypes ==
  ASSUME SearchTypeOK, NEW p \in PageId, NEW i \in ReqId,
         ServerAnswers(p, i) \/ CallFails(p, i) \/ Deliver(p, i)
  PROVE  SearchTypeOK'
<1>. USE DEF SearchTypeOK, Phases
<1>1. CASE ServerAnswers(p, i)
  <2>1. PICK f \in {"ok", "refused"} : call' = [call EXCEPT ![p][i].phase = f]
    BY <1>1 DEF ServerAnswers
  <2>2. call' \in [PageId -> [ReqId -> Call]]
    BY <2>1, PhaseChanged
  <2>. QED
    BY <1>1, <2>2 DEF ServerAnswers, screen
<1>2. CASE CallFails(p, i)
  <2>1. call' \in [PageId -> [ReqId -> Call]]
    BY <1>2, PhaseChanged DEF CallFails
  <2>. QED
    BY <1>2, <2>1 DEF CallFails, screen
<1>3. CASE DeliverElsewhere(p, i)
  <2>1. call' \in [PageId -> [ReqId -> Call]]
    BY <1>3, PhaseChanged DEF DeliverElsewhere
  <2>. QED
    BY <1>3, <2>1 DEF DeliverElsewhere, screen
<1>4. ASSUME Delivered(p, i), pending' \in {pending, NoReq}, status'.query \in Texts
      PROVE  SearchTypeOK'
  <2>1. call' \in [PageId -> [ReqId -> Call]] /\ robbed' \in BOOLEAN
    BY <1>4, PhaseChanged DEF Delivered
  <2>2. pending' \in 0 .. MaxReq
    BY <1>4, SearchAssumption DEF NoReq
  <2>. QED
    BY <1>4, <2>1, <2>2 DEF Delivered
<1>5. CASE DeliverOther(p, i) \/ DeliverFailure(p, i) \/ DeliverCut(p, i)
  <2>1. Line("failed").query \in Texts /\ Line("bad response").query \in Texts
    BY SearchAssumption DEF Line
  <2>2. /\ Delivered(p, i)
        /\ pending' \in {pending, NoReq}
        /\ status' \in {status, Line("failed"), Line("bad response")}
    BY <1>5 DEF DeliverOther, DeliverFailure, DeliverCut
  <2>. QED
    BY <1>4, <2>1, <2>2
<1>6. CASE DeliverResults(p, i)
  <2>1. call[p][i].query \in Texts
    BY DEF Call
  <2>. QED
    BY <1>4, <1>6, <2>1 DEF DeliverResults
<1>. QED
  BY <1>1, <1>2, <1>3, <1>5, <1>6 DEF Deliver

LEMMA LoadTypes ==
  ASSUME SearchTypeOK, Load
  PROVE  SearchTypeOK'
<1>1. page' \in PageId
  BY SearchAssumption DEF Load, SearchTypeOK, PageId
<1>2. 0 \in 0 .. MaxReq
  BY SearchAssumption
<1>3. query' \in Texts /\ status'.query \in Texts
  BY SearchAssumption DEF Load, Line
<1>. QED
  BY <1>1, <1>2, <1>3 DEF Load, SearchTypeOK, NoReq

LEMMA TypesStep == SearchTypeOK /\ [Next]_vars => SearchTypeOK'
<1>. SUFFICES ASSUME SearchTypeOK, [Next]_vars
              PROVE  SearchTypeOK'
  OBVIOUS
<1>1. ASSUME NEW x \in Texts, Type(x)
      PROVE  SearchTypeOK'
  BY <1>1 DEF Type, SearchTypeOK
<1>2. CASE SubmitSearch
  BY <1>2, SubmitTypes
<1>3. CASE SubmitUndeclared \/ FollowUndeclaredLink
  <2>1. status'.query \in Texts
    BY <1>3, SearchAssumption DEF SubmitUndeclared, FollowUndeclaredLink, Line
  <2>. QED
    BY <1>3, <2>1 DEF SubmitUndeclared, FollowUndeclaredLink, SearchTypeOK
<1>4. ASSUME NEW p \in PageId, NEW i \in ReqId,
             ServerAnswers(p, i) \/ CallFails(p, i) \/ Deliver(p, i)
      PROVE  SearchTypeOK'
  BY <1>4, DeliverTypes
<1>5. CASE Leave
  BY <1>5 DEF Leave, screen, SearchTypeOK
<1>6. CASE Load
  BY <1>6, LoadTypes
<1>7. CASE UNCHANGED vars
  BY <1>7 DEF vars, screen, SearchTypeOK
<1>. QED
  BY <1>1, <1>2, <1>3, <1>4, <1>5, <1>6, <1>7 DEF Next

LEMMA TypesInit == Init => SearchTypeOK
<1>. SUFFICES ASSUME Init PROVE SearchTypeOK
  OBVIOUS
<1>1. 1 \in PageId /\ 0 \in 0 .. MaxReq
  BY SearchAssumption DEF PageId
<1>2. NoCall \in Call /\ Line("ready").query \in Texts
  BY SearchAssumption DEF NoCall, Call, Phases, Line
<1>3. call \in [PageId -> [ReqId -> Call]]
  BY <1>2 DEF Init
<1>. QED
  BY <1>1, <1>2, <1>3, SearchAssumption DEF Init, SearchTypeOK, NoReq

\* Page, calls and threads keep their types.
THEOREM SearchTypeCorrect == Spec => []SearchTypeOK
<1>1. Init => SearchTypeOK
  BY TypesInit
<1>2. SearchTypeOK /\ [Next]_vars => SearchTypeOK'
  BY TypesStep
<1>. QED
  BY <1>1, <1>2, PTL DEF Spec

-----------------------------------------------------------------------------
(***************************************************************************)
(* What is on display.                                                     *)
(***************************************************************************)

\* The page waits for the last of its searches or for none.
WaitsForLast == pending # NoReq => pending = nextReq

DisplayInv == SearchTypeOK /\ WaitsForLast /\ ShowsLastSearch

\* Nothing of the display changes, nor which calls there are.
LEMMA DisplayKept ==
  ASSUME DisplayInv, SearchTypeOK',
         UNCHANGED <<pending, status, list, page, nextReq>>,
         robbed => robbed',
         \A p \in PageId, i \in ReqId : call'[p][i].query = call[p][i].query
  PROVE  DisplayInv'
<1>1. WaitsForLast'
  BY DEF DisplayInv, WaitsForLast, NoReq
<1>2. page \in PageId /\ (nextReq # 0 => nextReq \in ReqId)
  BY DEF DisplayInv, SearchTypeOK, ReqId
<1>3. ShowsLastSearch'
  BY <1>2 DEF DisplayInv, ShowsLastSearch, NoReq
<1>. QED
  BY <1>1, <1>3 DEF DisplayInv

\* The page waits for nothing, and does not show results.
LEMMA NothingShown ==
  ASSUME DisplayInv, SearchTypeOK', status'.kind # "found",
         pending' = NoReq \/ (pending' = pending /\ nextReq' = nextReq)
  PROVE  DisplayInv'
  BY DEF DisplayInv, WaitsForLast, ShowsLastSearch, NoReq

LEMMA ResultsShown ==
  ASSUME DisplayInv, SearchTypeOK', NEW p \in PageId, NEW i \in ReqId,
         DeliverResults(p, i)
  PROVE  DisplayInv'
<1>1. /\ i = pending /\ i # NoReq
      /\ pending' = NoReq /\ nextReq' = nextReq /\ page' = page
      /\ status' = [kind |-> "found", query |-> call[p][i].query]
      /\ list' = Search(call[p][i].query)
      /\ robbed' = (robbed \/ (p # page /\ i = pending))
      /\ call' = [call EXCEPT ![p][i].phase = "delivered"]
  BY DEF DeliverResults, Delivered, ReqId, NoReq
<1>2. i = nextReq
  BY <1>1 DEF DisplayInv, WaitsForLast
<1>3. ASSUME ~robbed'
      PROVE  /\ nextReq' # 0
             /\ status'.query = call'[page'][nextReq'].query
             /\ list' = Search(status'.query)
  <2>1. p = page
    BY <1>1, <1>3
  <2>2. call'[p][i].query = call[p][i].query
    BY <1>1, PhaseChanged DEF DisplayInv, SearchTypeOK, Phases
  <2>. QED
    BY <1>1, <1>2, <2>1, <2>2 DEF NoReq
<1>4. WaitsForLast'
  BY <1>1 DEF WaitsForLast, NoReq
<1>. QED
  BY <1>3, <1>4 DEF DisplayInv, ShowsLastSearch

LEMMA DisplayStep == DisplayInv /\ [Next]_vars => DisplayInv'
<1>. SUFFICES ASSUME DisplayInv, [Next]_vars
              PROVE  DisplayInv'
  OBVIOUS
<1>0. SearchTypeOK /\ SearchTypeOK'
  BY TypesStep DEF DisplayInv
<1>1. ASSUME NEW x \in Texts, Type(x)
      PROVE  DisplayInv'
  BY <1>0, <1>1, DisplayKept DEF Type
<1>2. CASE SubmitSearch
  <2>1. pending' = nextReq' /\ status'.kind = "searching"
    BY <1>2 DEF SubmitSearch, Line
  <2>. QED
    BY <1>0, <2>1 DEF DisplayInv, WaitsForLast, ShowsLastSearch
<1>3. CASE SubmitUndeclared \/ FollowUndeclaredLink
  <2>1. status'.kind # "found" /\ pending' = pending /\ nextReq' = nextReq
    BY <1>3 DEF SubmitUndeclared, FollowUndeclaredLink, Line
  <2>. QED
    BY <1>0, <2>1, NothingShown
<1>4. ASSUME NEW p \in PageId, NEW i \in ReqId,
             ServerAnswers(p, i) \/ CallFails(p, i) \/ DeliverElsewhere(p, i)
      PROVE  DisplayInv'
  <2>1. \E f \in Phases : call' = [call EXCEPT ![p][i].phase = f]
    BY <1>4 DEF ServerAnswers, CallFails, DeliverElsewhere, Phases
  <2>2. \A q \in PageId, j \in ReqId : call'[q][j].query = call[q][j].query
    BY <1>0, <2>1, PhaseChanged DEF SearchTypeOK
  <2>3. UNCHANGED <<pending, status, list, page, nextReq, robbed>>
    BY <1>4 DEF ServerAnswers, CallFails, DeliverElsewhere, screen
  <2>. QED
    BY <1>0, <2>2, <2>3, DisplayKept
<1>5. ASSUME NEW p \in PageId, NEW i \in ReqId, DeliverOther(p, i)
      PROVE  DisplayInv'
  <2>1. \A q \in PageId, j \in ReqId : call'[q][j].query = call[q][j].query
    BY <1>0, <1>5, PhaseChanged DEF DeliverOther, Delivered, SearchTypeOK, Phases
  <2>2. UNCHANGED <<pending, status, list, page, nextReq>> /\ (robbed => robbed')
    BY <1>5 DEF DeliverOther, Delivered
  <2>. QED
    BY <1>0, <2>1, <2>2, DisplayKept
<1>6. ASSUME NEW p \in PageId, NEW i \in ReqId,
             DeliverFailure(p, i) \/ DeliverCut(p, i)
      PROVE  DisplayInv'
  <2>1. status' \in {Line("failed"), Line("bad response")} /\ pending' = NoReq
    BY <1>6 DEF DeliverFailure, DeliverCut
  <2>2. Line("failed").kind # "found" /\ Line("bad response").kind # "found"
    BY DEF Line
  <2>. QED
    BY <1>0, <2>1, <2>2, NothingShown
<1>7. ASSUME NEW p \in PageId, NEW i \in ReqId, DeliverResults(p, i)
      PROVE  DisplayInv'
  BY <1>0, <1>7, ResultsShown
<1>8. CASE Leave
  BY <1>0, <1>8, DisplayKept DEF Leave, screen
<1>9. CASE Load
  <2>1. status'.kind # "found" /\ pending' = NoReq
    BY <1>9 DEF Load, Line
  <2>. QED
    BY <1>0, <2>1, NothingShown
<1>10. CASE UNCHANGED vars
  BY <1>0, <1>10, DisplayKept DEF vars, screen
<1>. QED
  BY <1>1, <1>2, <1>3, <1>4, <1>5, <1>6, <1>7, <1>8, <1>9, <1>10
  DEF Next, Deliver

\* Of overlapping searches whose answers come in any order, the last one's
\* results stay, unless a search of an earlier page was taken for it.
THEOREM LastSearchShown == Spec => []ShowsLastSearch
<1>1. Init => DisplayInv
  BY TypesInit DEF Init, DisplayInv, WaitsForLast, ShowsLastSearch, Line
<1>2. DisplayInv /\ [Next]_vars => DisplayInv'
  BY DisplayStep
<1>3. DisplayInv => ShowsLastSearch
  BY DEF DisplayInv
<1>. QED
  BY <1>1, <1>2, <1>3, PTL DEF Spec

-----------------------------------------------------------------------------
(***************************************************************************)
(* Host and server.                                                        *)
(***************************************************************************)

\* The server verifies what the host signed, however late within the
\* timeout it comes, and answers the query.
LEMMA RequestVerified ==
  ASSUME NEW i, NEW q, NEW age \in 0 .. CallTimeout
  PROVE  Handle(Request(i, q), age) = [status |-> 200, query |-> q]
<1>. DEFINE r == Request(i, q)
            signed == <<"search.query.v1", "search", i, 0, <<"sha256", q>>>>
<1>1. /\ r.iface = "search.query.v1" /\ r.method = "search"
      /\ r.ts = 0 /\ r.key = "app-key" /\ r.body = q
      /\ r.sig = <<"app-key", signed>>
      /\ Canonical(r) = signed
  BY DEF Request, Signed, Canonical
<1>2. r.key # "" /\ r.sig # <<>>
  BY <1>1
<1>3. age - r.ts \in -SkewWindow .. SkewWindow
  BY <1>1, SearchAssumption
<1>. HIDE DEF r, signed
<1>4. Verified(r, age)
  BY <1>1, <1>2, <1>3 DEF Verified
<1>5. Handle(r, age) = [status |-> 200, query |-> q]
  BY <1>1, <1>4 DEF Handle
<1>. QED
  BY <1>5 DEF r

ServedInv == SearchTypeOK /\ HonestCallsServed

LEMMA ServedStep == ServedInv /\ [Next]_vars => ServedInv'
<1>. SUFFICES ASSUME ServedInv, [Next]_vars
              PROVE  ServedInv'
  OBVIOUS
<1>0. SearchTypeOK /\ SearchTypeOK' /\ call \in [PageId -> [ReqId -> Call]]
  BY TypesStep DEF ServedInv, SearchTypeOK
<1>1. CASE call' = call
  BY <1>0, <1>1 DEF ServedInv, HonestCallsServed
<1>2. CASE SubmitSearch
  <2>1. page \in PageId /\ nextReq' \in ReqId /\ query \in Texts
    BY <1>0, <1>2, SubmitTypes DEF SearchTypeOK
  <2>2. call' = [call EXCEPT ![page][nextReq'] = [phase |-> "sent", query |-> query]]
    BY <1>2 DEF SubmitSearch
  <2>3. /\ call'[page][nextReq'].phase = "sent"
        /\ \A s \in PageId, j \in ReqId :
             s # page \/ j # nextReq' => call'[s][j] = call[s][j]
    BY <1>0, <2>1, <2>2, CallMade
  <2>. QED
    BY <1>0, <2>3 DEF ServedInv, HonestCallsServed
<1>3. ASSUME NEW p \in PageId, NEW i \in ReqId,
             NEW f \in {"ok", "failed", "delivered"},
             call' = [call EXCEPT ![p][i].phase = f]
      PROVE  ServedInv'
  <2>1. f \in Phases /\ f # "refused"
    BY DEF Phases
  <2>2. /\ call'[p][i].phase = f
        /\ \A s \in PageId, j \in ReqId :
             s # p \/ j # i => call'[s][j] = call[s][j]
    BY <1>0, <1>3, <2>1, PhaseChanged
  <2>. QED
    BY <1>0, <2>1, <2>2 DEF ServedInv, HonestCallsServed
<1>4. ASSUME NEW p \in PageId, NEW i \in ReqId, ServerAnswers(p, i)
      PROVE  ServedInv'
  <2>1. PICK age \in 0 .. CallTimeout :
          call' = [call EXCEPT ![p][i].phase =
                     IF Handle(Request(i, call[p][i].query), age).status = 200
                       THEN "ok" ELSE "refused"]
    BY <1>4 DEF ServerAnswers
  <2>2. Handle(Request(i, call[p][i].query), age)
          = [status |-> 200, query |-> call[p][i].query]
    BY RequestVerified
  <2>3. Handle(Request(i, call[p][i].query), age).status = 200
    BY <2>2
  <2>4. call' = [call EXCEPT ![p][i].phase = "ok"]
    BY <2>1, <2>3
  <2>. QED
    BY <1>3, <2>4
<1>5. ASSUME NEW p \in PageId, NEW i \in ReqId, CallFails(p, i) \/ Deliver(p, i)
      PROVE  ServedInv'
  <2>1. \E f \in {"failed", "delivered"} : call' = [call EXCEPT ![p][i].phase = f]
    BY <1>5 DEF CallFails, Deliver, DeliverElsewhere, DeliverOther,
                DeliverFailure, DeliverCut, DeliverResults, Delivered
  <2>. QED
    BY <1>3, <2>1
<1>6. CASE \/ \E x \in Texts : Type(x)
           \/ SubmitUndeclared \/ FollowUndeclaredLink \/ Leave \/ Load
           \/ UNCHANGED vars
  <2>1. call' = call
    BY <1>6 DEF Type, SubmitUndeclared, FollowUndeclaredLink, Leave, Load, vars
  <2>. QED
    BY <1>1, <2>1
<1>. QED
  BY <1>2, <1>4, <1>5, <1>6 DEF Next

\* No call of the page that is answered in time is refused: host and server
\* build the signed bytes alike, and no signature expires on the way.
THEOREM HonestCallsAreServed == Spec => []HonestCallsServed
<1>1. Init => HonestCallsServed
  BY DEF Init, HonestCallsServed, NoCall
<1>2. ServedInv /\ [Next]_vars => ServedInv'
  BY ServedStep
<1>3. SearchTypeOK /\ HonestCallsServed <=> ServedInv
  BY DEF ServedInv
<1>. QED
  BY <1>1, <1>2, <1>3, SearchTypeCorrect, PTL DEF Spec

=============================================================================
