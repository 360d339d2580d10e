------------------------------ MODULE SearchApp ------------------------------
(***************************************************************************)
(* The search page, from the input box to the search server and back:      *)
(* examples/search-rs (the guest), the host's side of a call in            *)
(* renderer/src/abi.rs and ui.rs, and search-server.                       *)
(*                                                                         *)
(* A handler of the guest runs to its end inside one delivery, and what it *)
(* renders is applied right after it, so each is one action.  Each call    *)
(* has a host thread of its own: calls end in any order, and outlive the   *)
(* page that made them, since answers are routed by tab and request id.    *)
(***************************************************************************)
EXTENDS Integers, Sequences, SequencesExt

CONSTANTS
  Texts,        \* what the user may type
  Blank,        \* nothing but white space
  TermsOf,      \* text -> its words, in lower case
  TooBig,       \* texts whose answer is larger than the event region
  Docs,         \* positions in the corpus
  Occurs,       \* document -> word -> how often the one contains the other
  CallTimeout,  \* seconds until a thread gives its call up
  SkewWindow,   \* seconds a signature is good for
  Manifests,    \* what the app's manifest file may hold when it is read
  MaxPages,     \* bound: times the page is loaded into the tab
  MaxReq        \* bound: searches of one page

ASSUME SearchAssumption ==
  /\ Blank \in Texts
  /\ TooBig \subseteq Texts
  /\ CallTimeout \in Nat
  /\ SkewWindow \in Nat
  /\ CallTimeout <= SkewWindow
  /\ \A m \in Manifests : m.bundle \in BOOLEAN
  /\ MaxPages \in Nat \ {0}
  /\ MaxReq \in Nat \ {0}

NoReq == 0
Links == {"shop.local", "retailer.local"}
PageId == 1 .. MaxPages
ReqId == 1 .. MaxReq

-----------------------------------------------------------------------------
(***************************************************************************)
(* The search server.  A request carries what the host's thread put into   *)
(* the headers; hash and signature stand for themselves, so that two are   *)
(* equal exactly when they were made of the same things.                   *)
(***************************************************************************)

\* How often the words of a query occur in a document.
Score(q, d) ==
  FoldSeq(LAMBDA w, sum : Occurs[d][w] + sum, 0, TermsOf[q])

\* search: the documents with a score, highest first, the sort being stable.
Search(q) ==
  SetToSortSeq({d \in Docs : Score(q, d) > 0},
               LAMBDA a, b : \/ Score(q, a) > Score(q, b)
                             \/ Score(q, a) = Score(q, b) /\ a < b)

\* rpc_call's thread: what is signed, the time of the signature included.
Signed(r) == <<r.iface, r.method, r.reqId, r.ts, <<"sha256", r.body>>>>

\* Bug: the time of the request is left out of the bytes.
Canonical_Bug(r) == <<r.iface, r.method, r.reqId, <<"sha256", r.body>>>>

\* canonical_bytes, as the server makes them again from URL, headers, body.
Canonical(r) == <<r.iface, r.method, r.reqId, r.ts, <<"sha256", r.body>>>>

\* verify_channel, channel authentication being required.
Verified(r, now) ==
  /\ r.key # "" /\ r.sig # <<>>
  /\ now - r.ts \in -SkewWindow .. SkewWindow
  /\ r.sig = <<r.key, Canonical(r)>>

\* handle: the status of the response, and the query it answers.
Handle(r, now) ==
  IF r.iface # "search.query.v1" \/ r.method # "search"
    THEN [status |-> 404, query |-> Blank]
  ELSE IF ~Verified(r, now) THEN [status |-> 401, query |-> Blank]
  ELSE [status |-> 200, query |-> r.body]

\* The request of the host's thread for the guest's call number i.
Request(i, q) ==
  LET r == [iface |-> "search.query.v1", method |-> "search", reqId |-> i,
            ts |-> 0, body |-> q]
  IN [iface |-> r.iface, method |-> r.method, reqId |-> r.reqId, ts |-> r.ts,
      body |-> r.body, key |-> "app-key", sig |-> <<"app-key", Signed(r)>>]

\* resolve_manifest: no app without a bundle, nor with a service, any one of
\* them, that lacks its endpoint or its interface.
Resolves(m) ==
  /\ m.bundle
  /\ \A s \in DOMAIN m.services : m.services[s] = {"endpoint", "iface"}

-----------------------------------------------------------------------------

VARIABLES
  query,    \* App.query_value
  pending,  \* App.pending_req_id
  status,   \* the status line on display, with the query it names
  list,     \* the results on display
  shown,    \* the tab shows this page, and not another
  page,     \* loads of the page into the tab so far
  app,      \* the manifest it was loaded with
  nextReq,  \* Shared.next_rpc_id
  call,     \* page -> request id -> the call and its thread
  robbed    \* history: the page took the answer to a call of an earlier one

screen == <<query, status, list>>
vars == <<screen, pending, shown, page, app, nextReq, call, robbed>>

\* A thread waits for the server, or has put its result on the event loop:
\* a 2xx response, another one, or none at all; or the result was taken.
Phases == {"none", "sent", "ok", "refused", "failed", "delivered"}

Declares(s) == s \in DOMAIN app.services

Ended(c) == c.phase \in {"ok", "refused", "failed"}

Call == [phase : Phases, query : Texts]

NoCall == [phase |-> "none", query |-> Blank]

Line(kind) == [kind |-> kind, query |-> Blank]

Init ==
  /\ query = Blank
  /\ pending = NoReq
  /\ status = Line("ready")
  /\ list = <<>>
  /\ shown = TRUE
  /\ page = 1
  /\ app \in {m \in Manifests : Resolves(m)}
  /\ nextReq = 0
  /\ call = [p \in PageId |-> [i \in ReqId |-> NoCall]]
  /\ robbed = FALSE

\* An Input event with the whole text.  One larger than the event region
\* never arrives (deliver_event refuses it) and changes nothing here.
Type(x) ==
  /\ shown
  /\ query' = x
  /\ UNCHANGED <<pending, status, list, shown, page, app, nextReq, call, robbed>>

\* Bug: the request waited for is the one after.
SubmitSearch_Next ==
  /\ shown /\ query # Blank /\ Declares("search") /\ nextReq < MaxReq
  /\ status' = Line("searching")
  /\ nextReq' = nextReq + 1
  /\ pending' = nextReq' + 1
  /\ call' = [call EXCEPT ![page][nextReq'] =
                [phase |-> "sent", query |-> query]]
  /\ UNCHANGED <<query, list, shown, page, app, robbed>>

\* Bug: a search in flight keeps its claim on the answer.
SubmitSearch_Bug ==
  /\ shown /\ query # Blank /\ Declares("search") /\ nextReq < MaxReq
  /\ status' = Line("searching")
  /\ nextReq' = nextReq + 1
  /\ pending' = IF pending = NoReq THEN nextReq' ELSE pending
  /\ call' = [call EXCEPT ![page][nextReq'] =
                [phase |-> "sent", query |-> query]]
  /\ UNCHANGED <<query, list, shown, page, app, robbed>>

\* submit_search, by Enter or the button.  The request waited for before it
\* is forgotten.
SubmitSearch ==
  /\ shown /\ query # Blank /\ Declares("search") /\ nextReq < MaxReq
  /\ status' = Line("searching")
  /\ nextReq' = nextReq + 1
  /\ pending' = nextReq'
  /\ call' = [call EXCEPT ![page][nextReq'] =
                [phase |-> "sent", query |-> query]]
  /\ UNCHANGED <<query, list, shown, page, app, robbed>>

\* rpc_call turns down a service the manifest does not declare, with id 0.
SubmitUndeclared ==
  /\ shown /\ query # Blank /\ ~Declares("search")
  /\ status' = Line("unavailable")
  /\ UNCHANGED <<query, list, pending, shown, page, app, nextReq, call, robbed>>

\* A link that is not declared: navigate answers 1, and the line says so.
\* One that is has the shell navigate, later: Leave.
FollowUndeclaredLink ==
  /\ shown /\ Links \ app.links # {}
  /\ status' = Line("blocked")
  /\ UNCHANGED <<query, list, pending, shown, page, app, nextReq, call, robbed>>

-----------------------------------------------------------------------------

\* The response arrives in time; ureq takes all but 2xx for an error.
ServerAnswers(p, i) ==
  /\ call[p][i].phase = "sent"
  /\ \E age \in 0 .. CallTimeout :
       LET r == Handle(Request(i, call[p][i].query), age)
       IN call' = [call EXCEPT ![p][i].phase =
                     IF r.status = 200 THEN "ok" ELSE "refused"]
  /\ UNCHANGED <<screen, pending, shown, page, app, nextReq, robbed>>

\* No connection, or no response within the timeout.
CallFails(p, i) ==
  /\ call[p][i].phase = "sent"
  /\ call' = [call EXCEPT ![p][i].phase = "failed"]
  /\ UNCHANGED <<screen, pending, shown, page, app, nextReq, robbed>>

\* deliver_rpc_result while another page, or none, has the tab.
DeliverElsewhere(p, i) ==
  /\ Ended(call[p][i])
  /\ ~shown
  /\ call' = [call EXCEPT ![p][i].phase = "delivered"]
  /\ UNCHANGED <<screen, pending, shown, page, app, nextReq, robbed>>

\* Some search of the tab, of this page or an earlier one, has ended: its
\* answer is handed to the page in the tab.
Delivered(p, i) ==
  /\ Ended(call[p][i])
  /\ shown
  /\ call' = [call EXCEPT ![p][i].phase = "delivered"]
  /\ robbed' = (robbed \/ (p # page /\ i = pending))
  /\ UNCHANGED <<query, shown, page, app, nextReq>>

\* The answer is not to the request waited for.
DeliverOther(p, i) ==
  /\ i # pending
  /\ Delivered(p, i)
  /\ UNCHANGED <<pending, status, list>>

\* Bug: the request stays pending when its answer is an error.
DeliverFailure_Bug(p, i) ==
  /\ i = pending
  /\ call[p][i].phase # "ok"
  /\ Delivered(p, i)
  /\ UNCHANGED <<pending, status, list>>

DeliverFailure(p, i) ==
  /\ i = pending
  /\ call[p][i].phase # "ok"
  /\ Delivered(p, i)
  /\ pending' = NoReq
  /\ status' = Line("failed")
  /\ UNCHANGED list

\* A body larger than the region is cut, and what is left is no JSON.
DeliverCut(p, i) ==
  /\ i = pending
  /\ call[p][i].phase = "ok"
  /\ call[p][i].query \in TooBig
  /\ Delivered(p, i)
  /\ pending' = NoReq
  /\ status' = Line("bad response")
  /\ UNCHANGED list

\* render_results: the line names the query the server says it answered.
DeliverResults(p, i) ==
  /\ i = pending
  /\ call[p][i].phase = "ok"
  /\ call[p][i].query \notin TooBig
  /\ Delivered(p, i)
  /\ pending' = NoReq
  /\ status' = [kind |-> "found", query |-> call[p][i].query]
  /\ list' = Search(call[p][i].query)

Deliver(p, i) ==
  \/ DeliverElsewhere(p, i) \/ DeliverOther(p, i) \/ DeliverFailure(p, i)
  \/ DeliverCut(p, i) \/ DeliverResults(p, i)

-----------------------------------------------------------------------------

\* The tab navigates elsewhere, or loading the page again fails.
Leave ==
  /\ shown
  /\ shown' = FALSE
  /\ UNCHANGED <<screen, pending, page, app, nextReq, call, robbed>>

\* Reload, or back to the page: a new guest in a new Shared, with request
\* ids from 1 again, under the manifest as it is now.  Under one that does
\* not resolve nothing happens: the page stays as it is.
Load ==
  /\ page < MaxPages
  /\ page' = page + 1
  /\ shown' = TRUE
  /\ query' = Blank
  /\ pending' = NoReq
  /\ status' = Line("ready")
  /\ list' = <<>>
  /\ app' \in {m \in Manifests : Resolves(m)}
  /\ nextReq' = 0
  /\ robbed' = FALSE
  /\ UNCHANGED call

Next ==
  \/ \E x \in Texts : Type(x)
  \/ SubmitSearch \/ SubmitUndeclared \/ FollowUndeclaredLink
  \/ \E p \in PageId, i \in ReqId :
       ServerAnswers(p, i) \/ CallFails(p, i) \/ Deliver(p, i)
  \/ Leave \/ Load

\* Threads end, by their timeout if nothing else; the event loop turns.
Spec ==
  /\ Init /\ [][Next]_vars
  /\ \A p \in PageId, i \in ReqId :
       /\ WF_vars(ServerAnswers(p, i) \/ CallFails(p, i))
       /\ WF_vars(Deliver(p, i))

-----------------------------------------------------------------------------
(***************************************************************************)
(* Properties.                                                             *)
(***************************************************************************)

\* Every variable of the page, its calls and its threads keeps its type.
SearchTypeOK ==
  /\ query \in Texts
  /\ pending \in 0 .. MaxReq
  /\ status.query \in Texts
  /\ shown \in BOOLEAN
  /\ page \in PageId
  /\ app \in Manifests
  /\ nextReq \in 0 .. MaxReq
  /\ call \in [PageId -> [ReqId -> Call]]
  /\ robbed \in BOOLEAN

\* However many searches overlap and in whatever order their answers come,
\* the results that stay on display are those of the last search of the
\* page, answered or not before others; only an answer that was meant for an
\* earlier page of the tab can spoil it.
ShowsLastSearch ==
  pending = NoReq /\ status.kind = "found" /\ ~robbed
    => /\ nextReq # 0
       /\ status.query = call[page][nextReq].query
       /\ list = Search(status.query)

\* What host and server each make of a request agrees: a call of the page
\* that is answered within the timeout is never refused.
HonestCallsServed ==
  \A p \in PageId, i \in ReqId : call[p][i].phase # "refused"

\* The page never sticks at "searching...": the line changes in the end, or
\* the user leaves, whatever becomes of the calls, and although an answer
\* may be taken by the wrong search.
SearchesEnd == status.kind = "searching" ~> status.kind # "searching" \/ ~shown

=============================================================================
