# Verification of the WASI browser

TLA+ models of the browser in this repository, model-checked with TLC and proved about with the
TLA+ proof system (TLAPS). The source is the reference: every definition is translated from the code
under `src/`, and `PROJECT.json` maps it to the lines it stands for.

1. [The system](#1-the-system) – components, their state, how they interact, what is hard
2. [The models](#2-the-models) – which module models what, and how it corresponds to the code
3. [What the runs check](#3-what-the-runs-check) – bounds, fairness, results
4. [What is proved](#4-what-is-proved)
5. [Where code and text disagree](#5-where-code-and-text-disagree)
6. [What is not modelled](#6-what-is-not-modelled)
7. [Plan](#7-plan)

## 1. The system

The repository holds a browser without JavaScript: pages are WebAssembly guests. There are two hosts.
The **Rust renderer** (`src/renderer`) is the browser one uses: a window with tabs, each with a guest
that runs in wasmtime and renders through batches of DOM operations. The **Go shell** (`src/tab`,
`session`, `window`, `host`, `engine`, `webkitengine`) is an earlier host of the same idea, with a tab
state machine, a crash supervisor and a bridge to WebKit. Around them are SDKs for guests (C, Go,
Rust) and demo servers (storefront, retailer, search).

| Component | State | Operations | Interacts with | Hard behaviours | Correct means |
|---|---|---|---|---|---|
| Renderer: tab strip (`ui.rs`) | tabs in order, active index, history and cursor of each tab, mount points on display, address bar, exit flag | navigate, back, forward, reload, submit address, open, switch, close | the user's queued chrome actions; guests' navigation requests | ids in queued actions of tabs that have gone; the active index when the vector shifts; cursor moved before the address resolves | exactly one tab is shown; closing another tab does not change it; a cursor always indexes its history; no page behind it is lost |
| Renderer: guests (`ui.rs`, `main.rs`) | guest of each tab, frame request, gesture flag, queue of events to the UI thread | load, drop, dispatch event, deliver frame, deliver result, carry out navigation | tab strip; host imports; request threads; window system | results of an earlier guest of the tab; results before the window exists; requests carried out after the tab changed; background tabs | each request ends exactly once and reaches only its own tab; only a user gesture navigates, and only along declared links |
| Renderer: host imports (`abi.rs`) | request counters, shared state of each guest | `fetch`, `rpc_call`, `request_frame`, `navigate` | a thread for each request, the event loop's proxy | threads ending in any order or by timeout | ids are unique within a guest; each is answered |
| Renderer: batches (`abi.rs`) | maps between guest node ids and host nodes, listeners, observers | decode and apply batch | document tree, event routing | entries left of removed nodes, host ids used again, by the shell too | the id of a node the guest has leads to it; an event reaches the node the guest means |
| Renderer: bookmarks, menus, console (`ui.rs`) | bookmarks and their file, the star, menu and panel, console height and drag | toggle, open and remove a bookmark, drag the divider, resize | tab strip, file system, window system | a star set by hand on every path; a file written over itself; resizing in the middle of a drag | the star tells the truth; a restart finds the bookmarks; the page keeps its room |
| Batches and events as bytes (`sdk-rust`, `abi.rs`) | operations and heap of a batch; event region | encode, decode | guest and host, each reading what the other wrote | strings found by offset in a shared heap; texts at the size of the region | each side reads what the other meant |
| Go: tab (`tab.go`) | state, address, snapshot, renderer, host | navigate, restore, reload, freeze, background, discard, activate, kill, snapshot, close | engine and host; supervisor's callback | reload reads under the lock and acts after it; close fails half way | the address is the page's; closed stays closed |
| Go: supervisor (`session.go`) | restart times of each tab | handle crash, reset | tab, through the callback, mutex held | sliding window; reentrant callback; many reporters | never more restarts in a window than allowed, never fewer; reports return |
| Go: windows (`window.go`, `manager.go`) | order of tabs, active tab; windows by id | open, close, switch, move | tabs | the active index when a tab is moved or closed beside it | active tab is one of the tabs |
| Go: WebKit bridge (`webkitengine`) | revision, call lock, answer channels, event channel, receive loop, transport queue | apply, resolve root, events, close | web process (loopback: TestDOM), host | bounded channels in a ring, close during a call, answers and events in one stream | a call gets its own answer; revisions agree; events in order; nothing hangs |
| Go: TestDOM, decoder, host (`engine`, `protocol`, `host`) | tree, revision; guest module and its event pump | apply records, mount, pump, submit batch | engine, guest | record by record apply; a pump per mount | batches apply whole; one caller in the guest |
| Storefront, retailer servers (`server`, `retailer-server`) | users, sessions, products, carts, orders | log in, list, cart, order, administer | guests' RPC | several lock acquisitions in one handler | an order matches its cart and products |
| Search page and server (`search-rs`, `search-server`) | query, request waited for, status line, results; the server none | type, search, follow a link; verify and look up | `rpc_call`, result delivery, manifest | overlapping searches answered in any order; answers to an earlier page; signed bytes put together on both sides | the results shown are the last search's; no honest call is refused; a search ends |
| C SDK (`gwbc.h`) | components, hooks, query and RPC caches, mutation pool | render, query, complete, event | host imports | answers by request id, fixed pools | a key shows the answer to its request |
| Manifest (`manifest.rs`) | none | resolve a name to bundle, services, links | navigation, `rpc_call`, `navigate` | read anew with each load | an app without a bundle or with a broken service does not load |
| Other guest SDKs, logger, script driver | little | conversions, file reading | – | – | – |

`PROJECT.json` lists the components with the state of their modelling, and the hazards, each at the line
where it bites and with the properties that watch it.

## 2. The models

Every operator named `X_Bug` (or `X_` and a word for the bug) stands right before the definition `X` it
distorts. It is no part of the model: it is a plausible bug of that code, kept to show that a property
notices it, and `PROJECT.json` says which one does.

### Renderer shell

**`TabStrip`** (`ui.rs`, `GwbDocument`). `tabs` is the vector of tab ids, `tab` a function from ids to the
fields that matter (`target`, `history`, `historyIdx`, whether a guest lives), `active` the position of the
active one, `visible` the mount points on display, `draft` the text of the address bar. Handlers run on the UI thread from
beginning to end, so each is one action: `navigate` with its three outcomes (not resolved, resolved and
failed, loaded) is `NavigateTab`; `nav_back` and `nav_forward` move the cursor and then call it;
`close_tab` is three actions for its three paths. A mount point is shown or hidden by the code as a side
effect of `activate_tab`; the model keeps it as state of its own, so that a path that forgets it is visible.

**`GuestShell`** EXTENDS `TabStrip` and composes it with guests. An action of it is an action of the tab
strip together with what happens to the guests, or leaves the strip alone. A call into a guest (event,
frame, result) is opened by `Begin...`/`DeliverResult`, contains any number of imports (`CallRequest`,
`CallRequestFrame`, `CallNavigate`), and ends with `EndCall`, which is also what a trap does. Request
threads end at any moment (`ThreadDone`) and post to `queue`, from which the UI thread takes events in
order (`TakeEvent`). `Boot` and `CreateWindow` are the two steps of start-up between which there is a
guest but no window. A guest is identified by the order of its load – the code has no such number, and the
finding on stale results is about just that. The address bar's editing is left to `TabStrip`.

**`Chrome`** (`ui.rs`) EXTENDS `TabStrip` with the rest of the window's chrome. The star is state of its own, as in
the code, which repaints it in `refresh_bookmark_star`: the strip's actions are taken in three groups, by whether
their handler goes through `refresh_address_bar` always (`ActivationStep`), when the navigation resolved and the tab
is in front (`NavigationStep`), or not at all (`QuietStep`). `Save` is `fs::write`, which may fail before or after
it has emptied the file; `unsaved` is a history variable that remembers that it did. `DragConsoleTo` and `Resize`
are the two that set the console's height, at any moment of a drag; scale factors are left out.

**`SearchApp`** (`examples/search-rs`, `search-server`, and `rpc_call` between them) is one page in full. A handler of
the guest is one action, since nothing interrupts it, and what it renders is applied right after. A call is a
record of its page and request id with the `phase` of its thread; calls outlive the page, and answers are
routed by tab and id, so that a page can be handed (`robbed`, a history variable) what was meant for the page before.
`Handle` is the server, a function; hashes and signatures stand for the bytes they were made of, so they
agree exactly when both sides put the same fields together. `Load` reads the manifest again (`Resolves`).

**`GuestWire`** (`sdk-rust`, `decode_batch`, `deliver_event`) is about bytes: memory is a sequence of cells, one per
byte, in which a number or an operation stands in the first of the cells it takes. `Emit`, `Submit` and `Take` are the
way of a batch; `meant` and `sent` (history variables) keep what the guest put in. For events, `HostWrites` and
`GuestReads` are the two tables of fields, each from its own side of the source, and `Cut` and `Fits` the two limits of
size; a text is the sequence of the offsets at which its characters end, which is all `is_char_boundary` asks
of it. `field` and `value` are the text of an input and the guest's copy of it.

**`NodeMaps`** (`abi.rs`, `apply_batches`). One action is one op. `parent` is Blitz's tree, a function from slots
(`Hosts`) to the slot above; `fwd`, `rev` and `listeners` are the fields of `NodeMaps`, the first two as total
functions with a value for "no entry". `maker` is a history variable: the id under which the node in a slot
was asked for, which the code does not keep, and against which the maps are judged. `Line` is the chain the
event driver walks, and `Subscribed`, `Listener` and `Target` are what `handle_event` reads off it; an event
changes nothing here, so it is no action. `ShellTakes` and `ShellDrops` stand for all else that lives in the same
document. Blitz is external: it drops a node with all below it, gives out free slots again (it is a slab), and
`replace_node_with` leaves the old node in the document, out of the tree. An op takes any id that has an entry
in `fwd` (`Found`), as the code does, and acts on whatever node is in that slot by then; `strayed`, a history
variable, is set once that was a node the guest has not made, or the mount div was moved or dropped. The guest is
taken at the word of `docs/ABI.md:100` in one thing only: it creates no node under an id it has a node of. What
Blitz would do with an op on an empty slot, one that would make a cycle, or one beside a node without
parent is not visible in this tree, and those are no steps.

### Go shell

**`TabLifecycle`** (`tab.go`). `state` ranges over the state machine, `url` is the committed address, `shown`
the address the renderer really loaded and the app was mounted on, `open` the tabs whose renderer lives.
Every method holds the tab's mutex throughout and is one action; the passing states Loading and
Restoring are therefore never visible. `Reload` alone is two: `ReadForReload` under the mutex, `ActOnReload`
after it, with what it read in `reload`. `LoadHTML` and `Mount` of renderer and host may fail, which
`Outcomes` lists.

**`Supervisor`** (`session.go`). `attempts` are the remembered restarts, `started` (a history variable) all of
them. `HandleCrash` is `Report` (the call, which waits for the mutex), one of `Refuse`, `GiveUp`, `Charge`
(the decision), and `Return` (the callback has returned), with the mutex held from `Charge` to `Return`.
Timestamps are ticks of `now`; a number tells restarts of one tick apart, since the code keeps them in a
slice and the model in a set.

**`Broker`** EXTENDS both and composes them as `cmd/broker/main.go` does: the restart callback takes the
tab's last snapshot (`FindSnapshot`) and restores it (`RestoreTab`), two steps between which others use
the tab. **`GoShell`** declares what both share.

### WebKit bridge

**`Engine`** is abstract: what `engine/engine.go`, the interface, promises. A call takes effect at one moment
between its start and its return, and returns what was decided then. Once the engine is closed any answer
may come back.

**`WebKitEngine`** is the code: goroutines in `Apply` and `RootNode` (`stage`), `callMu` (`lock`), the transport's
one stream of frames (`recvCh`), the receive loop with the frame in its `hand`, `ackCh`, `mountCh` and
`events`, and on the other side the TestDOM with its event channel and the forwarder. Every send on a
channel waits for room. Batches are good, stale, or torn (a record that cannot be decoded after some that
could, possibly after a commit). `Close` is two steps, `done` and then the transport. `answer` holds what
the DOM decided, for the refinement mapping, until the goroutine has read its own answer from a channel,
and then what it read: that the two are the same is what `KeepsPromise` says.

**`WebKitHost`** EXTENDS it with `host.go`: a goroutine mounts the app and then pumps events into it, and the
app renders with a batch of its own for each, keeping the revision it is handed (`sdk/app/app.go`).

## 3. What the runs check

| Run | Module, config | Instance | Shows |
|---|---|---|---|
| `tab_strip` | `MCTabStrip` | 3 tabs over the window's life, 2 addresses, histories of 2 | types; one tab shown; consistent histories; closing keeps the active tab; nothing behind the cursor is rewritten; address bar follows the active tab |
| `guest_shell` | `MCGuestShell` | 2 tabs, 2 addresses with links, 2 loads, 2 requests per guest, queue of 2 | types; guests live in open tabs; every request is in exactly one place until it is answered once; gesture flag; gated navigation; routing of results |
| `guest_shell_live` | `MCGuestShell`, `MCGuestShellLive` | smaller, with fairness | every request ends; frames catch up |
| `node_maps` | `MCNodeMaps` | 3 ids, 4 slots, 1 event kind | types; until an op strays, ids and nodes lead to each other, subscribers on the way up are the true ones, and events are reported for the node hit |
| `chrome` | `MCChrome` | 2 tabs, 2 addresses, no file or a hand-edited one, windows of 0, 130 and 400 pixels | the star tells the truth; the file holds the list unless a write failed; console, menu and panel leave the page its room |
| `search` | `MCSearchApp` | 2 loads, 2 searches each, 3 documents, 3 manifests, with fairness | types; results of the last search on display; honest calls served; searches end |
| `wire` | `MCGuestWire` | batches of 2 operations, strings padded and not, a region of 72 bytes | batches decode to what was meant; events are read as written |
| `broker` | `MCBroker` | 1 tab, 1 address (and none), 2 goroutines, 2 restarts in a window of 1 tick, clock to 2 | types; restart budget; address shown; no giving up early; closed stays closed; every report returns |
| `webkit` | `MCWebKitEngine` | 2 goroutines, revisions to 2, 2 events, every channel of capacity 1 | types; one answer in flight, the caller's; revisions agree; events in order; the interface's promise |
| `webkit_live` | `MCWebKitEngine`, `MCWebKitEngineLive` | 1 goroutine, same channels, with fairness | calls return; closing ends the goroutines |
| `stale_result` | `MCGuestShell`, `MCStaleResult` | as `guest_shell`, 3 loads | finding, section 5 |
| `webkit_pump` | `MCWebKitHost` | 1 goroutine, 4 events | finding, section 5 |

**Why the bounds are enough.** They are small, and chosen so that the cases that matter occur. Three tabs give a
tab before, at and after the active one. Two addresses tell a page from another. A history of two
is enough to go back, to truncate what is ahead and to fail on the way. Two loads let a second guest meet the
results of the first. One tab suffices for the supervisor, whose budget is kept for each tab apart (the theorem
says so for any set of tabs); two goroutines race for its mutex and for the tab; a clock of three ticks
and a window of one let restarts expire. Channels of capacity one are the ones that fill soonest; two events
fill the event channel and the hand of the receive loop, which then holds up an answer. Three ids and four
slots, one of each the mount's, let a node stand between the mount and a third, let a slot pass from one
node to another, to one of `SetInnerHtml` and to the shell, and let an id move to another slot. States after
an op has strayed are found but not followed (`BeforeStraying`): straying is never taken back (lemma
`NeverBack`), and the properties are about the time before it; types after it are the theorem's. The slots
other than the mount's are symmetric. Two searches of one page overlap and two loads let an answer outlive its page;
three documents give two that match with different scores and one that does not; the time limits keep their order
(a call may take as long as its timeout), which is all that is asked of them. The three window heights are
one that cuts the console down, one that does not, and a minimized window, and the pointer goes above and below both
limits. A region of 72 bytes puts its limits at 8 and 32 bytes of text, and there are texts below, at and
above each, of characters of one, three and four bytes. The proved
properties (section 4) do not depend on the bounds at all.

**Fairness.** The user owes nothing: no user action is fair. In `GuestShell` the event loop keeps turning, so
window creation, the end of a call and the exit are weakly fair; taking an event and starting a frame are
strongly fair, since input may come in between but the loop serves both on every turn. Request threads have a
timeout of 15 seconds; theirs is strong fairness because the queue has an artificial bound, which may be
full again and again. In `Broker` a goroutine inside `HandleCrash` is strongly fair: Go's `sync.Mutex` hands
itself over to a waiter that has starved for a millisecond. In `WebKitEngine` callers and the forwarder are
strongly fair, since blocked senders on a Go channel are served in order, the receive loop weakly, and a
`select` that finds a closed channel ready again and again takes it in the end, because `select` chooses at
random. Reading events is weakly fair in `webkit_live`: that somebody reads is an assumption, and
`webkit_pump` shows what comes of it when the reader is the host itself. In `SearchApp` the end of a thread is
weakly fair, by its timeout if nothing else, and so is the delivery of each result, the event loop taking all
it is sent; the user need not do anything.

**Deadlock** is checked except in the runs of the broker, the pump and the search page, where everybody may stop: the
tab closed and the clock at its bound; the engine closed and the pump waiting for events that will not come;
the page left, its calls ended and its loads used up. In `GuestShell` and `Chrome` an exited window stutters
(`Done`, `ChromeDone`).

## 4. What is proved

TLAPS checks the theorems for every value of the constants allowed by the modules' named assumptions:
any number of tabs, addresses, goroutines, any policy. The proofs are in `TabStripProofs`, `GuestShellProofs`,
`NodeMapsProofs`, `ChromeProofs`, `SearchAppProofs`, `GuestWireProofs`, `BrokerProofs` (with the supervisor's) and
`WebKitEngineProofs`.

- **Tab strip.** `StripInv`, the conjunction of `StripTypeOK`, `OneTabShown` and `HistoryConsistent`, is
  inductive. The three need each other: that the active index is in range is needed to type the tab that is
  navigated, that ids are distinct to see that removing one removes no other, and that a cursor indexes its
  history to see that truncating and pushing keep it so. From it follow the three invariants, and step by step
  the action properties `CloseKeepsActive`, `AddressBarFollowsTab` and `HistoryBehindKept`.
- **Guests.** `GuestShellImplementsStrip`: the composition implements the tab strip, so all of its theorems hold of
  the whole shell. `GuestInv` adds to the types and `GuestsInTabs` what calls, gestures and pending
  requests have to do with each other: a gesture is only up during a call to the active tab, and a request
  is never younger than its tab's guest – which is what makes `ResultRoutedToOwner` inductive.
  `OneAnswerPerRequest` needs `PlacesInv`: a request is known by its load and its number (`Key`); the keys on threads,
  in the queue and among the finished are apart, none is in one place twice, and together they are those handed
  out. A load that has not happened has handed out none, which is why the first request of the next guest is new.
- **Node maps.** `NodeMapsTypeOK` holds whatever the ops land on. The rest holds as long as none has strayed, and so does
  its invariant, `KInv`; ids whose node is gone are used freely in it, as long as they lead to nodes of the guest. `NamesResolve` needs `MountStays`: a navigation gives the mount div to id 1 without looking, so
  it must have been id 1's all along and hang under no node that could be removed. So an op can only stray
  by an id whose node is gone, or by moving or dropping the mount div. `SubscribersAreTrue` needs
  that the tree has no cycles (`Acyclic`) and that above a node there are only nodes with a name, or, once one
  has lost it, none with (`NamesAbove`): so a line from a node of the page to the mount div never meets a
  node with a stale pair. `Line` is defined as what every closed set holds, not by recursion, so that these
  facts are proved without induction. So is `ReportsTheNodeHit`: if no subscriber on the line were below all
  others (`NearestOnLine`), the nodes that have a subscriber on their line would be a closed set, and the line
  would be empty.
- **Chrome.** `ChromeImplementsStrip` brings the strip's invariant along, without which `StarIsTrue` is not inductive: it
  takes distinct ids and an active index in range to see that a navigation in the background leaves the tab in
  front alone. `ChromeFits` needs that heights are numbers and, from `ChromeAssumption`, that a fresh console is
  no lower than the least one; that `DragConsoleTo` and `Resize` keep to the same limit is the rest. `BookmarksKept`
  needs `RowsInv`, that the list on display is one that names no page twice and none without an address:
  such a list is read back as itself (`SavedIsLoaded`), and any file is read as such a list (`LoadedIsList`). `Loaded` is
  recursive, and the induction over it is first-order: a set of numbers that holds zero and successors holds
  all, because the least one outside would be the successor of one inside (`UpToInduction`, from the library's
  theorem on least elements).
- **Search page.** `ShowsLastSearch` needs `WaitsForLast`: the request waited for, if any, is the last one made. So an answer
  that is taken was, unless it belongs to another page, an answer to it, and its query is still that of its call
  (`PhaseChanged`). `HonestCallsServed` is a lemma about the server (`RequestVerified`) under `CallTimeout <=
  SkewWindow`, 15 seconds and the server's 60.
- **Wire.** `WireInv` says of the batch being built that record number i lies at 16 (i - 1) and is `Placed`: its string, if it
  has one, is in the heap at its offset, length first. Appending to the heap moves nothing (`PlacedInLonger`), and a
  header in front shifts all alike (`EncodedProperties`), so that what `decode_batch` reads back is what was meant.
  `EventsAgree` has a part about tables, kind by kind (`FieldsAgree`: what the guest reads is written there, and what
  is not written is read as zero), and one about texts, `EventInv`: a cut text ends at a character and fits
  (`CutProperties`), so that no result is refused; a text that fits is read whole.
- **Supervisor.** The budget is not inductive by itself, because the code counts what it remembers and the property
  counts what happened. `SupInv` adds `Remembered` (whatever happened within the window is still
  remembered, and nothing else is) and `Numbered` (restarts are in the past and numbered). Then the
  attempt just recorded is last in every burst that contains it, and that burst fits into the window just counted.
- **Broker.** It implements both the tab lifecycle and the supervisor (`BrokerImplementsTabs`,
  `BrokerImplementsSupervisor`), so the budget carries over; `BrokerInv` adds that the callback runs
  exactly while its goroutine holds the mutex. `ShownPageIsUrl` and `ClosedIsTerminal` follow from the
  tab's own invariant, `LifeInv`.
- **WebKit bridge.** `WebKitInv` has six parts. Until `Close`, an answer is in exactly one of the transport, the hand of
  the receive loop and the two answer channels, precisely while some goroutine waits, and it is that
  goroutine's (`AnswerInv`); nothing is left over when the lock is let go, or the next call could take it. A
  goroutine that has not yet read the answer to its commit is the only reason for the engine to be behind
  the DOM (`RevisionInv`). `EventInv` says where the numbers of the events are: up to `Len(seen)` read, then those in
  `events`, one in the hand, a stretch in the transport between answers, one in the forwarder, the rest in
  the DOM's channel. `KeepsPromise` is a refinement, step by step from the invariant: the abstract call happens when the
  frame is sent, the DOM carrying it out as it comes, or when the engine refuses the batch by its own revision, which
  is then the DOM's too (or a batch was torn, after which the interface lets it refuse any). What the goroutine reads later is what was decided then; all else stutters.

The invariants were checked by TLC before they were proved. Every invariant and every step property of section 3
that holds is a theorem; left to TLC are the properties under fairness, since liveness is out of the
prover's reach (`EveryRequestEnds`, `FramesCatchUp`, `CrashReportsReturn`, `CallsReturn`, `CloseStopsLoops`, `SearchesEnd`).
No theorem rests on more than the `ASSUME`s of the modules, which TLC evaluates in the runs.

## 5. Where code and text disagree

Two are runs in which TLC finds the text's claim violated; `PROJECT.json` quotes text and line.

- `stale_result`: request numbers start at 1 again with each load and results are matched by tab and number
  only, so a page can be handed the answer to a request of the page before it.
- `webkit_pump`: a full event channel is not relieved by dropping events; the receive loop waits, and with it
  the answer that the pump, the reader of those events, is waiting for.

Others were met while modelling and have no run of their own.

- A guest loaded into a tab that is not the active one never gets `page_load` (`ui.rs:666`), which `docs/ABI.md:186` has
  delivered once to each.
- `docs/ABI.md:97-99`: "The guest cannot address anything outside its mount subtree — host chrome (console, future
  tab UI) is physically unreachable. Isolation falls out of the id space." Ops that drop nodes leave pairs in `fwd`
  (`abi.rs:464-481`), and an op is let through by any pair (`abi.rs:386`). In `NodeMaps`: `Create(a)`,
  `AppendChild(Root, a)`, `Clear(Root)`, then `ShellTakes` of the slot that held the node, and every op on `a` is one on a
  node of the shell: `strayed` becomes TRUE. So can the mount div itself be moved or removed, being a node like others to
  these ops, and `InsertBefore` at id 1 puts a node beside it, outside the page. TLC finds the
  trace at once when `~strayed` is made an invariant. It is not among the runs, which are one for each of the
  questions above; what the properties of `node_maps` assert is restricted to `~strayed` for this reason, and
  they say where the disagreement begins: not with an id of a node the guest still has.
- Ops that drop nodes leave pairs in `rev` too (`abi.rs:464-481`); a node made by `SetInnerHtml` in a slot used before has the
  id of the node before it, and events on it are reported under that id, where `docs/ABI.md:152` says that
  "children get no guest ids". Without a stale pair, an event on such a child is reported with
  `target` = `listener` (`ui.rs:1812`), where `docs/ABI.md:175` has the deepest guest node hit.
- A reload can undo a navigation that came between its reading and its acting (`tab.go:257`), though it
  "re-navigates to the current URL" (`tab.go:251`).
- Back and forward leave the cursor on one entry and the page on another when the address no longer resolves
  (`ui.rs:701`). No text says otherwise, so this is a remark; `HistoryConsistent` has to allow it.
- A result that arrives before the first window exists is dropped (`ui.rs:2127`), while a console message is kept.
- The Rust SDK has no arm for the context menu and the cancelling of a pointer, whose coordinates the renderer
  writes (`abi.rs:1080-1081`), and reads `pressed` of text input, which the renderer does not write and so is false.

## 6. What is not modelled

Data without control: byte layouts other than the Rust SDK's, HTML and CSS, wording of errors, logs. Layout, painting
and hit testing. The process transport of the WebKit bridge, which has no host binary to talk to. Of the chrome: the
lines in the console, the theme and the side of the tabs, which are display only, and a second browser
writing the same `bookmarks.json`. The logger's session marker, the legacy console guest, windows in the Go
shell, the storefront and retailer servers, the C SDK, and the todo example: section 7, or not worth a model.
Text of an input that is larger than the event region is modelled as the code has it: the event is refused
and the guest keeps the text it knew. In the models: for the tab strip, the manifest's resolution and a guest's code are
nondeterministic choices; a guest that fails to load and one that traps at its start are one outcome; fetch and RPC differ in
name only; what a guest does on `page_load` is part of its load, sent or not. A request thread that cannot be started
(`.spawn(..).ok()`, `abi.rs:687-719` and `782-850`) is left out: the operating system is assumed to have a thread to give; if it has
none, the guest has an id that is never answered, and `EveryRequestEnds` is not about that request. Of the search
server, the 404 for another method or path (`main.rs:211-217`) and the 400 for a body that is no query (`main.rs:227-230`) are left
out: the page modelled with it sends neither. A batch commits
once, as all SDKs build it, or is torn. `LoadHTML` of the bridge does nothing but take its lock. Data races the
code has on words of its own size (`Engine.Revision`) have no outcome the model does not have.

## 7. Plan

The first three groups are done; what is left, in this order, is the rest.

1. `TabStrip`, `GuestShell`, `NodeMaps`, `Chrome`, `GuestWire`, `SearchApp` with their proofs: the browser's core.
2. `TabLifecycle`, `Supervisor`, `Broker` with their proofs: the Go shell.
3. `Engine`, `WebKitEngine`, `WebKitHost`: the bridge, with the interface as abstract specification, and its proofs.
   Not yet stated: what survives of the bridge's invariant when the host is its only reader.
4. `EventPump`, from `WebKitHost`: a second `Mount` starts a second pump, two goroutines enter one guest, and the
   app's revision falls back to zero after a refused batch.
5. `Storefront` (`server`, with `retailer-server` as an instance): sessions, roles, cart and order handlers as
   sequences of lock acquisitions. Abstract: each handler atomic. Properties: an order's total is that of its
   items; a role decides at the moment of the request. Bounds: 2 users, 2 products, 2 handlers in progress.
6. `QueryCache` (`gwbc.h`): keyed queries and RPCs with request ids, lost answers, pools at their limits.
   Property: a key shows the answer to its request; liveness: it is not in flight for ever.
7. `WindowStrip` (`window.go`, `manager.go`), with `TabLifecycle`: order, active tab, moving and closing a tab.
8. In `NodeMaps`, observers and focus; the session token of `rpc_call`.
