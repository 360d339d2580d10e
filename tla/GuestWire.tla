----------------------------- MODULE GuestWire -----------------------------
(***************************************************************************)
(* The bytes between a guest and the renderer, in both directions: batches *)
(* of operations, encoded by Batch of sdk-rust and decoded by decode_batch *)
(* of renderer/src/abi.rs, and events, written by deliver_event and read   *)
(* by decode_events of sdk-rust.                                           *)
(*                                                                         *)
(* Memory is a sequence of cells, one per byte; a number, or an operation  *)
(* with its fixed fields, is held whole in the first of its cells and the  *)
(* others are 0.  Offsets and lengths are those of the code.               *)
(***************************************************************************)
EXTENDS Integers, Sequences, SequencesExt

CONSTANTS
  Codes,       \* operations guests make use of
  Ids,         \* what a fixed field of an operation may hold
  Strings,     \* sequences of bytes an operation may carry
  NoStr,       \* NO_STR, 2^32 - 1
  Texts,       \* texts of events
  Region,      \* size of the event region, EVENT_BUF_SIZE
  MaxOps,      \* bound: operations of one batch
  MaxQueue     \* bound: batches the host has not yet taken

\* A text is known by the offsets at which its characters end: each takes one
\* to four bytes.
Text ==
  {t \in Seq(Nat) : \A i \in 1 .. Len(t) :
     t[i] - (IF i = 1 THEN 0 ELSE t[i - 1]) \in 1 .. 4}

ASSUME WireAssumption ==
  /\ Codes \subseteq 1 .. 19
  /\ Strings \subseteq Seq(Nat)
  /\ NoStr \in Nat
  /\ Texts \subseteq Text
  /\ Region \in Nat /\ Region >= 64
  /\ MaxOps \in Nat
  /\ MaxQueue \in Nat

\* Codes of the operations that carry a string.
TextCodes == {2, 3, 5, 6, 13, 14}

\* An operation as guest and host mean it: the fields a, b and c, and either
\* a string or the field d.
Operation ==
  [code : Codes \cap TextCodes, a : Ids, b : Ids, c : Ids, rest : Strings]
    \cup [code : Codes \ TextCodes, a : Ids, b : Ids, c : Ids,
          rest : Ids \cup {NoStr}]

Zeros(n) == [i \in 1 .. n |-> 0]

Pad4(n) == 4 * ((n + 3) \div 4)

\* A value that takes n bytes.
Held(x, n) == <<x>> \o Zeros(n - 1)

-----------------------------------------------------------------------------
(***************************************************************************)
(* Batches.                                                                *)
(***************************************************************************)

\* Bug: the length of a string counts its padding.
Stored_Bug(s) == Held(Pad4(Len(s)), 4) \o s \o Zeros(Pad4(Len(s)) - Len(s))

\* Batch::str: length, bytes, and zeros up to a multiple of four.
Stored(s) == Held(Len(s), 4) \o s \o Zeros(Pad4(Len(s)) - Len(s))

\* Batch::submit: header, operations, heap.
Header(n, heapAt, heapLen) ==
  Held("GWB1", 4) \o Held(n, 4) \o Held(heapAt, 4) \o Held(heapLen, 4)

Encoded(n, records, strings) ==
  Header(n, 16 + Len(records), Len(strings)) \o records \o strings

\* get_str, of a heap and an offset into it that both may be anything.
StrIn(heap, d) == d + 4 <= Len(heap) /\ d + 4 + heap[d + 1] <= Len(heap)
GetStr(heap, d) == SubSeq(heap, d + 5, d + 4 + heap[d + 1])

\* One record of decode_batch.
Decodes(x, heap) ==
  /\ x.code \in 1 .. 19
  /\ x.code \in TextCodes /\ x.d # NoStr => StrIn(heap, x.d)

DecodedOp(x, heap) ==
  [code |-> x.code, a |-> x.a, b |-> x.b, c |-> x.c,
   rest |-> IF x.code \notin TextCodes THEN x.d
            ELSE IF x.d = NoStr THEN <<>> ELSE GetStr(heap, x.d)]

\* decode_batch: the records and the heap, if they lie within the batch.
Record(bytes, i) == bytes[16 * i + 1]
HeapOf(bytes) == SubSeq(bytes, bytes[9] + 1, bytes[9] + bytes[13])

\* It refuses a batch whole, for any one of its records.
Decodable(bytes) ==
  /\ Len(bytes) >= 16 /\ bytes[1] = "GWB1"
  /\ bytes[9] + bytes[13] <= Len(bytes)
  /\ 16 + 16 * bytes[5] <= Len(bytes)
  /\ \A i \in 1 .. bytes[5] : Decodes(Record(bytes, i), HeapOf(bytes))

DecodeBatch(bytes) ==
  [i \in 1 .. bytes[5] |-> DecodedOp(Record(bytes, i), HeapOf(bytes))]

-----------------------------------------------------------------------------
(***************************************************************************)
(* Events.  A field is its name, its offset in the 16 bytes of the         *)
(* payload, and its width.                                                 *)
(***************************************************************************)

PointerKinds == {"pointer_down", "pointer_up", "pointer_move", "click",
                 "dblclick", "pointer_enter", "pointer_leave"}
KeyKinds == {"key_down", "key_up"}
ResultKinds == {"net_result", "rpc_result"}
TextKinds == KeyKinds \cup {"text_input", "input"}
BareKinds == {"context_menu", "pointer_cancel", "wheel", "focus", "blur",
              "scroll", "window_resize", "page_load", "theme_change",
              "observed_layout"}
Kinds == PointerKinds \cup ResultKinds \cup TextKinds \cup BareKinds

Point == {<<"x", 0, 4>>, <<"y", 4, 4>>}

\* map_dom_event and the constructors of EventOut.
HostWrites(k) ==
  CASE k \in PointerKinds \cup {"context_menu", "pointer_cancel"} ->
         Point \cup {<<"buttons", 8, 2>>, <<"mods", 10, 2>>}
    [] k = "wheel" -> {<<"dx", 0, 4>>, <<"dy", 4, 4>>, <<"mods", 8, 2>>}
    [] k \in KeyKinds -> {<<"mods", 2, 2>>, <<"pressed", 4, 1>>}
    [] k = "text_input" -> {<<"mods", 2, 2>>}
    [] k = "scroll" -> Point
    [] k \in {"window_resize", "page_load"} ->
         {<<"w", 0, 4>>, <<"h", 4, 4>>, <<"scale", 8, 4>>}
    [] k = "theme_change" -> {<<"dark", 0, 4>>}
    [] k = "net_result" -> {<<"status", 0, 2>>, <<"ok", 2, 1>>}
    [] k = "rpc_result" -> {<<"status", 0, 2>>, <<"ok", 2, 1>>,
                            <<"err_class", 3, 1>>, <<"req_id", 4, 4>>}
    [] k = "observed_layout" -> Point \cup {<<"w", 8, 4>>, <<"h", 12, 4>>}
    [] OTHER -> {}

\* decode_events, which has no arm for the menu and cancel of a pointer, and
\* takes text input for a key.
GuestReads(k) ==
  CASE k \in PointerKinds ->
         Point \cup {<<"buttons", 8, 2>>, <<"mods", 10, 2>>}
    [] k = "wheel" -> {<<"dx", 0, 4>>, <<"dy", 4, 4>>, <<"mods", 8, 2>>}
    [] k \in KeyKinds \cup {"text_input"} ->
         {<<"mods", 2, 2>>, <<"pressed", 4, 1>>}
    [] k = "scroll" -> Point
    [] k \in {"window_resize", "page_load"} ->
         {<<"w", 0, 4>>, <<"h", 4, 4>>, <<"scale", 8, 4>>}
    [] k = "theme_change" -> {<<"dark", 0, 4>>}
    [] k = "net_result" -> {<<"status", 0, 2>>, <<"ok", 2, 1>>}
    [] k = "rpc_result" -> {<<"status", 0, 2>>, <<"ok", 2, 1>>,
                            <<"err_class", 3, 1>>, <<"req_id", 4, 4>>}
    [] k = "observed_layout" -> Point \cup {<<"w", 8, 4>>, <<"h", 12, 4>>}
    [] OTHER -> {}

\* The payload: byte number j of a field is <<its name, j>>.
Payload(k) ==
  [o \in 0 .. 15 |->
     IF \E f \in HostWrites(k) : o \in f[2] .. f[2] + f[3] - 1
       THEN LET f == CHOOSE f \in HostWrites(k) : o \in f[2] .. f[2] + f[3] - 1
            IN <<f[1], o - f[2]>>
       ELSE <<"none", 0>>]

\* A field comes out as it went in, or as the 0 of bytes nobody wrote.
ReadsTrue(f, payload) ==
  \/ \A j \in 0 .. f[3] - 1 : payload[f[2] + j] = <<f[1], j>>
  \/ \A j \in 0 .. f[3] - 1 : payload[f[2] + j] = <<"none", 0>>

Bytes(t) == IF t = <<>> THEN 0 ELSE Last(t)

\* deliver_event refuses a record that does not fit the region.
Fits(t) == 40 + Pad4(Bytes(t)) <= Region

\* Bug: the body may fill the region, which holds the header as well.
Cut_Bug(t) ==
  CHOOSE p \in Prefixes(t) :
    /\ Bytes(p) <= Region
    /\ \A q \in Prefixes(t) : Bytes(q) <= Region => Len(q) <= Len(p)

\* deliver_net_result and deliver_rpc_result: the longest beginning of the
\* body, in whole characters, that leaves 64 bytes of the region.
Cut(t) ==
  CHOOSE p \in Prefixes(t) :
    /\ Bytes(p) <= Region - 64
    /\ \A q \in Prefixes(t) : Bytes(q) <= Region - 64 => Len(q) <= Len(p)

\* The text decode_events finds in the record of one event.
ReadText(t) == IF 40 + Bytes(t) <= Region THEN t ELSE <<>>

-----------------------------------------------------------------------------

VARIABLES
  count, ops, heap,  \* the guest's Batch
  meant,     \* history: what was put into it
  batches,   \* Shared.batches
  sent,      \* history: what the guest meant by them
  field,     \* the text of an input field of the guest
  value,     \* what the guest last heard of it
  out,       \* the last event handed to deliver_event
  seen       \* ... and what the guest's handler got, if it was called

batchVars == <<count, ops, heap, meant, batches, sent>>
eventVars == <<field, value, out, seen>>
vars == <<batchVars, eventVars>>

Event(k, t) == [kind |-> k, text |-> t]
NoEvent == Event("none", <<>>)

Init ==
  /\ count = 0 /\ ops = <<>> /\ heap = <<>> /\ meant = <<>>
  /\ batches = <<>> /\ sent = <<>>
  /\ field = <<>> /\ value = <<>>
  /\ out = NoEvent /\ seen = NoEvent

\* Batch::op and str.  A guest's memory holds less than NoStr bytes.
Emit(m) ==
  /\ count < MaxOps
  /\ m.code \in TextCodes => Len(heap) + 8 + Len(m.rest) < NoStr
  /\ LET x == [code |-> m.code, a |-> m.a, b |-> m.b, c |-> m.c,
               d |-> IF m.code \in TextCodes THEN Len(heap) ELSE m.rest]
     IN ops' = ops \o Held(x, 16)
  /\ heap' = IF m.code \in TextCodes THEN heap \o Stored(m.rest) ELSE heap
  /\ count' = count + 1
  /\ meant' = Append(meant, m)
  /\ UNCHANGED <<batches, sent, eventVars>>

\* Batch::submit and the submit import.  The batch is emptied even when the
\* host refuses it.
Submit ==
  /\ count > 0
  /\ Len(batches) < MaxQueue
  /\ LET bytes == Encoded(count, ops, heap)
     IN batches' = IF Decodable(bytes) THEN Append(batches, DecodeBatch(bytes))
                   ELSE batches
  /\ sent' = Append(sent, meant)
  /\ count' = 0 /\ ops' = <<>> /\ heap' = <<>> /\ meant' = <<>>
  /\ UNCHANGED eventVars

\* apply_guest_batches_for takes what there is.
Take ==
  /\ batches # <<>>
  /\ batches' = <<>> /\ sent' = <<>>
  /\ UNCHANGED <<count, ops, heap, meant, eventVars>>

\* deliver_event, gwb_events and decode_events.
Deliver(k, t) ==
  /\ out' = Event(k, t)
  /\ seen' = IF Fits(t) THEN Event(k, ReadText(t)) ELSE NoEvent
  /\ UNCHANGED batchVars

\* The user edits the field; the event carries all of its text, uncut.
Input(t) ==
  /\ field' = t
  /\ Deliver("input", t)
  /\ value' = IF seen'.kind = "input" THEN seen'.text ELSE value

UiEvent(k, t) ==
  /\ \/ k \in TextKinds \ {"input"}
     \/ k \in PointerKinds \cup BareKinds /\ t = <<>>
  /\ Deliver(k, t)
  /\ UNCHANGED <<field, value>>

ResultEvent(k, body) ==
  /\ k \in ResultKinds
  /\ Deliver(k, Cut(body))
  /\ UNCHANGED <<field, value>>

Next ==
  \/ \E m \in Operation : Emit(m)
  \/ Submit \/ Take
  \/ \E t \in Texts :
       \/ Input(t)
       \/ \E k \in Kinds : UiEvent(k, t) \/ ResultEvent(k, t)

Spec == Init /\ [][Next]_vars

-----------------------------------------------------------------------------
(***************************************************************************)
(* Properties.                                                             *)
(***************************************************************************)

\* Every batch of the SDK is understood, and as it was meant: no operation
\* is lost, added or moved, and each string comes out of the heap it shares
\* with the others byte for byte, batch after batch out of the same buffers.
WireKeepsOps == batches = sent

\* Every field the guest reads of an event is the one the host wrote there,
\* and the text is the host's; a result is never refused for its size; and
\* the guest's copy of an input field is the field's text whenever that fits
\* the region.
EventsAgree ==
  /\ \A f \in GuestReads(seen.kind) : ReadsTrue(f, Payload(seen.kind))
  /\ seen # NoEvent => seen = out
  /\ out.kind \in ResultKinds => seen # NoEvent
  /\ Fits(field) => value = field

=============================================================================
