------------------------------ MODULE NodeMaps ------------------------------
(***************************************************************************)
(* The names a guest gives to the nodes of its page: NodeMaps and          *)
(* apply_batches in renderer/src/abi.rs, and the part of the event driver  *)
(* in ui.rs that turns the node an event hit back into names.              *)
(*                                                                         *)
(* A guest picks the ids of its nodes itself; Blitz picks the slots that   *)
(* hold them and gives a slot out again once its node has been dropped.    *)
(* fwd and rev translate.  Remove and ReplaceWith take one pair out of     *)
(* them, however many nodes go with it, and Clear and SetInnerHtml none,   *)
(* so both keep pairs of nodes that are gone.                              *)
(*                                                                         *)
(* An op takes any id that has an entry in fwd, and acts on whatever node  *)
(* is in that slot by then: one of the guest's, or of the shell.           *)
(*                                                                         *)
(* One action is one op of a batch; nothing else runs while a batch is     *)
(* applied.  The guest creates a node only under an id that no node of its *)
(* own has (docs/ABI.md:100); for the rest it may ask for anything.  Some  *)
(* of it is left to Blitz, whose code is not here, and is no step: an op   *)
(* on an empty slot, one that would make a cycle, one beside a node that   *)
(* has no parent.  Attributes, styles and text change neither the tree nor *)
(* the maps and are left out; an op with an unknown atom does nothing.     *)
(***************************************************************************)
EXTENDS Naturals

CONSTANTS
  Guests,  \* the ids a guest may use
  Root,    \* id 1, the mount root
  Hosts,   \* the slots of the document that this tab may come to use
  Mount,   \* the slot of the tab's mount div
  Kinds    \* the event kinds that can be subscribed to

NoName == "no name"       \* no entry in rev
NoHost == "no host"       \* no entry in fwd
Free == "free"            \* parent of an empty slot
Loose == "loose"          \* parent of a node that hangs nowhere
Outside == "outside"      \* parent of Mount and of the shell's nodes

\* What a node is that no guest id was given to: part of the shell or of
\* another tab, made by set_inner_html, or left over from a replacement or
\* from the page before this one.
Unnamed == {"shell", "html", "leftover", NoName}

ASSUME NodeMapsAssumption ==
  /\ Root \in Guests
  /\ Mount \in Hosts
  /\ Guests \cap Unnamed = {}
  /\ Hosts \cap {NoHost, Free, Loose, Outside} = {}

VARIABLES
  parent,    \* the tree: slot -> slot of the parent, Loose, Outside or Free
  maker,     \* history: the id the node in a slot was created under
  fwd,       \* NodeMaps.fwd
  rev,       \* NodeMaps.rev
  listeners, \* NodeMaps.listeners
  strayed    \* history: an op has landed on a node that is not the guest's,
             \* or has taken the mount div away

vars == <<parent, maker, fwd, rev, listeners, strayed>>

-----------------------------------------------------------------------------
\* The tree.

Alive == {h \in Hosts : parent[h] # Free}

\* The node and all above it, up to the mount div or the top of a loose tree.
Line(h) ==
  {a \in Hosts : \A S \in SUBSET Hosts :
     (h \in S /\ \A x \in S : parent[x] \in Hosts => parent[x] \in S)
       => a \in S}

Below(n) == {h \in Alive : n \in Line(h)}

Shown == Below(Mount)

\* The ids the guest has a node of.
Named == {g \in Guests : \E h \in Alive : maker[h] = g}

Dropped(D) == [h \in Hosts |-> IF h \in D THEN Free ELSE parent[h]]

\* maker after the nodes of D were dropped and those of L lost their names.
Unmade(D, L) == [h \in Hosts |-> IF h \in D THEN NoName
                                 ELSE IF h \in L THEN "leftover" ELSE maker[h]]

-----------------------------------------------------------------------------
\* The ops.

\* The ids that lead somewhere: all the code asks of one is an entry in fwd.
Found == {g \in Guests : fwd[g] \in Alive}

\* An op on the nodes of N, those of M among them to be moved or dropped.
Touches(N, M) ==
  strayed' = (strayed \/ Mount \in M \/ \E h \in N : maker[h] \notin Guests)

\* As if an entry of an earlier node in the slot were kept.
Born_Bug(g, h) ==
  /\ fwd' = [fwd EXCEPT ![g] = h]
  /\ rev' = [rev EXCEPT ![h] = IF @ = NoName THEN g ELSE @]

Born(g, h) ==
  /\ fwd' = [fwd EXCEPT ![g] = h]
  /\ rev' = [rev EXCEPT ![h] = g]

\* CreateElement with a known tag, and CreateText.
Create(g) ==
  /\ g \notin Named
  /\ \E h \in Hosts \ Alive :
       /\ parent' = [parent EXCEPT ![h] = Loose]
       /\ maker' = [maker EXCEPT ![h] = g]
       /\ Born(g, h)
  /\ UNCHANGED <<listeners, strayed>>

\* As if a guest id were taken for a slot.
Place_Bug(h, p) == parent' = [parent EXCEPT ![h] = rev[p]]

Place(h, p) == parent' = [parent EXCEPT ![h] = p]

AppendChild(p, c) ==
  /\ fwd[p] \notin Below(fwd[c])
  /\ Place(fwd[c], fwd[p])
  /\ Touches({fwd[p], fwd[c]}, {fwd[c]})
  /\ UNCHANGED <<maker, fwd, rev, listeners>>

\* Before the mount div is a place too: beside it, out of the page.
InsertBefore(c, b) ==
  /\ fwd[b] \notin Below(fwd[c])
  /\ parent[fwd[b]] # Loose
  /\ Place(fwd[c], parent[fwd[b]])
  /\ Touches({fwd[c], fwd[b]}, {fwd[c]})
  /\ UNCHANGED <<maker, fwd, rev, listeners>>

\* maps.rev.remove(&n), and maps.fwd.remove of the id that was found there.
Forget(n) ==
  /\ rev' = [rev EXCEPT ![n] = NoName]
  /\ fwd' = [g \in Guests |-> IF g = rev[n] THEN NoHost ELSE fwd[g]]

\* Blitz takes the old node out of the page without dropping it.
ReplaceWith(old, new) ==
  /\ fwd[old] \notin Below(fwd[new])
  /\ parent[fwd[old]] # Loose
  /\ parent' = [parent EXCEPT ![fwd[new]] = parent[fwd[old]],
                              ![fwd[old]] = Loose]
  /\ maker' = Unmade({}, {fwd[old]})
  /\ Forget(fwd[old])
  /\ Touches({fwd[old], fwd[new]}, {fwd[old], fwd[new]})
  /\ UNCHANGED listeners

\* The node is dropped with all below it; one pair leaves the maps.
Remove(g) ==
  /\ parent' = Dropped(Below(fwd[g]))
  /\ maker' = Unmade(Below(fwd[g]), {})
  /\ Forget(fwd[g])
  /\ Touches({fwd[g]}, {fwd[g]})
  /\ UNCHANGED listeners

Inside(n) == Below(n) \ {n}

Clear(g) ==
  /\ parent' = Dropped(Inside(fwd[g]))
  /\ maker' = Unmade(Inside(fwd[g]), {})
  /\ Touches({fwd[g]}, {})
  /\ UNCHANGED <<fwd, rev, listeners>>

\* The children go as in Clear; S are the slots the parsed nodes get.
SetInnerHtml(g) ==
  LET gone == Inside(fwd[g]) IN
  /\ \E S \in SUBSET (gone \cup (Hosts \ Alive)) :
       /\ parent' = [h \in Hosts |-> IF h \in S THEN fwd[g]
                                     ELSE Dropped(gone)[h]]
       /\ maker' = [h \in Hosts |-> IF h \in S THEN "html"
                                    ELSE Unmade(gone, {})[h]]
  /\ Touches({fwd[g]}, {})
  /\ UNCHANGED <<fwd, rev, listeners>>

Listen(g, k) ==
  /\ listeners' = listeners \cup {<<g, k>>}
  /\ UNCHANGED <<parent, maker, fwd, rev, strayed>>

Unlisten(g, k) ==
  /\ listeners' = listeners \ {<<g, k>>}
  /\ UNCHANGED <<parent, maker, fwd, rev, strayed>>

-----------------------------------------------------------------------------
\* The rest of the window.

\* navigate: the page below the mount div is dropped and the maps start anew.
\* Loose nodes of the old page are left over.
Navigate ==
  /\ Mount \in Alive
  /\ parent' = Dropped(Inside(Mount))
  /\ maker' = Unmade(Inside(Mount),
                     {h \in Hosts \ {Mount} : maker[h] \in Guests})
  /\ fwd' = [g \in Guests |-> IF g = Root THEN Mount ELSE NoHost]
  /\ rev' = [h \in Hosts |-> IF h = Mount THEN Root ELSE NoName]
  /\ listeners' = {}
  /\ UNCHANGED strayed

\* The shell and the other tabs take slots of the same document and give
\* them back, with whatever has come to hang below.
ShellTakes(h) ==
  /\ h \notin Alive
  /\ parent' = [parent EXCEPT ![h] = Outside]
  /\ maker' = [maker EXCEPT ![h] = "shell"]
  /\ UNCHANGED <<fwd, rev, listeners, strayed>>

ShellDrops(h) ==
  /\ maker[h] = "shell"
  /\ parent' = Dropped(Below(h))
  /\ maker' = Unmade(Below(h), {})
  /\ UNCHANGED <<fwd, rev, listeners, strayed>>

Init ==
  /\ parent = [h \in Hosts |-> IF h = Mount THEN Outside ELSE Free]
  /\ maker = [h \in Hosts |-> IF h = Mount THEN Root ELSE NoName]
  /\ fwd = [g \in Guests |-> IF g = Root THEN Mount ELSE NoHost]
  /\ rev = [h \in Hosts |-> IF h = Mount THEN Root ELSE NoName]
  /\ listeners = {}
  /\ strayed = FALSE

Next ==
  \/ \E g \in Guests : Create(g)
  \/ \E p, c \in Found : AppendChild(p, c)
  \/ \E c, b \in Found : InsertBefore(c, b)
  \/ \E o, n \in Found : ReplaceWith(o, n)
  \/ \E g \in Found : Remove(g)
  \/ \E g \in Found : Clear(g)
  \/ \E g \in Found : SetInnerHtml(g)
  \/ \E g \in Guests, k \in Kinds : Listen(g, k)
  \/ \E g \in Guests, k \in Kinds : Unlisten(g, k)
  \/ Navigate
  \/ \E h \in Hosts : ShellTakes(h)
  \/ \E h \in Hosts : ShellDrops(h)

Spec == Init /\ [][Next]_vars

-----------------------------------------------------------------------------
\* Events.  The driver hands GwbEventHandler the line of the node that was
\* hit, nearest first.

\* As if the line were looked up in fwd.
Subscribed_Bug(h, k) ==
  {a \in Line(h) : \E g \in Guests : fwd[g] = a /\ <<g, k>> \in listeners}

\* The nodes of the line that are subscribed, by the names rev has for them.
Subscribed(h, k) == {a \in Line(h) : <<rev[a], k>> \in listeners}

\* As if the line were walked from the top.
Nearest_Bug(S) == CHOOSE a \in S : \A b \in S : a \in Line(b)

Nearest(S) == CHOOSE a \in S : \A b \in S : b \in Line(a)

Listener(h, k) == rev[Nearest(Subscribed(h, k))]

Target(h, k) == IF rev[h] \in Guests THEN rev[h] ELSE Listener(h, k)

-----------------------------------------------------------------------------
NodeMapsTypeOK ==
  /\ parent \in [Hosts -> Hosts \cup {Loose, Outside, Free}]
  /\ maker \in [Hosts -> Guests \cup Unnamed]
  /\ fwd \in [Guests -> Hosts \cup {NoHost}]
  /\ rev \in [Hosts -> Guests \cup {NoName}]
  /\ listeners \subseteq Guests \X Kinds
  /\ strayed \in BOOLEAN

\* As long as no op has strayed: whatever pairs the maps keep of nodes that
\* are gone, and however slots and ids are used again, the maps are right
\* about every node the guest still has.  Its id leads to it, so that only an
\* id whose node is gone can lead to another (and straying begins with one of
\* those, or with the mount div), and it leads back to its id.  This goes on
\* though such an id be used, as long as it lands on nodes of the guest.
NamesResolve ==
  ~strayed =>
    \A h \in Alive : maker[h] \in Guests =>
      fwd[maker[h]] = h /\ rev[h] = maker[h]

\* The subscribed nodes that an event on h passes on its way up.
Due(h, k) == {a \in Line(h) : /\ maker[a] \in Guests
                              /\ <<maker[a], k>> \in listeners}

\* As long as no op has strayed: on the way up from a node the guest made,
\* the driver meets exactly the subscribers that are there.  A stale pair in
\* rev neither puts a false one on the line nor hides a true one, and nothing
\* without a name comes between a node of the page and the mount div.
SubscribersAreTrue ==
  ~strayed =>
    \A h \in Shown, k \in Kinds :
      maker[h] \in Guests => Subscribed(h, k) = Due(h, k)

\* As long as no op has strayed, the event is reported for the node that was
\* hit, to the nearest of them (docs/ABI.md:164 and 175).
ReportsTheNodeHit ==
  ~strayed =>
    \A h \in Shown, k \in Kinds :
      maker[h] \in Guests /\ Due(h, k) # {} =>
        /\ Target(h, k) = maker[h]
        /\ \E a \in Due(h, k) : /\ Listener(h, k) = maker[a]
                               /\ \A b \in Due(h, k) : b \in Line(a)

=============================================================================
