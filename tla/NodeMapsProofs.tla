-------------------------- MODULE NodeMapsProofs --------------------------
(***************************************************************************)
(* Whatever the guest makes, removes and names again, whatever ids it uses *)
(* once their nodes have gone, and whatever the shell does with the slots: *)
(* until an op strays, the maps are right about every node the guest still *)
(* has, and an event on one is reported for it.                            *)
(*                                                                         *)
(* NamesResolve is not inductive: a navigation gives the mount div to Root *)
(* without looking, so the invariant has to say that it was Root's all     *)
(* along, and that it hangs under no node of the guest, or Remove could    *)
(* take it away.  The types hold after straying too, and are proved first. *)
(***************************************************************************)
EXTENDS NodeMaps, TLAPS

\* What NamesResolve says of the states before an op strays.
NamesRight ==
  \A h \in Alive : maker[h] \in Guests =>
    fwd[maker[h]] = h /\ rev[h] = maker[h]

MountStays == parent[Mount] = Outside /\ maker[Mount] = Root

Right == NamesRight /\ MountStays

IInv == NodeMapsTypeOK /\ Right

USE NodeMapsAssumption DEF Free, Loose, Outside, NoName, NoHost

-----------------------------------------------------------------------------
\* A node is on its own line.
LEMMA SelfOnLine ==
  ASSUME NEW h \in Hosts
  PROVE  h \in Line(h)
  BY DEF Line

\* A line is closed: with a node it holds the node's parent.
LEMMA LineClosed ==
  ASSUME NEW h \in Hosts, NEW x \in Line(h), parent[x] \in Hosts
  PROVE  parent[x] \in Line(h)
  BY DEF Line

\* Nothing is above a node that hangs under none.
LEMMA TopAlone ==
  ASSUME NEW h \in Hosts, parent[h] \notin Hosts
  PROVE  Line(h) = {h}
  <1>1. ASSUME NEW a \in Line(h)
        PROVE  a \in {h}
    <2>1. /\ {h} \in SUBSET Hosts /\ h \in {h}
          /\ \A x \in {h} : parent[x] \in Hosts => parent[x] \in {h}
      OBVIOUS
    <2>2. \A S \in SUBSET Hosts :
            (h \in S /\ \A x \in S : parent[x] \in Hosts => parent[x] \in S)
              => a \in S
      BY DEF Line
    <2> QED
      BY <2>1, <2>2
  <1> QED
    BY <1>1, SelfOnLine

\* Before straying, every op stays within the guest's nodes and leaves the
\* mount div where it is.
LEMMA AtHome ==
  ASSUME NEW N, NEW M, Touches(N, M), ~strayed'
  PROVE  ~strayed /\ Mount \notin M /\ \A h \in N : maker[h] \in Guests
  BY DEF Touches

\* Straying is not taken back.
LEMMA NeverBack ==
  ASSUME [Next]_vars, ~strayed'
  PROVE  ~strayed
  BY DEF Next, vars, Create, AppendChild, InsertBefore, ReplaceWith, Remove,
         Clear, SetInnerHtml, Listen, Unlisten, Navigate, ShellTakes,
         ShellDrops, Touches

\* An id, its own or an earlier node's, that leads to a node of the guest.
LEMMA OwnNode ==
  ASSUME IInv, NEW g \in Found, maker[fwd[g]] \in Guests
  PROVE  /\ fwd[g] \in Alive
         /\ fwd[g] \in Hosts
         /\ rev[fwd[g]] = maker[fwd[g]]
  BY DEF IInv, Right, NamesRight, Found, Alive

\* Only Mount itself has Mount below it.
LEMMA MountBelow ==
  ASSUME IInv, NEW n \in Hosts, Mount \in Below(n)
  PROVE  n = Mount
  <1>1. parent[Mount] \notin Hosts
    BY DEF IInv, Right, MountStays
  <1> QED
    BY <1>1, TopAlone DEF Below

-----------------------------------------------------------------------------
\* The types, whatever slots the ids lead to.

LEMMA InitTypeOK == Init => NodeMapsTypeOK
  <1> SUFFICES ASSUME Init PROVE NodeMapsTypeOK
    OBVIOUS
  <1>1. parent \in [Hosts -> Hosts \cup {Loose, Outside, Free}]
    BY DEF Init
  <1>2. maker \in [Hosts -> Guests \cup Unnamed]
    BY DEF Init, Unnamed
  <1>3. fwd \in [Guests -> Hosts \cup {NoHost}]
    BY DEF Init
  <1>4. rev \in [Hosts -> Guests \cup {NoName}]
    BY DEF Init
  <1> QED
    BY <1>1, <1>2, <1>3, <1>4 DEF Init, NodeMapsTypeOK

LEMMA DropTypes ==
  ASSUME NodeMapsTypeOK, NEW D, NEW L,
         parent' = Dropped(D), maker' = Unmade(D, L)
  PROVE  /\ parent' \in [Hosts -> Hosts \cup {Loose, Outside, Free}]
         /\ maker' \in [Hosts -> Guests \cup Unnamed]
  BY DEF NodeMapsTypeOK, Dropped, Unmade, Unnamed

LEMMA ForgetTypes ==
  ASSUME NodeMapsTypeOK, NEW n, Forget(n)
  PROVE  /\ fwd' \in [Guests -> Hosts \cup {NoHost}]
         /\ rev' \in [Hosts -> Guests \cup {NoName}]
  BY DEF NodeMapsTypeOK, Forget

LEMMA TouchTypes ==
  ASSUME NodeMapsTypeOK, NEW N, NEW M, Touches(N, M)
  PROVE  strayed' \in BOOLEAN
  BY DEF Touches

LEMMA StepTypeOK == NodeMapsTypeOK /\ [Next]_vars => NodeMapsTypeOK'
  <1> SUFFICES ASSUME NodeMapsTypeOK, [Next]_vars PROVE NodeMapsTypeOK'
    OBVIOUS
  <1>0. \A g \in Found : g \in Guests /\ fwd[g] \in Hosts /\ fwd[g] \in Alive
    BY DEF Found, Alive
  <1>1. ASSUME NEW g \in Guests, Create(g) PROVE NodeMapsTypeOK'
    <2>1. PICK h \in Hosts : /\ parent' = [parent EXCEPT ![h] = Loose]
                             /\ maker' = [maker EXCEPT ![h] = g]
                             /\ Born(g, h)
      BY <1>1 DEF Create
    <2>2. UNCHANGED <<listeners, strayed>>
      BY <1>1 DEF Create
    <2> QED
      BY <2>1, <2>2 DEF Born, NodeMapsTypeOK
  <1>2. ASSUME NEW p \in Found, NEW c \in Found, AppendChild(p, c)
        PROVE  NodeMapsTypeOK'
    <2>1. strayed' \in BOOLEAN
      BY <1>2, TouchTypes DEF AppendChild
    <2> QED
      BY <1>0, <1>2, <2>1 DEF AppendChild, Place, NodeMapsTypeOK
  <1>3. ASSUME NEW c \in Found, NEW b \in Found, InsertBefore(c, b)
        PROVE  NodeMapsTypeOK'
    <2>1. strayed' \in BOOLEAN
      BY <1>3, TouchTypes DEF InsertBefore
    <2> QED
      BY <1>0, <1>3, <2>1 DEF InsertBefore, Place, NodeMapsTypeOK
  <1>4. ASSUME NEW o \in Found, NEW n \in Found, ReplaceWith(o, n)
        PROVE  NodeMapsTypeOK'
    <2>1. strayed' \in BOOLEAN
      BY <1>4, TouchTypes DEF ReplaceWith
    <2>2. /\ fwd' \in [Guests -> Hosts \cup {NoHost}]
          /\ rev' \in [Hosts -> Guests \cup {NoName}]
      BY <1>4, ForgetTypes DEF ReplaceWith
    <2>3. parent' \in [Hosts -> Hosts \cup {Loose, Outside, Free}]
      BY <1>0, <1>4 DEF ReplaceWith, NodeMapsTypeOK
    <2>4. maker' \in [Hosts -> Guests \cup Unnamed]
      BY <1>4 DEF ReplaceWith, Unmade, NodeMapsTypeOK, Unnamed
    <2> QED
      BY <1>4, <2>1, <2>2, <2>3, <2>4 DEF ReplaceWith, NodeMapsTypeOK
  <1>5. ASSUME NEW g \in Found, Remove(g) PROVE NodeMapsTypeOK'
    <2>1. strayed' \in BOOLEAN
      BY <1>5, TouchTypes DEF Remove
    <2>2. /\ fwd' \in [Guests -> Hosts \cup {NoHost}]
          /\ rev' \in [Hosts -> Guests \cup {NoName}]
      BY <1>5, ForgetTypes DEF Remove
    <2> QED
      BY <1>5, <2>1, <2>2, DropTypes DEF Remove, NodeMapsTypeOK
  <1>6. ASSUME NEW g \in Found, Clear(g) PROVE NodeMapsTypeOK'
    <2>1. strayed' \in BOOLEAN
      BY <1>6, TouchTypes DEF Clear
    <2> QED
      BY <1>6, <2>1, DropTypes DEF Clear, NodeMapsTypeOK
  <1>7. ASSUME NEW g \in Found, SetInnerHtml(g) PROVE NodeMapsTypeOK'
    <2>1. strayed' \in BOOLEAN
      BY <1>7, TouchTypes DEF SetInnerHtml
    <2>2. /\ parent' \in [Hosts -> Hosts \cup {Loose, Outside, Free}]
          /\ maker' \in [Hosts -> Guests \cup Unnamed]
      <3> DEFINE gone == Inside(fwd[g])
      <3>1. PICK S : /\ parent' = [h \in Hosts |-> IF h \in S THEN fwd[g]
                                                  ELSE Dropped(gone)[h]]
                     /\ maker' = [h \in Hosts |-> IF h \in S THEN "html"
                                                 ELSE Unmade(gone, {})[h]]
        BY <1>7 DEF SetInnerHtml
      <3> HIDE DEF gone
      <3> QED
        BY <1>0, <3>1 DEF Dropped, Unmade, NodeMapsTypeOK, Unnamed
    <2> QED
      BY <1>7, <2>1, <2>2 DEF SetInnerHtml, NodeMapsTypeOK
  <1>8. ASSUME NEW g \in Guests, NEW k \in Kinds, Listen(g, k) \/ Unlisten(g, k)
        PROVE  NodeMapsTypeOK'
    <2>1. listeners \subseteq Guests \X Kinds /\ <<g, k>> \in Guests \X Kinds
      BY DEF NodeMapsTypeOK
    <2>2. listeners' \subseteq Guests \X Kinds
      <3>1. CASE listeners' = listeners \cup {<<g, k>>}
        BY <2>1, <3>1
      <3>2. CASE listeners' = listeners \ {<<g, k>>}
        BY <2>1, <3>2
      <3> QED
        BY <1>8, <3>1, <3>2 DEF Listen, Unlisten
    <2>3. UNCHANGED <<parent, maker, fwd, rev, strayed>>
      BY <1>8 DEF Listen, Unlisten
    <2> QED
      BY <2>2, <2>3 DEF NodeMapsTypeOK
  <1>9. CASE Navigate
    BY <1>9, DropTypes DEF Navigate, NodeMapsTypeOK
  <1>10. ASSUME NEW h \in Hosts, ShellTakes(h) PROVE NodeMapsTypeOK'
    BY <1>10 DEF ShellTakes, NodeMapsTypeOK, Unnamed
  <1>11. ASSUME NEW h \in Hosts, ShellDrops(h) PROVE NodeMapsTypeOK'
    BY <1>11, DropTypes DEF ShellDrops, NodeMapsTypeOK
  <1>12. CASE UNCHANGED vars
    BY <1>12 DEF vars, NodeMapsTypeOK
  <1> QED
    BY <1>1, <1>2, <1>3, <1>4, <1>5, <1>6, <1>7, <1>8, <1>9, <1>10, <1>11,
       <1>12 DEF Next

-----------------------------------------------------------------------------
\* The maps.

LEMMA InitRight == Init => Right
  <1> SUFFICES ASSUME Init PROVE Right
    OBVIOUS
  <1>1. MountStays
    BY DEF Init, MountStays
  <1>2. Alive = {Mount}
    BY DEF Init, Alive
  <1>3. NamesRight
    BY <1>2 DEF Init, NamesRight
  <1> QED
    BY <1>1, <1>3 DEF Right

\* Dropping nodes, the mount div not among them, leaves the maps right as
\* long as they stay as they are.
LEMMA DropKeeps ==
  ASSUME IInv, NEW D \in SUBSET Hosts, Mount \notin D,
         parent' = Dropped(D), maker' = Unmade(D, {}), UNCHANGED <<fwd, rev>>
  PROVE  Right'
  BY DEF IInv, Right, NodeMapsTypeOK, NamesRight, MountStays, Alive, Dropped,
         Unmade, Unnamed

\* Only the parents change.
LEMMA MoveKeeps ==
  ASSUME IInv, NEW h \in Hosts, h # Mount, h \in Alive,
         NEW p \in Hosts \cup {Outside}, Place(h, p),
         UNCHANGED <<maker, fwd, rev>>
  PROVE  Right'
  BY DEF IInv, Right, NodeMapsTypeOK, NamesRight, MountStays, Alive, Place

LEMMA CreateRight ==
  ASSUME IInv, NEW g \in Guests, Create(g)
  PROVE  Right'
  <1>1. PICK h \in Hosts \ Alive :
          /\ parent' = [parent EXCEPT ![h] = Loose]
          /\ maker' = [maker EXCEPT ![h] = g]
          /\ Born(g, h)
    BY DEF Create
  <1>2. MountStays'
    BY <1>1 DEF IInv, Right, MountStays, Alive, NodeMapsTypeOK
  <1>3. NamesRight'
    <2> SUFFICES ASSUME NEW x \in Alive', maker'[x] \in Guests
                 PROVE  fwd'[maker'[x]] = x /\ rev'[x] = maker'[x]
      BY DEF NamesRight
    <2>1. CASE x = h
      BY <1>1, <2>1 DEF Born, IInv, NodeMapsTypeOK
    <2>2. ASSUME x # h
          PROVE  fwd'[maker'[x]] = x /\ rev'[x] = maker'[x]
      <3>1. x \in Alive /\ maker'[x] = maker[x]
        BY <1>1, <2>2 DEF Alive, IInv, NodeMapsTypeOK
      <3>2. maker[x] # g
        BY <3>1 DEF Create, Named
      <3> QED
        BY <1>1, <2>2, <3>1, <3>2
        DEF Born, IInv, Right, NodeMapsTypeOK, NamesRight, Alive
    <2> QED
      BY <2>1, <2>2
  <1> QED
    BY <1>2, <1>3 DEF Right

\* Forget takes one pair, that of a node which is gone or has lost its name,
\* and no other node answers to that id.
LEMMA ForgetKeeps ==
  ASSUME IInv, NEW n \in Alive, maker[n] \in Guests,
         Forget(n),
         NEW x \in Alive, x # n, maker[x] \in Guests
  PROVE  fwd'[maker[x]] = x /\ rev'[x] = maker[x]
  <1>1. rev[n] = maker[n] /\ fwd[maker[n]] = n /\ n \in Hosts
    BY DEF IInv, Right, NamesRight, Alive
  <1>2. rev[x] = maker[x] /\ fwd[maker[x]] = x /\ x \in Hosts
    BY DEF IInv, Right, NamesRight, Alive
  <1>3. maker[x] # rev[n]
    BY <1>1, <1>2
  <1>4. fwd'[maker[x]] = fwd[maker[x]]
    BY <1>3 DEF Forget
  <1>5. rev'[x] = rev[x]
    BY <1>1, <1>2 DEF Forget, IInv, NodeMapsTypeOK
  <1> QED
    BY <1>2, <1>4, <1>5

LEMMA RemoveRight ==
  ASSUME IInv, NEW g \in Found, Remove(g), ~strayed'
  PROVE  Right'
  <1>1. /\ fwd[g] \in Alive /\ fwd[g] \in Hosts /\ fwd[g] # Mount
        /\ maker[fwd[g]] \in Guests
    BY AtHome, OwnNode DEF Remove
  <1>2. fwd[g] \in Below(fwd[g]) /\ Mount \notin Below(fwd[g])
    BY <1>1, SelfOnLine, MountBelow DEF Below
  <1>3. MountStays'
    BY <1>2
    DEF Remove, Dropped, Unmade, IInv, Right, MountStays, NodeMapsTypeOK
  <1>4. NamesRight'
    <2> SUFFICES ASSUME NEW x \in Alive', maker'[x] \in Guests
                 PROVE  fwd'[maker'[x]] = x /\ rev'[x] = maker'[x]
      BY DEF NamesRight
    <2>1. x \notin Below(fwd[g]) /\ x \in Alive /\ maker'[x] = maker[x]
      BY DEF Remove, Dropped, Unmade, Alive
    <2>2. x # fwd[g]
      BY <1>2, <2>1
    <2>3. Forget(fwd[g])
      BY DEF Remove
    <2> QED
      BY <1>1, <2>1, <2>2, <2>3, ForgetKeeps
  <1> QED
    BY <1>3, <1>4 DEF Right

LEMMA ReplaceRight ==
  ASSUME IInv, NEW o \in Found, NEW n \in Found, ReplaceWith(o, n), ~strayed'
  PROVE  Right'
  <1>0. /\ maker[fwd[o]] \in Guests /\ maker[fwd[n]] \in Guests
        /\ fwd[o] # Mount /\ fwd[n] # Mount
    BY DEF ReplaceWith, Touches
  <1>1. /\ fwd[o] \in Alive /\ fwd[o] \in Hosts /\ fwd[o] # Mount
        /\ maker[fwd[o]] \in Guests
    BY <1>0, OwnNode
  <1>2. fwd[n] \in Alive /\ fwd[n] \in Hosts /\ fwd[n] # Mount
    BY <1>0, OwnNode
  <1>3. MountStays'
    BY <1>1, <1>2
    DEF ReplaceWith, Unmade, IInv, Right, MountStays, NodeMapsTypeOK
  <1>4. NamesRight'
    <2> SUFFICES ASSUME NEW x \in Alive', maker'[x] \in Guests
                 PROVE  fwd'[maker'[x]] = x /\ rev'[x] = maker'[x]
      BY DEF NamesRight
    <2>1. x # fwd[o] /\ maker'[x] = maker[x]
      BY <1>1 DEF ReplaceWith, Unmade, Alive, Unnamed
    <2>2. x \in Alive
      BY <1>1, <1>2 DEF ReplaceWith, Alive, IInv, NodeMapsTypeOK
    <2>3. Forget(fwd[o])
      BY DEF ReplaceWith
    <2> QED
      BY <1>1, <2>1, <2>2, <2>3, ForgetKeeps
  <1> QED
    BY <1>3, <1>4 DEF Right

LEMMA HtmlRight ==
  ASSUME IInv, NEW g \in Found, SetInnerHtml(g), ~strayed'
  PROVE  Right'
  <1> DEFINE gone == Inside(fwd[g])
  <1>1. fwd[g] \in Alive /\ fwd[g] \in Hosts
    BY AtHome, OwnNode DEF SetInnerHtml
  <1>2. Mount \notin gone
    BY <1>1, MountBelow DEF Inside
  <1>3. gone \subseteq Hosts
    BY DEF Inside, Below, Alive
  <1> HIDE DEF gone
  <1>4. PICK S \in SUBSET (gone \cup (Hosts \ Alive)) :
          /\ parent' = [h \in Hosts |-> IF h \in S THEN fwd[g]
                                        ELSE Dropped(gone)[h]]
          /\ maker' = [h \in Hosts |-> IF h \in S THEN "html"
                                       ELSE Unmade(gone, {})[h]]
    BY DEF SetInnerHtml, gone
  <1>5. fwd' = fwd /\ rev' = rev
    BY DEF SetInnerHtml
  <1>6. Mount \notin S
    BY <1>2, <1>4 DEF IInv, Right, MountStays, Alive
  <1>7. MountStays'
    BY <1>2, <1>4, <1>6 DEF IInv, Right, MountStays, Dropped, Unmade
  <1>8. NamesRight'
    BY <1>4, <1>5
    DEF IInv, Right, NamesRight, Alive, Dropped, Unmade, Unnamed
  <1> QED
    BY <1>7, <1>8 DEF Right

LEMMA NavigateRight ==
  ASSUME IInv, Navigate
  PROVE  Right'
  <1>1. Mount \notin Inside(Mount)
    BY DEF Inside
  <1>2. MountStays'
    BY <1>1 DEF Navigate, Dropped, Unmade, IInv, Right, MountStays
  <1>3. NamesRight'
    BY <1>1, <1>2 DEF Navigate, Unmade, MountStays, NamesRight, Alive, Unnamed
  <1> QED
    BY <1>2, <1>3 DEF Right

LEMMA StepRight == IInv /\ [Next]_vars /\ ~strayed' => Right'
  <1> SUFFICES ASSUME IInv, [Next]_vars, ~strayed' PROVE Right'
    OBVIOUS
  <1>1. ASSUME NEW g \in Guests, Create(g) PROVE Right'
    BY <1>1, CreateRight
  <1>2. ASSUME NEW p \in Found, NEW c \in Found, AppendChild(p, c) PROVE Right'
    <2>1. /\ maker[fwd[c]] \in Guests /\ maker[fwd[p]] \in Guests
          /\ fwd[c] # Mount
      BY <1>2, AtHome DEF AppendChild
    <2>2. fwd[c] \in Alive /\ fwd[c] \in Hosts /\ fwd[p] \in Hosts
      BY <2>1, OwnNode
    <2> QED
      BY <1>2, <2>1, <2>2, MoveKeeps DEF AppendChild
  <1>3. ASSUME NEW c \in Found, NEW b \in Found, InsertBefore(c, b) PROVE Right'
    <2>1. /\ maker[fwd[c]] \in Guests /\ maker[fwd[b]] \in Guests
          /\ fwd[c] # Mount
      BY <1>3, AtHome DEF InsertBefore
    <2>2. /\ fwd[c] \in Alive /\ fwd[c] \in Hosts
          /\ fwd[b] \in Alive /\ fwd[b] \in Hosts
      BY <2>1, OwnNode
    <2>3. parent[fwd[b]] \in Hosts \cup {Outside}
      BY <1>3, <2>2 DEF InsertBefore, Alive, IInv, NodeMapsTypeOK
    <2> QED
      BY <1>3, <2>1, <2>2, <2>3, MoveKeeps DEF InsertBefore
  <1>4. ASSUME NEW o \in Found, NEW n \in Found, ReplaceWith(o, n) PROVE Right'
    BY <1>4, ReplaceRight
  <1>5. ASSUME NEW g \in Found, Remove(g) PROVE Right'
    BY <1>5, RemoveRight
  <1>6. ASSUME NEW g \in Found, Clear(g) PROVE Right'
    <2>1. fwd[g] \in Hosts
      BY DEF Found, Alive
    <2>2. Mount \notin Inside(fwd[g]) /\ Inside(fwd[g]) \in SUBSET Hosts
      BY <2>1, MountBelow DEF Inside, Below, Alive
    <2> QED
      BY <1>6, <2>2, DropKeeps DEF Clear
  <1>7. ASSUME NEW g \in Found, SetInnerHtml(g) PROVE Right'
    BY <1>7, HtmlRight
  <1>8. ASSUME UNCHANGED <<parent, maker, fwd, rev>> PROVE Right'
    BY <1>8 DEF IInv, Right, NamesRight, MountStays, Alive
  <1>9. CASE Navigate
    BY <1>9, NavigateRight
  <1>10. ASSUME NEW h \in Hosts, ShellTakes(h) PROVE Right'
    BY <1>10 DEF ShellTakes, IInv, Right, NodeMapsTypeOK, NamesRight,
                 MountStays, Alive, Unnamed
  <1>11. ASSUME NEW h \in Hosts, ShellDrops(h) PROVE Right'
    <2>1. h # Mount
      BY <1>11 DEF ShellDrops, IInv, Right, MountStays, Unnamed
    <2>2. Mount \notin Below(h) /\ Below(h) \in SUBSET Hosts
      BY <2>1, MountBelow DEF Below, Alive
    <2> QED
      BY <1>11, <2>2, DropKeeps DEF ShellDrops
  <1> QED
    BY <1>1, <1>2, <1>3, <1>4, <1>5, <1>6, <1>7, <1>8, <1>9, <1>10, <1>11
    DEF Next, vars, Listen, Unlisten

-----------------------------------------------------------------------------
(***************************************************************************)
(* The way up from a node.  Two more facts make it right: the tree has no  *)
(* cycles, and above a node there are only nodes the guest made, or none   *)
(* that it still has.                                                      *)
(***************************************************************************)
Acyclic == \A h, p \in Hosts : parent[h] = p => h \notin Line(p)

NamesAbove ==
  \A h \in Alive : parent[h] \in Hosts =>
    /\ parent[h] \in Alive
    /\ maker[parent[h]] \in Guests \cup {"leftover"}
    /\ maker[h] = "leftover" => maker[parent[h]] = "leftover"

LineInv == Acyclic /\ NamesAbove

\* At first no node hangs under another.
LEMMA InitLineInv == Init => LineInv
  <1> SUFFICES ASSUME Init
               PROVE  LineInv
    OBVIOUS
  <1>1. \A h \in Hosts : parent[h] \notin Hosts
    BY DEF Init
  <1> QED
    BY <1>1 DEF LineInv, Acyclic, NamesAbove, Alive

\* A line lies in every closed set that holds its first node.
LEMMA LineLeast ==
  ASSUME NEW h \in Hosts, NEW S \in SUBSET Hosts, h \in S,
         \A x \in S : parent[x] \in Hosts => parent[x] \in S
  PROVE  Line(h) \subseteq S
  <1> SUFFICES ASSUME NEW a \in Line(h) PROVE a \in S
    OBVIOUS
  <1>1. (h \in S /\ \A x \in S : parent[x] \in Hosts => parent[x] \in S)
          => a \in S
    BY DEF Line
  <1> QED
    BY <1>1

LEMMA LineInHosts == ASSUME NEW h PROVE Line(h) \in SUBSET Hosts
  BY DEF Line

\* The line of a node further up is part of the line.
LEMMA LineNested ==
  ASSUME NEW h \in Hosts, NEW a \in Line(h)
  PROVE  a \in Hosts /\ Line(a) \subseteq Line(h)
  BY LineInHosts, LineClosed, LineLeast

\* The node, then the line of its parent.
LEMMA LineUnfolds ==
  ASSUME NEW h \in Hosts, parent[h] \in Hosts
  PROVE  Line(h) = {h} \cup Line(parent[h])
  <1> DEFINE S == {h} \cup Line(parent[h])
  <1>1. S \in SUBSET Hosts /\ h \in S
    BY LineInHosts
  <1>2. ASSUME NEW x \in S, parent[x] \in Hosts PROVE parent[x] \in S
    BY <1>2, SelfOnLine, LineClosed
  <1>3. Line(h) \subseteq S
    <2> HIDE DEF S
    <2> QED
      BY <1>1, <1>2, LineLeast
  <1>4. parent[h] \in Line(h)
    BY SelfOnLine, LineClosed
  <1>5. h \in Line(h) /\ Line(parent[h]) \subseteq Line(h)
    BY <1>4, SelfOnLine, LineNested
  <1> QED
    BY <1>3, <1>5

\* The same of the next state's tree.
LEMMA NextLineLeast ==
  ASSUME NEW h \in Hosts, NEW S \in SUBSET Hosts, h \in S,
         \A x \in S : parent'[x] \in Hosts => parent'[x] \in S
  PROVE  Line(h)' \subseteq S
  <1> SUFFICES ASSUME NEW a \in Line(h)' PROVE a \in S
    OBVIOUS
  <1>1. (h \in S /\ \A x \in S : parent'[x] \in Hosts => parent'[x] \in S)
          => a \in S
    BY DEF Line
  <1> QED
    BY <1>1

\* Everything above a node of the document is in the document.
LEMMA LineAlive ==
  ASSUME NamesAbove, NEW h \in Alive
  PROVE  Line(h) \subseteq Alive
  <1>1. Alive \in SUBSET Hosts /\ h \in Hosts
    BY DEF Alive
  <1>2. \A x \in Alive : parent[x] \in Hosts => parent[x] \in Alive
    BY DEF NamesAbove
  <1> QED
    BY <1>1, <1>2, LineLeast

\* Below is closed downwards, and so is Inside, as there are no cycles.
LEMMA InsideClosed ==
  ASSUME Acyclic, NEW n \in Hosts, NEW h \in Alive, parent[h] \in Hosts
  PROVE  /\ parent[h] \in Below(n) => h \in Below(n)
         /\ parent[h] \in Inside(n) => h \in Inside(n)
  <1>1. h \in Hosts
    BY DEF Alive
  <1>2. ASSUME parent[h] \in Below(n) PROVE h \in Below(n)
    BY <1>1, <1>2, LineUnfolds DEF Below
  <1>3. ASSUME parent[h] \in Inside(n) PROVE h # n
    BY <1>1, <1>3 DEF Inside, Below, Acyclic
  <1> QED
    BY <1>2, <1>3 DEF Inside

-----------------------------------------------------------------------------
\* Hanging a node elsewhere, but not below itself, makes no cycle, even if
\* others are taken out of the tree at the same time.
LEMMA PlaceAcyclic ==
  ASSUME Acyclic, NEW h \in Hosts, NEW p \in Hosts, h \notin Line(p),
         parent'[h] = p,
         \A y \in Hosts : y # h /\ parent'[y] \in Hosts => parent'[y] = parent[y]
  PROVE  Acyclic'
  <1>3. ASSUME NEW q \in Hosts, h \notin Line(q)
        PROVE  Line(q)' \subseteq Line(q)
    <2>1. q \in Line(q) /\ Line(q) \in SUBSET Hosts
      BY SelfOnLine, LineInHosts
    <2>2. \A y \in Line(q) : parent'[y] \in Hosts => parent'[y] \in Line(q)
      BY <1>3, <2>1, LineClosed
    <2> QED
      BY <2>1, <2>2, NextLineLeast
  <1>4. ASSUME NEW q \in Hosts PROVE Line(q)' \subseteq Line(q) \cup Line(p)
    <2> DEFINE S == Line(q) \cup Line(p)
    <2>1. q \in S /\ S \in SUBSET Hosts
      BY SelfOnLine, LineInHosts
    <2>2. ASSUME NEW y \in S, parent'[y] \in Hosts PROVE parent'[y] \in S
      BY <2>1, <2>2, LineClosed, SelfOnLine
    <2> HIDE DEF S
    <2>3. Line(q)' \subseteq S
      BY <2>1, <2>2, NextLineLeast
    <2> QED
      BY <2>3 DEF S
  <1> SUFFICES ASSUME NEW x \in Hosts, NEW q \in Hosts, parent'[x] = q
               PROVE  x \notin Line(q)'
    BY DEF Acyclic
  <1>5. CASE x = h
    BY <1>3, <1>5
  <1>6. ASSUME x # h PROVE x \notin Line(q)'
    <2>1. parent[x] = q /\ x \notin Line(q)
      BY <1>6 DEF Acyclic
    <2>2. CASE h \notin Line(q)
      BY <1>3, <2>1, <2>2
    <2>3. ASSUME h \in Line(q) PROVE x \notin Line(q)'
      <3>1. ASSUME x \in Line(p) PROVE FALSE
        <4>1. q \in Line(p)
          BY <2>1, <3>1, LineClosed
        <4> QED
          BY <2>3, <4>1, LineNested
      <3> QED
        BY <1>4, <2>1, <3>1
    <2> QED
      BY <2>2, <2>3
  <1> QED
    BY <1>5, <1>6

\* Taking nodes out of the tree makes none either.
LEMMA LessAcyclic ==
  ASSUME Acyclic,
         \A y \in Hosts : parent'[y] \in Hosts => parent'[y] = parent[y]
  PROVE  Acyclic'
  <1>1. ASSUME NEW q \in Hosts PROVE Line(q)' \subseteq Line(q)
    <2>1. q \in Line(q) /\ Line(q) \in SUBSET Hosts
      BY SelfOnLine, LineInHosts
    <2>2. \A y \in Line(q) : parent'[y] \in Hosts => parent'[y] \in Line(q)
      BY <2>1, LineClosed
    <2> QED
      BY <2>1, <2>2, NextLineLeast
  <1> QED
    BY <1>1 DEF Acyclic

\* Nodes dropped with all below them leave no gap.
LEMMA DropNames ==
  ASSUME NamesAbove, NEW D \in SUBSET Hosts,
         \A h \in Alive : parent[h] \in D => h \in D,
         parent' = Dropped(D), \A h \in Alive \ D : maker'[h] = maker[h]
  PROVE  NamesAbove'
  <1> SUFFICES ASSUME NEW x \in Alive', parent'[x] \in Hosts
               PROVE  /\ parent'[x] \in Alive'
                      /\ maker'[parent'[x]] \in Guests \cup {"leftover"}
                      /\ maker'[x] = "leftover"
                           => maker'[parent'[x]] = "leftover"
    BY DEF NamesAbove
  <1>1. x \in Alive \ D /\ parent'[x] = parent[x]
    BY DEF Dropped, Alive
  <1>2. parent[x] \in Alive \ D
    BY <1>1 DEF NamesAbove
  <1>3. parent[x] \in Alive'
    BY <1>2 DEF Dropped, Alive
  <1> QED
    BY <1>1, <1>2, <1>3 DEF NamesAbove

\* A node that is below another is not above it.
LEMMA NotAboveAndInside ==
  ASSUME Acyclic, NEW n \in Hosts, NEW y \in Inside(n)
  PROVE  y \notin Line(n)
  <1>1. y \in Hosts /\ y # n /\ n \in Line(y)
    BY DEF Inside, Below, Alive
  <1>2. ASSUME y \in Line(n) PROVE FALSE
    <2>1. parent[n] \in Hosts
      BY <1>1, <1>2, TopAlone
    <2>2. y \in Line(parent[n])
      BY <1>1, <1>2, <2>1, LineUnfolds
    <2>3. n \in Line(parent[n])
      BY <1>1, <2>1, <2>2, LineNested
    <2> QED
      BY <2>1, <2>3 DEF Acyclic
  <1> QED
    BY <1>2

\* Moving one node of the guest to a parent that is, or was, the guest's.
LEMMA PlaceLine ==
  ASSUME IInv, LineInv, NEW h \in Alive, NEW p \in Alive,
         maker[h] \in Guests, maker[p] \in Guests \cup {"leftover"},
         h \notin Line(p), Place(h, p), maker' = maker
  PROVE  LineInv'
  <1>1. h \in Hosts /\ p \in Hosts
    BY DEF Alive
  <1>2. parent'[h] = p /\ \A y \in Hosts : y # h => parent'[y] = parent[y]
    BY <1>1 DEF Place, IInv, NodeMapsTypeOK
  <1>3. Acyclic'
    BY <1>1, <1>2, PlaceAcyclic DEF LineInv
  <1>4. Alive' = Alive
    BY <1>1, <1>2 DEF Alive
  <1>5. NamesAbove'
    <2> SUFFICES ASSUME NEW x \in Alive, parent'[x] \in Hosts
                 PROVE  /\ parent'[x] \in Alive
                        /\ maker[parent'[x]] \in Guests \cup {"leftover"}
                        /\ maker[x] = "leftover"
                             => maker[parent'[x]] = "leftover"
      BY <1>4 DEF NamesAbove
    <2>1. CASE x = h
      BY <1>2, <2>1 DEF Unnamed
    <2>2. CASE x # h
      BY <1>2, <2>2 DEF LineInv, NamesAbove, Alive
    <2> QED
      BY <2>1, <2>2
  <1> QED
    BY <1>3, <1>5 DEF LineInv

\* Moving it out of the page.
LEMMA OutsideLine ==
  ASSUME IInv, LineInv, NEW h \in Alive, Place(h, Outside), maker' = maker
  PROVE  LineInv'
  <1>1. h \in Hosts
    BY DEF Alive
  <1>2. parent'[h] = Outside /\ \A y \in Hosts : y # h => parent'[y] = parent[y]
    BY <1>1 DEF Place, IInv, NodeMapsTypeOK
  <1>3. Acyclic'
    BY <1>2, LessAcyclic DEF LineInv
  <1>4. Alive' = Alive
    BY <1>1, <1>2 DEF Alive
  <1>5. NamesAbove'
    BY <1>2, <1>4 DEF LineInv, NamesAbove, Alive
  <1> QED
    BY <1>3, <1>5 DEF LineInv

LEMMA DropLine ==
  ASSUME LineInv, NEW D \in SUBSET Hosts,
         \A h \in Alive : parent[h] \in D => h \in D,
         parent' = Dropped(D), maker' = Unmade(D, {})
  PROVE  LineInv'
  <1>1. \A y \in Hosts : parent'[y] \in Hosts => parent'[y] = parent[y]
    BY DEF Dropped
  <1>2. \A h \in Alive \ D : maker'[h] = maker[h]
    BY DEF Unmade, Alive
  <1> QED
    BY <1>1, <1>2, LessAcyclic, DropNames DEF LineInv

LEMMA TakeLine ==
  ASSUME IInv, LineInv, NEW h \in Hosts \ Alive, NEW m, m # "leftover",
         NEW top \in {Loose, Outside}, parent' = [parent EXCEPT ![h] = top],
         maker' = [maker EXCEPT ![h] = m]
  PROVE  LineInv'
  <1>1. \A y \in Hosts : parent'[y] \in Hosts => parent'[y] = parent[y]
    BY DEF IInv, NodeMapsTypeOK
  <1>2. NamesAbove'
    <2> SUFFICES ASSUME NEW x \in Alive', parent'[x] \in Hosts
                 PROVE  /\ parent'[x] \in Alive'
                        /\ maker'[parent'[x]] \in Guests \cup {"leftover"}
                        /\ maker'[x] = "leftover"
                             => maker'[parent'[x]] = "leftover"
      BY DEF NamesAbove
    <2>1. x # h /\ x \in Alive /\ parent'[x] = parent[x]
      BY DEF Alive, IInv, NodeMapsTypeOK
    <2>2. parent[x] \in Alive /\ parent[x] # h
      BY <2>1 DEF LineInv, NamesAbove
    <2>3. parent[x] \in Alive'
      BY <2>2 DEF Alive, IInv, NodeMapsTypeOK
    <2>4. maker'[x] = maker[x] /\ maker'[parent[x]] = maker[parent[x]]
      BY <2>1, <2>2 DEF Alive, IInv, NodeMapsTypeOK
    <2> QED
      BY <2>1, <2>3, <2>4 DEF LineInv, NamesAbove
  <1> QED
    BY <1>1, <1>2, LessAcyclic DEF LineInv

LEMMA ReplaceLine ==
  ASSUME IInv, LineInv, NEW o \in Found, NEW n \in Found, ReplaceWith(o, n),
         ~strayed'
  PROVE  LineInv'
  <1> DEFINE ho == fwd[o]
             hn == fwd[n]
             p == parent[ho]
  <1>0. maker[ho] \in Guests /\ maker[hn] \in Guests
    BY AtHome DEF ReplaceWith
  <1>1. /\ ho \in Alive /\ ho \in Hosts /\ hn \in Alive /\ hn \in Hosts
        /\ maker[ho] \in Guests /\ maker[hn] \in Guests
    BY <1>0, OwnNode
  <1>2. p \in Hosts => p \in Alive /\ maker[p] \in Guests \cup {"leftover"}
    BY <1>1 DEF LineInv, NamesAbove
  <1>3. hn \notin Line(ho) /\ hn # ho
    BY <1>1, SelfOnLine DEF ReplaceWith, Below
  <1>4. p \in Hosts => hn \notin Line(p) /\ p # ho
    <2> SUFFICES ASSUME p \in Hosts
                 PROVE  hn \notin Line(p) /\ p # ho
      OBVIOUS
    <2>1. Line(ho) = {ho} \cup Line(p)
      BY <1>1, LineUnfolds
    <2>2. ho \notin Line(p)
      BY <1>1 DEF LineInv, Acyclic
    <2>3. p \in Line(p)
      BY SelfOnLine
    <2> QED
      BY <1>3, <2>1, <2>2, <2>3
  <1>5. /\ parent'[hn] = p /\ parent'[ho] = Loose
        /\ \A y \in Hosts : y # hn /\ y # ho => parent'[y] = parent[y]
    BY <1>1, <1>3 DEF ReplaceWith, IInv, NodeMapsTypeOK
  <1>6. /\ maker'[ho] = "leftover"
        /\ \A y \in Hosts : y # ho => maker'[y] = maker[y]
    BY <1>1 DEF ReplaceWith, Unmade
  <1>7. p # Free
    BY <1>1 DEF Alive
  <1> HIDE DEF ho, hn, p
  <1>8. Acyclic'
    <2>1. CASE p \in Hosts
      BY <1>1, <1>4, <1>5, <2>1, PlaceAcyclic DEF LineInv
    <2>2. CASE p \notin Hosts
      BY <1>5, <2>2, LessAcyclic DEF LineInv
    <2> QED
      BY <2>1, <2>2
  <1>9. Alive' = Alive
    BY <1>1, <1>5, <1>7 DEF Alive
  <1>10. NamesAbove'
    <2> SUFFICES ASSUME NEW x \in Alive, parent'[x] \in Hosts
                 PROVE  /\ parent'[x] \in Alive
                        /\ maker'[parent'[x]] \in Guests \cup {"leftover"}
                        /\ maker'[x] = "leftover"
                             => maker'[parent'[x]] = "leftover"
      BY <1>9 DEF NamesAbove
    <2>1. x # ho /\ maker'[x] = maker[x]
      BY <1>5, <1>6 DEF Alive
    <2>2. CASE x = hn
      BY <1>1, <1>2, <1>4, <1>5, <1>6, <2>1, <2>2 DEF Unnamed
    <2>3. CASE x # hn
      <3>1. parent'[x] = parent[x]
        BY <1>5, <2>1, <2>3 DEF Alive
      <3>2. /\ parent[x] \in Alive
            /\ maker[parent[x]] \in Guests \cup {"leftover"}
            /\ maker[x] = "leftover" => maker[parent[x]] = "leftover"
        BY <3>1 DEF LineInv, NamesAbove
      <3> QED
        BY <1>6, <2>1, <3>1, <3>2
    <2> QED
      BY <2>2, <2>3
  <1> QED
    BY <1>8, <1>10 DEF LineInv

LEMMA HtmlLine ==
  ASSUME IInv, LineInv, NEW g \in Found, SetInnerHtml(g), ~strayed'
  PROVE  LineInv'
  <1> DEFINE n == fwd[g]
             gone == Inside(n)
  <1>1. n \in Alive /\ n \in Hosts /\ maker[n] \in Guests
    BY AtHome, OwnNode DEF SetInnerHtml
  <1>2. gone \subseteq Alive /\ Alive \subseteq Hosts /\ n \notin gone
    BY DEF Inside, Below, Alive
  <1>3. ASSUME NEW x \in Alive, parent[x] \in Hosts, x \notin gone
        PROVE  parent[x] \in Alive \ gone
    BY <1>1, <1>3, InsideClosed DEF LineInv, NamesAbove
  <1>4. \A y \in gone : y \notin Line(n)
    BY <1>1, NotAboveAndInside DEF LineInv
  <1>5. ASSUME NEW q \in Alive, NEW y \in gone, y \in Line(q)
        PROVE  q \in gone
    <2>1. y \in Hosts /\ n \in Line(y) /\ q \in Hosts
      BY <1>2 DEF Inside, Below
    <2>2. n \in Line(q)
      BY <1>5, <2>1, LineNested
    <2>3. q # n
      BY <1>4, <1>5
    <2> QED
      BY <2>2, <2>3 DEF Inside, Below
  <1>6. PICK S \in SUBSET (gone \cup (Hosts \ Alive)) :
          /\ parent' = [h \in Hosts |-> IF h \in S THEN n
                                        ELSE Dropped(gone)[h]]
          /\ maker' = [h \in Hosts |-> IF h \in S THEN "html"
                                       ELSE Unmade(gone, {})[h]]
    BY DEF SetInnerHtml
  <1> HIDE DEF n, gone
  <1>7. \A h \in Hosts :
          parent'[h] = IF h \in S THEN n ELSE IF h \in gone THEN Free ELSE parent[h]
    BY <1>6 DEF Dropped
  <1>8. \A h \in Alive \ gone : h \notin S /\ parent'[h] = parent[h]
                                 /\ maker'[h] = maker[h]
    BY <1>2, <1>6, <1>7 DEF Unmade
  <1>9. ASSUME NEW q \in Alive \ gone PROVE Line(q)' \subseteq Line(q)
    <2>1. q \in Hosts /\ q \in Line(q) /\ Line(q) \in SUBSET Hosts
      BY <1>2, SelfOnLine, LineInHosts
    <2>2. Line(q) \subseteq Alive \ gone
      BY <1>5, LineAlive DEF LineInv
    <2>3. \A y \in Line(q) : parent'[y] \in Hosts => parent'[y] \in Line(q)
      BY <1>8, <2>1, <2>2, LineClosed
    <2> QED
      BY <2>1, <2>3, NextLineLeast
  <1>10. Acyclic'
    <2> SUFFICES ASSUME NEW x \in Hosts, NEW q \in Hosts, parent'[x] = q
                 PROVE  x \notin Line(q)'
      BY DEF Acyclic
    <2>1. CASE x \in S
      <3>1. q = n
        BY <1>7, <2>1
      <3>2. x \notin Line(n)
        BY <1>1, <1>4, <2>1, LineAlive DEF LineInv
      <3> QED
        BY <1>1, <1>2, <1>9, <3>1, <3>2
    <2>2. CASE x \notin S
      <3>1. x \in Alive \ gone /\ parent[x] = q
        BY <1>7, <2>2 DEF Alive
      <3>2. q \in Alive \ gone
        BY <1>3, <3>1
      <3> QED
        BY <1>9, <3>1, <3>2 DEF LineInv, Acyclic
    <2> QED
      BY <2>1, <2>2
  <1>11. Alive \ gone \subseteq Alive'
    BY <1>2, <1>8 DEF Alive
  <1>12. NamesAbove'
    <2> SUFFICES ASSUME NEW x \in Alive', parent'[x] \in Hosts
                 PROVE  /\ parent'[x] \in Alive'
                        /\ maker'[parent'[x]] \in Guests \cup {"leftover"}
                        /\ maker'[x] = "leftover"
                             => maker'[parent'[x]] = "leftover"
      BY DEF NamesAbove
    <2>0. x \in Hosts
      BY DEF Alive
    <2>1. CASE x \in S
      <3>1. parent'[x] = n /\ maker'[x] = "html"
        BY <1>6, <1>7, <2>0, <2>1
      <3> QED
        BY <1>1, <1>2, <1>8, <1>11, <3>1
    <2>2. CASE x \notin S
      <3>1. x \in Alive \ gone
        BY <1>7, <2>0, <2>2 DEF Alive
      <3>2. parent'[x] = parent[x] /\ parent[x] \in Alive \ gone
        BY <1>3, <1>8, <3>1
      <3> QED
        BY <1>8, <1>11, <3>1, <3>2 DEF LineInv, NamesAbove
    <2> QED
      BY <2>1, <2>2
  <1> QED
    BY <1>10, <1>12 DEF LineInv

LEMMA NavigateLine ==
  ASSUME IInv, LineInv, Navigate
  PROVE  LineInv'
  <1> DEFINE gone == Inside(Mount)
  <1>1. parent' = Dropped(gone)
    BY DEF Navigate
  <1>2. \A h \in Alive \ gone :
          maker'[h] = IF h # Mount /\ maker[h] \in Guests THEN "leftover"
                      ELSE maker[h]
    BY DEF Navigate, Unmade, Alive
  <1>3. ASSUME NEW x \in Alive, parent[x] \in Hosts, x \notin gone
        PROVE  parent[x] \in Alive \ gone
    BY <1>3, InsideClosed DEF LineInv, NamesAbove
  <1>4. ASSUME NEW x \in Alive, parent[x] \in Hosts, x \notin gone
        PROVE  parent[x] # Mount
    <2>1. ASSUME parent[x] = Mount PROVE FALSE
      <3>1. x \in Hosts /\ Mount \in Line(x)
        BY <2>1, LineUnfolds, SelfOnLine DEF Alive
      <3>2. x # Mount
        BY <2>1, SelfOnLine DEF LineInv, Acyclic
      <3> QED
        BY <1>4, <3>1, <3>2 DEF Inside, Below
    <2> QED
      BY <2>1
  <1> HIDE DEF gone
  <1>5. Acyclic'
    BY <1>1, LessAcyclic DEF LineInv, Dropped
  <1>6. NamesAbove'
    <2> SUFFICES ASSUME NEW x \in Alive', parent'[x] \in Hosts
                 PROVE  /\ parent'[x] \in Alive'
                        /\ maker'[parent'[x]] \in Guests \cup {"leftover"}
                        /\ maker'[x] = "leftover"
                             => maker'[parent'[x]] = "leftover"
      BY DEF NamesAbove
    <2>1. x \in Alive \ gone /\ parent'[x] = parent[x]
      BY <1>1 DEF Dropped, Alive
    <2>2. parent[x] \in Alive \ gone /\ parent[x] # Mount
      BY <1>3, <1>4, <2>1
    <2>3. parent[x] \in Alive'
      BY <1>1, <2>2 DEF Dropped, Alive
    <2>4. maker[parent[x]] \in Guests \cup {"leftover"}
      BY <2>1 DEF LineInv, NamesAbove
    <2>5. maker'[parent[x]] = "leftover"
      BY <1>2, <2>2, <2>4 DEF Unnamed
    <2> QED
      BY <2>1, <2>3, <2>5
  <1> QED
    BY <1>5, <1>6 DEF LineInv

LEMMA StepLineInv == IInv /\ LineInv /\ [Next]_vars /\ ~strayed' => LineInv'
  <1> SUFFICES ASSUME IInv, LineInv, [Next]_vars, ~strayed' PROVE LineInv'
    OBVIOUS
  <1>1. ASSUME NEW g \in Guests, Create(g) PROVE LineInv'
    <2>1. PICK h \in Hosts \ Alive : /\ parent' = [parent EXCEPT ![h] = Loose]
                                     /\ maker' = [maker EXCEPT ![h] = g]
      BY <1>1 DEF Create
    <2>2. g # "leftover"
      BY DEF Unnamed
    <2> QED
      BY <2>1, <2>2, TakeLine
  <1>2. ASSUME NEW p \in Found, NEW c \in Found, AppendChild(p, c) PROVE LineInv'
    <2>1. /\ maker[fwd[c]] \in Guests /\ maker[fwd[p]] \in Guests
      BY <1>2, AtHome DEF AppendChild
    <2>2. /\ fwd[c] \in Alive /\ fwd[p] \in Alive
          /\ fwd[c] \notin Line(fwd[p])
      BY <1>2, <2>1, OwnNode DEF AppendChild, Below
    <2> QED
      BY <1>2, <2>1, <2>2, PlaceLine DEF AppendChild
  <1>3. ASSUME NEW c \in Found, NEW b \in Found, InsertBefore(c, b) PROVE LineInv'
    <2> DEFINE p == parent[fwd[b]]
    <2>1. maker[fwd[c]] \in Guests /\ maker[fwd[b]] \in Guests
      BY <1>3, AtHome DEF InsertBefore
    <2>2. /\ fwd[c] \in Alive /\ fwd[b] \in Alive /\ fwd[b] \in Hosts
          /\ fwd[c] \notin Line(fwd[b])
      BY <1>3, <2>1, OwnNode DEF InsertBefore, Below
    <2>3. p \in Hosts \cup {Outside}
      BY <1>3, <2>2 DEF InsertBefore, Alive, IInv, NodeMapsTypeOK
    <2>4. Place(fwd[c], p) /\ maker' = maker
      BY <1>3 DEF InsertBefore
    <2>5. ASSUME p \in Hosts PROVE LineInv'
      <3>1. p \in Alive /\ maker[p] \in Guests \cup {"leftover"}
        BY <2>2, <2>5 DEF LineInv, NamesAbove
      <3>2. fwd[c] \notin Line(p)
        BY <2>2, <2>5, LineUnfolds
      <3> QED
        BY <2>1, <2>2, <2>4, <3>1, <3>2, PlaceLine
    <2>6. CASE p = Outside
      BY <2>2, <2>4, <2>6, OutsideLine
    <2> QED
      BY <2>3, <2>5, <2>6
  <1>4. ASSUME NEW o \in Found, NEW n \in Found, ReplaceWith(o, n) PROVE LineInv'
    BY <1>4, ReplaceLine
  <1>5. ASSUME NEW g \in Found, Remove(g) PROVE LineInv'
    <2>1. fwd[g] \in Hosts /\ Below(fwd[g]) \in SUBSET Hosts
      BY DEF Found, Below, Alive
    <2>2. \A h \in Alive : parent[h] \in Below(fwd[g]) => h \in Below(fwd[g])
      BY <2>1, InsideClosed DEF LineInv
    <2> QED
      BY <1>5, <2>1, <2>2, DropLine DEF Remove
  <1>6. ASSUME NEW g \in Found, Clear(g) PROVE LineInv'
    <2>1. fwd[g] \in Hosts /\ Inside(fwd[g]) \in SUBSET Hosts
      BY DEF Found, Inside, Below, Alive
    <2>2. \A h \in Alive : parent[h] \in Inside(fwd[g]) => h \in Inside(fwd[g])
      BY <2>1, InsideClosed DEF LineInv
    <2> QED
      BY <1>6, <2>1, <2>2, DropLine DEF Clear
  <1>7. ASSUME NEW g \in Found, SetInnerHtml(g) PROVE LineInv'
    BY <1>7, HtmlLine
  <1>8. ASSUME UNCHANGED <<parent, maker>> PROVE LineInv'
    <2>1. Acyclic'
      BY <1>8, LessAcyclic DEF LineInv
    <2> QED
      BY <1>8, <2>1 DEF LineInv, NamesAbove, Alive
  <1>9. CASE Navigate
    BY <1>9, NavigateLine
  <1>10. ASSUME NEW h \in Hosts, ShellTakes(h) PROVE LineInv'
    BY <1>10, TakeLine DEF ShellTakes
  <1>11. ASSUME NEW h \in Hosts, ShellDrops(h) PROVE LineInv'
    <2>1. Below(h) \in SUBSET Hosts
      BY DEF Below, Alive
    <2>2. \A x \in Alive : parent[x] \in Below(h) => x \in Below(h)
      BY <2>1, InsideClosed DEF LineInv
    <2> QED
      BY <1>11, <2>1, <2>2, DropLine DEF ShellDrops
  <1> QED
    BY <1>1, <1>2, <1>3, <1>4, <1>5, <1>6, <1>7, <1>8, <1>9, <1>10, <1>11
    DEF Next, vars, Listen, Unlisten

-----------------------------------------------------------------------------
\* The two halves need each other only before straying, and no step takes
\* straying back.
KInv == NodeMapsTypeOK /\ (~strayed => Right /\ LineInv)

LEMMA StepKInv == KInv /\ [Next]_vars => KInv'
  <1> SUFFICES ASSUME KInv, [Next]_vars PROVE KInv'
    OBVIOUS
  <1>1. NodeMapsTypeOK'
    BY StepTypeOK DEF KInv
  <1>2. ASSUME ~strayed' PROVE Right' /\ LineInv'
    <2>1. IInv /\ LineInv
      BY <1>2, NeverBack DEF KInv, IInv
    <2> QED
      BY <1>2, <2>1, StepRight, StepLineInv
  <1> QED
    BY <1>1, <1>2 DEF KInv

\* The maps have their types; and until an op strays they are right about
\* every node that the guest still has, and the tree is such that a line
\* meets no other, for any number of ids, slots and event kinds.
THEOREM NodeMapsInvariant == Spec => []KInv
  <1>1. Init => KInv
    BY InitTypeOK, InitRight, InitLineInv DEF KInv
  <1> QED
    BY <1>1, StepKInv, PTL DEF Spec

\* NodeMapsTypeOK holds whatever the guest does, straying included.
THEOREM NodeMapsTypeCorrect == Spec => []NodeMapsTypeOK
  <1>1. KInv => NodeMapsTypeOK
    BY DEF KInv
  <1> QED
    BY <1>1, NodeMapsInvariant, PTL

\* Whatever ids the guest uses, its nodes' or ones that were left in the maps
\* when a node went with another: until one of them leads it to a node that
\* is not its own, the maps are right about every node it has.
THEOREM NamesAlwaysResolve == Spec => []NamesResolve
  <1>1. KInv => NamesResolve
    BY DEF KInv, Right, NamesRight, NamesResolve
  <1> QED
    BY <1>1, NodeMapsInvariant, PTL

\* All that is above a node of the page the guest made is its own too: the
\* line of such a node never leaves the guest's nodes before it ends at Mount.
LEMMA LineIsNamed ==
  ASSUME IInv, LineInv, NEW h \in Shown, maker[h] \in Guests
  PROVE  \A a \in Line(h) : a \in Alive /\ maker[a] \in Guests
  <1> DEFINE T == {x \in Line(h) : /\ x \in Alive /\ maker[x] \in Guests
                                   /\ Mount \in Line(x)}
             Left == {x \in Alive : maker[x] = "leftover"}
  <1>1. h \in Hosts /\ h \in Alive /\ Mount \in Line(h)
    BY DEF Shown, Below, Alive
  <1>2. T \in SUBSET Hosts /\ h \in T
    BY <1>1, SelfOnLine, LineInHosts
  <1>3. ASSUME NEW x \in T, parent[x] \in Hosts PROVE parent[x] \in T
    <2>1. /\ parent[x] \in Alive
          /\ maker[parent[x]] \in Guests \cup {"leftover"}
      BY <1>3 DEF LineInv, NamesAbove
    <2>2. x # Mount /\ x \in Hosts
      BY <1>2, <1>3 DEF IInv, Right, MountStays
    <2>3. Mount \in Line(parent[x])
      BY <1>3, <2>2, LineUnfolds
    <2>4. ASSUME maker[parent[x]] = "leftover" PROVE FALSE
      <3>1. Left \in SUBSET Hosts /\ parent[x] \in Left
        BY <2>1, <2>4 DEF Alive
      <3>2. \A y \in Left : parent[y] \in Hosts => parent[y] \in Left
        BY DEF LineInv, NamesAbove
      <3>3. Mount \notin Left
        BY DEF IInv, Right, MountStays, Unnamed
      <3> HIDE DEF Left
      <3>4. Line(parent[x]) \subseteq Left
        BY <1>3, <3>1, <3>2, LineLeast
      <3> QED
        BY <2>3, <3>3, <3>4
    <2>5. parent[x] \in Line(h)
      BY <1>1, <1>3, LineClosed
    <2> QED
      BY <2>1, <2>3, <2>4, <2>5
  <1>4. Line(h) \subseteq T
    <2> HIDE DEF T
    <2> QED
      BY <1>1, <1>2, <1>3, LineLeast
  <1> QED
    BY <1>4

\* The driver meets exactly the subscribers that are there, for any number of
\* ids, slots and event kinds.
THEOREM SubscribersAlwaysTrue == Spec => []SubscribersAreTrue
  <1>1. KInv => SubscribersAreTrue
    <2> SUFFICES ASSUME IInv, LineInv, NEW h \in Shown, NEW k \in Kinds,
                        maker[h] \in Guests
                 PROVE  Subscribed(h, k) = Due(h, k)
      BY DEF KInv, IInv, SubscribersAreTrue
    <2>1. \A a \in Line(h) : maker[a] \in Guests /\ rev[a] = maker[a]
      BY LineIsNamed DEF IInv, Right, NamesRight
    <2> QED
      BY <2>1 DEF Subscribed, Due
  <1> QED
    BY <1>1, NodeMapsInvariant, PTL

-----------------------------------------------------------------------------
\* Of the nodes on a line one has all of them on its own line: else no node
\* could be left behind on the way up, and the line would hold none of them.
LEMMA NearestOnLine ==
  ASSUME NEW h \in Hosts, NEW S \in SUBSET Line(h), S # {}
  PROVE  Nearest(S) \in S /\ \A b \in S : b \in Line(Nearest(S))
  <1>1. \E a \in S : \A b \in S : b \in Line(a)
    <2> SUFFICES ASSUME \A a \in S : ~(S \subseteq Line(a)) PROVE FALSE
      OBVIOUS
    <2> DEFINE C == {x \in Line(h) : S \subseteq Line(x)}
    <2>1. C \in SUBSET Hosts /\ h \in C
      BY LineInHosts, SelfOnLine
    <2>2. ASSUME NEW x \in C, parent[x] \in Hosts PROVE parent[x] \in C
      <3>1. x \in Hosts /\ x \in Line(h) /\ S \subseteq Line(x)
        BY <2>1
      <3>2. x \notin S
        BY <3>1
      <3>3. Line(x) = {x} \cup Line(parent[x])
        BY <2>2, <3>1, LineUnfolds
      <3>4. parent[x] \in Line(h)
        BY <2>2, <3>1, LineClosed
      <3> QED
        BY <3>1, <3>2, <3>3, <3>4
    <2>3. Line(h) \subseteq C
      <3> HIDE DEF C
      <3> QED
        BY <2>1, <2>2, LineLeast
    <2> QED
      BY <2>3
  <1> QED
    BY <1>1 DEF Nearest

\* An event on a node the guest made is reported for that node, to the
\* nearest subscriber above it, for any number of ids, slots and event kinds.
THEOREM NodeHitIsReported == Spec => []ReportsTheNodeHit
  <1>1. KInv => ReportsTheNodeHit
    <2> SUFFICES ASSUME IInv, LineInv, NEW h \in Shown, NEW k \in Kinds,
                        maker[h] \in Guests, Due(h, k) # {}
                 PROVE  /\ Target(h, k) = maker[h]
                        /\ \E a \in Due(h, k) :
                             /\ Listener(h, k) = maker[a]
                             /\ \A b \in Due(h, k) : b \in Line(a)
      BY DEF KInv, IInv, ReportsTheNodeHit
    <2>1. \A a \in Line(h) : maker[a] \in Guests /\ rev[a] = maker[a]
      BY LineIsNamed DEF IInv, Right, NamesRight
    <2>2. h \in Hosts /\ h \in Line(h)
      BY SelfOnLine DEF Shown, Below, Alive
    <2>3. Subscribed(h, k) = Due(h, k) /\ Due(h, k) \in SUBSET Line(h)
      BY <2>1 DEF Subscribed, Due
    <2> DEFINE a == Nearest(Due(h, k))
    <2>4. a \in Due(h, k) /\ \A b \in Due(h, k) : b \in Line(a)
      BY <2>2, <2>3, NearestOnLine
    <2>5. Listener(h, k) = rev[a]
      BY <2>3 DEF Listener
    <2>6. Target(h, k) = maker[h]
      BY <2>1, <2>2 DEF Target
    <2> HIDE DEF a
    <2> QED
      BY <2>1, <2>3, <2>4, <2>5, <2>6
  <1> QED
    BY <1>1, NodeMapsInvariant, PTL
=============================================================================
