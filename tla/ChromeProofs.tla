---------------------------- MODULE ChromeProofs ----------------------------
(***************************************************************************)
(* Theorems about Chrome for every number of tabs and addresses, any       *)
(* bookmarks file and any sizes: the rest of the chrome leaves the tab     *)
(* strip to its own handlers, the star is true, the console fits, and the  *)
(* file keeps the bookmarks.                                               *)
(***************************************************************************)
EXTENDS Chrome, TabStripProofs, WellFoundedInduction

(***************************************************************************)
(* The chrome implements the strip.                                        *)
(***************************************************************************)

\* What the rest of the chrome does to the strip is nothing.
LEMMA ChromeStepIsStripStep ==
  ASSUME [ChromeNext \/ ChromeDone]_chromeVars
  PROVE  [StripNext \/ StripDone]_stripVars
<1>1. CASE NavigationStep
  BY <1>1 DEF NavigationStep, StripNext
<1>2. CASE ActivationStep
  BY <1>2 DEF ActivationStep, StripNext, CloseTab
<1>3. CASE QuietStep
  BY <1>3 DEF QuietStep, StripNext, CloseTab
<1>4. ASSUME NEW x \in Targets, NEW o \in Outcomes, OpenBookmark(x, o)
      PROVE  StripNext
  BY <1>4 DEF OpenBookmark, StripNext
<1>5. CASE ToggleBookmark \/ \E x \in Targets : RemoveBookmark(x)
  BY <1>5 DEF ToggleBookmark, RemoveBookmark
<1>6. CASE ToggleMenu \/ ToggleBookmarksPanel \/ MenuEntry
  BY <1>6 DEF ToggleMenu, ToggleBookmarksPanel, MenuEntry
<1>7. CASE DividerDown \/ EndConsoleDrag
  BY <1>7 DEF DividerDown, EndConsoleDrag, ConsoleStep
<1>8. CASE \/ \E y \in Pointers : DragConsoleTo(y)
           \/ \E h \in WinHeights : Resize(h)
  BY <1>8 DEF DragConsoleTo, Resize, ConsoleStep
<1>9. CASE ChromeDone \/ UNCHANGED chromeVars
  BY <1>9 DEF ChromeDone, chromeVars
<1>. QED
  BY <1>1, <1>2, <1>3, <1>4, <1>5, <1>6, <1>7, <1>8, <1>9
  DEF ChromeNext, StripStep

\* Whatever is done with bookmarks, menus and console, the tabs behave as
\* TabStrip says, so that all that is proved of it holds of the whole chrome.
THEOREM ChromeImplementsStrip == ChromeSpec => StripSpec
<1>1. ChromeInit => StripInit
  BY DEF ChromeInit
<1>2. [ChromeNext \/ ChromeDone]_chromeVars => [StripNext \/ StripDone]_stripVars
  BY ChromeStepIsStripStep
<1>. QED
  BY <1>1, <1>2, PTL DEF ChromeSpec, StripSpec

-----------------------------------------------------------------------------
(***************************************************************************)
(* The star.                                                               *)
(***************************************************************************)

\* The star depends on nothing but the address in front and the bookmarks.
LEMMA StarUndisturbed ==
  ASSUME StarIsTrue, UNCHANGED <<star, bookmarks>>,
         tab'[ActiveId'].target = tab[ActiveId].target
  PROVE  StarIsTrue'
  BY DEF StarIsTrue

\* navigate on a tab, which TabState r it has by then shows the same address
\* as before: the address in front changes only if that tab is in front and
\* the address resolved.
LEMMA FrontKept ==
  ASSUME StripInv, NEW t \in TabId, NEW r, r.target = tab[t].target, NEW x,
         NEW push, NEW o, NavigateTab(t, r, x, push, o),
         t # ActiveId \/ o = "unresolved"
  PROVE  tab'[ActiveId'].target = tab[ActiveId].target
<1>1. tab \in [TabId -> Tab] /\ ActiveId \in TabId /\ ActiveId' = ActiveId
  BY ActiveIdOpen DEF StripInv, StripTypeOK, NavigateTab, ActiveId
<1>2. tab' = [tab EXCEPT ![t] = Navigated(r, x, push, o)]
  BY DEF NavigateTab
<1>3. CASE t # ActiveId
  BY <1>1, <1>2, <1>3
<1>4. CASE t = ActiveId /\ o = "unresolved"
  BY <1>1, <1>2, <1>4 DEF Navigated
<1>. QED
  BY <1>3, <1>4

\* A cursor moved in a tab's history leaves the address it shows.
LEMMA CursorKeepsTarget ==
  ASSUME StripInv, NEW i
  PROVE  [tab[ActiveId] EXCEPT !.historyIdx = i].target = tab[ActiveId].target
<1>1. tab[ActiveId] \in Tab
  BY ActiveIdOpen DEF StripInv, StripTypeOK
<1>. QED
  BY <1>1 DEF Tab

\* An address that does not resolve leaves the one in front as it was, from
\* wherever it was asked for.
LEMMA UnresolvedKeepsFront ==
  ASSUME StripInv, NEW x, NEW o, o = "unresolved",
         \/ AddressSubmit(o) \/ NavBack(o) \/ NavForward(o) \/ NavReload(o)
         \/ NavigateActive(x, o)
  PROVE  tab'[ActiveId'].target = tab[ActiveId].target
<1>1. ActiveId \in TabId
  BY ActiveIdOpen
<1>2. CASE AddressSubmit(o) \/ NavigateActive(x, o)
  BY <1>1, <1>2, FrontKept DEF AddressSubmit, NavigateActive
<1>3. ASSUME NEW i, NEW y,
             NavigateTab(ActiveId, [tab[ActiveId] EXCEPT !.historyIdx = i],
                         y, FALSE, o)
      PROVE  tab'[ActiveId'].target = tab[ActiveId].target
  <2>. DEFINE r == [tab[ActiveId] EXCEPT !.historyIdx = i]
  <2>1. r.target = tab[ActiveId].target
    BY CursorKeepsTarget
  <2>2. NavigateTab(ActiveId, r, y, FALSE, o)
    BY <1>3
  <2>. HIDE DEF r
  <2>. QED
    BY <1>1, <2>1, <2>2, FrontKept
<1>4. CASE NavBack(o) \/ NavForward(o)
  BY <1>3, <1>4 DEF NavBack, NavForward
<1>5. CASE NavReload(o)
  BY <1>1, <1>5, FrontKept DEF NavReload
<1>. QED
  BY <1>2, <1>4, <1>5

\* The star after refresh_address_bar.
LEMMA RefreshedStar ==
  ASSUME Refreshed(TRUE)
  PROVE  StarIsTrue'
  BY DEF Refreshed, Starred, StarIsTrue

LEMMA NavigationStar ==
  ASSUME StripInv, StarIsTrue, NavigationStep
  PROVE  StarIsTrue'
<1>1. PICK o \in Outcomes :
        \/ /\ \/ AddressSubmit(o) \/ NavBack(o) \/ NavForward(o) \/ NavReload(o)
              \/ \E x \in Targets : NavigateActive(x, o)
           /\ Refreshed(o # "unresolved")
        \/ \E x \in Targets, t \in TabId :
             /\ NavigateInPlace(t, x, o)
             /\ Refreshed(t = ActiveId /\ o # "unresolved")
  BY DEF NavigationStep
<1>2. ASSUME NEW x,
             \/ AddressSubmit(o) \/ NavBack(o) \/ NavForward(o) \/ NavReload(o)
             \/ NavigateActive(x, o),
             Refreshed(o # "unresolved")
      PROVE  StarIsTrue'
  <2>1. CASE o # "unresolved"
    BY <1>2, <2>1, RefreshedStar
  <2>2. CASE o = "unresolved"
    <3>1. UNCHANGED <<star, bookmarks>>
      BY <1>2, <2>2 DEF Refreshed, bookmarkVars
    <3>. QED
      BY <1>2, <2>2, <3>1, UnresolvedKeepsFront, StarUndisturbed
  <2>. QED
    BY <2>1, <2>2
<1>3. ASSUME NEW x \in Targets, NEW t \in TabId, NavigateInPlace(t, x, o),
             Refreshed(t = ActiveId /\ o # "unresolved")
      PROVE  StarIsTrue'
  <2>1. CASE t = ActiveId /\ o # "unresolved"
    BY <1>3, <2>1, RefreshedStar
  <2>2. CASE t # ActiveId \/ o = "unresolved"
    <3>1. UNCHANGED <<star, bookmarks>>
      BY <1>3, <2>2 DEF Refreshed, bookmarkVars
    <3>2. tab'[ActiveId'].target = tab[ActiveId].target
      BY <1>3, <2>2, FrontKept DEF NavigateInPlace
    <3>. QED
      BY <3>1, <3>2, StarUndisturbed
  <2>. QED
    BY <2>1, <2>2
<1>. QED
  BY <1>1, <1>2, <1>3

LEMMA QuietStar ==
  ASSUME StripInv, StarIsTrue, QuietStep
  PROVE  StarIsTrue'
<1>1. UNCHANGED <<star, bookmarks>>
  BY DEF QuietStep, Refreshed, bookmarkVars
<1>2. tab'[ActiveId'].target = tab[ActiveId].target
  <2>1. ASSUME NEW x, AddressInput(x)
        PROVE  tab'[ActiveId'].target = tab[ActiveId].target
    BY <2>1 DEF AddressInput, ActiveId
  <2>2. ASSUME NEW t \in TabId, CloseBackgroundTab(t)
        PROVE  tab'[ActiveId'].target = tab[ActiveId].target
    <3>1. ActiveId' = ActiveId /\ t # ActiveId
      BY <2>2, CloseBackgroundTabInv DEF CloseBackgroundTab
    <3>2. tab' = [tab EXCEPT ![t] = FreshTab]
      BY <2>2 DEF CloseBackgroundTab
    <3>3. tab \in [TabId -> Tab] /\ ActiveId \in TabId
      BY ActiveIdOpen DEF StripInv, StripTypeOK
    <3>. QED
      BY <3>1, <3>2, <3>3
  <2>3. ASSUME NEW t \in TabId, CloseLastTab(t) \/ ExitLoop
        PROVE  tab'[ActiveId'].target = tab[ActiveId].target
    BY <2>3 DEF CloseLastTab, ExitLoop, ActiveId
  <2>4. CASE ExitLoop
    BY <2>4 DEF ExitLoop, ActiveId
  <2>. QED
    BY <2>1, <2>2, <2>3, <2>4 DEF QuietStep
<1>. QED
  BY <1>1, <1>2, StarUndisturbed

LEMMA StarStep ==
  StripInv /\ StarIsTrue /\ [ChromeNext \/ ChromeDone]_chromeVars => StarIsTrue'
<1>. SUFFICES ASSUME StripInv, StarIsTrue, [ChromeNext \/ ChromeDone]_chromeVars
              PROVE  StarIsTrue'
  OBVIOUS
<1>1. CASE NavigationStep
  BY <1>1, NavigationStar
<1>2. CASE ActivationStep
  BY <1>2, RefreshedStar DEF ActivationStep
<1>3. CASE QuietStep
  BY <1>3, QuietStar
<1>4. ASSUME NEW x \in Targets, NEW o \in Outcomes, OpenBookmark(x, o)
      PROVE  StarIsTrue'
  <2>1. NavigateActive(x, o) /\ Refreshed(o # "unresolved")
    BY <1>4 DEF OpenBookmark
  <2>2. CASE o # "unresolved"
    BY <2>1, <2>2, RefreshedStar
  <2>3. CASE o = "unresolved"
    <3>1. UNCHANGED <<star, bookmarks>>
      BY <2>1, <2>3 DEF Refreshed, bookmarkVars
    <3>. QED
      BY <2>1, <2>3, <3>1, UnresolvedKeepsFront, StarUndisturbed
  <2>. QED
    BY <2>2, <2>3
<1>5. CASE ToggleBookmark \/ \E x \in Targets : RemoveBookmark(x)
  BY <1>5 DEF ToggleBookmark, RemoveBookmark, Starred, StarIsTrue
<1>6. CASE ToggleMenu \/ ToggleBookmarksPanel \/ MenuEntry
  <2>1. UNCHANGED <<stripVars, star, bookmarks>>
    BY <1>6 DEF ToggleMenu, ToggleBookmarksPanel, MenuEntry, bookmarkVars
  <2>. QED
    BY <2>1, StarUndisturbed DEF stripVars, ActiveId
<1>7. CASE \/ DividerDown \/ EndConsoleDrag
           \/ \E y \in Pointers : DragConsoleTo(y)
           \/ \E h \in WinHeights : Resize(h)
  <2>1. UNCHANGED <<stripVars, star, bookmarks>>
    BY <1>7 DEF DividerDown, EndConsoleDrag, DragConsoleTo, Resize,
                ConsoleStep, bookmarkVars
  <2>. QED
    BY <2>1, StarUndisturbed DEF stripVars, ActiveId
<1>8. CASE ChromeDone \/ UNCHANGED chromeVars
  <2>1. UNCHANGED <<stripVars, star, bookmarks>>
    BY <1>8 DEF ChromeDone, chromeVars, bookmarkVars
  <2>. QED
    BY <2>1, StarUndisturbed DEF stripVars, ActiveId
<1>. QED
  BY <1>1, <1>2, <1>3, <1>4, <1>5, <1>6, <1>7, <1>8 DEF ChromeNext, StripStep

\* The star is lit exactly when the page in front is bookmarked.
THEOREM StarAlwaysTrue == ChromeSpec => []StarIsTrue
<1>1. ChromeInit => StarIsTrue
  BY TabStripAssumption DEF ChromeInit, StripInit, StarIsTrue, FreshTab, ActiveId, TabId
<1>2. StripInv /\ StarIsTrue /\ [ChromeNext \/ ChromeDone]_chromeVars => StarIsTrue'
  BY StarStep
<1>3. ChromeSpec => []StripInv
  BY ChromeImplementsStrip, StripInvariant
<1>. QED
  BY <1>1, <1>2, <1>3, PTL DEF ChromeSpec

-----------------------------------------------------------------------------
(***************************************************************************)
(* Menu, panel and console.                                                *)
(***************************************************************************)

ConsoleInv ==
  /\ consoleHeight \in Nat
  /\ winHeight \in Nat
  /\ ChromeFits

LEMMA MaxConsoleNat ==
  ASSUME NEW h \in Nat
  PROVE  MaxConsole(h) \in Nat /\ MinConsole <= MaxConsole(h)
  BY ChromeAssumption DEF MaxConsole

\* A step on menu and panel, which never leaves both open.
LEMMA OverlaysStep ==
  ASSUME ConsoleInv, UNCHANGED <<consoleHeight, winHeight>>,
         ~(menuOpen' /\ panelOpen')
  PROVE  ConsoleInv'
<1>1. MaxConsole(winHeight)' = MaxConsole(winHeight)
  BY DEF MaxConsole
<1>. QED
  BY <1>1 DEF ConsoleInv, ChromeFits

LEMMA ConsoleStepInv ==
  ConsoleInv /\ [ChromeNext \/ ChromeDone]_chromeVars => ConsoleInv'
<1>. SUFFICES ASSUME ConsoleInv, [ChromeNext \/ ChromeDone]_chromeVars
              PROVE  ConsoleInv'
  OBVIOUS
<1>. USE DEF consoleVars, overlayVars
<1>1. CASE StripStep
  <2>1. UNCHANGED <<consoleHeight, winHeight>>
    BY <1>1 DEF StripStep
  <2>2. UNCHANGED <<menuOpen, panelOpen>> \/ panelOpen' = FALSE
    BY <1>1 DEF StripStep, NavigationStep, ActivationStep, QuietStep, OpenBookmark
  <2>3. ~(menuOpen' /\ panelOpen')
    BY <2>2 DEF ConsoleInv, ChromeFits
  <2>. QED
    BY <2>1, <2>3, OverlaysStep
<1>2. CASE ToggleBookmark \/ \E x \in Targets : RemoveBookmark(x)
  BY <1>2, OverlaysStep DEF ToggleBookmark, RemoveBookmark, ConsoleInv, ChromeFits
<1>3. CASE ToggleMenu
  BY <1>3, OverlaysStep DEF ToggleMenu
<1>4. CASE ToggleBookmarksPanel
  BY <1>4, OverlaysStep DEF ToggleBookmarksPanel
<1>5. CASE MenuEntry
  BY <1>5, OverlaysStep DEF MenuEntry
<1>6. CASE DividerDown \/ EndConsoleDrag \/ ChromeDone \/ UNCHANGED chromeVars
  BY <1>6, OverlaysStep DEF DividerDown, EndConsoleDrag, ConsoleStep, ChromeDone,
     chromeVars, ConsoleInv, ChromeFits
<1>7. ASSUME NEW y \in Pointers, DragConsoleTo(y)
      PROVE  ConsoleInv'
  <2>1. y \in Nat /\ winHeight \in Nat /\ MinConsole \in Nat
    BY ChromeAssumption DEF ConsoleInv
  <2>2. MaxConsole(winHeight) \in Nat /\ MinConsole <= MaxConsole(winHeight)
    BY <2>1, MaxConsoleNat
  <2>3. /\ consoleHeight' \in Nat
        /\ MinConsole <= consoleHeight' /\ consoleHeight' <= MaxConsole(winHeight)
    BY <1>7, <2>1, <2>2 DEF DragConsoleTo
  <2>4. winHeight' = winHeight /\ MaxConsole(winHeight)' = MaxConsole(winHeight)
    BY <1>7 DEF DragConsoleTo, MaxConsole
  <2>. QED
    BY <1>7, <2>1, <2>3, <2>4 DEF DragConsoleTo, ConsoleStep, ConsoleInv, ChromeFits
<1>8. ASSUME NEW h \in WinHeights, Resize(h)
      PROVE  ConsoleInv'
  <2>1. h \in Nat /\ consoleHeight \in Nat /\ MinConsole \in Nat
    BY ChromeAssumption DEF ConsoleInv
  <2>2. MaxConsole(h) \in Nat /\ MinConsole <= MaxConsole(h)
    BY <2>1, MaxConsoleNat
  <2>3. winHeight' = h /\ MaxConsole(winHeight)' = MaxConsole(h)
    BY <1>8 DEF Resize, MaxConsole
  <2>4. /\ consoleHeight' \in Nat
        /\ MinConsole <= consoleHeight'
        /\ h > 0 => consoleHeight' <= MaxConsole(h)
    BY <1>8, <2>1, <2>2 DEF Resize, ConsoleInv, ChromeFits
  <2>. QED
    BY <1>8, <2>1, <2>3, <2>4 DEF Resize, ConsoleStep, ConsoleInv, ChromeFits
<1>. QED
  BY <1>1, <1>2, <1>3, <1>4, <1>5, <1>6, <1>7, <1>8 DEF ChromeNext

\* Whatever the sizes of window and console, and wherever the pointer goes,
\* the page keeps its pixels or the console is as low as it may be.
THEOREM ChromeAlwaysFits == ChromeSpec => []ChromeFits
<1>1. ChromeInit => ConsoleInv
  BY ChromeAssumption DEF ChromeInit, ConsoleInv, ChromeFits
<1>2. ConsoleInv /\ [ChromeNext \/ ChromeDone]_chromeVars => ConsoleInv'
  BY ConsoleStepInv
<1>3. ConsoleInv => ChromeFits
  BY DEF ConsoleInv
<1>. QED
  BY <1>1, <1>2, <1>3, PTL DEF ChromeSpec

-----------------------------------------------------------------------------
(***************************************************************************)
(* The bookmarks.  What load_bookmarks makes of a file is defined by       *)
(* recursion on the items read; that it is a list without repetitions, and *)
(* that a list that was saved is read as itself, is shown by induction on  *)
(* them, in the form of sets of numbers of items.                          *)
(***************************************************************************)

\* What holds of 0, and of the successor of each number below n of which it
\* holds, holds up to n.
LEMMA UpToInduction ==
  ASSUME NEW n \in Nat, NEW S, 0 \in S,
         \A k \in 0 .. n : k < n /\ k \in S => k + 1 \in S
  PROVE  0 .. n \subseteq S
<1>. SUFFICES ASSUME NEW z \in (0 .. n) \ S PROVE FALSE
  OBVIOUS
<1>. DEFINE R == OpToRel(<, Nat)
            T == (0 .. n) \ S
<1>1. T \subseteq Nat /\ T # {}
  OBVIOUS
<1>2. IsWellFoundedOn(R, Nat)
  BY NatLessThanWellFounded
<1>3. \A x, y \in Nat : x < y => <<x, y>> \in R
  BY DEF OpToRel
<1>. HIDE DEF R
<1>4. PICK d \in T : \A e \in T : ~(<<e, d>> \in R)
  <2>. HIDE DEF T
  <2>. QED
    BY <1>1, <1>2, WFMin
<1>5. d \in 0 .. n /\ d \notin S /\ d # 0
  BY <1>4
<1>6. d - 1 \in 0 .. n /\ d - 1 < n /\ (d - 1) + 1 = d /\ d - 1 < d
  BY <1>5
<1>7. d - 1 \in S
  <2>1. <<d - 1, d>> \in R
    BY <1>3, <1>5, <1>6
  <2>2. d - 1 \notin T
    BY <1>4, <2>1
  <2>. QED
    BY <1>6, <2>2
<1>. QED
  BY <1>5, <1>6, <1>7

\* r[k] is the list after k items, up to n of them.
Reading(r, f, n) ==
  r = [k \in 0 .. n |-> IF k = 0 THEN <<>> ELSE WithItem(r[k - 1], f[k])]

LEMMA ReadingExists ==
  ASSUME NEW n \in Nat, NEW f
  PROVE  \E r : Reading(r, f, n)
<1>. DEFINE S == {k \in 0 .. n : \E r : Reading(r, f, k)}
<1>1. 0 \in S
  <2>1. Reading([k \in 0 .. 0 |-> <<>>], f, 0)
    BY DEF Reading
  <2>. QED
    BY <2>1
<1>2. ASSUME NEW k \in 0 .. n, k < n, k \in S
      PROVE  k + 1 \in S
  <2>1. PICK r : Reading(r, f, k)
    BY <1>2
  <2>. DEFINE q == [i \in 0 .. k + 1 |->
                      IF i = k + 1 THEN WithItem(r[k], f[k + 1]) ELSE r[i]]
  <2>2. ASSUME NEW i \in 0 .. k + 1
        PROVE  q[i] = IF i = 0 THEN <<>> ELSE WithItem(q[i - 1], f[i])
    <3>1. CASE i = k + 1
      <4>1. i # 0 /\ i - 1 = k /\ k # k + 1 /\ k \in 0 .. k + 1
        BY <1>2, <3>1
      <4>2. q[k] = r[k] /\ q[i] = WithItem(r[k], f[k + 1])
        BY <3>1, <4>1
      <4>. QED
        BY <3>1, <4>1, <4>2
    <3>2. CASE i # k + 1
      <4>1. i \in 0 .. k /\ q[i] = r[i]
        BY <1>2, <2>2, <3>2
      <4>2. r[i] = IF i = 0 THEN <<>> ELSE WithItem(r[i - 1], f[i])
        BY <2>1, <4>1 DEF Reading
      <4>3. i # 0 => i - 1 \in 0 .. k + 1 /\ i - 1 # k + 1
        BY <1>2, <4>1
      <4>4. i # 0 => q[i - 1] = r[i - 1]
        BY <4>3
      <4>. QED
        BY <4>1, <4>2, <4>4
    <3>. QED
      BY <3>1, <3>2
  <2>3. Reading(q, f, k + 1)
    <3>1. q = [i \in 0 .. k + 1 |-> q[i]]
      OBVIOUS
    <3>. HIDE DEF q
    <3>. QED
      BY <2>2, <3>1 DEF Reading
  <2>. QED
    BY <1>2, <2>3
<1>3. 0 .. n \subseteq S
  <2>. HIDE DEF S
  <2>. QED
    BY <1>1, <1>2, UpToInduction
<1>. QED
  BY <1>3

\* What is loaded is what has been read of the items in the end.
LEMMA LoadedIsRead ==
  ASSUME NEW f \in Seq(Targets \cup {Blank})
  PROVE  \E r : Reading(r, f, Len(f)) /\ Loaded(f) = r[Len(f)]
<1>. DEFINE P(r) == r = [k \in 0 .. Len(f) |->
                      IF k = 0 THEN <<>> ELSE WithItem(r[k - 1], f[k])]
            c == CHOOSE r : P(r)
<1>1. f \notin {NoFile, Torn}
  BY ChromeAssumption
<1>2. Loaded(f) = c[Len(f)]
  BY <1>1 DEF Loaded
<1>3. P(c)
  <2>1. \E r : P(r)
    BY ReadingExists DEF Reading
  <2>. HIDE DEF P
  <2>. QED
    BY <2>1
<1>4. Reading(c, f, Len(f))
  BY <1>3 DEF Reading
<1>. HIDE DEF c
<1>. QED
  BY <1>2, <1>4

\* The lists of bookmarks: no address is there twice.
OneRowEach(bs) == \A i, j \in 1 .. Len(bs) : bs[i] = bs[j] => i = j

Lists == {bs \in Seq(Targets) : OneRowEach(bs)}

LEMMA AppendedRow ==
  ASSUME NEW bs \in Lists, NEW x \in Targets, x \notin ToSet(bs)
  PROVE  Append(bs, x) \in Lists
<1>. DEFINE q == Append(bs, x)
            n == Len(bs) + 1
<1>1. bs \in Seq(Targets) /\ Len(bs) \in Nat /\ OneRowEach(bs)
  BY DEF Lists
<1>2. /\ q \in Seq(Targets) /\ Len(q) = n
      /\ q[n] = x /\ \A i \in 1 .. Len(bs) : q[i] = bs[i]
  BY <1>1
<1>3. \A i \in 1 .. Len(bs) : bs[i] # x
  BY <1>1 DEF ToSet
<1>. HIDE DEF q
<1>4. ASSUME NEW i \in 1 .. n, NEW j \in 1 .. n, q[i] = q[j]
      PROVE  i = j
  <2>1. CASE i \in 1 .. Len(bs) /\ j \in 1 .. Len(bs)
    BY <1>1, <1>2, <1>4, <2>1 DEF OneRowEach
  <2>2. CASE i = n
    BY <1>1, <1>2, <1>3, <1>4, <2>2
  <2>3. CASE j = n
    BY <1>1, <1>2, <1>3, <1>4, <2>3
  <2>. QED
    BY <1>1, <2>1, <2>2, <2>3
<1>5. OneRowEach(q)
  BY <1>2, <1>4 DEF OneRowEach
<1>. QED
  BY <1>2, <1>5 DEF Lists, q

LEMMA RemovedRow ==
  ASSUME NEW bs \in Lists, NEW x \in ToSet(bs)
  PROVE  RemoveFirst(bs, x) \in Lists
<1>. DEFINE I == {i \in 1 .. Len(bs) : bs[i] = x}
<1>1. bs \in Seq(Targets) /\ Len(bs) \in Nat /\ OneRowEach(bs)
  BY DEF Lists
<1>2. PICK i \in 1 .. Len(bs) : bs[i] = x
  BY <1>1 DEF ToSet
<1>3. I = {i}
  BY <1>1, <1>2 DEF OneRowEach
<1>4. RemoveFirst(bs, x) = RemoveAt(bs, Min(I))
  BY <1>2 DEF RemoveFirst, SelectInSeq
<1>. HIDE DEF I
<1>5. Min(I) = i
  BY <1>3 DEF Min
<1>. DEFINE q == RemoveAt(bs, i)
<1>6. /\ q \in Seq(Targets) /\ Len(q) = Len(bs) - 1
      /\ \A j \in 1 .. Len(bs) - 1 : q[j] = IF j < i THEN bs[j] ELSE bs[j + 1]
  BY <1>1, RemoveAtProperties
<1>. HIDE DEF q
<1>7. ASSUME NEW j \in 1 .. Len(bs) - 1, NEW k \in 1 .. Len(bs) - 1,
             q[j] = q[k]
      PROVE  j = k
  <2>. DEFINE at(m) == IF m < i THEN m ELSE m + 1
  <2>1. /\ at(j) \in 1 .. Len(bs) /\ q[j] = bs[at(j)]
        /\ at(k) \in 1 .. Len(bs) /\ q[k] = bs[at(k)]
    BY <1>1, <1>6, <1>7
  <2>2. at(j) = at(k)
    <3>. HIDE DEF at
    <3>. QED
      BY <1>1, <1>7, <2>1 DEF OneRowEach
  <2>. QED
    BY <1>1, <2>2
<1>8. OneRowEach(q)
  BY <1>6, <1>7 DEF OneRowEach
<1>. QED
  BY <1>4, <1>5, <1>6, <1>8 DEF Lists, q

\* Whatever the file holds, the list has each address once.
LEMMA LoadedIsList ==
  ASSUME NEW f \in Seq(Targets \cup {Blank}) \cup {NoFile, Torn}
  PROVE  Loaded(f) \in Lists
<1>1. <<>> \in Lists
  BY DEF Lists, OneRowEach
<1>2. CASE f \in {NoFile, Torn}
  <2>1. Loaded(f) = <<>>
    BY <1>2 DEF Loaded
  <2>. QED
    BY <1>1, <2>1
<1>3. CASE f \in Seq(Targets \cup {Blank})
  <2>1. PICK r : Reading(r, f, Len(f)) /\ Loaded(f) = r[Len(f)]
    BY <1>3, LoadedIsRead
  <2>. DEFINE n == Len(f)
              S == {k \in 0 .. n : r[k] \in Lists}
  <2>2. n \in Nat /\ \A k \in 1 .. n : f[k] \in Targets \cup {Blank}
    BY <1>3
  <2>. HIDE DEF n
  <2>3. Reading(r, f, n)
    BY <2>1 DEF n
  <2>4. /\ r[0] = <<>>
        /\ \A k \in 0 .. n : k < n => r[k + 1] = WithItem(r[k], f[k + 1])
    <3>1. 0 \in 0 .. n
      BY <2>2
    <3>2. ASSUME NEW k \in 0 .. n, k < n
          PROVE  r[k + 1] = WithItem(r[k], f[k + 1])
      <4>1. k + 1 \in 0 .. n /\ k + 1 # 0 /\ (k + 1) - 1 = k
        BY <2>2, <3>2
      <4>. QED
        BY <2>3, <4>1 DEF Reading
    <3>. QED
      BY <2>3, <3>1, <3>2 DEF Reading
  <2>5. 0 \in S
    BY <1>1, <2>2, <2>4
  <2>6. ASSUME NEW k \in 0 .. n, k < n, k \in S
        PROVE  k + 1 \in S
    <3>1. k + 1 \in 1 .. n /\ k + 1 \in 0 .. n
      BY <2>2, <2>6
    <3>2. r[k + 1] = WithItem(r[k], f[k + 1]) /\ r[k] \in Lists
      BY <2>4, <2>6
    <3>3. f[k + 1] \in Targets \cup {Blank}
      BY <2>2, <3>1
    <3>4. WithItem(r[k], f[k + 1]) \in Lists
      BY <3>2, <3>3, AppendedRow DEF WithItem
    <3>. QED
      BY <3>1, <3>2, <3>4
  <2>7. 0 .. n \subseteq S
    <3>. HIDE DEF S
    <3>. QED
      BY <2>2, <2>5, <2>6, UpToInduction
  <2>8. n \in 0 .. n
    BY <2>2
  <2>. QED
    BY <2>1, <2>7, <2>8 DEF n
<1>. QED
  BY <1>2, <1>3

\* A list that was saved is read as itself.
LEMMA SavedIsLoaded ==
  ASSUME NEW bs \in Lists
  PROVE  Loaded(bs) = bs
<1>. DEFINE n == Len(bs)
            begun(k) == SubSeq(bs, 1, k)
<1>1. bs \in Seq(Targets) /\ n \in Nat /\ OneRowEach(bs)
  BY DEF Lists
<1>2. bs \in Seq(Targets \cup {Blank})
  BY <1>1, SeqMonotonic
<1>3. PICK r : Reading(r, bs, n) /\ Loaded(bs) = r[n]
  BY <1>2, LoadedIsRead
<1>. DEFINE S == {k \in 0 .. n : r[k] = begun(k)}
<1>4. 0 \in S
  <2>1. 0 \in 0 .. n /\ begun(0) = <<>>
    BY <1>1, SubSeqEmpty
  <2>2. r[0] = <<>>
    <3>. HIDE DEF n
    <3>. QED
      BY <1>3, <2>1 DEF Reading
  <2>. QED
    BY <2>1, <2>2
<1>5. ASSUME NEW k \in 0 .. n, k < n, k \in S
      PROVE  k + 1 \in S
  <2>1. k + 1 \in 0 .. n /\ k + 1 # 0 /\ (k + 1) - 1 = k /\ k + 1 \in 1 .. n
    BY <1>1, <1>5
  <2>2. r[k + 1] = WithItem(begun(k), bs[k + 1])
    <3>1. r[k] = begun(k)
      BY <1>5
    <3>. HIDE DEF n, begun
    <3>. QED
      BY <1>3, <2>1, <3>1 DEF Reading
  <2>3. bs[k + 1] # Blank
    BY <1>1, <2>1, TabStripAssumption
  <2>4. /\ begun(k) \in Seq(Targets) /\ Len(begun(k)) = k
        /\ \A i \in 1 .. k : begun(k)[i] = bs[i]
    BY <1>1, <1>5
  <2>5. bs[k + 1] \notin ToSet(begun(k))
    <3>1. \A i \in 1 .. k : bs[i] # bs[k + 1]
      BY <1>1, <1>5, <2>1 DEF OneRowEach
    <3>. HIDE DEF begun
    <3>. QED
      BY <2>4, <3>1 DEF ToSet
  <2>6. r[k + 1] = Append(begun(k), bs[k + 1])
    BY <2>2, <2>3, <2>5 DEF WithItem
  <2>7. Append(begun(k), bs[k + 1]) = begun(k + 1)
    BY <1>1, <1>5, <2>1
  <2>. QED
    BY <2>1, <2>6, <2>7
<1>6. 0 .. n \subseteq S
  <2>. HIDE DEF S, n
  <2>. QED
    BY <1>1, <1>4, <1>5, UpToInduction
<1>7. r[n] = begun(n)
  BY <1>1, <1>6
<1>8. begun(n) = bs
  BY <1>1
<1>. QED
  BY <1>3, <1>7, <1>8

\* The list never repeats an address, whatever the file held, and the file
\* is read as the list; the first is what the second needs.
RowsInv ==
  /\ bookmarks \in Lists
  /\ ~unsaved => Loaded(file) = bookmarks

\* Writing a list to the file, whether or not that succeeds.
LEMMA SaveKeepsRows ==
  ASSUME bookmarks' \in Lists, Save
  PROVE  RowsInv'
<1>1. Loaded(bookmarks') = bookmarks'
  BY SavedIsLoaded
<1>. QED
  BY <1>1 DEF Save, RowsInv

LEMMA RowsStep ==
  ASSUME StripInv, RowsInv, [ChromeNext \/ ChromeDone]_chromeVars
  PROVE  RowsInv'
<1>1. ASSUME UNCHANGED bookmarkVars PROVE RowsInv'
  BY <1>1 DEF bookmarkVars, RowsInv
<1>2. CASE StripStep
  BY <1>1, <1>2 DEF StripStep, NavigationStep, ActivationStep, QuietStep,
     OpenBookmark, Refreshed
<1>3. CASE ToggleBookmark
  <2>. DEFINE x == tab[ActiveId].target
  <2>1. x \in Targets
    <3>1. tab[ActiveId] \in Tab
      BY ActiveIdOpen DEF StripInv, StripTypeOK
    <3>2. x # Blank
      BY <1>3 DEF ToggleBookmark
    <3>. QED
      BY <3>1, <3>2 DEF Tab
  <2>2. /\ bookmarks' = IF x \in ToSet(bookmarks) THEN RemoveFirst(bookmarks, x)
                        ELSE Append(bookmarks, x)
        /\ Save
    BY <1>3 DEF ToggleBookmark
  <2>. HIDE DEF x
  <2>3. bookmarks' \in Lists
    BY <2>1, <2>2, AppendedRow, RemovedRow DEF RowsInv
  <2>. QED
    BY <2>2, <2>3, SaveKeepsRows
<1>4. ASSUME NEW x \in Targets, RemoveBookmark(x)
      PROVE  RowsInv'
  <2>1. x \in ToSet(bookmarks) /\ bookmarks' = RemoveFirst(bookmarks, x) /\ Save
    BY <1>4 DEF RemoveBookmark
  <2>2. bookmarks' \in Lists
    BY <2>1, RemovedRow DEF RowsInv
  <2>. QED
    BY <2>1, <2>2, SaveKeepsRows
<1>5. CASE ToggleMenu \/ ToggleBookmarksPanel \/ MenuEntry
  BY <1>1, <1>5 DEF ToggleMenu, ToggleBookmarksPanel, MenuEntry
<1>6. CASE \/ DividerDown \/ EndConsoleDrag
           \/ \E y \in Pointers : DragConsoleTo(y)
           \/ \E h \in WinHeights : Resize(h)
  BY <1>1, <1>6 DEF DividerDown, EndConsoleDrag, DragConsoleTo, Resize,
     ConsoleStep
<1>7. CASE ChromeDone \/ UNCHANGED chromeVars
  BY <1>1, <1>7 DEF ChromeDone, chromeVars
<1>. QED
  BY <1>2, <1>3, <1>4, <1>5, <1>6, <1>7 DEF ChromeNext

\* Unless the last write failed, a program started now would show the
\* bookmarks that are on display, and none is there twice, whatever the file
\* held at first.
THEOREM BookmarksAlwaysKept == ChromeSpec => []BookmarksKept
<1>1. ChromeInit => RowsInv
  <2>1. ASSUME ChromeInit PROVE file \in Seq(Targets \cup {Blank}) \cup {NoFile, Torn}
    BY <2>1, ChromeAssumption DEF ChromeInit
  <2>. QED
    BY <2>1, LoadedIsList DEF ChromeInit, RowsInv
<1>2. StripInv /\ RowsInv /\ [ChromeNext \/ ChromeDone]_chromeVars => RowsInv'
  BY RowsStep
<1>3. RowsInv => BookmarksKept
  <2>1. ASSUME bookmarks \in Lists PROVE DOMAIN bookmarks = 1 .. Len(bookmarks)
    BY <2>1 DEF Lists
  <2>. QED
    BY <2>1 DEF RowsInv, BookmarksKept, Lists, OneRowEach
<1>4. ChromeSpec => []StripInv
  BY ChromeImplementsStrip, StripInvariant
<1>. QED
  BY <1>1, <1>2, <1>3, <1>4, PTL DEF ChromeSpec

=============================================================================
