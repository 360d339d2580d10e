--------------------------- MODULE TabStripProofs ---------------------------
(***************************************************************************)
(* Theorems about TabStrip for every number of tabs, every set of          *)
(* addresses and every history bound.                                      *)
(***************************************************************************)
EXTENDS TabStrip, SequenceTheorems, TLAPS

(***************************************************************************)
(* Lemmas about the sequence operators of the strip.                       *)
(***************************************************************************)

\* What removing the element at position i of a sequence leaves: close_tab's
\* Vec::remove.
LEMMA RemoveAtProperties ==
  ASSUME NEW S, NEW s \in Seq(S), NEW i \in 1 .. Len(s)
  PROVE  /\ RemoveAt(s, i) \in Seq(S)
         /\ Len(RemoveAt(s, i)) = Len(s) - 1
         /\ \A j \in 1 .. Len(s) - 1 :
              RemoveAt(s, i)[j] = IF j < i THEN s[j] ELSE s[j + 1]
<1>. DEFINE front == SubSeq(s, 1, i - 1)
            back  == SubSeq(s, i + 1, Len(s))
<1>1. /\ front \in Seq(S)
      /\ Len(front) = i - 1
      /\ \A j \in 1 .. i - 1 : front[j] = s[j]
  OBVIOUS
<1>2. /\ back \in Seq(S)
      /\ Len(back) = Len(s) - i
      /\ \A j \in 1 .. Len(s) - i : back[j] = s[i + j]
  OBVIOUS
<1>3. RemoveAt(s, i) = front \o back
  BY DEF RemoveAt
<1>. HIDE DEF front, back
<1>4. /\ front \o back \in Seq(S)
      /\ Len(front \o back) = Len(front) + Len(back)
      /\ \A j \in 1 .. Len(front) + Len(back) :
           (front \o back)[j] = IF j <= Len(front) THEN front[j]
                                ELSE back[j - Len(front)]
  BY <1>1, <1>2, ConcatProperties
<1>5. \A j \in 1 .. Len(s) - 1 :
        (front \o back)[j] = IF j < i THEN s[j] ELSE s[j + 1]
  <2>. TAKE j \in 1 .. Len(s) - 1
  <2>1. CASE j < i
    BY <2>1, <1>1, <1>2, <1>4
  <2>2. CASE ~(j < i)
    <3>1. j - (i - 1) \in 1 .. Len(s) - i /\ i + (j - (i - 1)) = j + 1
      BY <2>2
    <3>2. (front \o back)[j] = back[j - (i - 1)]
      BY <2>2, <1>1, <1>2, <1>4
    <3>3. back[j - (i - 1)] = s[i + (j - (i - 1))]
      BY <3>1, <1>2
    <3>. QED
      BY <2>2, <3>1, <3>2, <3>3
  <2>. QED
    BY <2>1, <2>2
<1>. QED
  BY <1>1, <1>2, <1>3, <1>4, <1>5

\* Truncate keeps a prefix: Vec::truncate.
LEMMA TruncateProperties ==
  ASSUME NEW S, NEW h \in Seq(S), NEW n \in Nat
  PROVE  /\ Truncate(h, n) \in Seq(S)
         /\ Len(Truncate(h, n)) = IF n < Len(h) THEN n ELSE Len(h)
         /\ \A j \in 1 .. Len(h) : j <= n => Truncate(h, n)[j] = h[j]
  BY DEF Truncate

(***************************************************************************)
(* The inductive invariant.  The type of the history entry that back,      *)
(* forward and reload load depends on the cursor being in range, and the   *)
(* cursor's range on the active index being in range, so the three parts   *)
(* are proved together.                                                    *)
(***************************************************************************)
StripInv == StripTypeOK /\ OneTabShown /\ HistoryConsistent

\* A tab's state is sound: typed, with a consistent history.
SoundTab(r) == r \in Tab /\ ConsistentHistory(r)

LEMMA FreshTabSound == SoundTab(FreshTab)
  BY DEF SoundTab, FreshTab, Tab, ConsistentHistory

\* A push keeps the entries up to the cursor, adds x and moves the cursor on
\* to it.
LEMMA PushedProperties ==
  ASSUME NEW r \in Tab, ConsistentHistory(r), NEW x \in Targets
  PROVE  LET p == Pushed(r, x) IN
         /\ p \in Tab
         /\ p.history # <<>>
         /\ p.historyIdx = Len(p.history) - 1
         /\ p.history[Len(p.history)] = x
         /\ \A j \in DOMAIN r.history :
              j <= r.historyIdx + 1 => /\ j \in DOMAIN p.history
                                       /\ p.history[j] = r.history[j]
<1>. DEFINE c == Truncate(r.history, r.historyIdx + 1)
            h == Append(c, x)
<1>1. r.history \in Seq(Targets) /\ r.historyIdx + 1 \in Nat
  BY DEF Tab
<1>2. /\ c \in Seq(Targets)
      /\ \A j \in 1 .. Len(r.history) :
           j <= r.historyIdx + 1 => j <= Len(c) /\ c[j] = r.history[j]
  BY <1>1, TruncateProperties
<1>. HIDE DEF c
<1>3. /\ h \in Seq(Targets)
      /\ Len(h) = Len(c) + 1
      /\ h[Len(h)] = x
      /\ \A j \in 1 .. Len(c) : h[j] = c[j]
  BY <1>2
<1>4. Pushed(r, x) = [r EXCEPT !.history = h, !.historyIdx = Len(h) - 1]
  BY DEF Pushed, c
<1>5. Len(h) - 1 \in Nat /\ h # <<>>
  BY <1>2, <1>3
<1>. HIDE DEF h
<1>6. /\ Pushed(r, x) \in Tab
      /\ Pushed(r, x).history = h
      /\ Pushed(r, x).historyIdx = Len(h) - 1
  BY <1>3, <1>4, <1>5 DEF Tab
<1>. QED
  BY <1>1, <1>2, <1>3, <1>5, <1>6

\* navigate leaves a sound tab sound: what it shows is the entry it pushed,
\* or an entry the history already had.
LEMMA NavigatedSound ==
  ASSUME NEW r, SoundTab(r), NEW x \in Targets, NEW push \in BOOLEAN,
         NEW o \in Outcomes,
         push \/ \E i \in DOMAIN r.history : r.history[i] = x
  PROVE  SoundTab(Navigated(r, x, push, o))
<1>. DEFINE p == IF push THEN Pushed(r, x) ELSE r
<1>1. r \in Tab /\ ConsistentHistory(r)
  BY DEF SoundTab
<1>2. /\ p \in Tab
      /\ p.history # <<>>
      /\ p.historyIdx < Len(p.history)
      /\ \E i \in DOMAIN p.history : p.history[i] = x
  <2>1. CASE push
    <3>1. /\ p \in Tab /\ p.history # <<>>
          /\ p.historyIdx = Len(p.history) - 1
          /\ p.history[Len(p.history)] = x
      BY <1>1, <2>1, PushedProperties
    <3>2. p.history \in Seq(Targets)
      BY <3>1 DEF Tab
    <3>3. Len(p.history) \in DOMAIN p.history /\ Len(p.history) \in Nat
      BY <3>1, <3>2
    <3>. QED
      BY <3>1, <3>3
  <2>2. CASE ~push
    BY <1>1, <2>2 DEF Tab, ConsistentHistory
  <2>. QED
    BY <2>1, <2>2
<1>3. CASE o = "unresolved"
  BY <1>3 DEF Navigated
<1>4. CASE o # "unresolved"
  <2>. DEFINE q == [p EXCEPT !.target = x, !.live = (o = "loaded")]
  <2>1. Navigated(r, x, push, o) = q
    BY <1>4 DEF Navigated
  <2>. HIDE DEF p
  <2>2. /\ q \in Tab /\ q.target = x
        /\ q.history = p.history /\ q.historyIdx = p.historyIdx
    BY <1>2 DEF Tab
  <2>. QED
    BY <1>2, <2>1, <2>2 DEF SoundTab, ConsistentHistory
<1>. QED
  BY <1>3, <1>4

\* Moving the cursor to another entry, as back and forward do before they
\* call navigate, keeps a tab sound: what it shows is still in its history.
LEMMA MovedCursorSound ==
  ASSUME NEW r, SoundTab(r), NEW i \in 0 .. Len(r.history) - 1
  PROVE  /\ SoundTab([r EXCEPT !.historyIdx = i])
         /\ r.history[i + 1] \in Targets
         /\ \E j \in DOMAIN r.history : r.history[j] = r.history[i + 1]
<1>1. r \in Tab /\ ConsistentHistory(r) /\ r.history \in Seq(Targets)
  BY DEF SoundTab, Tab
<1>2. i \in Nat /\ i + 1 \in DOMAIN r.history /\ r.history # <<>>
  BY <1>1
<1>3. r.history[i + 1] \in Targets
  BY <1>1, <1>2
<1>4. [r EXCEPT !.historyIdx = i] \in Tab
  BY <1>1, <1>2 DEF Tab
<1>5. ConsistentHistory([r EXCEPT !.historyIdx = i])
  BY <1>1, <1>2 DEF ConsistentHistory, Tab
<1>. QED
  BY <1>2, <1>3, <1>4, <1>5 DEF SoundTab

(***************************************************************************)
(* The three ways of changing the strip, each used by several actions.     *)
(***************************************************************************)

LEMMA InvMeansSound ==
  ASSUME StripInv, NEW t \in TabId
  PROVE  SoundTab(tab[t])
  BY DEF StripInv, StripTypeOK, HistoryConsistent, SoundTab

LEMMA ActiveIdOpen ==
  ASSUME StripInv
  PROVE  ActiveId \in TabId /\ active \in 1 .. Len(tabs)
  BY DEF StripInv, StripTypeOK, OneTabShown, ActiveId

\* navigate rewrites one TabState and perhaps the address bar.
LEMMA NavigateTabInv ==
  ASSUME StripInv, NEW t \in TabId, NEW r, SoundTab(r), NEW x \in Targets,
         NEW push \in BOOLEAN, NEW o \in Outcomes,
         push \/ \E i \in DOMAIN r.history : r.history[i] = x,
         NavigateTab(t, r, x, push, o)
  PROVE  StripInv'
<1>. DEFINE r2 == Navigated(r, x, push, o)
<1>1. SoundTab(r2)
  BY NavigatedSound
<1>. HIDE DEF r2
<1>2. /\ tab' = [tab EXCEPT ![t] = r2]
      /\ UNCHANGED <<tabs, active, nextTabId, visible, closeRequested, exited>>
      /\ draft' = x \/ draft' = draft
  BY DEF NavigateTab, r2
<1>3. tab' \in [TabId -> Tab] /\ \A u \in TabId : ConsistentHistory(tab'[u])
  BY <1>1, <1>2 DEF StripInv, StripTypeOK, HistoryConsistent, SoundTab
<1>4. HistoryConsistent'
  BY <1>3 DEF HistoryConsistent, ConsistentHistory
<1>5. StripTypeOK'
  BY <1>2, <1>3 DEF StripInv, StripTypeOK
<1>6. OneTabShown'
  BY <1>2 DEF StripInv, OneTabShown, ActiveId
<1>. QED
  BY <1>4, <1>5, <1>6 DEF StripInv

\* open_new_tab gives the new tab an id above all others, so no tab in the
\* strip is displaced.
LEMMA OpenActivatedInv ==
  ASSUME StripInv, NEW r, SoundTab(r), OpenActivated(r)
  PROVE  StripInv'
<1>. USE DEF OpenActivated
<1>1. tabs \in Seq(TabId) /\ nextTabId \in TabId /\ MaxTabs \in Nat
  BY TabStripAssumption DEF StripInv, StripTypeOK, TabId
<1>2. /\ tabs' \in Seq(TabId)
      /\ Len(tabs') = Len(tabs) + 1
      /\ \A i \in 1 .. Len(tabs) : tabs'[i] = tabs[i]
      /\ tabs'[Len(tabs) + 1] = nextTabId
  BY <1>1
<1>3. tab' \in [TabId -> Tab] /\ \A u \in TabId : ConsistentHistory(tab'[u])
  BY <1>1 DEF StripInv, StripTypeOK, HistoryConsistent, SoundTab
<1>4. HistoryConsistent'
  BY <1>3 DEF HistoryConsistent, ConsistentHistory
<1>5. visible = {ActiveId} /\ ActiveId \in TabId
  BY ActiveIdOpen DEF StripInv, OneTabShown
<1>6. visible' = {nextTabId}
  BY <1>5
<1>7. StripTypeOK'
  <2>1. r.target \in Targets \cup {Blank}
    BY DEF SoundTab, Tab
  <2>2. active' \in Nat /\ nextTabId' \in 0 .. MaxTabs
    BY <1>1 DEF TabId
  <2>. QED
    BY <1>1, <1>2, <1>3, <1>6, <2>1, <2>2 DEF StripInv, StripTypeOK
<1>8. OneTabShown'
  <2>1. \A i \in 1 .. Len(tabs) : tabs[i] \in TabId /\ tabs[i] < nextTabId
    BY <1>1 DEF StripInv, OneTabShown
  <2>2. \A i, j \in DOMAIN tabs' : tabs'[i] = tabs'[j] => i = j
    BY <1>1, <1>2, <2>1 DEF StripInv, OneTabShown, TabId
  <2>3. \A i \in DOMAIN tabs' : tabs'[i] < nextTabId'
    BY <1>1, <1>2, <2>1 DEF TabId
  <2>4. active' \in DOMAIN tabs' /\ tabs'[active'] = nextTabId
    BY <1>1, <1>2
  <2>. QED
    BY <1>6, <2>2, <2>3, <2>4 DEF OneTabShown, ActiveId
<1>. QED
  BY <1>4, <1>7, <1>8 DEF StripInv

\* What is left of the strip when the tab at position i is taken out: other
\* ids, still distinct, still below next_tab_id.
LEMMA RemovedTab ==
  ASSUME StripInv, NEW i \in 1 .. Len(tabs), NEW s, s = RemoveAt(tabs, i)
  PROVE  /\ s \in Seq(TabId)
         /\ Len(s) = Len(tabs) - 1
         /\ \A j \in 1 .. Len(s) : s[j] = IF j < i THEN tabs[j] ELSE tabs[j + 1]
         /\ \A j, k \in DOMAIN s : s[j] = s[k] => j = k
         /\ \A j \in DOMAIN s : s[j] < nextTabId
<1>1. tabs \in Seq(TabId)
  BY DEF StripInv, StripTypeOK
<1>2. /\ s \in Seq(TabId)
      /\ Len(s) = Len(tabs) - 1
      /\ \A j \in 1 .. Len(s) : s[j] = IF j < i THEN tabs[j] ELSE tabs[j + 1]
  BY <1>1, RemoveAtProperties
<1>3. /\ \A j, k \in 1 .. Len(tabs) : tabs[j] = tabs[k] => j = k
      /\ \A j \in 1 .. Len(tabs) : tabs[j] < nextTabId
  BY <1>1 DEF StripInv, OneTabShown
<1>4. \A j, k \in 1 .. Len(s) : s[j] = s[k] => j = k
  BY <1>1, <1>2, <1>3
<1>5. \A j \in 1 .. Len(s) : s[j] < nextTabId
  BY <1>1, <1>2, <1>3
<1>. QED
  BY <1>2, <1>4, <1>5

\* Dropping a TabState leaves every tab sound.
LEMMA DroppedTab ==
  ASSUME StripInv, NEW t \in TabId, tab' = [tab EXCEPT ![t] = FreshTab]
  PROVE  tab' \in [TabId -> Tab] /\ HistoryConsistent'
<1>1. tab' \in [TabId -> Tab] /\ \A u \in TabId : ConsistentHistory(tab'[u])
  BY FreshTabSound DEF StripInv, StripTypeOK, HistoryConsistent, SoundTab
<1>. QED
  BY <1>1 DEF HistoryConsistent, ConsistentHistory

(***************************************************************************)
(* One lemma per handler that moves tabs.                                  *)
(***************************************************************************)

LEMMA SwitchTabInv ==
  ASSUME StripInv, NEW t \in TabId, SwitchTab(t)
  PROVE  StripInv'
<1>. USE DEF SwitchTab
<1>1. PICK i \in 1 .. Len(tabs) : tabs[i] = t /\ active' = i
  OBVIOUS
<1>2. visible = {ActiveId} /\ tabs' = tabs
  BY DEF StripInv, OneTabShown
<1>3. visible' = {t}
  BY <1>2
<1>4. tab[t].target \in Targets \cup {Blank}
  BY InvMeansSound DEF SoundTab, Tab
<1>5. StripTypeOK'
  BY <1>1, <1>3, <1>4 DEF StripInv, StripTypeOK
<1>6. OneTabShown'
  BY <1>1, <1>2, <1>3 DEF StripInv, StripTypeOK, OneTabShown, ActiveId
<1>7. HistoryConsistent'
  BY DEF StripInv, HistoryConsistent, ConsistentHistory
<1>. QED
  BY <1>5, <1>6, <1>7 DEF StripInv

\* The active index is corrected when a tab before the active one goes.
LEMMA CloseBackgroundTabInv ==
  ASSUME StripInv, NEW t \in TabId, CloseBackgroundTab(t)
  PROVE  StripInv' /\ ActiveId' = ActiveId
<1>. USE DEF CloseBackgroundTab
<1>1. PICK i \in 1 .. Len(tabs) :
        /\ tabs[i] = t
        /\ tabs' = RemoveAt(tabs, i)
        /\ active' = IF active > i THEN active - 1 ELSE active
  OBVIOUS
<1>2. /\ tabs' \in Seq(TabId)
      /\ Len(tabs') = Len(tabs) - 1
      /\ \A j \in 1 .. Len(tabs') :
           tabs'[j] = IF j < i THEN tabs[j] ELSE tabs[j + 1]
      /\ \A j, k \in DOMAIN tabs' : tabs'[j] = tabs'[k] => j = k
      /\ \A j \in DOMAIN tabs' : tabs'[j] < nextTabId
  BY <1>1, RemovedTab, SMTT(30)
<1>3. tabs \in Seq(TabId) /\ active \in 1 .. Len(tabs) /\ tabs[active] # t
  BY ActiveIdOpen DEF StripInv, StripTypeOK, ActiveId
<1>4. active # i
  BY <1>1, <1>3
<1>5. active' \in 1 .. Len(tabs') /\ tabs'[active'] = tabs[active]
  <2>1. CASE active > i
    <3>1. active' = active - 1 /\ active - 1 \in 1 .. Len(tabs') /\ ~(active - 1 < i)
      BY <1>1, <1>2, <1>3, <2>1
    <3>. QED
      BY <1>2, <1>3, <3>1
  <2>2. CASE active < i
    BY <1>1, <1>2, <1>3, <2>2
  <2>. QED
    BY <1>3, <1>4, <2>1, <2>2
<1>6. ActiveId' = ActiveId /\ ActiveId \in TabId
  BY <1>5, ActiveIdOpen DEF ActiveId
<1>7. visible' = {ActiveId}
  BY DEF StripInv, OneTabShown
<1>8. tab' \in [TabId -> Tab] /\ HistoryConsistent'
  BY DroppedTab
<1>9. StripTypeOK'
  BY <1>2, <1>5, <1>6, <1>7, <1>8 DEF StripInv, StripTypeOK
<1>10. OneTabShown'
  BY <1>2, <1>5, <1>6, <1>7 DEF OneTabShown
<1>. QED
  BY <1>6, <1>8, <1>9, <1>10 DEF StripInv

LEMMA CloseActiveTabInv ==
  ASSUME StripInv, NEW t \in TabId, CloseActiveTab(t)
  PROVE  StripInv'
<1>. USE DEF CloseActiveTab
<1>1. tabs \in Seq(TabId) /\ active \in 1 .. Len(tabs) /\ Len(tabs) > 1
  BY ActiveIdOpen DEF StripInv, StripTypeOK
<1>2. /\ tabs' \in Seq(TabId)
      /\ Len(tabs') = Len(tabs) - 1
      /\ \A j, k \in DOMAIN tabs' : tabs'[j] = tabs'[k] => j = k
      /\ \A j \in DOMAIN tabs' : tabs'[j] < nextTabId
  BY <1>1, RemovedTab
<1>3. active' \in 1 .. Len(tabs')
  BY <1>1, <1>2
<1>4. tabs'[active'] \in TabId
  BY <1>2, <1>3
<1>5. visible' = {tabs'[active']}
  BY DEF StripInv, OneTabShown
<1>6. tab[tabs'[active']].target \in Targets \cup {Blank}
  BY <1>4, InvMeansSound DEF SoundTab, Tab
<1>7. tab' \in [TabId -> Tab] /\ HistoryConsistent'
  BY DroppedTab
<1>8. StripTypeOK'
  BY <1>2, <1>3, <1>4, <1>5, <1>6, <1>7 DEF StripInv, StripTypeOK
<1>9. OneTabShown'
  BY <1>2, <1>3, <1>5 DEF OneTabShown, ActiveId
<1>. QED
  BY <1>7, <1>8, <1>9 DEF StripInv

LEMMA CloseTabInv ==
  ASSUME StripInv, NEW t \in TabId, CloseTab(t)
  PROVE  StripInv'
<1>1. CASE CloseLastTab(t)
  BY <1>1 DEF CloseLastTab, StripInv, StripTypeOK, OneTabShown, ActiveId,
              HistoryConsistent, ConsistentHistory
<1>2. CASE CloseBackgroundTab(t)
  BY <1>2, CloseBackgroundTabInv
<1>3. CASE CloseActiveTab(t)
  BY <1>3, CloseActiveTabInv
<1>. QED
  BY <1>1, <1>2, <1>3 DEF CloseTab

(***************************************************************************)
(* Navigation of the active tab.                                           *)
(***************************************************************************)

LEMMA NavigateActiveInv ==
  ASSUME StripInv, NEW x \in Targets, NEW o \in Outcomes, NavigateActive(x, o)
  PROVE  StripInv'
<1>1. NavigateTab(ActiveId, tab[ActiveId], x, TRUE, o)
  BY DEF NavigateActive
<1>2. ActiveId \in TabId /\ SoundTab(tab[ActiveId])
  BY ActiveIdOpen, InvMeansSound
<1>. QED
  BY <1>1, <1>2, NavigateTabInv

\* Back and forward with a cursor that lands on an entry.
LEMMA MoveInHistoryInv ==
  ASSUME StripInv, NEW o \in Outcomes,
         NEW i \in 0 .. Len(tab[ActiveId].history) - 1,
         NavigateTab(ActiveId, [tab[ActiveId] EXCEPT !.historyIdx = i],
                     tab[ActiveId].history[i + 1], FALSE, o)
  PROVE  StripInv'
<1>. DEFINE r == tab[ActiveId]
            r1 == [r EXCEPT !.historyIdx = i]
            x == r.history[i + 1]
<1>1. ActiveId \in TabId /\ SoundTab(r)
  BY ActiveIdOpen, InvMeansSound
<1>. HIDE DEF r
<1>2. /\ SoundTab(r1)
      /\ x \in Targets
      /\ \E j \in DOMAIN r.history : r.history[j] = x
  BY <1>1, MovedCursorSound DEF r
<1>3. r1.history = r.history
  BY <1>1 DEF SoundTab, Tab
<1>4. NavigateTab(ActiveId, r1, x, FALSE, o)
  BY DEF r
<1>. HIDE DEF r1, x
<1>. QED
  BY <1>1, <1>2, <1>3, <1>4, NavigateTabInv

LEMMA NavBackInv ==
  ASSUME StripInv, NEW o \in Outcomes, NavBack(o)
  PROVE  StripInv'
<1>. DEFINE r == tab[ActiveId]
<1>1. r \in Tab /\ ConsistentHistory(r)
  BY ActiveIdOpen, InvMeansSound DEF SoundTab
<1>2. r.historyIdx # 0
  BY DEF NavBack
<1>3. r.historyIdx - 1 \in 0 .. Len(r.history) - 1
  BY <1>1, <1>2 DEF Tab, ConsistentHistory
<1>. QED
  BY <1>3, MoveInHistoryInv DEF NavBack

LEMMA NavForwardInv ==
  ASSUME StripInv, NEW o \in Outcomes, NavForward(o)
  PROVE  StripInv'
<1>. DEFINE r == tab[ActiveId]
<1>1. r \in Tab
  BY ActiveIdOpen, InvMeansSound DEF SoundTab
<1>2. r.historyIdx + 1 < Len(r.history)
  BY DEF NavForward
<1>3. r.historyIdx + 1 \in 0 .. Len(r.history) - 1
  BY <1>1, <1>2 DEF Tab
<1>. QED
  BY <1>3, MoveInHistoryInv DEF NavForward

LEMMA NavReloadInv ==
  ASSUME StripInv, NEW o \in Outcomes, NavReload(o)
  PROVE  StripInv'
<1>. DEFINE r == tab[ActiveId]
<1>1. ActiveId \in TabId /\ SoundTab(r)
  BY ActiveIdOpen, InvMeansSound
<1>2. r \in Tab /\ ConsistentHistory(r) /\ r.history # <<>>
  BY <1>1 DEF SoundTab, NavReload
<1>3. r.historyIdx \in 0 .. Len(r.history) - 1
  BY <1>2 DEF Tab, ConsistentHistory
<1>4. /\ r.history[r.historyIdx + 1] \in Targets
      /\ \E j \in DOMAIN r.history : r.history[j] = r.history[r.historyIdx + 1]
  BY <1>1, <1>3, MovedCursorSound
<1>5. NavigateTab(ActiveId, r, r.history[r.historyIdx + 1], FALSE, o)
  BY DEF NavReload
<1>. HIDE DEF r
<1>. QED
  BY <1>1, <1>4, <1>5, NavigateTabInv

LEMMA OpenTabAtInv ==
  ASSUME StripInv, NEW x \in Targets, NEW o \in Outcomes, OpenTabAt(x, o)
  PROVE  StripInv'
  BY FreshTabSound, NavigatedSound, OpenActivatedInv DEF OpenTabAt

LEMMA NavigateInPlaceInv ==
  ASSUME StripInv, NEW t \in TabId, NEW x \in Targets, NEW o \in Outcomes,
         NavigateInPlace(t, x, o)
  PROVE  StripInv'
  BY InvMeansSound, NavigateTabInv DEF NavigateInPlace

(***************************************************************************)
(* The theorems.                                                           *)
(***************************************************************************)

LEMMA StripInitInv ==
  StripInit => StripInv
<1>. SUFFICES ASSUME StripInit PROVE StripInv
  OBVIOUS
<1>. USE DEF StripInit
<1>1. 0 \in TabId /\ 1 \in 0 .. MaxTabs
  BY TabStripAssumption DEF TabId
<1>2. tabs \in Seq(TabId)
  BY <1>1
<1>3. tab \in [TabId -> Tab] /\ HistoryConsistent
  BY FreshTabSound DEF SoundTab, HistoryConsistent
<1>4. StripTypeOK
  BY <1>1, <1>2, <1>3 DEF StripTypeOK
<1>5. OneTabShown
  BY DEF OneTabShown, ActiveId
<1>. QED
  BY <1>3, <1>4, <1>5 DEF StripInv

LEMMA StripStepInv ==
  StripInv /\ [StripNext \/ StripDone]_stripVars => StripInv'
<1>. SUFFICES ASSUME StripInv, [StripNext \/ StripDone]_stripVars
              PROVE  StripInv'
  OBVIOUS
<1>1. ASSUME NEW o \in Outcomes, AddressSubmit(o)
      PROVE  StripInv'
  <2>1. draft \in Targets /\ NavigateActive(draft, o)
    BY <1>1 DEF AddressSubmit, StripInv, StripTypeOK
  <2>. QED
    BY <2>1, NavigateActiveInv
<1>2. ASSUME NEW o \in Outcomes, NavBack(o) \/ NavForward(o) \/ NavReload(o)
      PROVE  StripInv'
  BY <1>2, NavBackInv, NavForwardInv, NavReloadInv
<1>3. ASSUME NEW o \in Outcomes, NEW x \in Targets,
             NavigateActive(x, o) \/ OpenTabAt(x, o)
      PROVE  StripInv'
  BY <1>3, NavigateActiveInv, OpenTabAtInv
<1>4. ASSUME NEW o \in Outcomes, NEW x \in Targets, NEW t \in TabId,
             NavigateInPlace(t, x, o)
      PROVE  StripInv'
  BY <1>4, NavigateInPlaceInv
<1>5. ASSUME NEW x \in Targets \cup {Blank}, AddressInput(x)
      PROVE  StripInv'
  BY <1>5 DEF AddressInput, StripInv, StripTypeOK, OneTabShown, ActiveId,
              HistoryConsistent, ConsistentHistory
<1>6. CASE NewTab
  BY <1>6, FreshTabSound, OpenActivatedInv DEF NewTab
<1>7. ASSUME NEW t \in TabId, SwitchTab(t) \/ CloseTab(t)
      PROVE  StripInv'
  BY <1>7, SwitchTabInv, CloseTabInv
<1>8. CASE ExitLoop
  BY <1>8 DEF ExitLoop, StripInv, StripTypeOK, OneTabShown, ActiveId,
              HistoryConsistent, ConsistentHistory
<1>9. CASE UNCHANGED stripVars
  BY <1>9 DEF stripVars, StripInv, StripTypeOK, OneTabShown, ActiveId,
              HistoryConsistent, ConsistentHistory
<1>. QED
  BY <1>1, <1>2, <1>3, <1>4, <1>5, <1>6, <1>7, <1>8, <1>9
     DEF StripNext, StripDone

\* The inductive invariant holds throughout every run of the tab strip.
THEOREM StripInvariant == StripSpec => []StripInv
<1>1. StripInit => StripInv
  BY StripInitInv
<1>2. StripInv /\ [StripNext \/ StripDone]_stripVars => StripInv'
  BY StripStepInv
<1>. QED
  BY <1>1, <1>2, PTL DEF StripSpec

\* Every variable of the strip keeps its type.
THEOREM StripTypeCorrect == StripSpec => []StripTypeOK
  BY StripInvariant, PTL DEF StripInv

\* Ids stay distinct, the active index stays in range, and the mount point
\* on display is the active tab's, whatever is opened, switched and closed.
THEOREM OneTabIsShown == StripSpec => []OneTabShown
  BY StripInvariant, PTL DEF StripInv

\* The history cursor of every tab points at an entry, and the address the
\* tab shows is one of its entries.
THEOREM HistoryIsConsistent == StripSpec => []HistoryConsistent
  BY StripInvariant, PTL DEF StripInv

(***************************************************************************)
(* What a step may never do.                                               *)
(***************************************************************************)

\* Every step is one of these: the strip stays as it is, a tab is opened,
\* another one activated, or one is closed.
LEMMA StripStepKinds ==
  ASSUME [StripNext \/ StripDone]_stripVars
  PROVE  \/ UNCHANGED <<tabs, active>>
         \/ \E r : OpenActivated(r)
         \/ \E t \in TabId : SwitchTab(t)
         \/ \E t \in TabId : CloseBackgroundTab(t)
         \/ \E t \in TabId : CloseActiveTab(t)
  BY DEF StripNext, StripDone, stripVars, AddressSubmit, NavigateActive,
         NavBack, NavForward, NavReload, NavigateTab, NavigateInPlace,
         OpenTabAt, AddressInput, NewTab, CloseTab, CloseLastTab, ExitLoop

\* A tab closed in the background leaves the active tab active.
LEMMA CloseKeepsActiveStep ==
  ASSUME StripInv, [StripNext \/ StripDone]_stripVars,
         Len(tabs') < Len(tabs), ActiveId \in ToSet(tabs')
  PROVE  ActiveId' = ActiveId
<1>1. tabs \in Seq(TabId)
  BY DEF StripInv, StripTypeOK
<1>2. CASE UNCHANGED <<tabs, active>>
  BY <1>2 DEF ActiveId
<1>3. ASSUME NEW r, OpenActivated(r) PROVE FALSE
  <2>1. nextTabId \in TabId
    BY <1>3, TabStripAssumption DEF OpenActivated, StripInv, StripTypeOK, TabId
  <2>2. Len(tabs') = Len(tabs) + 1
    BY <1>1, <1>3, <2>1 DEF OpenActivated
  <2>. QED
    BY <1>1, <2>2
<1>4. ASSUME NEW t \in TabId, SwitchTab(t) PROVE FALSE
  BY <1>1, <1>4 DEF SwitchTab
<1>5. ASSUME NEW t \in TabId, CloseBackgroundTab(t) PROVE ActiveId' = ActiveId
  BY <1>5, CloseBackgroundTabInv
<1>6. ASSUME NEW t \in TabId, CloseActiveTab(t) PROVE FALSE
  <2>1. active \in 1 .. Len(tabs) /\ tabs' = RemoveAt(tabs, active)
    BY <1>6, ActiveIdOpen DEF CloseActiveTab
  <2>2. /\ tabs' \in Seq(TabId) /\ Len(tabs') = Len(tabs) - 1
        /\ \A j \in 1 .. Len(tabs') :
             tabs'[j] = IF j < active THEN tabs[j] ELSE tabs[j + 1]
    BY <2>1, RemovedTab
  <2>3. PICK j \in 1 .. Len(tabs') : tabs'[j] = tabs[active]
    BY <2>2 DEF ToSet, ActiveId
  <2>4. PICK k \in 1 .. Len(tabs) : k # active /\ tabs[k] = tabs[active]
    <3>1. CASE j < active
      BY <1>1, <2>1, <2>2, <2>3, <3>1
    <3>2. CASE ~(j < active)
      <4>1. j + 1 \in 1 .. Len(tabs) /\ j + 1 # active /\ tabs[j + 1] = tabs[active]
        BY <1>1, <2>1, <2>2, <2>3, <3>2
      <4>. QED
        BY <4>1
    <3>. QED
      BY <3>1, <3>2
  <2>. QED
    BY <1>1, <2>1, <2>4 DEF StripInv, OneTabShown
<1>. QED
  BY <1>2, <1>3, <1>4, <1>5, <1>6, StripStepKinds

\* A step that activates another tab puts its address in the address bar.
LEMMA AddressBarStep ==
  ASSUME StripInv, [StripNext \/ StripDone]_stripVars, ActiveId' # ActiveId
  PROVE  draft' = tab'[ActiveId'].target
<1>1. tabs \in Seq(TabId) /\ tab \in [TabId -> Tab]
  BY DEF StripInv, StripTypeOK
<1>2. CASE UNCHANGED <<tabs, active>>
  BY <1>2 DEF ActiveId
<1>3. ASSUME NEW r, OpenActivated(r) PROVE draft' = tab'[ActiveId'].target
  <2>1. nextTabId \in TabId
    BY <1>3, TabStripAssumption DEF OpenActivated, StripInv, StripTypeOK, TabId
  <2>2. ActiveId' = nextTabId
    BY <1>1, <1>3, <2>1 DEF OpenActivated, ActiveId
  <2>. QED
    BY <1>1, <1>3, <2>1, <2>2 DEF OpenActivated
<1>4. ASSUME NEW t \in TabId, SwitchTab(t) PROVE draft' = tab'[ActiveId'].target
  BY <1>4 DEF SwitchTab, ActiveId
<1>5. ASSUME NEW t \in TabId, CloseBackgroundTab(t) PROVE FALSE
  BY <1>5, CloseBackgroundTabInv
<1>6. ASSUME NEW t \in TabId, CloseActiveTab(t)
      PROVE  draft' = tab'[ActiveId'].target
  <2>1. StripInv' /\ ActiveId' = tabs'[active']
    BY <1>6, CloseActiveTabInv DEF ActiveId
  <2>2. ActiveId' # t /\ ActiveId' \in TabId
    <3>1. active' \in 1 .. Len(tabs') /\ tabs' \in Seq(TabId)
      BY <2>1 DEF StripInv, StripTypeOK, OneTabShown
    <3>. QED
      BY <1>6, <2>1, <3>1 DEF CloseActiveTab
  <2>3. draft' = tab[ActiveId'].target /\ tab' = [tab EXCEPT ![t] = FreshTab]
    BY <1>6, <2>1 DEF CloseActiveTab
  <2>. QED
    BY <1>1, <2>2, <2>3
<1>. QED
  BY <1>2, <1>3, <1>4, <1>5, <1>6, StripStepKinds

\* Closing a background tab never changes which tab is active.
THEOREM ClosingKeepsActive == StripSpec => CloseKeepsActive
<1>1. StripInv /\ [StripNext \/ StripDone]_stripVars
        => [Len(tabs') < Len(tabs) /\ ActiveId \in ToSet(tabs')
              => ActiveId' = ActiveId]_stripVars
  BY CloseKeepsActiveStep
<1>. QED
  BY <1>1, StripInvariant, PTL DEF StripSpec, CloseKeepsActive

\* Whenever another tab becomes active the address bar shows its address.
THEOREM AddressBarIsActiveTabs == StripSpec => AddressBarFollowsTab
<1>1. StripInv /\ [StripNext \/ StripDone]_stripVars
        => [ActiveId' # ActiveId => draft' = tab'[ActiveId'].target]_stripVars
  BY AddressBarStep
<1>. QED
  BY <1>1, StripInvariant, PTL DEF StripSpec, AddressBarFollowsTab

(***************************************************************************)
(* The history behind the cursor.                                          *)
(***************************************************************************)

\* q has the entries of r up to r's cursor.
KeepsBehind(r, q) ==
  \A i \in DOMAIN r.history :
    i <= r.historyIdx + 1
      => i \in DOMAIN q.history /\ q.history[i] = r.history[i]

\* navigate keeps the entries up to the cursor it finds, pushing or not.
LEMMA NavigatedKeepsBehind ==
  ASSUME NEW r, SoundTab(r), NEW x \in Targets, NEW push \in BOOLEAN,
         NEW o \in Outcomes
  PROVE  KeepsBehind(r, Navigated(r, x, push, o))
<1>. DEFINE p == IF push THEN Pushed(r, x) ELSE r
            q == [p EXCEPT !.target = x, !.live = (o = "loaded")]
<1>1. r \in Tab /\ ConsistentHistory(r)
  BY DEF SoundTab
<1>2. p \in Tab /\ KeepsBehind(r, p)
  BY <1>1, PushedProperties DEF KeepsBehind
<1>3. CASE o = "unresolved"
  BY <1>3 DEF Navigated, KeepsBehind
<1>4. CASE o # "unresolved"
  <2>1. Navigated(r, x, push, o) = q
    BY <1>4 DEF Navigated
  <2>. HIDE DEF p
  <2>2. q.history = p.history
    BY <1>2 DEF Tab
  <2>. QED
    BY <1>2, <2>1, <2>2 DEF KeepsBehind
<1>. QED
  BY <1>3, <1>4

\* Every step leaves a tab that stays open its TabState, or navigates it from
\* its cursor, or navigates it in place from a cursor moved by back, forward.
LEMMA StepOnTab ==
  ASSUME StripInv, [StripNext \/ StripDone]_stripVars,
         NEW t \in Open \cap ToSet(tabs')
  PROVE  \/ tab'[t] = tab[t]
         \/ \E x \in Targets, push \in BOOLEAN, o \in Outcomes :
              tab'[t] = Navigated(tab[t], x, push, o)
         \/ \E i \in Nat, x \in Targets, o \in Outcomes :
              tab'[t] = Navigated([tab[t] EXCEPT !.historyIdx = i], x, FALSE, o)
<1>. DEFINE Kept == tab'[t] = tab[t]
            Nav  == \E x \in Targets, push \in BOOLEAN, o \in Outcomes :
                      tab'[t] = Navigated(tab[t], x, push, o)
            Move == \E i \in Nat, x \in Targets, o \in Outcomes :
                      tab'[t] = Navigated([tab[t] EXCEPT !.historyIdx = i],
                                          x, FALSE, o)
<1>1. tabs \in Seq(TabId) /\ tab \in [TabId -> Tab] /\ t \in TabId
  BY DEF StripInv, StripTypeOK, Open, ToSet
<1>2. ActiveId \in TabId /\ SoundTab(tab[ActiveId])
  BY ActiveIdOpen, InvMeansSound
<1>3. ASSUME NEW u \in TabId, NEW x \in Targets, NEW push \in BOOLEAN,
             NEW o \in Outcomes, NavigateTab(u, tab[u], x, push, o)
      PROVE  Kept \/ Nav
  BY <1>1, <1>3 DEF NavigateTab
<1>4. ASSUME NEW o \in Outcomes, NEW i \in 0 .. Len(tab[ActiveId].history) - 1,
             NavigateTab(ActiveId, [tab[ActiveId] EXCEPT !.historyIdx = i],
                         tab[ActiveId].history[i + 1], FALSE, o)
      PROVE  Kept \/ Move
  <2>1. tab[ActiveId].history[i + 1] \in Targets /\ i \in Nat
    <3>1. tab[ActiveId].history[i + 1] \in Targets
      BY <1>2, MovedCursorSound
    <3>. QED
      BY <3>1
  <2>2. tab' = [tab EXCEPT ![ActiveId] =
                  Navigated([tab[ActiveId] EXCEPT !.historyIdx = i],
                            tab[ActiveId].history[i + 1], FALSE, o)]
    BY <1>4 DEF NavigateTab
  <2>3. CASE t = ActiveId
    <3>1. tab'[t] = Navigated([tab[t] EXCEPT !.historyIdx = i],
                              tab[t].history[i + 1], FALSE, o)
      BY <1>1, <2>2, <2>3
    <3>. QED
      BY <2>1, <2>3, <3>1
  <2>4. CASE t # ActiveId
    BY <1>1, <2>2, <2>4
  <2>. QED
    BY <2>3, <2>4
<1>5. ASSUME NEW x \in Targets, NEW o \in Outcomes, NavigateActive(x, o)
      PROVE  Kept \/ Nav
  BY <1>2, <1>3, <1>5 DEF NavigateActive
<1>6. ASSUME NEW o \in Outcomes, AddressSubmit(o) PROVE Kept \/ Nav
  BY <1>5, <1>6 DEF AddressSubmit, StripInv, StripTypeOK
<1>7. ASSUME NEW o \in Outcomes, NavBack(o) PROVE Kept \/ Move
  <2>1. tab[ActiveId].historyIdx - 1 \in 0 .. Len(tab[ActiveId].history) - 1
    BY <1>2, <1>7 DEF NavBack, SoundTab, Tab, ConsistentHistory
  <2>. QED
    BY <1>4, <1>7, <2>1 DEF NavBack
<1>8. ASSUME NEW o \in Outcomes, NavForward(o) PROVE Kept \/ Move
  <2>1. tab[ActiveId].historyIdx + 1 \in 0 .. Len(tab[ActiveId].history) - 1
    BY <1>2, <1>8 DEF NavForward, SoundTab, Tab
  <2>. QED
    BY <1>4, <1>8, <2>1 DEF NavForward
<1>9. ASSUME NEW o \in Outcomes, NavReload(o) PROVE Kept \/ Nav
  <2>1. tab[ActiveId].historyIdx \in 0 .. Len(tab[ActiveId].history) - 1
    BY <1>2, <1>9 DEF NavReload, SoundTab, Tab, ConsistentHistory
  <2>2. tab[ActiveId].history[tab[ActiveId].historyIdx + 1] \in Targets
    BY <1>2, <2>1, MovedCursorSound
  <2>. QED
    BY <1>2, <1>3, <1>9, <2>2 DEF NavReload
<1>10. ASSUME NEW r, OpenActivated(r) PROVE Kept
  <2>1. t # nextTabId
    BY <1>1 DEF StripInv, OneTabShown, Open, ToSet, TabId
  <2>. QED
    BY <1>1, <1>10, <2>1 DEF OpenActivated
<1>11. ASSUME NEW u \in TabId, NEW i \in 1 .. Len(tabs), tabs[i] = u,
              tabs' = RemoveAt(tabs, i)
       PROVE  t # u
  <2>1. /\ tabs' \in Seq(TabId) /\ Len(tabs') = Len(tabs) - 1
        /\ \A j \in 1 .. Len(tabs') :
             tabs'[j] = IF j < i THEN tabs[j] ELSE tabs[j + 1]
    BY <1>11, RemovedTab
  <2>2. PICK j \in 1 .. Len(tabs') : tabs'[j] = t
    BY <2>1 DEF ToSet
  <2>3. PICK k \in 1 .. Len(tabs) : k # i /\ tabs[k] = t
    <3>1. CASE j < i
      BY <1>1, <2>1, <2>2, <3>1
    <3>2. CASE ~(j < i)
      <4>1. j + 1 \in 1 .. Len(tabs) /\ j + 1 # i /\ tabs[j + 1] = t
        BY <1>1, <2>1, <2>2, <3>2
      <4>. QED
        BY <4>1
    <3>. QED
      BY <3>1, <3>2
  <2>. QED
    BY <1>1, <1>11, <2>3 DEF StripInv, OneTabShown
<1>12. ASSUME NEW u \in TabId, CloseBackgroundTab(u) PROVE Kept
  <2>1. t # u
    BY <1>11, <1>12 DEF CloseBackgroundTab
  <2>. QED
    BY <1>1, <1>12, <2>1 DEF CloseBackgroundTab
<1>13. ASSUME NEW u \in TabId, CloseActiveTab(u) PROVE Kept
  <2>1. active \in 1 .. Len(tabs) /\ tabs[active] = u
    BY <1>13, ActiveIdOpen DEF CloseActiveTab, ActiveId
  <2>2. t # u
    BY <1>11, <1>13, <2>1 DEF CloseActiveTab
  <2>. QED
    BY <1>1, <1>13, <2>2 DEF CloseActiveTab
<1>14. ASSUME NEW u \in TabId, NEW x \in Targets, NEW o \in Outcomes,
              NavigateInPlace(u, x, o)
       PROVE  Kept \/ Nav
  BY <1>3, <1>14 DEF NavigateInPlace
<1>15. ASSUME tab' = tab PROVE Kept
  BY <1>15
<1>. HIDE DEF Kept, Nav, Move
<1>16. Kept \/ Nav \/ Move
  <2>1. ASSUME NEW u \in TabId, SwitchTab(u) PROVE Kept
    BY <2>1, <1>15 DEF SwitchTab
  <2>2. ASSUME NEW u \in TabId, CloseTab(u) PROVE Kept
    BY <2>2, <1>12, <1>13, <1>15 DEF CloseTab, CloseLastTab
  <2>3. ASSUME NEW x \in Targets, NEW o \in Outcomes, OpenTabAt(x, o) PROVE Kept
    BY <2>3, <1>10 DEF OpenTabAt
  <2>4. ASSUME NEW x \in Targets \cup {Blank}, AddressInput(x) PROVE Kept
    BY <2>4, <1>15 DEF AddressInput
  <2>5. CASE NewTab
    BY <2>5, <1>10 DEF NewTab
  <2>6. CASE ExitLoop
    BY <2>6, <1>15 DEF ExitLoop
  <2>7. CASE UNCHANGED stripVars
    BY <2>7, <1>15 DEF stripVars
  <2>. QED
    BY <1>5, <1>6, <1>7, <1>8, <1>9, <1>14, <2>1, <2>2, <2>3, <2>4, <2>5, <2>6,
       <2>7 DEF StripNext, StripDone
<1>. QED
  BY <1>16 DEF Kept, Nav, Move

LEMMA HistoryBehindStep ==
  ASSUME StripInv, [StripNext \/ StripDone]_stripVars,
         NEW t \in Open \cap ToSet(tabs')
  PROVE  KeepsBehind(tab[t], tab'[t])
<1>1. t \in TabId
  BY DEF StripInv, StripTypeOK, Open, ToSet
<1>2. SoundTab(tab[t])
  BY <1>1, InvMeansSound
<1>3. CASE tab'[t] = tab[t]
  BY <1>3 DEF KeepsBehind
<1>4. ASSUME NEW x \in Targets, NEW push \in BOOLEAN, NEW o \in Outcomes,
             tab'[t] = Navigated(tab[t], x, push, o)
      PROVE  KeepsBehind(tab[t], tab'[t])
  BY <1>2, <1>4, NavigatedKeepsBehind
<1>5. ASSUME NEW i \in Nat, NEW x \in Targets, NEW o \in Outcomes,
             tab'[t] = Navigated([tab[t] EXCEPT !.historyIdx = i], x, FALSE, o)
      PROVE  KeepsBehind(tab[t], tab'[t])
  <2>1. tab'[t].history = tab[t].history
    BY <1>2, <1>5 DEF Navigated, SoundTab, Tab
  <2>. QED
    BY <2>1 DEF KeepsBehind
<1>. QED
  BY <1>3, <1>4, <1>5, StepOnTab

\* The entries a tab can go back to are never rewritten while it is open.
THEOREM HistoryBehindIsKept == StripSpec => HistoryBehindKept
<1>1. StripInv /\ [StripNext \/ StripDone]_stripVars
        => [\A t \in Open \cap ToSet(tabs') :
              \A i \in DOMAIN tab[t].history :
                i <= tab[t].historyIdx + 1
                  => /\ i \in DOMAIN tab'[t].history
                     /\ tab'[t].history[i] = tab[t].history[i]]_stripVars
  BY HistoryBehindStep DEF KeepsBehind
<1>. QED
  BY <1>1, StripInvariant, PTL DEF StripSpec, HistoryBehindKept

=============================================================================
