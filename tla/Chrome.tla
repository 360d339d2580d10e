------------------------------- MODULE Chrome -------------------------------
(***************************************************************************)
(* The rest of the window's chrome in renderer/src/ui.rs, around the tab   *)
(* strip it EXTENDS: the bookmarks with their file and the star of the     *)
(* address bar, the menu and the bookmarks panel, and the console with its *)
(* divider.                                                                *)
(*                                                                         *)
(* The star is not computed when it is drawn.  It is set by whatever calls *)
(* refresh_bookmark_star, so each action of the strip is taken here along  *)
(* with whether its handler goes through refresh_address_bar.              *)
(***************************************************************************)
EXTENDS TabStrip

CONSTANTS
  Files,       \* what bookmarks.json may hold when the program starts
  NoFile,      \* ... if there is none
  Torn,        \* ... if a write was cut short, or it is no JSON array
  WinHeights,  \* heights the window may have, in CSS pixels
  Pointers,    \* heights the pointer may be dragged to
  MinApp,      \* 120: what a console must leave to the page
  MinConsole,  \* 48
  FirstHeight  \* 240: of the console

ASSUME ChromeAssumption ==
  /\ Files \subseteq Seq(Targets \cup {Blank}) \cup {NoFile, Torn}
  /\ {NoFile, Torn} \cap Seq(Targets \cup {Blank}) = {}
  /\ WinHeights \subseteq Nat
  /\ Pointers \subseteq Nat
  /\ MinApp \in Nat
  /\ MinConsole \in Nat
  /\ FirstHeight \in Nat /\ MinConsole <= FirstHeight

VARIABLES
  bookmarks,       \* targets in the order of their rows
  file,            \* bookmarks.json
  unsaved,         \* history: the last write of the file failed
  star,            \* the star is lit
  menuOpen,        \* menu_open
  panelOpen,       \* bookmarks_panel_open
  consoleShown,    \* console_visible
  consoleHeight,   \* console_height
  consoleDrag,     \* console_drag
  winHeight        \* of the viewport

bookmarkVars == <<bookmarks, file, unsaved>>
overlayVars == <<menuOpen, panelOpen>>
consoleVars == <<consoleShown, consoleHeight, consoleDrag, winHeight>>
chromeVars == <<stripVars, bookmarkVars, star, overlayVars, consoleVars>>

-----------------------------------------------------------------------------

\* An item of the file: passed over if it has no address or a known one.
WithItem(bs, x) == IF x = Blank \/ x \in ToSet(bs) THEN bs ELSE Append(bs, x)

\* load_bookmarks: the items one after the other; a file that is not there
\* or no JSON array counts as empty.
Loaded(f) ==
  LET upTo[n \in 0 .. Len(f)] ==
        IF n = 0 THEN <<>> ELSE WithItem(upTo[n - 1], f[n])
  IN IF f \in {NoFile, Torn} THEN <<>> ELSE upTo[Len(f)]

\* refresh_bookmark_star: what it finds in the strip and the list as they
\* are after the step.
Starred ==
  LET x == tab'[ActiveId'].target IN x # Blank /\ x \in ToSet(bookmarks')

\* The tallest console clamp_console_to_window allows in a window.
MaxConsole(h) == IF h - MinApp > MinConsole THEN h - MinApp ELSE MinConsole

\* new; main.rs asks for a window that has room for the console.
ChromeInit ==
  /\ StripInit
  /\ file \in Files
  /\ bookmarks = Loaded(file)
  /\ unsaved = FALSE
  /\ star = FALSE
  /\ menuOpen = FALSE
  /\ panelOpen = FALSE
  /\ consoleShown = FALSE
  /\ consoleHeight = FirstHeight
  /\ consoleDrag = FALSE
  /\ winHeight \in {h \in WinHeights : FirstHeight <= MaxConsole(h)}

-----------------------------------------------------------------------------
(***************************************************************************)
(* The strip's handlers, with what they do to the star.                    *)
(***************************************************************************)

\* refresh_address_bar, if the handler gets there.
Refreshed(yes) ==
  /\ UNCHANGED bookmarkVars
  /\ star' = IF yes THEN Starred ELSE star

\* Bug: a navigation of the active tab leaves the star alone.
NavigationStep_Bug ==
  /\ \E o \in Outcomes :
       \/ /\ \/ AddressSubmit(o) \/ NavBack(o) \/ NavForward(o) \/ NavReload(o)
             \/ \E x \in Targets : NavigateActive(x, o)
          /\ UNCHANGED <<bookmarkVars, star>>
       \/ \E x \in Targets, t \in TabId :
            /\ NavigateInPlace(t, x, o)
            /\ Refreshed(t = ActiveId /\ o # "unresolved")
  /\ UNCHANGED overlayVars

\* navigate, for the active tab or (a guest's request) for some other one.
NavigationStep ==
  /\ \E o \in Outcomes :
       \/ /\ \/ AddressSubmit(o) \/ NavBack(o) \/ NavForward(o) \/ NavReload(o)
             \/ \E x \in Targets : NavigateActive(x, o)
          /\ Refreshed(o # "unresolved")
       \/ \E x \in Targets, t \in TabId :
            /\ NavigateInPlace(t, x, o)
            /\ Refreshed(t = ActiveId /\ o # "unresolved")
  /\ UNCHANGED overlayVars

\* Whatever ends in activate_tab.
ActivationStep ==
  /\ \/ NewTab
     \/ \E x \in Targets, o \in Outcomes : OpenTabAt(x, o)
     \/ \E t \in TabId : SwitchTab(t) \/ CloseActiveTab(t)
  /\ Refreshed(TRUE)
  /\ UNCHANGED overlayVars

QuietStep ==
  /\ \/ \E x \in Targets \cup {Blank} : AddressInput(x)
     \/ \E t \in TabId : CloseBackgroundTab(t) \/ CloseLastTab(t)
     \/ ExitLoop
  /\ Refreshed(FALSE)
  /\ UNCHANGED overlayVars

\* open_bookmark, by a click on its row: the panel closes however the
\* navigation ends.
OpenBookmark(x, o) ==
  /\ panelOpen /\ x \in ToSet(bookmarks)
  /\ NavigateActive(x, o)
  /\ Refreshed(o # "unresolved")
  /\ panelOpen' = FALSE
  /\ UNCHANGED menuOpen

-----------------------------------------------------------------------------
(***************************************************************************)
(* Bookmarks.                                                              *)
(***************************************************************************)

\* save_bookmarks: fs::write empties the file and fills it again.  It may
\* not get to open the file, and it, or the process, may end half way; the
\* list in memory stays as it is and the failure is logged.
Save ==
  \/ file' = bookmarks' /\ unsaved' = FALSE
  \/ file' \in {file, Torn} /\ unsaved' = TRUE

\* toggle_bookmark: the address of the active tab, whatever the bar says.
ToggleBookmark ==
  LET x == tab[ActiveId].target IN
  /\ ~exited
  /\ x # Blank
  /\ bookmarks' = IF x \in ToSet(bookmarks)
                    THEN RemoveFirst(bookmarks, x) ELSE Append(bookmarks, x)
  /\ UNCHANGED <<stripVars, overlayVars, consoleVars>>
  /\ star' = Starred
  /\ Save

\* Bug: the list is not written when a bookmark is removed from the panel.
RemoveBookmark_Bug(x) ==
  /\ ~exited /\ panelOpen
  /\ x \in ToSet(bookmarks)
  /\ bookmarks' = RemoveFirst(bookmarks, x)
  /\ UNCHANGED <<stripVars, overlayVars, consoleVars, file, unsaved>>
  /\ star' = Starred

\* remove_bookmark, by the button of a row in the panel.
RemoveBookmark(x) ==
  /\ ~exited /\ panelOpen
  /\ x \in ToSet(bookmarks)
  /\ bookmarks' = RemoveFirst(bookmarks, x)
  /\ UNCHANGED <<stripVars, overlayVars, consoleVars>>
  /\ star' = Starred
  /\ Save

-----------------------------------------------------------------------------
(***************************************************************************)
(* Menu, panel and console.                                                *)
(***************************************************************************)

ToggleMenu ==
  /\ ~exited
  /\ menuOpen' = ~menuOpen
  /\ panelOpen' = FALSE
  /\ UNCHANGED <<stripVars, bookmarkVars, star, consoleVars>>

\* By its entry in the menu.
ToggleBookmarksPanel ==
  /\ ~exited /\ menuOpen
  /\ panelOpen' = ~panelOpen
  /\ menuOpen' = FALSE
  /\ UNCHANGED <<stripVars, bookmarkVars, star, consoleVars>>

\* Entries of the menu: the console, its contents, the theme, the tabs' side.
MenuEntry ==
  /\ ~exited /\ menuOpen
  /\ consoleShown' \in BOOLEAN
  /\ menuOpen' = FALSE
  /\ UNCHANGED <<stripVars, bookmarkVars, star, panelOpen, consoleHeight,
                 consoleDrag, winHeight>>

ConsoleStep ==
  /\ ~exited
  /\ UNCHANGED <<stripVars, bookmarkVars, star, overlayVars, consoleShown>>

\* DividerDown, which needs a divider on display.
DividerDown ==
  /\ consoleShown
  /\ consoleDrag' = TRUE
  /\ UNCHANGED <<consoleHeight, winHeight>>
  /\ ConsoleStep

\* drag_console_to: the console takes what lies below the pointer, which may
\* be anywhere, outside the window too.
DragConsoleTo(y) ==
  LET below == winHeight - y IN
  /\ consoleDrag
  /\ winHeight > 0
  /\ consoleHeight' = CASE below < MinConsole -> MinConsole
                        [] below > MaxConsole(winHeight) -> MaxConsole(winHeight)
                        [] OTHER -> below
  /\ UNCHANGED <<consoleDrag, winHeight>>
  /\ ConsoleStep

EndConsoleDrag ==
  /\ consoleDrag
  /\ consoleDrag' = FALSE
  /\ UNCHANGED <<consoleHeight, winHeight>>
  /\ ConsoleStep

\* Bug: the console is held to the height the window had before.
Resize_Bug(h) ==
  /\ winHeight' = h
  /\ consoleHeight' = IF h = 0 THEN consoleHeight
                      ELSE IF consoleHeight > MaxConsole(winHeight)
                        THEN MaxConsole(winHeight) ELSE consoleHeight
  /\ UNCHANGED consoleDrag
  /\ ConsoleStep

\* SurfaceResized, in the middle of a drag perhaps: blitz sets the viewport,
\* then clamp_console_to_window looks at it.  A window of no height (one
\* that is minimized) is passed over.
Resize(h) ==
  /\ winHeight' = h
  /\ consoleHeight' = IF h > 0 /\ consoleHeight > MaxConsole(h)
                        THEN MaxConsole(h) ELSE consoleHeight
  /\ UNCHANGED consoleDrag
  /\ ConsoleStep

-----------------------------------------------------------------------------

StripStep ==
  /\ \/ NavigationStep \/ ActivationStep \/ QuietStep
     \/ \E x \in Targets, o \in Outcomes : OpenBookmark(x, o)
  /\ UNCHANGED consoleVars

ChromeNext ==
  \/ StripStep
  \/ ToggleBookmark
  \/ \E x \in Targets : RemoveBookmark(x)
  \/ ToggleMenu \/ ToggleBookmarksPanel \/ MenuEntry
  \/ DividerDown \/ EndConsoleDrag
  \/ \E y \in Pointers : DragConsoleTo(y)
  \/ \E h \in WinHeights : Resize(h)

ChromeDone == exited /\ UNCHANGED chromeVars

ChromeSpec == ChromeInit /\ [][ChromeNext \/ ChromeDone]_chromeVars

-----------------------------------------------------------------------------
(***************************************************************************)
(* Properties.                                                             *)
(***************************************************************************)

\* The star is lit exactly when the page in front is bookmarked, through
\* every way a tab gets another address or another tab comes to the front,
\* and every way a bookmark comes and goes.
StarIsTrue ==
  LET x == tab[ActiveId].target IN star <=> x # Blank /\ x \in ToSet(bookmarks)

\* A program started now would find the bookmarks on display, unless the
\* last write failed; a hand-edited or torn file counts for what it is read
\* as, and no bookmark is ever there twice.
BookmarksKept ==
  /\ ~unsaved => Loaded(file) = bookmarks
  /\ \A i, j \in DOMAIN bookmarks : bookmarks[i] = bookmarks[j] => i = j

\* However the divider is dragged and the window resized, in the middle of a
\* drag too, the console leaves the page its MinApp pixels, or has shrunk as
\* far as it may; menu and panel never cover the page together.
ChromeFits ==
  /\ winHeight > 0 => consoleHeight <= MaxConsole(winHeight)
  /\ consoleHeight >= MinConsole
  /\ ~(menuOpen /\ panelOpen)

=============================================================================
