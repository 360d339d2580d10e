SPECIFICATION ChromeSpec
CONSTANTS
  a = a
  b = b
  Targets = {a, b}
  Blank = Blank
  MaxTabs = 2
  MaxHistory = 1
  Files <- MCFiles
  NoFile = NoFile
  Torn = Torn
  WinHeights = {0, 130, 400}
  Pointers = {0, 500}
  MinApp = 120
  MinConsole = 48
  FirstHeight = 240
SYMMETRY TargetSymmetry
INVARIANTS
  StarIsTrue
  BookmarksKept
  ChromeFits
