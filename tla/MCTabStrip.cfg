SPECIFICATION StripSpec
CONSTANTS
  Targets = {a, b}
  Blank = Blank
  MaxTabs = 3
  MaxHistory = 2
SYMMETRY TargetSymmetry
INVARIANTS
  StripTypeOK
  OneTabShown
  HistoryConsistent
PROPERTIES
  CloseKeepsActive
  HistoryBehindKept
  AddressBarFollowsTab
