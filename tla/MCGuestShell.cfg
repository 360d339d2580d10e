SPECIFICATION Spec
CONSTANTS
  Targets = {a, b}
  Blank = Blank
  Links <- MCLinks
  Kinds = {rpc}
  MaxTabs = 2
  MaxHistory = 2
  MaxLoads = 2
  MaxReq = 2
  MaxQueue = 2
SYMMETRY TargetSymmetry
INVARIANTS
  GuestTypeOK
  GuestsInTabs
  OneAnswerPerRequest
  GestureOnlyInDispatch
PROPERTIES
  NavigationGated
  ResultRoutedToOwner
