SPECIFICATION Spec
CONSTANTS
  Targets = {a, b}
  Blank = Blank
  Links <- MCLinks
  Kinds = {rpc}
  MaxTabs = 2
  MaxHistory = 2
  MaxLoads = 3
  MaxReq = 2
  MaxQueue = 2
PROPERTIES
  AnswersOwnRequest
