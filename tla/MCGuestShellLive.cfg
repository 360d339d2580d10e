SPECIFICATION FairSpec
CONSTANTS
  Targets = {a}
  Blank = Blank
  Links <- SelfLinks
  Kinds = {rpc}
  MaxTabs = 2
  MaxHistory = 1
  MaxLoads = 2
  MaxReq = 1
  MaxQueue = 1
PROPERTIES
  EveryRequestEnds
  FramesCatchUp
