SPECIFICATION WebKitSpec
CONSTANTS
  Callers = {g1}
  NoCaller = NoCaller
  MaxRev = 1
  MaxEvents = 2
  RecvBuf = 1
  EventBuf = 1
  DomBuf = 1
PROPERTIES
  CallsReturn
  CloseStopsLoops
