SPECIFICATION HostSpec
CONSTANTS
  Callers = {g1}
  NoCaller = NoCaller
  MaxRev = 2
  MaxEvents = 4
  RecvBuf = 1
  EventBuf = 1
  DomBuf = 1
PROPERTIES CallsReturn
CHECK_DEADLOCK FALSE
