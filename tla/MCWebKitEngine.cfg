SPECIFICATION WebKitSpec
CONSTANTS
  Callers = {g1, g2}
  NoCaller = NoCaller
  MaxRev = 2
  MaxEvents = 2
  RecvBuf = 1
  EventBuf = 1
  DomBuf = 1
SYMMETRY Goroutines
INVARIANTS
  WebKitTypeOK
  OneAnswerInFlight
  RevisionAgrees
  EventsInOrder
PROPERTIES
  KeepsPromise
