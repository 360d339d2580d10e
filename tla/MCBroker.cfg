SPECIFICATION Spec
CONSTANTS
  Tabs = {t}
  Urls = {a}
  NoUrl = NoUrl
  NoTab = NoTab
  Callers = {c, d}
  NoCaller = NoCaller
  MaxRestarts = 2
  Window = 1
  MaxClock = 2
INVARIANTS
  BrokerTypeOK
  RestartBudget
  ShownIsUrl
PROPERTIES
  GivesUpOnlyWhenSpent
  ClosedStaysClosed
  CrashReportsReturn
CHECK_DEADLOCK FALSE
