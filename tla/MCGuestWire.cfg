SPECIFICATION Spec
CONSTANTS
  Codes = {2, 9}
  Ids = {1}
  Strings <- MCStrings
  NoStr = 9999
  Texts <- MCTexts
  Region = 72
  MaxOps = 2
  MaxQueue = 1
INVARIANTS
  WireKeepsOps
  EventsAgree
