SPECIFICATION Spec
CONSTANTS
  Texts = {"", "wasm", "wasm dom"}
  Blank = ""
  TermsOf <- MCTerms
  TooBig = {"wasm dom"}
  Docs = {1, 2, 3}
  Occurs <- MCOccurs
  CallTimeout = 1
  SkewWindow = 4
  Manifests <- MCManifests
  MaxPages = 2
  MaxReq = 2
INVARIANTS
  SearchTypeOK
  ShowsLastSearch
  HonestCallsServed
PROPERTIES
  SearchesEnd
CHECK_DEADLOCK FALSE
