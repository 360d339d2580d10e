SPECIFICATION Spec
CONSTANTS
  Root = root
  Guests = {root, a, b}
  Mount = mount
  Hosts = {mount, s, t, u}
  Kinds = {click}
SYMMETRY Slots
CONSTRAINT BeforeStraying
INVARIANTS
  NodeMapsTypeOK
  NamesResolve
  SubscribersAreTrue
  ReportsTheNodeHit
