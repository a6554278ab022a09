SPECIFICATION FairSpec
CONSTANTS
  tls = tls
  jwt = jwt
  path = path
  ann = ann
  bob = bob
  drop = drop
  p1 = p1
  p2 = p2
  g = g
  w = w
  both = both
  also = also
  held = held
  runs = runs
  None = None
  Streams <- AllStreams
  Circumstance <- TheCircumstance
  Accept = {tls, jwt, path}
  Parties <- TheParties
  Permitted = {1, 3}
  Misaligned = "refuse"
  Subscriptions <- Subs
  Leads <- LeadsTo
  Ports = {p1, p2}
  Groups = {g}
  Processes = {w}
  Members <- GroupPorts
  Correlated = {g}
  LocationsOf <- Locations
  Sequential = {}
  Paused = {held}
  Room = 1
  Carries = 2
  MaxSends = 2
  MaxFaults = 1
  MaxTurns = 1
CHECK_DEADLOCK FALSE
INVARIANTS Kept GatesPassed Whole
PROPERTY AcceptedReached
