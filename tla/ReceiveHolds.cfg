SPECIFICATION ReceiveSpec
CONSTANTS
  drop = drop
  tcp = tcp
  a1 = a1
  a2 = a2
  b1 = b1
  b2 = b2
  Locations = {drop, tcp}
  Arrivals = {a1, a2, b1, b2}
  At <- MCAt
  Nodes <- MCNodes
  Ordered = {drop}
  Polled = {drop}
  LetGo = {b1, b2}
  Most = 2
  Carries = 2
  Bytes = 1
  CarryBytes = 1
  MaxFaults = 0
INVARIANT WaitsForACarry

CHECK_DEADLOCK FALSE
