SPECIFICATION Spec
CONSTANTS
  n1 = n1
  n2 = n2
  m1 = m1
  m2 = m2
  Nodes = {n1}
  Messages = {m1, m2}
  NoKey = "nokey"
  Key <- OneKey
  Skips = TRUE
  MaxTurns = 2
  MaxFaults = 0
INVARIANT FailureLetsGo
CHECK_DEADLOCK FALSE
