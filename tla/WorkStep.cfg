SPECIFICATION Spec
CONSTANTS
  n1 = n1
  n2 = n2
  m1 = m1
  m2 = m2
  Nodes = {n1, n2}
  Messages = {m1, m2}
  NoKey = "nokey"
  Key <- OneKey
  Skips = FALSE
  MaxTurns = 2
  MaxFaults = 1
CHECK_DEADLOCK FALSE
SYMMETRY NodeSym
INVARIANTS TakenOnce KeysHeld
PROPERTY InSequence
