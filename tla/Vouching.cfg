SPECIFICATION VouchFairSpec
CONSTANTS
  s1 = s1
  s2 = s2
  f1 = f1
  n1 = n1
  web = web
  Sessions = {s1, s2}
  Surfaces = {f1}
  Nodes = {n1}
  NodeOf <- AtOne
  Through <- AsWeb
  Holding <- Assigned
  Stated <- Operators
  Most = 2
  MaxDrawn = 2
  MaxMishaps = 1
CHECK_DEADLOCK FALSE
INVARIANTS RevokedHeldByNone AsItself
PROPERTY LetGo
