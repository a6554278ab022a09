SPECIFICATION FiguresFairSpec
CONSTANTS
  p1 = p1
  t1 = t1
  None = None
  Dispatching = Dispatching
  Operator = Operator
  Ports = {p1}
  Threads = {t1}
  Blocking = {p1}
  Sharing = {p1}
  Window = 1
  Most = 1
  Bounds <- AllBounds
CHECK_DEADLOCK FALSE
INVARIANT EachListedOnce
PROPERTIES Measures Settled
