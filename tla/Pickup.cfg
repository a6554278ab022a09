SPECIFICATION FairSpec
CONSTANTS
  m1 = m1
  w1 = w1
  d1 = d1
  Messages = {m1, w1, d1}
  Dead = {d1}
  Broken = {w1}
  FromWork = {w1}
  Most = 2
  MaxActs = 2
CHECK_DEADLOCK FALSE
INVARIANT Accounted
PROPERTIES OldestFirst PickedUp
