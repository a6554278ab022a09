SPECIFICATION ShareFairSpec
CONSTANTS
  Departures = {d1, d2, d3}
  KeptPerReader = 1
  Length = 2
  MaxFailures = 1
CHECK_DEADLOCK FALSE
INVARIANT Shared
PROPERTY NoneHeldBack
