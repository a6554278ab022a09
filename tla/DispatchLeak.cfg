CONSTANTS
  m1 = m1
  m2 = m2
  Messages = {m1, m2}
  Jobs <- MCJobs
  Page = 1
  Limits <- Moving
SPECIFICATION Spec
INVARIANT PlacesExact
CHECK_DEADLOCK FALSE
