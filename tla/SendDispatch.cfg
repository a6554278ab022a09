CONSTANTS
  m1 = m1
  m2 = m2
  Messages = {m1, m2}
  Jobs <- MCJobs
  Page = 1
  Limits <- MCLimits
SPECIFICATION FairSpec
INVARIANTS Bounded WakeKept
PROPERTY Drains
CHECK_DEADLOCK FALSE
