CONSTANTS
  m1 = m1
  m2 = m2
  Messages = {m1, m2}
  Jobs <- MCJobs
  Page = 1
  Limits <- Meeting
SPECIFICATION Spec
INVARIANT HoldsOwn
CHECK_DEADLOCK FALSE
