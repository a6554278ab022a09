SPECIFICATION FollowSpec
CONSTANTS
  c1 = c1
  c2 = c2
  Threads = {c1, c2}
  MaxPosts = 1
  MaxOutages = 1
INVARIANTS Armed
CHECK_DEADLOCK FALSE
