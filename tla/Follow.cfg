SPECIFICATION FollowFairSpec
CONSTANTS
  c1 = c1
  c2 = c2
  Threads = {c1}
  MaxPosts = 1
  MaxOutages = 1
CHECK_DEADLOCK FALSE
INVARIANT Recovered
PROPERTIES Follows AllEnd
