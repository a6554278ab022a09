SPECIFICATION Spec
CONSTANTS
  a = a
  b = b
  s1 = s1
  s2 = s2
  s3 = s3
  w1 = w1
  m1 = m1
  m2 = m2
  m3 = m3
  m4 = m4
  here = here
  there = there
  key = key
  enrich = enrich
  out = out
  None = None
  NoNode = NoNode
  Nodes = {a}
  Streams = {s2, s3}
  Messages = {m2, m3}
  Lines = {here, there}
  Keys = {key}
  Dests = {enrich, out}
  Works = {enrich}
  LineOf <- MCLineOf
  StreamOf <- MCStreamOf
  To <- MCTo
  KeyOf <- MCKeyOf
  Parent <- MCParent
  Width = 1
  Nth <- MCNth
  Skips = {key}
  Remembered = 8
  MaxRank = 4
INVARIANT OneAtATime
CHECK_DEADLOCK FALSE
