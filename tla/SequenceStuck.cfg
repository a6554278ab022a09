SPECIFICATION FairSpec
CONSTANTS
  a = a
  b = b
  s1 = s1
  s2 = s2
  s3 = s3
  w1 = w1
  m1 = m1
  m2 = m2
  m3 = m3
  m4 = m4
  here = here
  there = there
  key = key
  enrich = enrich
  out = out
  None = None
  NoNode = NoNode
  Nodes = {a}
  Streams = {s1, s2}
  Messages = {m1, m2}
  Lines = {here, there}
  Keys = {key}
  Dests = {enrich, out}
  Works = {enrich}
  LineOf <- MCLineOf
  StreamOf <- MCStreamOf
  To <- MCTo
  KeyOf <- MCKeyOf
  Parent <- MCParent
  Width = 1
  Nth <- MCNth
  Skips = {here}
  Remembered = 8
  MaxRank = 4
PROPERTY Ends
CHECK_DEADLOCK FALSE
