SPECIFICATION FairSpec
CONSTANTS
  a = a
  b = b
  s1 = s1
  s2 = s2
  s3 = s3
  w1 = w1
  m1 = m1
  m2 = m2
  m3 = m3
  m4 = m4
  here = here
  there = there
  key = key
  enrich = enrich
  out = out
  None = None
  NoNode = NoNode
  Nodes = {a, b}
  Streams = {s1, s2, s3}
  Messages = {w1, m1, m2, m3, m4}
  Lines = {here, there}
  Keys = {key}
  Dests = {enrich, out}
  Works = {enrich}
  LineOf <- MCLineOf
  StreamOf <- MCStreamOf
  To <- MCTo
  KeyOf <- MCKeyOf
  Parent <- MCParent
  Width = 2
  Nth <- MCNth
  Skips = {}
  Remembered = 2
  MaxRank = 6
CONSTRAINT Explored
CHECK_DEADLOCK FALSE
INVARIANT InTurn
PROPERTY Ends
