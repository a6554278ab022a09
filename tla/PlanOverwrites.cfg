SPECIFICATION NodeSpec
CONSTANTS
  home = home
  away = away
  tcp = tcp
  mqtt = mqtt
  unit = unit
  flow = flow
  java = java
  broken = broken
  r1 = r1
  a1 = a1
  a2 = a2
  None = None
  Torn = Torn
  Texts <- SomeTexts
  Rewrites <- TwoTexts
  Authorities = {a1, a2}
  Installed = a1
  Names <- TheNames
  Linked = {tcp}
  Modules = {unit, flow, java, broken}
  InProcess = {unit, flow, broken}
  Opens = {unit, flow}
  Serves <- Claims
  Engines = TRUE
  Receives = {r1}
  Manager = "launchd"
  MaxStarts = 2
  MaxFaults = 3
  MaxTaken = 0
CHECK_DEADLOCK FALSE
PROPERTY KeepsAWayAlways
