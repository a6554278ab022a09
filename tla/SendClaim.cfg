SPECIFICATION Spec
CONSTANTS
  a = a
  b = b
  Nodes = {a, b}
  Messages = {m1}
  NoNode = NoNode
  Lease = 2
  MaxFence = 3
  Locations <- Uneven
  Tries = 2
  FailsOver = TRUE
  Sequential = FALSE
  Blocks = FALSE
INVARIANTS HoldsSound SendsOnlyWhatWaits ClaimInv Takeable
PROPERTIES FencesRise AttemptsForward LifeSpec
CONSTRAINT Explored
