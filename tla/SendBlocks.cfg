SPECIFICATION Spec
CONSTANTS
  a = a
  b = b
  Nodes = {a, b}
  Messages = {m1}
  NoNode = NoNode
  Lease = 1
  MaxFence = 4
  Locations <- Even
  Tries = 2
  FailsOver = FALSE
  Sequential = TRUE
  Blocks = TRUE
INVARIANTS Takeable
SYMMETRY NodeSymmetry
CONSTRAINT NoRenewals
