CONSTANTS
  Clients = {c1, c2}
  Crates = {0}
  CrateIds = {0, 1}
  Lines = {1}
  Tokens = {1, 2}
  Requests <- MCRequests1
  VectorWidth = 1
  INCR = 2
  MaxSlots = 2
  AllowFake = TRUE
  Events <- MCEvents
  MaxAsserts = 1
  MaxConnects = 1

SYMMETRY MCSymmetry
VIEW MCView
SPECIFICATION Spec
CHECK_DEADLOCK FALSE
INVARIANT NoMutualBlock
