CONSTANTS
  Bufs <- MCBufs
  Crates = {0}
  CrateIds = {0, 1}
  Rows = 2
  Null = Null
SPECIFICATION Spec
CHECK_DEADLOCK FALSE
PROPERTY GotoLive
