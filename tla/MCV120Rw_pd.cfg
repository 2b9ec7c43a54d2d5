CONSTANTS
  PageCount = 2
  PageSize = 4
  Configs = {"d16", "plain"}
  Regions = {}
  Garbage = {0}
  PageArgs = {}
  MaxRegions = 1
  MaxMaps = 2
  Ops = {"read"}
  Addresses = {2}
  Counts = {2}
  Widths = {"w"}

SPECIFICATION RwSpec
CHECK_DEADLOCK FALSE

INVARIANT PdWritesInBounds
