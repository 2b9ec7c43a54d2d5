CONSTANTS
  PageCount = 2
  PageSize = 2
  Configs = {"d16", "d32"}
  Regions <- MCRegions
  Garbage = {0}
  PageArgs = {0, 1, 2}
  MaxRegions = 2
  MaxMaps = 3

SPECIFICATION Spec
VIEW MCView

INVARIANT TypeOK
INVARIANT MappingsListed
INVARIANT DescriptorsHeld

PROPERTY AllocationReachesRegions
