CONSTANTS
  CrateIds = {0, 1}
  Tokens = {1, 2}
  Requests <- MCRequests
  VectorWidth = 2
  INCR = 2
  MaxSlots = 6

SPECIFICATION Spec

INVARIANT TypeOK
INVARIANT ContiguousPrefix
 
INVARIANT NoEntryShadowed

 
PROPERTY ReleaseAllIsFilter
PROPERTY ImplementsSubscriptions
