CONSTANTS
  Clients = {c1}
  Crates = {0}
  CrateIds = {0, 1}
  Lines = {1}
  Tokens = {1}
  Requests <- MCRequests1
  VectorWidth = 1
  INCR = 2
  MaxSlots = 2
  AllowFake = FALSE
  Events = {}
  MaxAsserts = 1
  MaxConnects = 1

SPECIFICATION CompliantSpec
CHECK_DEADLOCK FALSE

PROPERTY DeliveryReturns
 
