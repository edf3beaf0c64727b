SPECIFICATION ClientFairSpec
CONSTANTS
  InternalIds = {0}
  MaxOrders = 2
  MaxInFlight = 1
INVARIANTS MapOwned MapCurrent
PROPERTIES Exits
CHECK_DEADLOCK FALSE
