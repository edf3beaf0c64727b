SPECIFICATION FairSpec
CONSTANTS
  Values = {v1, v2}
  Capacity = 4
INVARIANTS TypeOK ViewsOrdered NoDataRace
PROPERTIES ImplementsFifo PushReturns ItemsDelivered
