SPECIFICATION FairSpec
CONSTANTS
  Items = {a, b}
  LimitSize = 3
  LimitTime = 3
  Late = FALSE
  MaxReceived = 5
INVARIANTS TypeOK NothingLostOrReordered BufferBelowLimit
PROPERTIES ImplementsDelivery DeliveredInTime
