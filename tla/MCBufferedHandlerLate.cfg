SPECIFICATION FairSpec
CONSTANTS
  Items = {a}
  LimitSize = 3
  LimitTime = 3
  Late = TRUE
  MaxReceived = 4
PROPERTY DeliveredInTime
