SPECIFICATION ServicesSpec
CONSTANTS
  Links = {"credentials", "blockchain", "monitoring"}
  Monitoring = "monitoring"
  PeriodOk = 5
  PeriodIssues = 8
  PeriodPing = 2
  PeriodCheck = 1
  Pause = 2
  MaxLate = 1
  Latency = 1
  Priceable = {"ETH", "T"}
  Currencies = {"USD", "EUR"}
  MaxChoices = 1
  MaxRequests = 2
  MaxStrays = 1
INVARIANTS Types OneReconnectLoop HealthyIsConnected RestartedWhileDisconnected OneTimer
PROPERTIES OutageIsNoticed RatesSettle
