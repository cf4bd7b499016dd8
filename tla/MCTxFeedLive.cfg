SPECIFICATION FairSpec
CONSTANTS
  Txs = {t1}
  CanFail = TRUE
  MaxLog = 2
  MaxOpens = 2
  MaxJobs = 1
  MaxBatch = 1
  MaxHeld = 2
  MaxResets = 0
  MaxCrashes = 0
PROPERTIES EventuallySaved
CHECK_DEADLOCK FALSE
