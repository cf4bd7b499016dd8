SPECIFICATION Spec
CONSTANTS
  Txs = {t1}
  CanFail = TRUE
  MaxLog = 2
  MaxOpens = 2
  MaxJobs = 2
  MaxBatch = 2
  MaxHeld = 2
  MaxResets = 1
  MaxCrashes = 1
INVARIANTS TypeOK NoSilentGap ScreenAgrees
PROPERTIES KeepsPromise
CHECK_DEADLOCK FALSE
