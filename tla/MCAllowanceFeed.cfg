SPECIFICATION Spec
CONSTANTS
  Addresses = {"a", "b"}
  FirstAddress = "a"
  Checksummed = {"b"}
  Allowances <- MCAllowances
  Granted <- MCGranted
  Kept <- MCGranted
  Respelled = {"b"}
  MaxAmount = 1
  MaxOpens = 2
  MaxChanges = 1
  MaxHeld = 2
  MaxFailures = 1
INVARIANTS TypeOK StoredIsReported RowIsReported
CHECK_DEADLOCK FALSE
