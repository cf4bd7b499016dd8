SPECIFICATION Spec
CONSTANTS
  Actions = {"speedup"}
  Wallet <- MCWallet
  Value <- MCValue
  Ranges <- MCRanges
  Amounts = {0, 860, 940, 3400, 5600}
  OriginalFees = {20, 140, 300}
INVARIANTS SpeedUpPaysItsPrice
