SPECIFICATION TransactionsSpec
CONSTANTS
  Actions = {"transfer", "cancel", "speedup"}
  Wallet <- MCWallet
  Value <- MCValue
  Ranges <- MCRanges
  Amounts = {0, 860, 940, 3400, 5600}
  OriginalFees = {20, 140, 300}
  Coin = "ETH"
  Wrapped = "W"
  Infinite = 1000
  Purposes = {"transfer", "approve", "convert", "recovery", "cancel", "speedup"}
  Entries <- MCEntries
  Disabled = {"wrong"}
  Tokens <- MCTokens
  Recipients = {"r", "c"}
  Contracts = {"c"}
  Sums = {3}
  FeeRanges <- MCFeeRanges
  Holdings <- MCHoldings
  EtherOriginals <- MCEtherOriginals
  MaxPages = 2
  MaxSteps = 4
INVARIANTS Types SignedBalances PaysItsPrice NoNeedlessInput StandardUnlessOutdated
           ReplacementConflicts ReplacementPaysMore SignedIsSound ReplacementRaises GasIsItsOwn
