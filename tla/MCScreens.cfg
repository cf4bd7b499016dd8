SPECIFICATION ScreensSpec
CONSTANTS
  Wallets = {wA, wB}
  NoWallet = NoWallet
  Limit = 1
  MaxTxs = 2
  MaxLoads = 2
  Coin = "ETH"
  Tokens = {"T"}
  Kept = {1}
  MaxAmount = 1
  MaxChanges = 1
  MaxFailures = 1
  MaxRestarts = 1
  MaxHeld = 2
INVARIANTS Types WalletsNotMixed LoadingEnds OpenWalletShown HistoryComplete BalanceIsReported
SYMMETRY Symmetry
