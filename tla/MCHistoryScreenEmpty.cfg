SPECIFICATION Spec
CONSTANTS
  Wallets = {wA, wB}
  NoWallet = NoWallet
  Limit = 1
  MaxTxs = 2
  MaxLoads = 2
INVARIANTS EmptyListIsTrue
SYMMETRY Symmetry
