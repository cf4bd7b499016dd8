SPECIFICATION FairSpec
CONSTANTS
  w1 = w1
  w2 = w2
  f1 = f1
  f2 = f2
  i1 = i1
  i2 = i2
  Wallets = {w1, w2}
  Feeds = {f1, f2}
  Ids = {i1, i2}
  WalletOf <- MCWalletOf
  IdOf <- MCIdOf
  Malformed = {f2}
  NoFeed = NoFeed
  MaxStarts = 2
  MaxAsked = 1
INVARIANTS TypeOK RestartsDoNotMultiply StrayNeedsOverlap
PROPERTIES FeedRecovers
CHECK_DEADLOCK FALSE
