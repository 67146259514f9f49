CONSTANTS
  c1 = c1
  c2 = c2
  s1 = s1
  w1 = w1
  w2 = w2
  m1 = m1
  m2 = m2
  NC1 = 1
  NC2 = 0
  NS1 = 2
  NoTrade = NoTrade
  Trade <- MCTrade
  OneShot <- MCOneShot
  Wallet = {w1, w2}
  Mint = {m1, m2}
  WalletOf <- MCWalletOf
  MintOf <- MCMintOf
  Deliveries <- MCDeliveries
  Transaction <- MCTransaction
  MaxActors = 3
  MaxOrders = 1
  MaxQueue = 1
  MaxMail = 1
SPECIFICATION FairSpec
PROPERTIES
  EndedAreGone
  KeysDestroyed
\* Once every creation was delivered and handled nothing need happen any more.
CHECK_DEADLOCK FALSE
