CONSTANTS
  w1 = w1
  w2 = w2
  alice = alice
  Warrant = {w1, w2}
  Wallet = {alice}
  WalletOf <- MCWalletOf
  MaxRetries = 1
SPECIFICATION Spec
INVARIANT SoldOnce
