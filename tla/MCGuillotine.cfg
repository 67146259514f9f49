\* Two orders of one wallet, two retries each, under fairness.
CONSTANTS
  w1 = w1
  w2 = w2
  alice = alice
  Warrant = {w1, w2}
  Wallet = {alice}
  WalletOf <- MCWalletOf
  MaxRetries = 2
SPECIFICATION FairSpec
INVARIANTS
  Consistent
PROPERTIES
  NothingSentAfter
  ImplementsExecution
  TasksEnd
