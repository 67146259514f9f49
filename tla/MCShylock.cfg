CONSTANTS
  a1 = a1
  a2 = a2
  a3 = a3
  m1 = m1
  Client = {a1, a2, a3}
  Mint = {m1}
  MintOf <- MCMintOf
  OneShot = {a2}
  MaxAttempts = 3
SPECIFICATION FairSpec
INVARIANTS
  Consistent
  CountsExact
PROPERTIES
  ImplementsLeases
  EveryRequestAnswered
\* Every actor may have ended.
CHECK_DEADLOCK FALSE
