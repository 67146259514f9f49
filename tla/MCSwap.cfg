\* Every kind of order, one or two wallets' worth of funds.
SPECIFICATION SwapSpec
CONSTANTS
    Lamports = {2, 3}
    Microtokens = {1}
    Fee = {0, 1}
    Programs = {"legacy", "token2022"}
    Mayhem = {FALSE, TRUE}
    MaxSol = 6
    MaxTokens = 2
INVARIANTS
  SwapConsistent
  PriceKept
  RunsWhenFunded
