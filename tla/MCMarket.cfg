\* A small market, with orders that sell half, all or twice a net buy.
SPECIFICATION Spec
CONSTANTS
    Word = 32
    InitSol = 5
    InitTok = 20
    Supply = 50
    Lamports = {1, 8}
    Microtokens = {1, 6}
    SellPct = {5000, 10000, 20000}
    McapThreshold = 10
    BuyThreshold = 2
    MaxTrades = 2
    MaxReserve = 22
INVARIANTS
  Consistent
  WithinBudget
  QuoteMeetsMinimum
