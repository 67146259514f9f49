\* The wallet holds 2 microtokens, the orders may sell 2, 2 and 1; up to 1 more
\* lands that no confirmation accounts for.
CONSTANTS
  o1 = o1
  o2 = o2
  o3 = o3
  OrderId <- MCOrderId
  MaxToSell <- MCMaxToSell
  McapThreshold <- MCMcapThreshold
  BuyThreshold <- MCBuyThreshold
  Holdings = 2
  MaxOrders = 2
  MaxFailures = 2
  MaxSurplus = 1
  Word = 16
  NetBuy = {1, 2}
  Mcap = {1, 2}
  Quote = {1, 3}
SPECIFICATION Spec
INVARIANTS
  WithinWord
  AmountsExact
  SettledCompletion
  RowsEarned
  NeverOversold
PROPERTIES
  FinalStatus
  ImplementsLedger
\* The trade is complete and its last warrant settled.
CHECK_DEADLOCK FALSE
