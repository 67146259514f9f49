\* An order is added to a trade that has stopped.
CONSTANTS
  o1 = o1
  o2 = o2
  t1 = t1
  t2 = t2
  OrderId = {o1, o2}
  MaxToSell <- MCMaxToSell
  McapThreshold <- MCMcapThreshold
  BuyThreshold <- MCBuyThreshold
  Holdings = 3
  MaxOrders = 2
  MaxFailures = 2
  Word = 16
  MaxSurplus = 0
  NetBuy = {1}
  Mcap = {1}
  Quote = {1}
  Tx = {t1}
  NetOf <- MCNetOf
  McapOf <- MCMcapOf
  Deliveries <- MCOnce
  Removals <- MCOnce
  Copies = 1
  KeyMayFail = FALSE
  InitMayFail = FALSE
SPECIFICATION PositionSpec
INVARIANT OrdersReachTrade
CHECK_DEADLOCK FALSE
