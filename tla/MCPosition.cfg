\* Two orders; a creation, a removal or a transaction may come twice.
CONSTANTS
  o1 = o1
  o2 = o2
  t1 = t1
  t2 = t2
  OrderId = {o1, o2}
  MaxToSell <- MCMaxToSell
  McapThreshold <- MCMcapThreshold
  BuyThreshold <- MCBuyThreshold
  Holdings = 3
  MaxOrders = 2
  MaxFailures = 2
  Word = 16
  MaxSurplus = 1
  NetBuy = {1}
  Mcap = {1}
  Quote = {1, 2}
  Tx = {t1}
  NetOf <- MCNetOf
  McapOf <- MCMcapOf
  Deliveries <- MCDeliveries
  Removals <- MCRemovals
  Copies = 2
  KeyMayFail = TRUE
  InitMayFail = TRUE
SPECIFICATION PositionSpec
INVARIANTS
  RouteOK
  RowsTrue
  WithinMaximum
  StrayAccounted
PROPERTIES
  CompletedStays
  LostOnlyWithoutTrade
\* Everything that may be delivered was, and the position is at rest.
CHECK_DEADLOCK FALSE
