--------------------------- MODULE MCCountersell ----------------------------
(* A small instance of Countersell: three orders whose limits together     *)
(* exceed the wallet, two slots in the trade, thresholds that make one     *)
(* transaction trigger one, two or three orders.                           *)
EXTENDS Countersell, TLC

CONSTANTS o1, o2, o3

MCOrderId == {o1, o2, o3}
MCMaxToSell == o1 :> 2 @@ o2 :> 2 @@ o3 :> 1
MCMcapThreshold == o1 :> 1 @@ o2 :> 2 @@ o3 :> 1
MCBuyThreshold == o1 :> 1 @@ o2 :> 1 @@ o3 :> 2
=============================================================================
