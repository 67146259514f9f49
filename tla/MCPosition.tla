---------------------------- MODULE MCPosition ------------------------------
(* Instances of a position: two orders, one or two transactions that       *)
(* trigger both.                                                           *)
EXTENDS Position, TLC

CONSTANTS o1, o2, t1, t2

MCMaxToSell == o1 :> 1 @@ o2 :> 2
MCMcapThreshold == [o \in OrderId |-> 1]
MCBuyThreshold == [o \in OrderId |-> 1]
MCDeliveries == o1 :> 1 @@ o2 :> 2
MCRemovals == o1 :> 0 @@ o2 :> 2
MCOnce == [o \in OrderId |-> 1]
MCNetOf == [t \in Tx |-> 1]
MCMcapOf == [t \in Tx |-> 1]
=============================================================================
