------------------------------ MODULE MCMarket ------------------------------
(* Instances of the market. *)
EXTENDS Market
=============================================================================
