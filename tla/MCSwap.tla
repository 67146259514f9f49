------------------------------- MODULE MCSwap -------------------------------
(* Instances of the transactions. *)
EXTENDS Swap
=============================================================================
