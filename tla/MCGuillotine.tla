---------------------------- MODULE MCGuillotine ----------------------------
(* Two orders of one wallet: tasks that share a key.                       *)
EXTENDS Guillotine

CONSTANTS w1, w2, alice

MCWalletOf == [w \in {w1, w2} |-> alice]
=============================================================================
