----------------------------- MODULE MCShylock ------------------------------
(* Two countersells and a one-shot of one token.                           *)
EXTENDS Shylock

CONSTANTS a1, a2, a3, m1

MCMintOf == [c \in Client |-> m1]
=============================================================================
