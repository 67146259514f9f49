----------------------------- MODULE MCBuffett ------------------------------
(* Two countersells and a one-shot, each delivered N* times (those never   *)
(* delivered are left out).  c1 and s1 share a wallet, c1 and c2 a token.  *)
EXTENDS Buffett, TLC

CONSTANTS c1, c2, s1, w1, w2, m1, m2, NC1, NC2, NS1

Number == c1 :> NC1 @@ c2 :> NC2 @@ s1 :> NS1

MCTrade == {t \in {c1, c2, s1} : Number[t] > 0}
MCOneShot == MCTrade \cap {s1}
MCWalletOf == [t \in MCTrade |-> IF t = c2 THEN w2 ELSE w1]
MCMintOf == [t \in MCTrade |-> IF t = s1 THEN m2 ELSE m1]
MCDeliveries == [t \in MCTrade |-> Number[t]]
MCTransaction == {[mint |-> m1, curve |-> 0, pool |-> 1]}
=============================================================================
