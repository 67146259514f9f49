------------------------------- MODULE Claims -------------------------------
(***************************************************************************)
(* A claim is an amount of microtokens that somebody has set aside: an     *)
(* execution warrant whose terminal result has not been seen yet.  What a  *)
(* set of claims adds up to is counted as a cardinality, one unit per      *)
(* microtoken, so that sums can be reasoned about without recursion.       *)
(***************************************************************************)
EXTENDS Naturals, FiniteSets

Claim(Owner) == [n : Nat, order : Owner, amount : Nat \ {0}]

UnitsOf(c) == {c} \X (1 .. c.amount)

Units(S) == UNION {UnitsOf(c) : c \in S}

Total(S) == Cardinality(Units(S))

ClaimsOf(S, o) == {c \in S : c.order = o}
=============================================================================
