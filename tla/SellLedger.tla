----------------------------- MODULE SellLedger -----------------------------
(***************************************************************************)
(* What a selling position promises, whatever its internal book-keeping:   *)
(* tokens are reserved before they are sold, and a reservation is closed   *)
(* once.  A token is taken from the wallet by drawing on a reservation, or *)
(* else it is surplus: tokens taken by a reservation that was released, or *)
(* that nobody reserved at all, are known to be beyond the position's      *)
(* control and counted apart.  At no moment do the tokens taken and the    *)
(* reservations not drawn yet exceed, but for the surplus, what the wallet *)
(* held when the position was opened, nor what each order may sell.        *)
(***************************************************************************)
EXTENDS Claims

CONSTANTS Owner,      \* the orders of the position
          Holdings,   \* what the wallet held when the position was opened
          Limit       \* what each order may sell

VARIABLES claims,     \* reservations not closed yet
          drawn,      \* those of them that were used
          taken,      \* tokens taken from the wallet
          takenBy,    \* the same, for each order
          surplus,    \* those taken without a reservation to account for them
          surplusBy,  \* the same, for each order
          next        \* number of reservations ever made

ledgerVars == <<claims, drawn, taken, takenBy, surplus, surplusBy, next>>

LedgerInit == /\ claims = {}
              /\ drawn = {}
              /\ taken = 0
              /\ takenBy = [o \in Owner |-> 0]
              /\ surplus = 0
              /\ surplusBy = [o \in Owner |-> 0]
              /\ next = 0

Take(o, a) == /\ taken' = taken + a
              /\ takenBy' = [takenBy EXCEPT ![o] = @ + a]

Exceed(o, a) == /\ surplus' = surplus + a
                /\ surplusBy' = [surplusBy EXCEPT ![o] = @ + a]

Reserve(c) ==
    /\ taken + Total(claims \ drawn) + c.amount <= Holdings + surplus
    /\ takenBy[c.order] + Total(ClaimsOf(claims \ drawn, c.order)) + c.amount
         <= Limit[c.order] + surplusBy[c.order]
    /\ claims' = claims \cup {c}
    /\ next' = next + 1
    /\ UNCHANGED <<drawn, taken, takenBy, surplus, surplusBy>>

Draw(c) ==
    /\ c \in claims \ drawn
    /\ Take(c.order, c.amount)
    /\ drawn' = drawn \cup {c}
    /\ UNCHANGED <<claims, surplus, surplusBy, next>>

\* Tokens are taken that no reservation accounts for.
Overdraw(o, a) ==
    /\ Take(o, a)
    /\ Exceed(o, a)
    /\ UNCHANGED <<claims, drawn, next>>

\* A reservation is closed by the sale it was for.
Settle(c) ==
    /\ c \in drawn
    /\ claims' = claims \ {c}
    /\ drawn' = drawn \ {c}
    /\ UNCHANGED <<taken, takenBy, surplus, surplusBy, next>>

\* Or given up: if it was used, what it took is not accounted for any more.
Release(c) ==
    /\ c \in claims
    /\ claims' = claims \ {c}
    /\ drawn' = drawn \ {c}
    /\ IF c \in drawn THEN Exceed(c.order, c.amount)
                      ELSE UNCHANGED <<surplus, surplusBy>>
    /\ UNCHANGED <<taken, takenBy, next>>

LedgerNext ==
    \/ \E o \in Owner, a \in 1 .. Holdings :
         \/ Reserve([n |-> next + 1, order |-> o, amount |-> a])
         \/ Overdraw(o, a)
    \/ \E c \in claims : Draw(c) \/ Settle(c) \/ Release(c)

LedgerSpec == LedgerInit /\ [][LedgerNext]_ledgerVars

-----------------------------------------------------------------------------
LedgerTypeOK == /\ claims \in SUBSET Claim(Owner)
                /\ drawn \subseteq claims
                /\ taken \in Nat
                /\ takenBy \in [Owner -> Nat]
                /\ surplus \in Nat
                /\ surplusBy \in [Owner -> Nat]
                /\ next \in Nat

\* Nothing beyond the wallet's holdings is taken or promised, but the surplus.
WithinHoldings == taken + Total(claims \ drawn) <= Holdings + surplus

\* No order takes or promises more than it was allowed to, but the surplus.
WithinLimits ==
    \A o \in Owner :
      takenBy[o] + Total(ClaimsOf(claims \ drawn, o)) <= Limit[o] + surplusBy[o]
=============================================================================
