------------------------------- MODULE Market -------------------------------
(***************************************************************************)
(* The prices of a trade: price_calculator.rs, the roll-up of a            *)
(* transaction's trade events (parsers.rs, process_logs) and the amounts   *)
(* that the countersell (issue_warrant) and the one-shot buy (activate)    *)
(* ask for, against a market that others move between a quote and its      *)
(* execution.                                                              *)
(*                                                                         *)
(* The market is external: a constant-product pool whose trades are rounded*)
(* in its favour.  A transaction makes one or more trades; its events carry*)
(* the reserves after each.  The chain runs one transaction at a time and  *)
(* refuses an order that its reserves do not satisfy.                      *)
(*                                                                         *)
(* Integers are the code's: divisions truncate, a result is cut to u64     *)
(* (modulo Word), and u128 differences wrap in a release build.  The f64   *)
(* product with the slippage factor is an exact floor here.  Fees of the   *)
(* market, which the code does not know of either, are left out.           *)
(***************************************************************************)
EXTENDS Integers

CONSTANTS Word,           \* 2^64
          InitSol,        \* the market's first reserves
          InitTok,
          Supply,         \* total supply of the token
          Lamports,       \* amounts of SOL that a trade pays in
          Microtokens,    \* amounts of tokens that a trade pays in
          SellPct,        \* sell_pct_bps an order may have
          McapThreshold,
          BuyThreshold,
          MaxTrades,      \* bound: trades of one transaction
          MaxReserve      \* bound: the market is not traded beyond it

ASSUME MarketAssumption ==
    /\ Word \in Nat \ {0}
    /\ InitSol \in Nat \ {0} /\ InitTok \in Nat \ {0}
    /\ Supply \in Nat
    /\ Lamports \subseteq 1 .. Word - 1   \* u64
    /\ Microtokens \subseteq Nat \ {0}
    /\ SellPct \subseteq Nat
    /\ McapThreshold \in Nat /\ BuyThreshold \in Nat

VARIABLES protocol,   \* "curve" (PumpFun) or "pool" (PumpSwap)
          sol, tok,   \* the reserves
          tx,         \* the roll-up of the transaction that is being executed
          order       \* the quote that is on its way to the chain

vars == <<protocol, sol, tok, tx, order>>

-----------------------------------------------------------------------------
(* price_calculator.rs.                                                    *)

\* Slip: a result keeps its 128 bits.
CutNot(n) == n

Cut(n) == n % Word

U64MAX == Word - 1

\* Selling dx tokens into reserves y (SOL) and x (tokens): the SOL it yields.
SolForSell(dx, y, x) == IF x = 0 \/ y = 0 \/ dx = 0
                        THEN 0
                        ELSE Cut((y * dx) \div (x + dx))

\* Slip: the reserves are swapped.
TokensForSellSwapped(p, dy, y, x) ==
    IF dy >= x THEN 0 ELSE Cut((y * dy) \div (x - dy))

\* How many tokens to sell for dy of SOL.  Beyond the reserves the bonding
\* curve's difference wraps to a huge divisor, the pool's is tested for.
TokensForSell(p, dy, y, x) ==
    IF y > dy
    THEN Cut((x * dy) \div (y - dy))
    ELSE IF p = "curve" THEN 0 ELSE U64MAX

\* How many tokens dy of SOL buys, and what dx tokens cost.
TokensForBuy(dy, y, x) == IF y = 0 \/ dy = 0
                          THEN 0
                          ELSE Cut((x * dy) \div (y + dy))

SolForBuy(dx, y, x) == IF dx = 0 \/ x = 0 \/ y = 0 \/ dx >= x
                       THEN U64MAX
                       ELSE Cut((y * dx) \div (x - dx))

MarketCap(y, x) == IF x = 0 THEN 0 ELSE (y * Supply) \div x

-----------------------------------------------------------------------------
(* A transaction's events.                                                 *)

NoTx == [trades |-> 0, net |-> 0, sol |-> 0, tok |-> 0]

\* Slip: the reserves are those of the first event.
RolledUpFirst(t, net, y, x) ==
    [trades |-> t.trades + 1, net |-> t.net + net,
     sol |-> IF t.trades = 0 THEN y ELSE t.sol,
     tok |-> IF t.trades = 0 THEN x ELSE t.tok]

\* The net of all trade events, the reserves of the last.
RolledUp(t, net, y, x) ==
    [trades |-> t.trades + 1, net |-> t.net + net, sol |-> y, tok |-> x]

Triggers(t) == /\ t.net > 0
               /\ MarketCap(t.sol, t.tok) >= McapThreshold
               /\ t.net >= BuyThreshold

-----------------------------------------------------------------------------
(* The amounts of an order.                                                *)

NoOrder == [kind |-> "none"]

Ideal(net, pct) == Cut((net * pct) \div 10000)

\* A default slippage of 30 % is allowed for.
WithSlippage(lamports) == (lamports * 7) \div 10

\* Slip: a capped sale still asks for the ideal proceeds.
ExpectedUncapped(ideal, amount, wanted, y, x) == ideal

\* A sale that was capped is priced again.
Expected(ideal, amount, wanted, y, x) ==
    IF amount < wanted THEN SolForSell(amount, y, x) ELSE ideal

\* What a countersell sells of the tokens it has left, given a roll-up.
Sale(p, t, pct, left) ==
    LET ideal == Ideal(t.net, pct)
        wanted == TokensForSell(p, ideal, t.sol, t.tok)
        amount == IF left < wanted THEN left ELSE wanted
        expected == Expected(ideal, amount, wanted, t.sol, t.tok)
    IN IF amount = 0 \/ expected = 0
       THEN NoOrder
       ELSE [kind |-> "sell", amount |-> amount, limit |-> WithSlippage(expected),
             ideal |-> ideal, capped |-> amount < wanted,
             sol |-> t.sol, tok |-> t.tok]

\* Slip: the buy is quoted as if its SOL were in the market already.
PurchaseLate(lamports, slippage, y, x) ==
    [kind |-> "buy", amount |-> Cut((x * lamports) \div y),
     limit |-> lamports + (lamports * slippage) \div 100,
     ideal |-> lamports, capped |-> FALSE, sol |-> y, tok |-> x]

\* What a one-shot buy asks for, from live reserves.
Purchase(lamports, slippage, y, x) ==
    [kind |-> "buy", amount |-> TokensForBuy(lamports, y, x),
     limit |-> lamports + (lamports * slippage) \div 100,
     ideal |-> lamports, capped |-> FALSE, sol |-> y, tok |-> x]

-----------------------------------------------------------------------------
Init == /\ protocol \in {"curve", "pool"}
        /\ sol = InitSol
        /\ tok = InitTok
        /\ tx = NoTx
        /\ order = NoOrder

\* A trade of the transaction that is being executed, and its event.
Buy(dy) ==
    LET dx == (tok * dy) \div (sol + dy)
    IN /\ tx.trades < MaxTrades
       /\ sol + dy <= MaxReserve
       /\ dx > 0
       /\ sol' = sol + dy
       /\ tok' = tok - dx
       /\ tx' = RolledUp(tx, dy, sol', tok')
       /\ UNCHANGED <<protocol, order>>

Sell(dx) ==
    LET dy == (sol * dx) \div (tok + dx)
    IN /\ tx.trades < MaxTrades
       /\ tok + dx <= MaxReserve
       /\ dy > 0
       /\ sol' = sol - dy
       /\ tok' = tok + dx
       /\ tx' = RolledUp(tx, -dy, sol', tok')
       /\ UNCHANGED <<protocol, order>>

\* The transaction ends and the countersell processes its logs.
ProcessLogs(pct, left) ==
    /\ tx.trades > 0
    /\ tx' = NoTx
    /\ order' = IF order = NoOrder /\ Triggers(tx)
                THEN Sale(protocol, tx, pct, left)
                ELSE order
    /\ UNCHANGED <<protocol, sol, tok>>

\* A one-shot buy is activated.
Activate(lamports, slippage) ==
    /\ tx.trades = 0
    /\ order = NoOrder
    /\ order' = Purchase(lamports, slippage, sol, tok)
    /\ UNCHANGED <<protocol, sol, tok, tx>>

\* What the chain would make of the order now.
Proceeds == (sol * order.amount) \div (tok + order.amount)
Cost == (sol * order.amount) \div (tok - order.amount) + 1

\* The chain executes it: a sale yields its limit at least, a purchase costs
\* its limit at most.
Execute ==
    /\ tx.trades = 0
    /\ \/ /\ order.kind = "sell"
          /\ Proceeds >= order.limit
          /\ sol' = sol - Proceeds
          /\ tok' = tok + order.amount
       \/ /\ order.kind = "buy"
          /\ order.amount > 0
          /\ order.amount < tok
          /\ Cost <= order.limit
          /\ sol' = sol + Cost
          /\ tok' = tok - order.amount
    /\ order' = NoOrder
    /\ UNCHANGED <<protocol, tx>>

\* Or it is given up, whatever the reserves are.
Refuse == /\ tx.trades = 0
          /\ order # NoOrder
          /\ order' = NoOrder
          /\ UNCHANGED <<protocol, sol, tok, tx>>

Next == \/ \E dy \in Lamports : Buy(dy)
        \/ \E dx \in Microtokens : Sell(dx)
        \/ \E pct \in SellPct, left \in Microtokens : ProcessLogs(pct, left)
        \/ \E lamports \in Lamports, slippage \in {0, 50} :
             Activate(lamports, slippage)
        \/ Execute
        \/ Refuse

Spec == Init /\ [][Next]_vars

-----------------------------------------------------------------------------
TypeOK ==
    /\ protocol \in {"curve", "pool"}
    /\ sol \in Nat \ {0} /\ tok \in Nat \ {0}
    /\ tx \in [trades : Nat, net : Int, sol : Nat, tok : Nat]
    /\ \/ order = NoOrder
       \/ order \in [kind : {"sell", "buy"}, amount : 0 .. U64MAX, limit : Nat,
                     ideal : 0 .. U64MAX, capped : BOOLEAN, sol : Nat \ {0},
                     tok : Nat \ {0}]

\* The reserves a transaction's roll-up ends with are the market's, and hold
\* more SOL than its net buy brought: an order that sells a hundred percent of
\* it at most never asks for more than the market has, so neither the bonding
\* curve's difference wraps nor the pool is found too small.
NetWithinReserves ==
    tx.trades > 0 => /\ tx.sol = sol
                     /\ tx.tok = tok
                     /\ tx.net < tx.sol

\* The market, its transaction and the order agree.
Consistent == TypeOK /\ NetWithinReserves

\* A countersell sells back at most what it was told to: at the reserves it
\* was quoted from, its tokens are worth no more than the percentage of the
\* net buy, whatever was rounded, capped or cut to 64 bits.
NeverOverasks ==
    order.kind = "sell" =>
        (order.sol * order.amount) \div (order.tok + order.amount) <= order.ideal

\* The quote of a sale is met by the market it was made from: three tokens or
\* more are worth the minimum that the warrant asks for.  (Of one or two, the
\* rounding of the number of tokens may be more than the slippage.)
Whole == (order.tok * order.ideal) \div (order.sol - order.ideal)

QuoteMeetsMinimum ==
    /\ order.kind = "sell"
    /\ order.capped \/ /\ order.sol > order.ideal
                       /\ Whole < Word
                       /\ order.amount >= 3
    => (order.sol * order.amount) \div (order.tok + order.amount) >= order.limit

\* A one-shot buy is within its budget: at the reserves it was quoted from its
\* tokens cost no more than the SOL the user named, so slippage is only for the
\* moves of others.
BuyWithinBudget ==
    order.kind = "buy" /\ order.amount > 0 =>
        /\ order.amount < order.tok
        /\ SolForBuy(order.amount, order.sol, order.tok) <= order.ideal

\* No order, of either kind, trades for more SOL than it was to.
WithinBudget == NeverOverasks /\ BuyWithinBudget
=============================================================================
