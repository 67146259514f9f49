---------------------------- MODULE MarketProofs ----------------------------
(***************************************************************************)
(* Theorems of module Market, for every word size, market and order: the   *)
(* roll-up and the market stay in step, and an order asks for what its     *)
(* quote allows.  The argument of each is an inequality between products,  *)
(* so the lemmas on products and on truncated quotients come first.        *)
(***************************************************************************)
EXTENDS Market, TLAPS

LEMMA Distributes ==
  ASSUME NEW a \in Int, NEW b \in Int, NEW c \in Int
  PROVE  /\ a * (b + c) = a * b + a * c
         /\ a * (b - c) = a * b - a * c
         /\ (b + c) * a = b * a + c * a
         /\ (b - c) * a = b * a - c * a
         /\ a * b = b * a
         /\ a * b \in Int
OBVIOUS

LEMMA Grows ==
  ASSUME NEW a \in Nat, NEW b \in Nat, NEW c \in Nat, a <= b
  PROVE  a * c <= b * c /\ c * a <= c * b /\ a * c \in Nat
<1>1. b - a \in Nat
  OBVIOUS
<1>2. (b - a) * c >= 0
  BY <1>1
<1>3. (b - a) * c = b * c - a * c
  BY Distributes
<1> QED
  BY <1>2, <1>3

LEMMA Division ==
  ASSUME NEW n \in Nat, NEW d \in Nat \ {0}
  PROVE  /\ n \div d \in Nat
         /\ (n \div d) * d <= n
         /\ n < (n \div d) * d + d
OBVIOUS

LEMMA DivisionAtMost ==
  ASSUME NEW n \in Nat, NEW d \in Nat \ {0}, NEW k \in Nat, n <= k * d
  PROVE  n \div d <= k
OBVIOUS

LEMMA DivisionAtLeast ==
  ASSUME NEW n \in Nat, NEW d \in Nat \ {0}, NEW k \in Nat, k * d <= n
  PROVE  k <= n \div d
<1>1. SUFFICES ASSUME n \div d + 1 <= k PROVE FALSE
  BY Division
<1>2. n \div d \in Nat /\ n < (n \div d) * d + d
  BY Division
<1>3. (n \div d + 1) * d <= k * d
  BY <1>1, <1>2, Grows
<1>4. (n \div d + 1) * d = (n \div d) * d + d
  BY <1>2, Distributes
<1>5. k * d \in Int /\ (n \div d) * d \in Int
  BY <1>2, Distributes
<1> QED
  BY <1>2, <1>3, <1>4, <1>5

\* A result that is cut to 64 bits is at most what it was.
LEMMA CutLess ==
  ASSUME NEW n \in Nat
  PROVE  /\ Cut(n) \in 0 .. U64MAX
         /\ Cut(n) <= n
         /\ n < Word => Cut(n) = n
BY MarketAssumption DEF Cut, U64MAX

\* What d adds to x never yields all of y.
LEMMA NeverAll ==
  ASSUME NEW y \in Nat \ {0}, NEW x \in Nat \ {0}, NEW d \in Nat
  PROVE  /\ (y * d) \div (x + d) \in Nat
         /\ (y * d) \div (x + d) < y
<1> DEFINE q == (y * d) \div (x + d)
<1>1. y * d \in Nat /\ y * x \in Nat \ {0} /\ x + d \in Nat \ {0}
  OBVIOUS
<1>2. q \in Nat /\ q * (x + d) <= y * d
  BY <1>1, Division
<1>3. y * (x + d) = y * x + y * d
  BY Distributes
<1>4. SUFFICES ASSUME y <= q PROVE FALSE
  BY <1>2
<1>5. y * (x + d) <= q * (x + d)
  BY <1>1, <1>2, <1>4, Grows
<1>6. q * (x + d) \in Int
  BY <1>1, <1>2, Distributes
<1> QED
  BY <1>1, <1>2, <1>3, <1>5, <1>6

-----------------------------------------------------------------------------
(* The amounts of an order, whatever the reserves y (SOL) and x (tokens).  *)

\* As many tokens as TokensForSell asks for, or fewer, bring at most d of SOL.
LEMMA SaleWithin ==
  ASSUME NEW p, NEW y \in Nat \ {0}, NEW x \in Nat \ {0},
         NEW d \in Nat, NEW a \in Nat, a <= TokensForSell(p, d, y, x)
  PROVE  (y * a) \div (x + a) <= d
<1>1. y * a \in Nat /\ x + a \in Nat \ {0} /\ d * x \in Nat /\ d * a \in Nat
  OBVIOUS
<1>2. d * (x + a) = d * x + d * a
  BY Distributes
<1>3. SUFFICES y * a <= d * (x + a)
  BY <1>1, DivisionAtMost
<1>4. CASE y > d
  <2> DEFINE q == (x * d) \div (y - d)
  <2>1. x * d \in Nat /\ y - d \in Nat \ {0}
    BY <1>4
  <2>2. q \in Nat /\ q * (y - d) <= x * d
    BY <2>1, Division
  <2>3. a <= q
    BY <1>4, <2>2, CutLess DEF TokensForSell
  <2>4. a * (y - d) <= q * (y - d) /\ a * (y - d) \in Nat
    BY <2>1, <2>2, <2>3, Grows
  <2>5. a * (y - d) = a * y - a * d /\ a * y = y * a /\ a * d = d * a
    BY Distributes
  <2>6. x * d = d * x /\ q * (y - d) \in Int
    BY <2>1, <2>2, Distributes
  <2> QED
    BY <1>1, <1>2, <2>2, <2>4, <2>5, <2>6
<1>5. CASE y <= d
  <2>1. y * a <= d * a
    BY <1>5, Grows
  <2> QED
    BY <1>1, <1>2, <2>1
<1> QED
  BY <1>4, <1>5

\* Three tokens or more, as many as d of SOL are worth, bring 70 % of d.
LEMMA SaleMeets ==
  ASSUME NEW y \in Nat \ {0}, NEW x \in Nat \ {0}, NEW d \in Nat, y > d,
         NEW a \in Nat, a = (x * d) \div (y - d), a >= 3
  PROVE  WithSlippage(d) <= (y * a) \div (x + a)
<1> DEFINE L == (d * 7) \div 10
           D == x + a
<1>1. /\ x * d \in Nat /\ y - d \in Nat \ {0} /\ y * a \in Nat
      /\ D \in Nat \ {0} /\ d * D \in Nat
  OBVIOUS
<1>2. L \in Nat /\ 10 * L <= 7 * d
  OBVIOUS
<1>3. x * d < a * (y - d) + (y - d)
  BY <1>1, Division
<1>4. /\ a * (y - d) = y * a - d * a
      /\ d * D = x * d + d * a
      /\ d * a \in Nat
  <2>1. a * (y - d) = a * y - a * d /\ a * y = y * a /\ a * d = d * a
    BY Distributes
  <2>2. d * D = d * x + d * a /\ d * x = x * d
    BY Distributes
  <2> QED
    BY <2>1, <2>2
<1>5. d * D <= y * a + y
  BY <1>1, <1>3, <1>4
<1>6. 3 * y <= y * a
  <2>1. 3 * y <= a * y
    BY Grows
  <2>2. a * y = y * a
    BY Distributes
  <2> QED
    BY <2>1, <2>2
<1>7. 3 * (d * D) <= 4 * (y * a)
  BY <1>1, <1>5, <1>6
<1>8. 10 * (L * D) <= 7 * (d * D) /\ L * D \in Nat
  <2>1. (10 * L) * D <= (7 * d) * D
    BY <1>1, <1>2, Grows
  <2>2. (10 * L) * D = 10 * (L * D) /\ (7 * d) * D = 7 * (d * D)
    BY <1>1, <1>2
  <2> QED
    BY <1>1, <1>2, <2>1, <2>2
<1>9. L * D <= y * a
  BY <1>1, <1>7, <1>8
<1> QED
  BY <1>1, <1>2, <1>9, DivisionAtLeast DEF WithSlippage

\* As many tokens as d of SOL buys, cut to 64 bits, cost at most d.
LEMMA PurchaseWithin ==
  ASSUME NEW y \in Nat \ {0}, NEW x \in Nat \ {0}, NEW d \in Nat \ {0},
         NEW a \in Nat, a = TokensForBuy(d, y, x), a > 0
  PROVE  a < x /\ SolForBuy(a, y, x) <= d
<1> DEFINE q == (x * d) \div (y + d)
<1>1. x * d \in Nat /\ y + d \in Nat \ {0} /\ y * a \in Nat
  OBVIOUS
<1>2. q \in Nat /\ q < x
  BY NeverAll
<1>3. a <= q
  BY <1>1, <1>2, CutLess DEF TokensForBuy
<1>4. q * (y + d) <= x * d
  BY <1>1, Division
<1>5. a * (y + d) <= q * (y + d) /\ a * (y + d) \in Nat
  BY <1>1, <1>2, <1>3, Grows
<1>6. /\ a * (y + d) = y * a + d * a
      /\ d * (x - a) = x * d - d * a
      /\ d * a \in Int
  <2>1. a * (y + d) = a * y + a * d /\ a * y = y * a /\ a * d = d * a
    BY Distributes
  <2>2. d * (x - a) = d * x - d * a /\ d * x = x * d
    BY Distributes
  <2> QED
    BY <2>1, <2>2
<1>7. x - a \in Nat \ {0}
  BY <1>2, <1>3
<1>8. y * a <= d * (x - a)
  <2>1. q * (y + d) \in Int
    BY <1>1, <1>2, Distributes
  <2> QED
    BY <1>1, <1>4, <1>5, <1>6, <2>1
<1>9. (y * a) \div (x - a) \in Nat /\ (y * a) \div (x - a) <= d
  BY <1>1, <1>7, <1>8, Division, DivisionAtMost
<1>10. SolForBuy(a, y, x) = Cut((y * a) \div (x - a))
  BY <1>7 DEF SolForBuy
<1>11. Cut((y * a) \div (x - a)) <= (y * a) \div (x - a)
  BY <1>9, CutLess
<1>12. Cut((y * a) \div (x - a)) \in Int
  BY <1>9, CutLess
<1> QED
  BY <1>7, <1>9, <1>10, <1>11, <1>12
-----------------------------------------------------------------------------
(* The inductive invariant.                                                *)

\* Between transactions nothing is rolled up.
RolledUpAnew == tx.trades = 0 => tx = NoTx

IInv == /\ TypeOK
        /\ NetWithinReserves
        /\ RolledUpAnew
        /\ WithinBudget
        /\ QuoteMeetsMinimum

QuoteInv == WithinBudget /\ QuoteMeetsMinimum

Orders == [kind : {"sell", "buy"}, amount : 0 .. U64MAX, limit : Nat,
           ideal : 0 .. U64MAX, capped : BOOLEAN, sol : Nat \ {0},
           tok : Nat \ {0}]

\* A quote is right when it is made: a sale from any roll-up that a
\* transaction can end with.
LEMMA SaleRight ==
  ASSUME NEW t, t.sol \in Nat \ {0}, t.tok \in Nat \ {0}, t.net \in Nat,
         NEW pct \in Nat, NEW left \in Nat \ {0},
         protocol \in {"curve", "pool"},
         order' = Sale(protocol, t, pct, left)
  PROVE  /\ order' = NoOrder \/ order' \in Orders
         /\ QuoteInv'
<1> DEFINE y == t.sol
           x == t.tok
           ideal == Ideal(t.net, pct)
           wanted == TokensForSell(protocol, ideal, y, x)
           amount == IF left < wanted THEN left ELSE wanted
           expected == Expected(ideal, amount, wanted, y, x)
           quote == [kind |-> "sell", amount |-> amount,
                     limit |-> WithSlippage(expected), ideal |-> ideal,
                     capped |-> amount < wanted, sol |-> y, tok |-> x]
<1>1. CASE order' = NoOrder
  BY <1>1 DEF NoOrder, QuoteInv, WithinBudget, NeverOverasks,
              BuyWithinBudget, QuoteMeetsMinimum
<1>2. CASE order' # NoOrder
  <2>1. amount # 0 /\ expected # 0 /\ order' = quote
    BY <1>2 DEF Sale
  <2>2. ideal \in 0 .. U64MAX /\ ideal \in Nat
    <3>1. (t.net * pct) \div 10000 \in Nat
      <4>1. t.net * pct \in Nat
        BY Grows
      <4> QED
        BY <4>1
    <3>2. Cut((t.net * pct) \div 10000) \in 0 .. U64MAX
      BY <3>1, CutLess
    <3> QED
      BY <3>2 DEF Ideal, U64MAX
  <2>3. wanted \in 0 .. U64MAX
    <3>1. CASE y > ideal
      <4>1. x * ideal \in Nat /\ y - ideal \in Nat \ {0}
        BY <2>2, <3>1, Grows
      <4>2. (x * ideal) \div (y - ideal) \in Nat
        BY <4>1, Division
      <4> QED
        BY <3>1, <4>2, CutLess DEF TokensForSell
    <3>2. CASE ~(y > ideal)
      BY <3>2, MarketAssumption DEF TokensForSell, U64MAX
    <3> QED
      BY <3>1, <3>2
  <2>4. amount \in 0 .. U64MAX /\ amount \in Nat /\ amount <= wanted
    BY <2>3, MarketAssumption DEF U64MAX
  <2>5. (y * amount) \div (x + amount) \in Nat
    BY <2>4, NeverAll
  <2>6. amount < wanted => expected \in Nat
                           /\ expected <= (y * amount) \div (x + amount)
    <3> SUFFICES ASSUME amount < wanted
                 PROVE  /\ expected \in Nat
                        /\ expected <= (y * amount) \div (x + amount)
      OBVIOUS
    <3>1. expected = Cut((y * amount) \div (x + amount))
      BY <2>1, <2>4 DEF Expected, SolForSell
    <3> QED
      BY <2>5, <3>1, CutLess
  <2>7. ~(amount < wanted) => expected = ideal /\ amount = wanted
    BY <2>3, <2>4 DEF Expected
  <2>8. WithSlippage(expected) \in Nat /\ WithSlippage(expected) <= expected
    <3>1. expected \in Nat
      BY <2>2, <2>6, <2>7
    <3> QED
      BY <3>1 DEF WithSlippage
  <2>9. quote \in Orders
    BY <2>2, <2>4, <2>8 DEF Orders
  <2>10. (y * amount) \div (x + amount) <= ideal
    BY <2>2, <2>4, SaleWithin
  <2>11. ASSUME amount < wanted
                \/ /\ y > ideal
                   /\ (x * ideal) \div (y - ideal) < Word
                   /\ amount >= 3
         PROVE  (y * amount) \div (x + amount) >= WithSlippage(expected)
    <3>1. CASE amount < wanted
      BY <2>5, <2>6, <2>8, <3>1
    <3>2. CASE ~(amount < wanted)
      <4>1. x * ideal \in Nat /\ y - ideal \in Nat \ {0}
        BY <2>2, <2>11, <3>2, Grows
      <4>2. (x * ideal) \div (y - ideal) \in Nat
        BY <4>1, Division
      <4>3. wanted = (x * ideal) \div (y - ideal)
        BY <2>11, <3>2, <4>2, CutLess DEF TokensForSell
      <4>4. WithSlippage(ideal) <= (y * amount) \div (x + amount)
        BY <2>2, <2>4, <2>7, <2>11, <3>2, <4>3, SaleMeets
      <4>5. WithSlippage(expected) = WithSlippage(ideal)
        BY <2>7, <3>2
      <4> HIDE DEF expected, ideal, amount
      <4> QED
        BY <2>5, <2>8, <4>4, <4>5
    <3> QED
      BY <3>1, <3>2
  <2>12. /\ order'.kind = "sell" /\ order'.amount = amount
         /\ order'.limit = WithSlippage(expected) /\ order'.ideal = ideal
         /\ order'.capped = (amount < wanted)
         /\ order'.sol = y /\ order'.tok = x
    BY <2>1
  <2> HIDE DEF amount, expected, ideal, wanted, quote
  <2> QED
    BY <2>1, <2>9, <2>10, <2>11, <2>12
       DEF QuoteInv, WithinBudget, NeverOverasks, BuyWithinBudget,
           QuoteMeetsMinimum, Whole
<1> QED
  BY <1>1, <1>2

\* A purchase from any reserves.
LEMMA PurchaseRight ==
  ASSUME NEW lamports \in Lamports, NEW slippage \in {0, 50},
         sol \in Nat \ {0}, tok \in Nat \ {0},
         order' = Purchase(lamports, slippage, sol, tok)
  PROVE  order' \in Orders /\ QuoteInv'
<1> DEFINE amount == TokensForBuy(lamports, sol, tok)
<1>1. lamports \in Nat \ {0} /\ lamports \in 0 .. U64MAX
  BY MarketAssumption DEF U64MAX
<1>2. amount \in 0 .. U64MAX /\ amount \in Nat
  <2>1. (tok * lamports) \div (sol + lamports) \in Nat
    BY <1>1, NeverAll
  <2>2. amount = Cut((tok * lamports) \div (sol + lamports))
    BY <1>1 DEF TokensForBuy
  <2> QED
    BY <2>1, <2>2, CutLess DEF U64MAX
<1>3. amount > 0 => amount < tok /\ SolForBuy(amount, sol, tok) <= lamports
  BY <1>1, <1>2, PurchaseWithin
<1>4. lamports + (lamports * slippage) \div 100 \in Nat
  BY <1>1
<1> HIDE DEF amount
<1>5. order' = [kind |-> "buy", amount |-> amount,
                limit |-> lamports + (lamports * slippage) \div 100,
                ideal |-> lamports, capped |-> FALSE, sol |-> sol, tok |-> tok]
  BY DEF Purchase, amount
<1>6. order' \in Orders
  BY <1>1, <1>2, <1>4, <1>5 DEF Orders
<1> QED
  BY <1>3, <1>5, <1>6
     DEF QuoteInv, WithinBudget, NeverOverasks, BuyWithinBudget,
         QuoteMeetsMinimum

LEMMA InitIInv == Init => IInv
BY MarketAssumption DEF Init, IInv, TypeOK, NetWithinReserves, RolledUpAnew,
   WithinBudget, NeverOverasks, BuyWithinBudget, QuoteMeetsMinimum, NoTx,
   NoOrder

\* A quote that is on its way is not changed.
LEMMA QuoteKept ==
  ASSUME QuoteInv, order' = order \/ order' = NoOrder
  PROVE  QuoteInv'
BY DEF QuoteInv, WithinBudget, NeverOverasks, BuyWithinBudget,
       QuoteMeetsMinimum, Whole, NoOrder

\* A trade of a transaction leaves reserves above zero and above its net.
LEMMA TradeKeeps ==
  ASSUME IInv, NEW net \in Int, net < sol',
         sol' \in Nat \ {0}, tok' \in Nat \ {0},
         tx' = RolledUp(tx, net - tx.net, sol', tok'),
         UNCHANGED <<protocol, order>>
  PROVE  IInv'
<1>1. tx.trades \in Nat /\ tx.net \in Int
  BY DEF IInv, TypeOK
<1>2. tx' = [trades |-> tx.trades + 1, net |-> net, sol |-> sol', tok |-> tok']
  BY <1>1 DEF RolledUp
<1>3. QuoteInv'
  BY QuoteKept DEF IInv, QuoteInv
<1>4. TypeOK'
  BY <1>1, <1>2 DEF IInv, TypeOK
<1> QED
  BY <1>1, <1>2, <1>3, <1>4 DEF IInv, QuoteInv, NetWithinReserves, RolledUpAnew

\* The net of what is rolled up so far is below the reserves in any case.
LEMMA NetBelow ==
  ASSUME IInv
  PROVE  tx.net \in Int /\ tx.net < sol
BY DEF IInv, TypeOK, NetWithinReserves, RolledUpAnew, NoTx

\* A quote that leaves between transactions.
LEMMA QuoteLeaves ==
  ASSUME IInv, sol' \in Nat \ {0}, tok' \in Nat \ {0}, protocol' = protocol,
         tx.trades = 0 \/ (sol' = sol /\ tok' = tok),
         tx' = tx \/ tx' = NoTx,
         order' = NoOrder \/ order' \in Orders, QuoteInv'
  PROVE  IInv'
<1>1. TypeOK'
  BY DEF IInv, TypeOK, Orders, NoTx
<1> QED
  BY <1>1 DEF IInv, QuoteInv, TypeOK, NetWithinReserves, RolledUpAnew, NoTx

LEMMA NextIInv == IInv /\ [Next]_vars => IInv'
<1> SUFFICES ASSUME IInv, [Next]_vars
             PROVE  IInv'
  OBVIOUS
<1>0. sol \in Nat \ {0} /\ tok \in Nat \ {0} /\ tx.net \in Int /\ tx.net < sol
  BY NetBelow DEF IInv, TypeOK
<1>1. ASSUME NEW dy \in Lamports, Buy(dy)
      PROVE  IInv'
  <2>1. dy \in Nat \ {0}
    BY MarketAssumption
  <2> DEFINE dx == (tok * dy) \div (sol + dy)
  <2>2. dx \in Nat /\ dx < tok
    BY <1>0, <2>1, NeverAll
  <2> HIDE DEF dx
  <2>3. /\ sol' = sol + dy /\ tok' = tok - dx
        /\ tx' = RolledUp(tx, dy, sol', tok')
        /\ UNCHANGED <<protocol, order>>
    BY <1>1 DEF Buy, dx
  <2>4. dy = (tx.net + dy) - tx.net /\ tx.net + dy \in Int
    BY <1>0, <2>1
  <2> QED
    BY <1>0, <2>1, <2>2, <2>3, <2>4, TradeKeeps
<1>2. ASSUME NEW dx \in Microtokens, Sell(dx)
      PROVE  IInv'
  <2>1. dx \in Nat \ {0}
    BY MarketAssumption
  <2> DEFINE dy == (sol * dx) \div (tok + dx)
  <2>2. dy \in Nat /\ dy < sol
    BY <1>0, <2>1, NeverAll
  <2> HIDE DEF dy
  <2>3. /\ sol' = sol - dy /\ tok' = tok + dx
        /\ tx' = RolledUp(tx, -dy, sol', tok')
        /\ UNCHANGED <<protocol, order>>
    BY <1>2 DEF Sell, dy
  <2>4. -dy = (tx.net - dy) - tx.net /\ tx.net - dy \in Int
    BY <1>0, <2>2
  <2> QED
    BY <1>0, <2>1, <2>2, <2>3, <2>4, TradeKeeps
<1>3. ASSUME NEW pct \in SellPct, NEW left \in Microtokens,
             ProcessLogs(pct, left)
      PROVE  IInv'
  <2>1. /\ tx' = NoTx /\ UNCHANGED <<protocol, sol, tok>>
        /\ tx.sol = sol /\ tx.tok = tok
    BY <1>3 DEF ProcessLogs, IInv, NetWithinReserves
  <2>2. CASE order = NoOrder /\ Triggers(tx)
    <3>1. order' = Sale(protocol, tx, pct, left)
      BY <1>3, <2>2 DEF ProcessLogs
    <3>2. tx.net \in Nat
      BY <1>0, <2>2 DEF Triggers
    <3>3. pct \in Nat /\ left \in Nat \ {0} /\ protocol \in {"curve", "pool"}
      BY MarketAssumption DEF IInv, TypeOK
    <3>4. (order' = NoOrder \/ order' \in Orders) /\ QuoteInv'
      BY <1>0, <2>1, <3>1, <3>2, <3>3, SaleRight
    <3> QED
      BY <1>0, <2>1, <3>4, QuoteLeaves
  <2>3. CASE ~(order = NoOrder /\ Triggers(tx))
    <3>1. order' = order
      BY <1>3, <2>3 DEF ProcessLogs
    <3>2. (order' = NoOrder \/ order' \in Orders) /\ QuoteInv'
      BY <3>1, QuoteKept DEF IInv, TypeOK, QuoteInv, Orders
    <3> QED
      BY <1>0, <2>1, <3>2, QuoteLeaves
  <2> QED
    BY <2>2, <2>3
<1>4. ASSUME NEW lamports \in Lamports, NEW slippage \in {0, 50},
             Activate(lamports, slippage)
      PROVE  IInv'
  <2>1. /\ order' = Purchase(lamports, slippage, sol, tok)
        /\ UNCHANGED <<protocol, sol, tok, tx>>
    BY <1>4 DEF Activate
  <2>2. order' \in Orders /\ QuoteInv'
    BY <1>0, <2>1, PurchaseRight
  <2> QED
    BY <1>0, <2>1, <2>2, QuoteLeaves
<1>5. CASE Execute
  <2>1. tx.trades = 0 /\ order' = NoOrder /\ UNCHANGED <<protocol, tx>>
    BY <1>5 DEF Execute
  <2>2. QuoteInv'
    BY <2>1, QuoteKept DEF IInv, QuoteInv
  <2>3. order.kind \in {"sell", "buy"} => order.amount \in Nat
    BY MarketAssumption DEF IInv, TypeOK, NoOrder, U64MAX
  <2>4. sol' \in Nat \ {0} /\ tok' \in Nat \ {0}
    <3>1. CASE order.kind = "sell" /\ sol' = sol - Proceeds
               /\ tok' = tok + order.amount
      <4>1. Proceeds \in Nat /\ Proceeds < sol
        BY <1>0, <2>3, <3>1, NeverAll DEF Proceeds
      <4> QED
        BY <1>0, <2>3, <3>1, <4>1
    <3>2. CASE order.kind = "buy" /\ order.amount < tok
               /\ sol' = sol + Cost /\ tok' = tok - order.amount
      <4>1. sol * order.amount \in Nat /\ tok - order.amount \in Nat \ {0}
        BY <1>0, <2>3, <3>2, Grows
      <4>2. Cost \in Nat \ {0}
        BY <4>1, Division DEF Cost
      <4> QED
        BY <1>0, <2>3, <3>2, <4>1, <4>2
    <3> QED
      BY <1>5, <3>1, <3>2 DEF Execute
  <2> QED
    BY <2>1, <2>2, <2>4, QuoteLeaves
<1>6. CASE Refuse
  <2>1. order' = NoOrder /\ UNCHANGED <<protocol, sol, tok, tx>>
    BY <1>6 DEF Refuse
  <2>2. QuoteInv'
    BY <2>1, QuoteKept DEF IInv, QuoteInv
  <2> QED
    BY <1>0, <2>1, <2>2, QuoteLeaves
<1>7. CASE UNCHANGED vars
  <2>1. QuoteInv'
    BY <1>7, QuoteKept DEF vars, IInv, QuoteInv
  <2>2. order' = NoOrder \/ order' \in Orders
    BY <1>7 DEF vars, IInv, TypeOK, Orders
  <2> QED
    BY <1>0, <1>7, <2>1, <2>2, QuoteLeaves DEF vars
<1> QED
  BY <1>1, <1>2, <1>3, <1>4, <1>5, <1>6, <1>7 DEF Next

LEMMA Invariance == Spec => []IInv
BY InitIInv, NextIInv, PTL DEF Spec

-----------------------------------------------------------------------------
\* The roll-up of a transaction and the market are in step: the net a
\* countersell reacts to is less than the reserves it divides by.
THEOREM MarketConsistent == Spec => []Consistent
<1>1. IInv => Consistent
  BY DEF IInv, Consistent
<1> QED
  BY <1>1, Invariance, PTL

\* No order trades for more SOL than it was to, at the reserves it was quoted
\* from, whatever was rounded, capped or cut to 64 bits.
THEOREM BudgetKept == Spec => []WithinBudget
<1>1. IInv => WithinBudget
  BY DEF IInv
<1> QED
  BY <1>1, Invariance, PTL

\* The minimum that a sale asks for is met by the market it was quoted from.
THEOREM MinimumMet == Spec => []QuoteMeetsMinimum
<1>1. IInv => QuoteMeetsMinimum
  BY DEF IInv
<1> QED
  BY <1>1, Invariance, PTL
=============================================================================
