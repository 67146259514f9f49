----------------------------- MODULE Countersell ----------------------------
(***************************************************************************)
(* The Countersell trade (trades/src/examples/countersell): the sell       *)
(* orders of one wallet on one token.  A net buy seen in a transaction's   *)
(* logs triggers at most one order, for which a warrant (ExecutionOrder)   *)
(* is issued; the amount is booked as pending until the executor reports   *)
(* the warrant CONFIRMED or FAILED.  What the chain makes of the warrants  *)
(* before and after their reports is module Chain's.                       *)
(*                                                                         *)
(* One actor task owns the trade and handles one mailbox message at a      *)
(* time, so every handler below is one step.  The Vec of orders is the     *)
(* sequence of every order ever pushed together with the set of positions  *)
(* still in the Vec: a push appends, a retain shrinks the set, and the Vec *)
(* order is the order of the positions.                                    *)
(*                                                                         *)
(* Abstracted: prices.  The tokens that match a net buy (the price         *)
(* calculator's answer) are any member of Quote.  Left to other modules:   *)
(* the token context and its migration (a migration event changes nothing  *)
(* here) and the route between the trade and the executor.                 *)
(***************************************************************************)
EXTENDS Integers, Sequences, FiniteSets, Chain

CONSTANTS Holdings,       \* initial_holdings_microtokens
          MaxToSell,      \* max_to_sell_microtokens of each order
          McapThreshold,  \* mcap_threshold_lamports of each order
          BuyThreshold,   \* buy_threshold_lamports of each order
          MaxOrders,      \* add_order refuses an order beyond this many
          MaxFailures,    \* MAX_CONSECUTIVE_FAILURES
          Word,           \* 2^64: the counters are u64
          NetBuy, Mcap,   \* net lamports and final market caps of transactions
          Quote           \* ideal token amounts the price calculator returns

ASSUME CountersellAssumption ==
    /\ Holdings \in Nat
    /\ MaxToSell \in [OrderId -> Nat]
    /\ McapThreshold \in [OrderId -> Nat]
    /\ BuyThreshold \in [OrderId -> Nat]
    /\ MaxOrders \in Nat \ {0}
    /\ MaxFailures \in Nat \ {0}
    /\ Word \in Nat
    /\ Holdings < Word
    /\ \A o \in OrderId : MaxToSell[o] < Word
    /\ NetBuy \subseteq Int
    /\ Mcap \subseteq Nat
    /\ Quote \subseteq Nat

VARIABLES entries,       \* every order ever pushed: [id, sold, pending]
          live,          \* positions of the entries still in the Vec
          totalSold,     \* total_microtokens_sold
          totalPending,  \* total_microtokens_pending
          failures,      \* consecutive_failures
          complete,      \* is_complete
          warrants,      \* warrants whose terminal result nobody has seen
          issued,        \* number of warrants ever issued
          status,        \* position_order.status, as Hermes last wrote it
          dbSold         \* position_order.token_amount_microtokens, negated

tradeVars == <<entries, live, totalSold, totalPending, failures, complete>>
dbVars    == <<status, dbSold>>
vars == <<tradeVars, dbVars, reportVars, warrants, issued, chainVars>>

Status == {"CREATED", "ACTIVE", "COMPLETED", "CANCELLED", "DELETED"}
OrderState == [id : OrderId, sold : Nat, pending : Nat]

-----------------------------------------------------------------------------
(* u64 arithmetic: plain operators wrap in a release build, saturating_sub *)
(* stops at zero.                                                          *)

AddW(a, b) == IF a + b < Word THEN a + b ELSE a + b - Word
\* Slip: the operands of the release of pending tokens swapped.
SubWSwapped(a, b) == IF a <= b THEN b - a ELSE b - a + Word
SubW(a, b) == IF b <= a THEN a - b ELSE a - b + Word
Monus(a, b) == IF b <= a THEN a - b ELSE 0
Least(a, b) == IF b < a THEN b ELSE a

-----------------------------------------------------------------------------
NewOrder(o) == [id |-> o, sold |-> 0, pending |-> 0]

\* Slip: the tokens of an order that are already pending are offered again.
RoomIgnoresPending(e) == Monus(MaxToSell[e.id], e.sold)

Room(e) == Monus(MaxToSell[e.id], AddW(e.sold, e.pending))

\* orders.iter().find(|o| o.order_id == id)
Found(i, o) == /\ i \in live
               /\ entries[i].id = o
               /\ \A j \in live : entries[j].id = o => i <= j

Absent(o) == \A i \in live : entries[i].id # o

\* get_triggered_orders
Triggered(net, mcap) ==
    {i \in live : /\ net > 0
                  /\ Room(entries[i]) > 0
                  /\ mcap >= McapThreshold[entries[i].id]
                  /\ net >= BuyThreshold[entries[i].id]}

\* The first triggered order after the stable sort by market cap threshold.
HighestPriority(k, T) ==
    /\ k \in T
    /\ \A j \in T : LET tk == McapThreshold[entries[k].id]
                        tj == McapThreshold[entries[j].id]
                    IN  tk < tj \/ (tk = tj /\ k <= j)

\* The status rows after status s was written for the orders at positions P.
Marked(st, P, s) ==
    [o \in OrderId |-> IF \E i \in P : entries[i].id = o THEN s ELSE st[o]]

-----------------------------------------------------------------------------
(* A trade starts with the one order it was created for; initialize marks  *)
(* it ACTIVE.                                                              *)
NewTrade(o) ==
    /\ entries = <<NewOrder(o)>>
    /\ live = {1}
    /\ totalSold = 0
    /\ totalPending = 0
    /\ failures = 0
    /\ complete = FALSE

Init ==
    \E o \in OrderId :
      /\ NewTrade(o)
      /\ warrants = {}
      /\ issued = 0
      /\ status = [p \in OrderId |-> IF p = o THEN "ACTIVE" ELSE "CREATED"]
      /\ dbSold = [p \in OrderId |-> 0]
      /\ ChainInit

-----------------------------------------------------------------------------
(* process_logs: a transaction with net buy net and final market cap mcap  *)
(* triggers orders, and issue_warrant books and emits a warrant for the    *)
(* one of highest priority.  A transaction that triggers nothing, or whose *)
(* amount comes to zero, changes nothing.                                  *)

\* Slip: the wallet cap forgets the tokens that are already pending.
AmountIgnoresPending(i, ideal) ==
    Least(Least(ideal, Room(entries[i])), Monus(Holdings, totalSold))

Amount(i, ideal) ==
    Least(Least(ideal, Room(entries[i])),
          Monus(Holdings, AddW(totalSold, totalPending)))

Book(i, w) ==
    /\ w.order = entries[i].id
    /\ w.amount > 0
    /\ entries' = [entries EXCEPT ![i].pending = @ + w.amount]
    /\ totalPending' = AddW(totalPending, w.amount)
    /\ UNCHANGED <<live, totalSold, failures, complete>>

IssueWarrant(net, mcap, ideal) ==
    /\ ~complete
    /\ \E k \in Triggered(net, mcap) :
       /\ HighestPriority(k, Triggered(net, mcap))
       /\ \E i \in live :
          /\ Found(i, entries[k].id)
          /\ LET w == [n |-> issued + 1, order |-> entries[i].id,
                       amount |-> Amount(i, ideal)]
             IN  /\ Book(i, w)
                 /\ warrants' = warrants \cup {w}
    /\ issued' = issued + 1
    /\ UNCHANGED <<dbVars, reportVars, chainVars>>

-----------------------------------------------------------------------------
(* on_result, stage Confirmed.  The pending amount is released and booked  *)
(* as sold before the transaction's details are fetched; when the fetch    *)
(* (or its parsing) fails, the handler returns there, with nothing written *)
(* to the database and without the completion check.                       *)

\* Slip: the sale is booked and the order's pending amount kept.
SellKeepsPending(r, i) ==
    entries' = [entries EXCEPT ![i].sold = @ + r.amount]

Sell(r, i) ==
    entries' = [entries EXCEPT ![i].pending = Monus(@, r.amount),
                               ![i].sold = @ + r.amount]

\* Slip: tokens still pending count towards the order's completion.
ReachesMaxWithPending(r, i) ==
    entries[i].sold + entries[i].pending >= MaxToSell[r.order]

ReachesMax(r, i) == entries[i].sold + r.amount >= MaxToSell[r.order]

RecordSale(r, i) ==
    /\ dbSold' = [dbSold EXCEPT ![r.order] = @ + r.amount]
    /\ Sell(r, i)

\* Slip: an order whose tokens are all sold or pending leaves the Vec.
CheckCompletionEarly(st) ==
    LET remaining == {i \in live : Room(entries'[i]) > 0}
        exhausted == totalSold' >= Holdings
    IN  /\ live' = remaining
        /\ complete' = (remaining = {} \/ exhausted)
        /\ status' = IF exhausted THEN Marked(st, remaining, "CANCELLED") ELSE st

\* The end of the handler: st is the status column so far.
CheckCompletion(st) ==
    LET remaining == {i \in live : entries'[i].sold < MaxToSell[entries[i].id]}
        exhausted == totalSold' >= Holdings
    IN  /\ live' = remaining
        /\ complete' = (remaining = {} \/ exhausted)
        /\ status' = IF exhausted THEN Marked(st, remaining, "CANCELLED") ELSE st

OnConfirmed(r, fetched) ==
    /\ failures' = 0
    /\ totalPending' = SubW(totalPending, r.amount)
    /\ totalSold' = AddW(totalSold, r.amount)
    /\ \/ \E i \in live :
          /\ Found(i, r.order)
          /\ fetched
          /\ RecordSale(r, i)
          /\ CheckCompletion(
               IF ReachesMax(r, i)
               THEN [status EXCEPT ![r.order] = "COMPLETED"] ELSE status)
       \/ \E i \in live :
          /\ Found(i, r.order)
          /\ ~fetched
          /\ Sell(r, i)
          /\ UNCHANGED <<live, complete, dbVars>>
       \/ /\ Absent(r.order)
          /\ UNCHANGED <<entries, dbSold>>
          /\ CheckCompletion(status)

-----------------------------------------------------------------------------
(* on_result, stage Failed: the amount is released; too many failures in a *)
(* row, or an exhausted wallet, cancel whatever orders are left.           *)

\* Slip: the orders of a trade that gives up are not cancelled in the database.
GiveUpSilently == /\ live' = {}
                  /\ complete' = TRUE
                  /\ UNCHANGED status

GiveUp == /\ live' = {}
          /\ complete' = TRUE
          /\ status' = Marked(status, live, "CANCELLED")

\* Slip: a failed warrant releases the order's tokens, not the trade's.
OnFailedKeepsTotal(r) ==
    /\ failures' = failures + 1
    /\ UNCHANGED <<totalPending, totalSold, dbSold>>
    /\ \/ \E i \in live :
          /\ Found(i, r.order)
          /\ entries' = [entries EXCEPT ![i].pending = Monus(@, r.amount)]
       \/ /\ Absent(r.order)
          /\ UNCHANGED entries
    /\ IF failures + 1 >= MaxFailures \/ totalSold >= Holdings
       THEN GiveUp
       ELSE UNCHANGED <<live, complete, status>>

OnFailed(r) ==
    /\ failures' = failures + 1
    /\ totalPending' = SubW(totalPending, r.amount)
    /\ UNCHANGED <<totalSold, dbSold>>
    /\ \/ \E i \in live :
          /\ Found(i, r.order)
          /\ entries' = [entries EXCEPT ![i].pending = Monus(@, r.amount)]
       \/ /\ Absent(r.order)
          /\ UNCHANGED entries
    /\ IF failures + 1 >= MaxFailures \/ totalSold >= Holdings
       THEN GiveUp
       ELSE UNCHANGED <<live, complete, status>>

-----------------------------------------------------------------------------
(* The executor's result reaches the trade while it runs.                  *)
Confirm(r, fetched) ==
    /\ ~complete
    /\ warrants' = warrants \ {r}
    /\ OnConfirmed(r, fetched)
    /\ ReportConfirmed(r)
    /\ UNCHANGED issued

Fail(r) ==
    /\ ~complete
    /\ warrants' = warrants \ {r}
    /\ OnFailed(r)
    /\ ReportFailed(r)
    /\ UNCHANGED issued

\* A result for a trade that has completed: Buffett finds no actor for it and
\* drops it, but what the chain did stands.
DropResult(r, isConfirmed) ==
    /\ complete
    /\ warrants' = warrants \ {r}
    /\ IF isConfirmed THEN ReportConfirmed(r) ELSE ReportFailed(r)
    /\ UNCHANGED <<tradeVars, dbVars, issued>>

\* The chain executes a warrant, or what it takes for one, whether or not there
\* is a trade that waits for the result.
Landing ==
    /\ \/ \E w \in warrants : Execute(w)
       \/ \E s \in late \cup {SaleOf(w) : w \in executed} : ExecuteMore(s)
    /\ UNCHANGED <<tradeVars, dbVars, reportVars, warrants, issued>>

-----------------------------------------------------------------------------
(* add_order and remove_order.                                             *)

\* Slip: the limit on a trade's orders is met one order early.
AddOrderOneLess(o) ==
    IF Cardinality(live) + 1 >= MaxOrders
    THEN UNCHANGED <<tradeVars, dbVars>>
    ELSE /\ entries' = Append(entries, NewOrder(o))
         /\ live' = live \cup {Len(entries) + 1}
         /\ status' = [status EXCEPT ![o] = "ACTIVE"]
         /\ UNCHANGED <<totalSold, totalPending, failures, complete, dbSold>>

AddOrder(o) ==
    IF Cardinality(live) >= MaxOrders
    THEN UNCHANGED <<tradeVars, dbVars>>
    ELSE /\ entries' = Append(entries, NewOrder(o))
         /\ live' = live \cup {Len(entries) + 1}
         /\ status' = [status EXCEPT ![o] = "ACTIVE"]
         /\ UNCHANGED <<totalSold, totalPending, failures, complete, dbSold>>

\* Slip: an order that is not in the Vec is marked CANCELLED all the same.
RemoveOrderUnchecked(o) ==
    /\ live' = {i \in live : entries[i].id # o}
    /\ status' = [status EXCEPT ![o] = "CANCELLED"]
    /\ complete' = (complete \/ live' = {})
    /\ UNCHANGED <<entries, totalSold, totalPending, failures, dbSold>>

RemoveOrder(o) ==
    IF Absent(o)
    THEN UNCHANGED <<tradeVars, dbVars>>
    ELSE /\ live' = {i \in live : entries[i].id # o}
         /\ status' = [status EXCEPT ![o] = "CANCELLED"]
         /\ complete' = (complete \/ live' = {})
         /\ UNCHANGED <<entries, totalSold, totalPending, failures, dbSold>>

\* Here an order is accepted once; what a repeated delivery does is the
\* business of the modules that model the route to the actor.
Add(o) ==
    /\ ~complete
    /\ status[o] = "CREATED"
    /\ \A i \in 1 .. Len(entries) : entries[i].id # o
    /\ AddOrder(o)
    /\ UNCHANGED <<warrants, issued, reportVars, chainVars>>

Remove(o) ==
    /\ ~complete
    /\ RemoveOrder(o)
    /\ UNCHANGED <<warrants, issued, reportVars, chainVars>>

-----------------------------------------------------------------------------
Next ==
    \/ \E net \in NetBuy, mcap \in Mcap, ideal \in Quote :
         IssueWarrant(net, mcap, ideal)
    \/ \E r \in warrants, fetched \in BOOLEAN : Confirm(r, fetched)
    \/ \E r \in warrants : Fail(r)
    \/ \E r \in warrants, isConfirmed \in BOOLEAN : DropResult(r, isConfirmed)
    \/ Landing
    \/ \E o \in OrderId : Add(o) \/ Remove(o)

Spec == Init /\ [][Next]_vars

-----------------------------------------------------------------------------
TradeTypeOK ==
    /\ entries \in Seq(OrderState)
    /\ live \subseteq 1 .. Len(entries)
    /\ totalSold \in Nat
    /\ totalPending \in Nat
    /\ failures \in Nat
    /\ complete \in BOOLEAN
    /\ warrants \in SUBSET Claim(OrderId)
    /\ issued \in Nat
    /\ status \in [OrderId -> Status]
    /\ dbSold \in [OrderId -> Nat]
    /\ confirmed \in Nat
    /\ confirmedBy \in [OrderId -> Nat]

TypeOK == /\ TradeTypeOK
          /\ totalSold < Word
          /\ totalPending < Word
          /\ ChainTypeOK
          /\ executed \subseteq warrants

(* No u64 wraps, and no saturating_sub hides a mismatch.  What is added up *)
(* (sold and pending, of an order and of the trade) stays within a limit   *)
(* below Word; and every result that may come releases no more than is     *)
(* pending, of the trade, where the subtraction is a plain one, and of the *)
(* order, where it saturates.  It takes the accounts of all warrants in    *)
(* flight to be right over removals, failures and completions.             *)
NoWrap ==
    /\ \A i \in live :
         /\ entries[i].sold + entries[i].pending <= MaxToSell[entries[i].id]
         /\ \A w \in warrants :
              w.order = entries[i].id => w.amount <= entries[i].pending
    /\ ~complete => /\ totalSold + totalPending <= Holdings
                    /\ \A w \in warrants : w.amount <= totalPending

WithinWord == TypeOK /\ NoWrap

(* The counters the amounts of every warrant are computed from are exact.  *)
(* While the trade runs, what is pending is what the unsettled warrants    *)
(* add up to, and the chain has taken what is booked as sold, what was     *)
(* executed and not reported yet, and the surplus: nothing else.  Losing   *)
(* either lets issue_warrant sell tokens twice, or wraps the counter.      *)
CountersExact ==
    ~complete => /\ totalPending = Total(warrants)
                 /\ landed = totalSold + Total(executed) + surplus

(* The same for each order in the Vec.                                     *)
OrdersExact ==
    \A i \in live :
      LET o == entries[i].id
      IN  /\ entries[i].pending = Total(ClaimsOf(warrants, o))
          /\ landedBy[o]
               = entries[i].sold + Total(ClaimsOf(executed, o)) + surplusBy[o]

(* Both together.                                                          *)
AmountsExact == CountersExact /\ OrdersExact

(* A trade that ends without cancelling an order leaves no warrant behind: *)
(* no result will arrive for an actor that is gone, to be dropped by       *)
(* Buffett with the sale unrecorded.                                       *)
SettledCompletion ==
    complete /\ (\A o \in OrderId : status[o] # "CANCELLED") => warrants = {}

(* An order is reported COMPLETED only when its confirmed sales, each of   *)
(* them executed by the chain, make up all it was allowed to sell,         *)
(* whatever fetches failed on the way; and the amount recorded for an      *)
(* order never exceeds them.                                               *)
CompletedIsSold ==
    \A o \in OrderId :
      /\ status[o] = "COMPLETED" => confirmedBy[o] >= MaxToSell[o]
      /\ dbSold[o] <= confirmedBy[o]

(* When the trade is over, an order is left ACTIVE in the database only    *)
(* because the details of one of its confirmed sales could not be fetched, *)
(* or because it had nothing to sell from the start.                       *)
OrphanOnlyUnrecorded ==
    complete =>
      \A o \in OrderId :
        status[o] = "ACTIVE" => dbSold[o] < confirmedBy[o] \/ MaxToSell[o] = 0

(* The rows tell what became of each order: COMPLETED is earned, no more   *)
(* is recorded than was sold, and only a lost record leaves one ACTIVE.    *)
RowsEarned == CompletedIsSold /\ OrphanOnlyUnrecorded

(* COMPLETED and CANCELLED are final: a late result, a removal or the end  *)
(* of the trade never overwrites them.                                     *)
FinalStatus ==
    [][\A o \in OrderId :
         status[o] \in {"COMPLETED", "CANCELLED"} => status'[o] = status[o]]_vars

-----------------------------------------------------------------------------
(* The trade implements the ledger: a warrant is a reservation, drawn on   *)
(* when the chain executes it and closed by its result.                    *)
Ledger == INSTANCE SellLedger
            WITH Owner <- OrderId, Limit <- MaxToSell,
                 claims <- warrants, drawn <- executed,
                 taken <- landed, takenBy <- landedBy, next <- issued

\* Seen from outside, every step of the trade and of the chain reserves, draws,
\* settles or releases tokens as the ledger allows, even after orders were
\* removed and after the trade has completed: a reservation is made only when
\* what was taken and is reserved leaves room for it, the surplus aside.
ImplementsLedger == Ledger!LedgerSpec

\* What the chain has taken and may still take by a warrant in flight exceeds
\* the wallet's holdings and each order's limit by the surplus at most, also
\* when orders were removed, or the trade gave up, under warrants that landed
\* later.  The surplus itself cannot be avoided: see the run of module
\* Guillotine that shows a warrant executed twice.
NeverOversold == Ledger!WithinHoldings /\ Ledger!WithinLimits

-----------------------------------------------------------------------------
(* The inductive invariant of the proofs.                                  *)

\* An order pushed so far: the positions of the Vec's history.
Pushed(o) == \E i \in 1 .. Len(entries) : entries[i].id = o

\* Warrant numbers are never reused, and an order is pushed at most once.
Unique ==
    /\ IsFiniteSet(Units(warrants))
    /\ \A w \in warrants : w.n <= issued
    /\ \A i, j \in 1 .. Len(entries) : entries[i].id = entries[j].id => i = j

\* Warrants, sales and an ACTIVE status exist for pushed orders only.
PushedFirst ==
    \A o \in OrderId : ~Pushed(o) =>
      /\ ClaimsOf(warrants, o) = {}
      /\ confirmedBy[o] = 0
      /\ status[o] # "ACTIVE"

\* The counters against the warrants and the reports, the chain left aside.
CountersBooked ==
    ~complete => /\ totalPending = Total(warrants)
                 /\ totalSold = confirmed

OrdersBooked ==
    \A i \in live :
      /\ entries[i].pending = Total(ClaimsOf(warrants, entries[i].id))
      /\ entries[i].sold = confirmedBy[entries[i].id]

\* Every token confirmed or yet to be confirmed is covered, by the wallet and
\* by its order's limit.
Covered ==
    /\ confirmed + Total(warrants) <= Holdings
    /\ \A o \in OrderId :
         confirmedBy[o] + Total(ClaimsOf(warrants, o)) <= MaxToSell[o]

\* Why an order is still in the Vec, or has left it.
LiveActive ==
    \A i \in live :
      status[entries[i].id] = (IF complete THEN "CANCELLED" ELSE "ACTIVE")

GoneDone ==
    \A i \in 1 .. Len(entries) : i \notin live =>
      LET o == entries[i].id
      IN  status[o] = "CANCELLED" \/ confirmedBy[o] >= MaxToSell[o]

\* A trade ends with an empty Vec or an exhausted wallet.
CompleteWhy == complete => live = {} \/ confirmed >= Holdings

\* An order that sold all it may is still ACTIVE only for want of a record.
ActiveUnrecorded ==
    \A o \in OrderId :
      status[o] = "ACTIVE" /\ confirmedBy[o] >= MaxToSell[o]
        => dbSold[o] < confirmedBy[o] \/ MaxToSell[o] = 0

IInv == /\ TradeTypeOK
        /\ Unique
        /\ PushedFirst
        /\ CountersBooked
        /\ OrdersBooked
        /\ Covered
        /\ LiveActive
        /\ GoneDone
        /\ CompleteWhy
        /\ CompletedIsSold
        /\ ActiveUnrecorded

\* The chain's side: whatever landed is confirmed, awaits its report, or is
\* surplus.
ChainInv == /\ ChainTypeOK
            /\ executed \subseteq warrants
            /\ Accounted
            /\ \A s \in late : s.amount <= Holdings

InWords == totalSold <= Holdings /\ totalPending <= Holdings
=============================================================================
