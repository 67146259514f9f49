# Contra in TLA+

Contra trades tokens on Solana from pre-configured orders. A web API stores
orders and puts messages on a queue; a Rust backend takes them, watches every
transaction of the two exchanges it knows (pump.fun and PumpSwap), decides when
an order should sell or buy, signs and submits, and records what happened. This
directory is a verification project for it: TLA+ modules translated from the
source, TLC configurations that check them on small instances, and proofs that
TLAPS checks for every instance. Paths below are relative to the repository's
`src/backend` unless they start with another directory of `src`.

## The system

| component | state it keeps | operations | talks to |
|---|---|---|---|
| Janus (`janus`) | none | receive, parse, forward, then delete a queue message | commands to Buffett |
| Buffett (`buffett`) | registry of actors, subscriptions per token, pool map with reference counts | create or extend a trade, remove an order, complete a trade, forward an order, route logs, route results | mailboxes of the actors, wallet manager, Guillotine, Hermes |
| Trade actor (`trades/src/actor.rs`) | one trade, one mailbox | initialize, activate, one message at a time, completion, clean-up | commands to Buffett, Shylock |
| Countersell (`trades/src/examples/countersell`) | orders with sold and pending amounts, totals, failures, completion | react to a net buy, result CONFIRMED or FAILED, add, remove | Hermes, Shylock |
| One-shots (`trades/src/examples/oneshot`) | completion | one order on activation, its result | Hermes, Shylock |
| Guillotine (`guillotine`) | decrypted signers; one task per order | prepare and destroy a signer; plan, sign, submit, retry, report | results to Buffett, the chain, RPC (its docs say it makes no RPC call; the code does) |
| Shylock (`shylock`) | token contexts with reference counts, fee config | register, deregister, poll, fetch | RPC |
| Hermes (`hermes`) | none (the database) | order status, amounts, transactions, logs | PostgreSQL |
| Ticker (`ticker`) | two websocket streams | forward every transaction's logs | Buffett |
| Price calculator (`trades/src/price_calculator.rs`) | none | integer quotes from reserves | trades |
| Rosetta, detector | none | parsing, one-off reads | trades |
| API (`api`) | the database | create, change and delete orders, wallets, tokens | queue |
| User interface (`ui`) | a reconnecting websocket, React state | - | API |

Everything in the backend runs as tokio tasks joined by unbounded FIFO
channels. Buffett is one task that takes from three channels in any order
(`select!`) and blocks inside a creation while it waits for the wallet manager.
Each trade's state belongs to its actor alone; what is shared is the signer map
(wallet manager and execution tasks), the registry (Buffett only, behind locks)
and Shylock's maps (its loop and its poller).

What is hard, and what correctness means, component by component:

- **Countersell**: several warrants in flight, results in any order and of
  either kind, a fetch that may fail after the sale was booked, removals and
  the trade's own end under warrants that land later. Never sell more than the
  wallet or the order allows, except by what is executed twice or after it was
  reported FAILED; counters that match what is in flight; statuses that say
  what happened and stay.
- **Buffett and its tasks**: a creation that starts an actor before the signer
  is asked for; completions, results and removals that name a trade id and may
  arrive when it means another actor; at-least-once delivery; signers shared by
  trades that come and go. Exact routes, a signer whenever one is needed, no
  key left behind, no registration taken from its owner, everything ends.
- **Guillotine**: a submission that times out after it landed, retries with a
  new blockhash, plans that fail without a result. Reports that are true, one
  terminal report, and an end to every task that submitted.
- **Shylock**: reference counts against queued commands, a fetch that blocks the
  loop, a poller that writes what it asked for earlier, a migration in between.
- **One-shots and Hermes**: a creation that comes twice, a result for an actor
  that was replaced, a query that fails, colliding keys in the table. Rows that
  say what was traded.
- **Prices and plans**: truncating divisions, cuts to 64 bits and unsigned
  differences at the edges; the order of a transaction's instructions.
- **API**: awaited calls of several requests interleave, an order is committed
  before its message is sent, a queue that reorders.

`PROJECT.json` lists every component with its status and every hazard at its
line, with the properties that cover it or the reason why none does.

## Modules

| module | what it is |
|---|---|
| `Claims` | amounts set aside, summed without recursion; shared vocabulary |
| `Chain` | what the chain makes of a warrant before and after its report; shared vocabulary |
| `SellLedger` | abstract specification: what a selling position promises |
| `Countersell` | extends `Chain`: the trade, one action per handler; implements `SellLedger` |
| `Position` | extends `Countersell`: the same trade behind Janus' queue, Buffett's registry, its actor's mailbox and the executor |
| `Buffett` | the orchestrator, the actors' loop, the signer store, execution tasks |
| `Execution` | abstract specification: what an executor promises about a warrant |
| `Guillotine` | the task of an order with its retries, against a chain that decides late; implements `Execution` |
| `Leases` | abstract specification: data is cached exactly while somebody holds a lease |
| `Shylock` | the cache's loop, its poller and the actors that use it; implements `Leases` |
| `Hermes` | the writer of orders and transactions |
| `OneShot` | extends `Hermes`: buy and sell orders from the queue to the tables |
| `Market` | price calculator, roll-up of events, amounts of an order, against a pool that moves |
| `Swap` | the instructions of a plan and what they do to the wallet |
| `Api` | the requests of one account, the database, the queue and the engine |
| `MC*` | instances for TLC |
| `CountersellProofs`, `PositionProofs`, `BuffettProofs`, `OneShotProofs`, `GuillotineProofs`, `ShylockProofs`, `MarketProofs`, `ApiProofs` | theorems and proofs |

The modules meet at the messages between components: a warrant of `Countersell`
is an order of execution in `Guillotine`; what `Buffett` leaves to choice in a
trade, `Position` and `OneShot` spell out, and those leave out the signers that
`Buffett` has. An operator commented `Slip` is a variant of the action after it
with a plausible mistake; no next-state relation uses one, they show that the
properties notice it.

### Countersell

| model | code |
|---|---|
| `entries`, `live` | the `Vec<OrderState>`: every order ever pushed, and the positions still in the Vec |
| `totalSold`, `totalPending`, `failures`, `complete` | the struct's fields of those names |
| `warrants`, `issued` | `ExecutionOrder`s sent whose terminal result nobody has seen |
| `status`, `dbSold` | the order's row, as Hermes's three order commands write it |
| `confirmed`, `confirmedBy` | what the executor has reported CONFIRMED |
| `executed`, `late` | external: warrants the chain has executed and nobody reported yet; submissions of reported warrants that may still land |
| `landed`, `surplus` | external: what the chain has taken from the wallet; the part of it that no confirmation accounts for |
| `IssueWarrant` | `process_logs`, `get_triggered_orders`, `issue_warrant` |
| `Confirm`, `Fail` | `on_result`, with the completion check and the give-up branch |
| `DropResult` | a result for a trade that has ended (Buffett finds no actor) |
| `Landing` | external: the chain executes a warrant, a second attempt of it, or an attempt of one that was reported |
| `Add`, `Remove` | `add_order`, `remove_order` |

An actor handles one message at a time, so each handler is one step. The
handler of a confirmation books the sale first and fetches the transaction
second; a failed fetch returns early, and `OnConfirmed` has that early return.
u64 `+=` and `-=` wrap (`AddW`, `SubW`, as a release build does), `saturating_sub`
does not (`Monus`). The price calculator's answer is any member of `Quote`.

The executor does not know what the chain does. The retry loop of `process_order`
(`guillotine/src/executor.rs:217`) signs each attempt with a fresh blockhash, so
several attempts of one warrant can land; it reports CONFIRMED when it has seen
one land, FAILED when it gives up, and an attempt that timed out may land before
or after that. `Chain` has all of it: a report CONFIRMED needs an execution, a
report FAILED may come with one, without one, or before one, and a further
execution may come at any time. What no confirmation accounts for is counted as
`surplus`, per order too, and bounded by `MaxSurplus` in place of a count of
attempts. No property assumes that surplus away: the ones about what was sold
say how much of it there is. A dry run, which confirms what was never sent, is in
`Guillotine`.

### Buffett

| model | code |
|---|---|
| `actors`, `subs`, `poolRef` | `actors`, `market_subscriptions`, `pool_to_mint_map` |
| `commands`, `results`, `walletCmds`, `reply` | the channels of those types |
| `creating` | Buffett inside `create_new_trade`, at `rx.await` |
| `signers` | the shared map of decrypted keys |
| `tasks` | every actor spawned, with its phase and its mailbox |
| `orders` | `process_order` tasks, before and after the signer was read |
| `HandleCreate`, `Created`, `AbortCreation` | `handle_create_trade` up to its await, and after it |
| `HandleComplete`, `HandleRemove`, `HandleForward` | the other arms for commands |
| `RouteLogs`, `RouteResult` | `route_transaction_logs`, the arm for results |
| `Prepare`, `Destroy` | `wallet_manager_loop` |
| `Start`, `Handle`, `Complete`, `ShutDown` | `TradeActor::run` |
| `PlanFails`, `Sign`, `Unsigned`, `Submit` | `process_order`, in live mode |
| `Deliver`, `DeliverRemoval` | Janus, with any message delivered again |

What a trade decides is abstracted to what its kind can do (a countersell may
order on logs and complete on a result or a removal, a one-shot orders on
activation and completes on its result). While Buffett awaits the signer it
takes from no channel; actors, wallet manager and execution tasks go on. The
build of a trade, which only Buffett waits for and which reads nothing the model
keeps, is part of the step that registers it; that every creation whose build
succeeds has a key to send rests on both reading the same configuration.
SUBMITTED results change no state and are left out. So are `DeleteTrade`, which
nothing sends, and completion during activation, which no trade here reaches.

### Position

| model | code |
|---|---|
| `actor`, `mailbox`, `commands`, `results` | registry entry and task, `mpsc` channels |
| `DeliverCreation`, `DeliverRemoval`, `RouteLogs` | Janus and the ticker; each creation, removal and transaction may come again, a removal before its creation |
| `HandleAdd`, `HandleNew`, `HandleNewFails` | `handle_create_trade`: to the registered actor, a new trade, one that cannot be initialized |
| `HandleNewAborted` | `create_new_trade` when the signer cannot be prepared: the actor was spawned, its registration is taken back |
| `orphans`, `OrphanActivates`, `OrphanFails` | such an actor: `initialize` marks its order ACTIVE, or fails; then its mailbox is closed |
| `HandleRemove`, `HandleForward`, `HandleComplete`, `RouteResult` | the other arms of `command_loop`, the removal's `DELETED` without an actor included |
| `ReadLogs`, `SkipLogs`, `ReadAdd`, `ReadRemove`, `ReadConfirmed`, `ReadFailed` | `TradeActor::run` around the handlers of `Countersell`, with the completion that follows |
| `Accept`, `Reject` | the executor's reports CONFIRMED and FAILED, with `Chain`'s `ReportConfirmed` and `ReportFailed` |
| `ChainExecutes` | external: `Chain`'s executions, as long as the wallet can pay |
| `earlier`, `stray`, `orphaned` | history: warrants of the trades this id named before, tokens of their results that a later trade took, orders an orphan marked ACTIVE |

While Buffett waits for the signer its loop handles nothing else, so nothing is
sent to an actor between its registration and the abort, which are one step here.

### Guillotine

| model | code |
|---|---|
| `task`, `retries` | `process_order` with the retry loop in it (`executor.rs:217-285`), between its awaits |
| `Plan`, `PlanFails`, `DryRun` | the plan, its silent failure, `dry_run` |
| `Sign`, `Unsigned`, `Prepare`, `Destroy` | the signer lookup before the loop, the wallet manager |
| `Send`, `NotSent`, `Confirmed`, `Rejected`, `Unconfirmed` | one attempt: blockhash, submission, and how the call returns |
| `Failed` = `Retry` or `GiveUp` | the retry decision, by the error's kind and the count |
| `tx`, `Decide` | external: a transaction in flight lands, is rejected, or stays there |

### Shylock

| model | code |
|---|---|
| `count`, `subContext`, `cache` | `token_subscriptions` (count, context), `token_cache` |
| `HandleRegister`, `FetchSucceeds`, `FetchFails` | `register_token`: known token, or a fetch whose retries keep the loop |
| `HandleDeregister`, `HandleCached`, `HandleLive`, `HandleTransaction` | the other commands, with replies that are dropped |
| `StartPoll`, `EndPoll` | the poller's reads and writes, before and after its request |
| `Register` ... `CleanUp` | the actors: `initialize`, activation, results, `cleanup` |

### OneShot and Hermes

| model | code |
|---|---|
| `queue`, `row`, `txs`, `columns` | Hermes's channel, `position_order`, `order_tx` and whether it has the columns its queries name |
| `HandleStatus`, `HandleTransaction`, `HandleAmounts`, `Refuse` | the three commands about orders; a query that fails is logged and lost |
| `registered`, `phase`, `inbox` | registry, actors and mailboxes; an actor is a delivery of its order |
| `InitializeFails`, `Activate`, `ActivateFails` | `initialize`, `activate` |
| `OnConfirmed`, `OnUnread`, `OnFailed`, `Closed` | `on_result` (fetched, fetch failed, failed), a closed mailbox |
| `ConfirmOnSend`, `Confirm`, `Fail`, `Unplanned`, `Land` | the executor and the chain |

### Market and Swap

`Market` has the five formulas of the price calculator with their truncation and
cuts (`SolForSell`, `TokensForSell`, `TokensForBuy`, `SolForBuy`, `MarketCap`),
the roll-up (`RolledUp`) with the thresholds (`Triggers`), and the amounts that
`issue_warrant` and the one-shot buy ask for (`Sale`, `Purchase`). The pool is
external: it rounds in its own favour, and the events carry the reserves after
the trade. The product with the slippage factor, an f64 in the code, is the exact
floor here. Fees of the exchange appear in neither.

`Swap` has the two plans (`PumpFunPlan`, `PumpSwapPlan`), what each instruction
needs and does, and a transaction that commits or is undone.

### Api

A request is a sequence of steps, one per awaited query or call:
`AskWallet`/`AskReset`/`SaveWallet`, `AskOrder`/`FindToken`/`SaveToken`/
`ReadWallet`/`InsertOrder`/`Send`, `AskDelete`/`Send`. Any query or call before
the commit may fail (`TransactionFails`, with the rollback), the commit may have
no answer, and the order stays when its message cannot be sent. An insert of a
token waits while another transaction that inserted it is open, and does not
fail meanwhile. `firstLogin` is a claim of the token a request brings, and tokens
issued before the confirmation stay valid (`LoginClaims`). The
queue is a standard one (`SendMessageCommand` names no message group), hence a
set that the engine takes from in any order.

## Runs

| run | question | properties |
|---|---|---|
| `countersell` | one position under any order of events | `WithinWord`, `AmountsExact`, `SettledCompletion`, `RowsEarned`, `NeverOversold`, `FinalStatus`, `ImplementsLedger` |
| `position` | the position from the queue to the database, with messages that meet the wrong trade or none | `RouteOK`, `RowsTrue`, `WithinMaximum`, `StrayAccounted`, `CompletedStays`, `LostOnlyWithoutTrade` |
| `buffett` | safety of routes, signers, keys, registrations | `Consistent`, `SignerReady`, `KeysAccounted`, `CompletionOwn` |
| `buffett_live` | what must eventually happen in Buffett | `EndedAreGone`, `KeysDestroyed` |
| `guillotine` | true and single reports, an end to every task, no key kept | `Consistent`, `NothingSentAfter`, `ImplementsExecution`, `TasksEnd` |
| `shylock` | counts and cache against commands, fetches and the poller | `Consistent`, `CountsExact`, `ImplementsLeases`, `EveryRequestAnswered` |
| `oneshot` | what the tables say of a one-shot | `Consistent`, `RecordsTrue`, `EveryResultRecorded` |
| `market` | the amounts at the reserves they were quoted from | `Consistent`, `WithinBudget`, `QuoteMeetsMinimum` |
| `swap` | the plans, instruction by instruction | `SwapConsistent`, `PriceKept`, `RunsWhenFunded` |
| `api` | database, queue, engine and answers agree | `Consistent`, `AnswersTrue`, `RemovalEffective`, `EveryRequestAnswered` |
| `guillotine_twice`, `position_lost` | two claims the code does not keep | `SoldOnce`, `OrdersReachTrade` |

Some properties are conjunctions, one per question: `WithinWord` is Countersell's
type invariant and `NoWrap`, which bounds every sum by a limit below the word and
every subtrahend by its minuend; `AmountsExact` is
`CountersExact` and `OrdersExact`; `RowsEarned` is `CompletedIsSold` and
`OrphanOnlyUnrecorded`; each `Consistent` (in Swap `SwapConsistent`) is the module's type invariant with
what must agree beside it (Buffett `RoutesExact`; Guillotine `ConfirmedIsTrue`;
Shylock `CacheFollowsCounts`, `OneContext`, `DataWhenRegistered`; OneShot
`AmountsMatchTransactions`; Market `NetWithinReserves`; Swap `NothingWrapped`;
Api `PublishedIsRecorded`, `NoOpenTransaction`); `EndedAreGone` is `Reaped` and
`ClosedStops`; `TasksEnd` is `ResultArrives` and `KeyReleased`; Position's
`RowsTrue` is `CompletedIsSold` and `ActiveIsHeld`; `WithinBudget` is
`NeverOverasks` and `BuyWithinBudget`.

**Bounds, and why they are enough.**

- `MCCountersell`: three orders with limits 2, 2 and 1 on a wallet of 2, so the
  orders together exceed the wallet and each pair competes for it; two slots in
  the Vec instead of four, so `add_order` refuses one; thresholds such that one
  transaction triggers one, two or three orders; quotes below and above what an
  order may sell; two failures in a row instead of three end the trade, reached
  because a failed warrant returns its tokens; a surplus of 1, a microtoken
  that lands late or a second time; `Word` 16, above every sum, so that a
  counter that goes below zero shows as a large one. About 730 000 states.
- `MCPosition`: two orders with limits 1 and 2 on a wallet of 3, the creation of
  the larger one twice, two removals of it in any order with the creations,
  one transaction twice, two failures, a surplus of 1; a creation may be given up for
  want of a signer or an initialization: two trades of one id in a row, a stale
  warrant of the first met by the second, an orphan beside a trade. About
  1 750 000 states. `PositionLostOrder` needs none of the repetitions.
- `MCBuffett`: a countersell and a one-shot that share a wallet and its signer,
  each delivered twice: two trades of one wallet are what signer sharing needs,
  two incarnations of each what every stale message needs. One order goes to the
  executor, and the environment adds a command or a transaction only while none
  of its kind waits; actors and Buffett are never held back. About 980 000
  states; `MCBuffettLive` delivers the countersell once, 76 000 states. More
  trades than two are left to the proofs, which cover any number.
- `MCGuillotine`: two orders of one wallet, two retries: an attempt may land
  while the second or third is under way, a destroyed key may have two users.
  65 000 states.
- `MCShylock`: three actors of one token, one of them a one-shot, three attempts
  where the code has five (the first, one between, the last): the count reaches
  three, and falls to zero and rises again while the poller waits. One token,
  since tokens share only the loop, which three actors already contend for. 117
  000 states.
- `MCOneShot`: one order delivered twice, one query that fails, a table with
  each subset of the columns. 112 000 states.
- `MCMarket`: a pool of 5 by 20 up to 22, two trades in a transaction, words of
  32, so that a product is cut and a difference would wrap; sales of half, all
  and twice a net buy. `MCSwap`: six units of SOL and two tokens, enough to pay
  for a plan and not for two. `MCApi`: three requests of any kind, which is what
  a creation, its removal and one that interferes need.

`CHECK_DEADLOCK FALSE` stands where the system really comes to rest: a trade
that ended, creations all delivered and handled, requests all answered.

**Fairness.** Only for the services' own loops: Buffett's commands and results
(`select!` chooses at random among the ready arms, so an arm that stays ready is
taken), the wallet manager (its one await is a KMS call, which returns), each
actor's loop; a step of Guillotine's task (every RPC call returns or times out);
Shylock's loop and an actor that was answered; Hermes, Buffett's arms and the
actors in `OneShot`; the step of a request in `Api`. None for deliveries,
transactions on the market, the user, or the chain: no liveness property relies
on a transaction landing.

### What the violated claims show

- `SoldOnce` (`trades/src/examples/countersell/execute.rs:245`: the pending
  amount is there "to prevent overselling"). A confirmation that times out is
  retried with a new blockhash, so a new signature; the first attempt may still
  land, and the order is executed twice.
- `OrdersReachTrade` (`README.md:7`: strategies can be "created, updated, and
  deleted live"). An order that arrives between a trade's completion and its
  deregistration goes to a closed mailbox; its row stays CREATED.
  `LostOnlyWithoutTrade` shows that a trade which has ended, could not start or
  is full is the only way an order is lost.

Further claims of documents and comments that TLC refutes are kept as
definitions beside the specifications, each with the line it quotes; adding one
to the cfg of its MC module gives the counterexample:

| module | claims |
|---|---|
| `Buffett` | `ResultsToIssuer`, `AbortedNeverSigns`, `CompletionOfStopped` |
| `Guillotine` | `EveryOrderAnswered` |
| `Shylock` | `LiveDataIsCurrent` |
| `OneShot` | `TradesOnce`, `RemovedIsIdle`, `TransactionsLogged`, `FailuresLogged` |
| `Position` | `NoOverselling`, `PendingInRange` |
| `Swap` | `AlwaysBuildable`, `FeeAccountRight` |
| `Api` | `OrdersPublished`, `RemovalNamesTrade`, `RemovedIsNotTraded`, `WalletCreatedOnce` |

What the code gets wrong is also written as exceptions into properties that hold:
a pool keeps a reference for ever from each aborted creation (`RoutesExact`); a
one-shot replaced by a redelivery whose build fails leaves its key in memory
(`KeysAccounted`); an order stays ACTIVE after its trade ended when the details
of a sale could not be fetched (`OrphanOnlyUnrecorded`), or when the actor of a
creation that was given up has marked it (`ActiveIsHeld`); a warrant of an earlier
trade lowers the pending counter of its successor (`StrayAccounted`); a removal
that finds no trade marks an order DELETED that was COMPLETED (`CompletedStays`);
a removal misses its trade when the account has another wallet since
(`RemovalEffective`); what lands twice or after a report FAILED is sold beyond
every limit (`NeverOversold`, `WithinMaximum`: the surplus).

## Proofs

All of these hold for every value of the constants that satisfies the modules'
assumptions, which give types, finiteness and that limits fit the word. `MaxOrders`,
the limit of a trade, is 4 in the code (`countersell/mod.rs:611`) and assumed to
be positive.

- **Lemmas about operators** open `CountersellProofs`, whose module
  `PositionProofs` extends: the arithmetic of `Total` (adding and removing a
  claim, splitting by owner, finiteness) and channels: what sending and taking a
  message does to its places and to `Among`, the number of messages of a kind.
  `OneShotProofs` has the ones about channels that it needs.
- **`CountersellProofs!LedgerSafe`**: the abstract ledger never sells or promises
  beyond holdings or limits, but for the surplus.
- **`CountersellProofs`**: two invariants, each inductive, because the trade does
  not see the chain. `IInv` is about the trade, the rows and the reports:
  `CountersBooked` and `OrdersBooked` (the counters are the warrants in flight
  and the confirmed sales) need that warrant numbers are never reused and an
  order is pushed once (`Unique`) and that orders not yet pushed own nothing
  (`PushedFirst`); `Covered` (confirmed and promised tokens stay within holdings
  and limits) is why no counter wraps; the statuses need why an order is in the
  Vec or has left it (`LiveActive`, `GoneDone`, `CompleteWhy`,
  `ActiveUnrecorded`). `ChainInv` is about the chain (`Accounted`: what landed is
  confirmed, awaits its report, or is surplus), whatever lands when. `TypeCorrect`
  follows from `IInv` with the bound on the totals (`WordsKept`), `CountersCorrect`
  and `Refinement` from both, `Safe` from the ledger; `SettledEnd`,
  `RowsEarnedTrue` and `StatusFinal` from `IInv`. `Refinement` maps every step to
  a ledger step or a stutter, by the instance `Ledger`: an execution draws on its
  reservation or overdraws, a report settles or releases it.
- **`BuffettProofs`**: `IInv` is inductive. `RoutesExact` counts registered and
  aborted actors by cardinality, so it needs the sets finite (`FiniteRoutes`) and
  that an aborted actor is never registered (`Spawned`). `SignerReady` needs that
  nothing overtakes a creation (`Awaited`: the request is last in the wallet
  manager's channel, the answer leaves that channel empty, no order of the new
  actor has reached Guillotine) and that no queued destruction names a wallet in
  use (`SignersKept`). Steps that leave registry and wallet manager alone are
  done once (`QuietStep`).
- **`BuffettProofs!CompletionsOwn`**: `CInv`, inductive beside `IInv`. A
  countersell's completion is its registered actor's because a mailbox is empty
  once its actor stopped, is not the registered one, or is still being created
  (`Silenced`, `Unheard`), and so no other actor of the id can complete; at most
  one completion of it is queued (`CompletionOnce`), none while it is being
  created (`CompletionAfter`). `Kept` says what a step may do without harm; only
  an actor's own completion is outside it.
- **`BuffettProofs!KeysCounted`**: `KInv`, inductive beside `IInv`. A one-shot
  that makes room for itself was delivered twice, because a creation is queued
  once for each delivery (`DeliveredFirst`); a key is needed by a registered
  trade whose creation was answered (`KeysKept`), so aborting a creation, whose
  answer was a failure, takes no key's last trade.
- **`PositionProofs`**: `PositionInv` and, for the chain, `PositionChainInv` (both
  at the end of `Position`) are inductive together; the one step that needs both
  is the report CONFIRMED, which stays within the holdings because the chain
  does. They say what the channels, the trade, the rows and the reports know of
  each other while messages are lost, repeated and misrouted. `AnsweredOnce`: a
  warrant has one result at most, in one place. `Recorded`: what is recorded of
  an order, plus the confirmations still on their way (`Unread`), is no more than
  was confirmed; the same for what its trade counts. `Budgeted` is the induction
  behind `WithinMaximum`: what was confirmed, what open or failed warrants not
  yet read hold (`Unsold`), what the places in the trade may still issue
  (`Free`, a set, so that two places of one order do not count the same tokens
  twice) and what queued creations will bring is at most one maximum for each
  delivery; every step moves tokens from one of these to the next or drops them.
  With `Accounted` it bounds what landed, by the surplus more. `Counted` is the
  same for places, those of orphans included: it shows that an order is COMPLETED
  at most once for each delivery, so `CompletedStays` needs no word on how trades
  follow each other, nor on what an orphan writes. `Held` needs `Astray`, orders
  of which a sale will never be recorded or that an orphan marked, because these
  stay ACTIVE. `Numbered`: warrants of earlier trades have the smaller numbers,
  which is how `StrayAccounted` tells whose result a trade took, modulo the word.
  The six listed theorems follow: `RouteInStep`, `MaximumPerDelivery`,
  `RowsAreTrue`, `PendingAccounted`, `CompletedIsFinal`, `OrdersLostWithTrades`.
- **`OneShotProofs`**: `OneShotInv` (at the end of `OneShot`) is inductive; it
  follows a trade from its order to the tables. `OrderedOnce`: an actor that has
  not ordered has no warrant, and a warrant is forwarded once. `ReportedOnce`: a
  report is in one place, Guillotine's channel or one mailbox, of an actor of
  the same order, until it is read. `Told(o)` are the confirmed trades whose
  report has left these places; what is booked and what is queued to be booked
  are at most as many (`BookedOnce`), and each is logged at most once under its
  signature (`LoggedOnce`): `order_tx` takes a signature twice only for the
  `N/A` of failures, which is assumed to be no signature of the chain's. From it
  follow `TablesConsistent` and, with `ConfirmedLanded`, `RecordsAreTrue`.
- **`GuillotineProofs`**: `ReportsTrue`, `Silent`, and `Refinement` to
  `Execution`. `IInv` says for each order what its reports and its transactions
  are in each place of its task (`Progress`, `Sending`) and that a confirmation
  rests on a transaction that landed (`Truth`); executions are counted by
  cardinality of the landed attempts, of which there are never more than tries.
- **`GuillotineProofs`, for `Swap`**: `PriceIsKept`, `FundedRuns`,
  `NothingStaysWrapped`. `PlanOrdered` shows that a plan has one instruction of
  each kind that its order needs, in the order of their `Rank`, by joining its
  parts (`JoinedParts`); so the kind of the instruction in hand tells what has
  been executed (`PassedBefore`). `SwapInv` (at the end of `Swap`) is inductive and
  says in these terms what the wallet has become since the transaction began:
  its funds are exact but for what the trade brought or cost (`FundsMoved`), and
  its SOL is missing no more than what was charged, set aside or spent
  (`SolLeft`), which leaves enough for each instruction that is still to come.
- **`ShylockProofs`**: `CountsCorrect`, `CacheConsistent`, and `Refinement` to
  `Leases`. The count is a cardinality of holders, so every step must say who
  becomes or ceases to be one; that needs each actor to have one command in the
  queue at most, the one it waits for or its last (`Orderly`). `OneContext` needs
  that the poller writes only entries that still exist.
- **`MarketProofs`**: `MarketConsistent`, `BudgetKept`, `MinimumMet`, for every
  word size, market and amount. The lemmas are about truncated quotients: a sale
  worth `(y * a) \div (x + a)` stays below what was asked (`SaleWithin`), meets
  its minimum after the slippage (`SaleMeets`), a purchase's cost rounded up
  stays within its budget (`PurchaseWithin`), and a quote never takes the whole
  reserve. `RolledUpAnew` ties the roll-up to the market at the transaction's end.
- **`ApiProofs`**: `ApiInv` (at the end of `Api`) is inductive. `TokenHeld`: the
  request that has inserted the token is still in its transaction, so one that
  is over has none open. `CreationInStep`: how far a creation is tells whether
  its order is committed and published. `WalletsCounted`: every wallet but the
  first has a request that saved it. `RemovalEffective` needs that a removal, and
  so its message, names a wallet not older than its order's (`NamesLater`, in
  `DeletionNames` and `MessagesTrue`): wallets are numbered, so while the account
  keeps the order's wallet the two name the same trade. The module's assumption
  that a request is none of the words for the token's row is the one thing the
  proof asked of the model.

Only model-checked: the liveness properties (`EndedAreGone`, `KeysDestroyed`,
`TasksEnd`, both `EveryRequestAnswered`, `EveryResultRecorded`), which are out of
the prover's reach, and the violated claims, which are counterexamples. Every
invariant and every action property that a run checks is also a theorem, and the
three abstract specifications are shown to be implemented. The inductive
invariants at the end of `Position`, `OneShot`, `Api` and `Swap` are stated there
rather than beside their proofs so that TLC can check them: added to the cfg of
the module's instance as an `INVARIANT`, each holds. Bounds such as
`MaxQueue` and `MaxMail` limit the environment, and the theorems hold for all
their values; `MaxActors` limits the actors that fairness and `ClosedStops` speak
of and nothing else.

## Not modelled

- Byte-level parsing (Rosetta, program logs and account lists, instruction
  bytes, discriminators, derived addresses), SQL reports and read-only routes,
  the protocol detector, the wiring of the application, the user interface:
  nothing there keeps state of the trading system that interleaving, failure or
  order could get wrong. A parse that fails is a failed fetch in `Countersell`
  and `OneShot`, a build that fails an action of `Buffett` and `OneShot`.
- `handle_delete_trade` and its command, which nothing sends; completion during
  activation, which no trade of the repository reaches; Shylock's fee
  configuration, which nothing asks for.
- Hermes's log table, the priority fee and the compute budget: no decision of
  the modelled code reads them.
- The amount of a one-shot sale: the formula is the capped countersell's.
- Janus' receive loop and the ticker's reconnection: what they can do to the
  rest, deliver again, late or not at all, is part of the modules that take
  their messages.
- A crash of the process: nothing of the engine is persisted but what Hermes has
  written, and the code reads none of it back when it starts.

What would extend the project next: a crash of the engine between a sale and its
record, once the code reads back what Hermes wrote; and the byte formats of
Rosetta, should one of them be kept in state.
