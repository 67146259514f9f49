------------------------------ MODULE Position ------------------------------
(***************************************************************************)
(* A selling position end to end: the trade of module Countersell inside   *)
(* its actor, reached through Janus' queue, Buffett's registry and the     *)
(* actor's mailbox, and its warrants through the executor and back.  The   *)
(* position is one id; a trade of that id is created when an order finds   *)
(* none registered, and its successor when a later order finds it gone.    *)
(*                                                                         *)
(* The steps a message takes are steps here, so an order, a removal, a     *)
(* transaction or a result can arrive at a trade other than the one it was *)
(* meant for, or at none.  Creations and removals are delivered at least   *)
(* once and in any order, and one transaction once for each market it      *)
(* names and each websocket.  A warrant is executed when the chain likes,  *)
(* before its report or after it (module Chain).                           *)
(*                                                                         *)
(* Abstracted: signers (but for a creation that fails for want of one),    *)
(* subscriptions and the lock-step of creation (module Buffett), attempts  *)
(* and their timeouts (module Guillotine), the queue of Hermes (module     *)
(* Hermes).  The orders are placed before anything is sold, so each        *)
(* creation carries the same initial holdings.                             *)
(***************************************************************************)
EXTENDS Countersell

CONSTANTS Tx,           \* transactions on the token's market
          NetOf,        \* the net buy in lamports of each
          McapOf,       \* the market cap after it
          Deliveries,   \* bound: how often each creation is delivered
          Removals,     \* bound: how often each removal is delivered
          Copies,       \* bound: how often a transaction reaches Buffett
          InitMayFail,  \* whether Shylock may refuse a registration
          KeyMayFail    \* whether the wallet's key may fail to be prepared

ASSUME PositionAssumption == /\ NetOf \in [Tx -> NetBuy]
                             /\ McapOf \in [Tx -> Mcap]
                             /\ Deliveries \in [OrderId -> Nat]
                             /\ Removals \in [OrderId -> Nat]
                             /\ Copies \in Nat
                             /\ InitMayFail \in BOOLEAN
                             /\ KeyMayFail \in BOOLEAN

VARIABLES commands,    \* Buffett's command channel
          results,     \* the channel of the executor's results
          actor,       \* absent, running, stopped or failed (still registered)
          mailbox,     \* the messages the running actor has not read
          orphans,     \* actors still starting whose creation was given up
          delivered,   \* how often each creation was delivered
          removed,     \* how often each removal was delivered
          routed,      \* how often each transaction was routed
          earlier,     \* history: the warrants issued before this trade began
          stray,       \* history: tokens of its predecessors' results it read
          orphaned     \* history: the orders that an orphan marked ACTIVE

routeVars == <<commands, results, actor, mailbox, orphans>>
inputVars == <<delivered, removed, routed>>
historyVars == <<earlier, stray, orphaned>>
positionVars == <<vars, routeVars, inputVars, historyVars>>

Idle == /\ entries = <<>>
        /\ live = {}
        /\ totalSold = 0
        /\ totalPending = 0
        /\ failures = 0
        /\ complete = FALSE

PositionInit ==
    /\ Idle
    /\ warrants = {}
    /\ issued = 0
    /\ status = [o \in OrderId |-> "CREATED"]
    /\ dbSold = [o \in OrderId |-> 0]
    /\ ChainInit
    /\ commands = <<>>
    /\ results = <<>>
    /\ actor = "absent"
    /\ mailbox = <<>>
    /\ orphans = [o \in OrderId |-> 0]
    /\ delivered = [o \in OrderId |-> 0]
    /\ removed = [o \in OrderId |-> 0]
    /\ routed = [t \in Tx |-> 0]
    /\ earlier = 0
    /\ stray = 0
    /\ orphaned = {}

-----------------------------------------------------------------------------
(* Messages from outside.                                                  *)

Command(kind, o) == commands' = Append(commands, [kind |-> kind, order |-> o])

DeliverCreation(o) ==
    /\ delivered[o] < Deliveries[o]
    /\ delivered' = [delivered EXCEPT ![o] = @ + 1]
    /\ Command("create", o)
    /\ UNCHANGED <<vars, results, actor, mailbox, orphans, removed, routed,
                   historyVars>>

\* The queue keeps no order: a removal may overtake its creation.
DeliverRemoval(o) ==
    /\ removed[o] < Removals[o]
    /\ removed' = [removed EXCEPT ![o] = @ + 1]
    /\ Command("remove", o)
    /\ UNCHANGED <<vars, results, actor, mailbox, orphans, delivered, routed,
                   historyVars>>

\* A mailbox whose actor has gone refuses the message, which is lost.
Post(message) ==
    mailbox' = IF actor = "running" THEN Append(mailbox, message) ELSE mailbox

\* Nothing compares a transaction with those that were routed before.
RouteLogs(t) ==
    /\ routed[t] < Copies
    /\ routed' = [routed EXCEPT ![t] = @ + 1]
    /\ Post([kind |-> "logs", tx |-> t])
    /\ UNCHANGED <<vars, commands, results, actor, orphans, delivered, removed,
                   historyVars>>

-----------------------------------------------------------------------------
(* Buffett's handlers.                                                     *)

Take(kind) == /\ commands # <<>>
              /\ Head(commands).kind = kind
              /\ commands' = Tail(commands)

Subject == Head(commands).order

\* handle_upsert_countersell: whatever state the registered actor is in, the
\* order is put in its mailbox.
HandleAdd == /\ Take("create")
             /\ actor # "absent"
             /\ Post([kind |-> "add", order |-> Subject])
             /\ UNCHANGED <<vars, results, actor, orphans, inputVars, historyVars>>

\* Countersell::new, in the place of a trade that is gone.
Begin(o) == /\ entries' = <<NewOrder(o)>>
            /\ live' = {1}
            /\ totalSold' = 0
            /\ totalPending' = 0
            /\ failures' = 0
            /\ complete' = FALSE
            /\ earlier' = issued
            /\ stray' = 0
            /\ UNCHANGED orphaned

\* A new trade that could register its token.
HandleNew ==
    /\ Take("create")
    /\ actor = "absent"
    /\ actor' = "running"
    /\ Begin(Subject)
    /\ status' = [status EXCEPT ![Subject] = "ACTIVE"]
    /\ UNCHANGED <<warrants, issued, dbSold, reportVars, chainVars, results,
                   mailbox, orphans, inputVars>>

\* One that could not: its actor returns and stays registered.
HandleNewFails ==
    /\ InitMayFail
    /\ Take("create")
    /\ actor = "absent"
    /\ actor' = "failed"
    /\ Begin(Subject)
    /\ UNCHANGED <<warrants, issued, dbVars, reportVars, chainVars, results,
                   mailbox, orphans, inputVars>>

\* One whose signer could not be prepared: the actor has been spawned when the
\* creation is given up and the registration taken back.  Buffett's loop, which
\* waits for the signer, has sent the actor nothing in between.
HandleNewAborted ==
    /\ KeyMayFail
    /\ Take("create")
    /\ actor = "absent"
    /\ orphans' = [orphans EXCEPT ![Subject] = @ + 1]
    /\ UNCHANGED <<vars, results, actor, mailbox, inputVars, historyVars>>

\* Such an actor still initializes, and marks its order ACTIVE whatever the
\* order has come to; then it finds its mailbox closed, and ends.
OrphanActivates(o) ==
    /\ orphans[o] > 0
    /\ orphans' = [orphans EXCEPT ![o] = @ - 1]
    /\ status' = [status EXCEPT ![o] = "ACTIVE"]
    /\ orphaned' = orphaned \cup {o}
    /\ UNCHANGED <<tradeVars, dbSold, reportVars, chainVars, warrants, issued,
                   commands, results, actor, mailbox, inputVars, earlier, stray>>

\* Or it cannot register its token, and ends at once.
OrphanFails(o) ==
    /\ InitMayFail
    /\ orphans[o] > 0
    /\ orphans' = [orphans EXCEPT ![o] = @ - 1]
    /\ UNCHANGED <<vars, commands, results, actor, mailbox, inputVars, historyVars>>

\* Slip: an order without a trade is CANCELLED.
HandleRemoveCancelling ==
    /\ Take("remove")
    /\ IF actor = "absent"
       THEN /\ status' = [status EXCEPT ![Subject] = "CANCELLED"]
            /\ UNCHANGED mailbox
       ELSE /\ Post([kind |-> "remove", order |-> Subject])
            /\ UNCHANGED status
    /\ UNCHANGED <<tradeVars, dbSold, reportVars, chainVars, warrants, issued,
                   results, actor, orphans, inputVars, historyVars>>

HandleRemove ==
    /\ Take("remove")
    /\ IF actor = "absent"
       THEN /\ status' = [status EXCEPT ![Subject] = "DELETED"]
            /\ UNCHANGED mailbox
       ELSE /\ Post([kind |-> "remove", order |-> Subject])
            /\ UNCHANGED status
    /\ UNCHANGED <<tradeVars, dbSold, reportVars, chainVars, warrants, issued,
                   results, actor, orphans, inputVars, historyVars>>

\* Guillotine takes the warrant from here.
HandleForward ==
    /\ Take("forward")
    /\ UNCHANGED <<vars, results, actor, mailbox, orphans, inputVars, historyVars>>

HandleComplete ==
    /\ Take("complete")
    /\ actor' = "absent"
    /\ UNCHANGED <<vars, results, mailbox, orphans, inputVars, historyVars>>

\* A result goes to whatever trade the position has now.
RouteResult ==
    /\ results # <<>>
    /\ results' = Tail(results)
    /\ Post(Head(results))
    /\ warrants' = IF actor = "running" THEN warrants
                                        ELSE warrants \ {Head(results).warrant}
    /\ UNCHANGED <<tradeVars, dbVars, reportVars, chainVars, issued, commands,
                   actor, orphans, inputVars, historyVars>>

-----------------------------------------------------------------------------
(* The actor: one message, then the test for completion.                   *)

Read(kind) == /\ actor = "running"
              /\ mailbox # <<>>
              /\ Head(mailbox).kind = kind

Message == Head(mailbox)

\* Slip: the end of the loop is not announced.
AfterwardsSilently ==
    /\ actor' = IF complete' THEN "stopped" ELSE actor
    /\ mailbox' = IF complete' THEN <<>> ELSE Tail(mailbox)
    /\ UNCHANGED commands

\* A trade that is complete leaves its loop: what its mailbox holds is lost.
Afterwards ==
    IF complete'
    THEN /\ actor' = "stopped"
         /\ mailbox' = <<>>
         /\ commands' = Append(commands, [kind |-> "complete"])
    ELSE /\ mailbox' = Tail(mailbox)
         /\ UNCHANGED <<actor, commands>>

Unhandled(m) == {m[i].warrant : i \in {j \in DOMAIN m : m[j].kind = "result"}}

Settled == warrants' = warrants \ (IF complete' THEN Unhandled(mailbox)
                                                ELSE Unhandled(<<Message>>))

\* process_logs, when the transaction triggers an order.
ReadLogs ==
    /\ Read("logs")
    /\ \E ideal \in Quote :
         IssueWarrant(NetOf[Message.tx], McapOf[Message.tx], ideal)
    /\ mailbox' = Tail(mailbox)
    /\ \E w \in warrants' \ warrants :
         commands' = Append(commands, [kind |-> "forward", warrant |-> w])
    /\ UNCHANGED <<results, actor, orphans, inputVars, historyVars>>

\* And when it does not, or the tokens that match its net buy come to none.
SkipLogs ==
    /\ Read("logs")
    /\ mailbox' = Tail(mailbox)
    /\ UNCHANGED <<vars, commands, results, actor, orphans, inputVars, historyVars>>

ReadAdd == /\ Read("add")
           /\ AddOrder(Message.order)
           /\ Afterwards
           /\ UNCHANGED <<reportVars, chainVars, warrants, issued, results,
                          orphans, inputVars, historyVars>>

ReadRemove == /\ Read("remove")
              /\ RemoveOrder(Message.order)
              /\ Settled
              /\ Afterwards
              /\ UNCHANGED <<reportVars, chainVars, issued, results, orphans,
                             inputVars, historyVars>>

\* The actor cannot tell a result of its own from one of a predecessor.
CountStray ==
    /\ stray' = IF Message.warrant.n > earlier
                THEN stray ELSE stray + Message.warrant.amount
    /\ UNCHANGED <<earlier, orphaned>>

ReadConfirmed(fetched) ==
    /\ Read("result")
    /\ Message.confirmed
    /\ OnConfirmed(Message.warrant, fetched)
    /\ Settled
    /\ CountStray
    /\ Afterwards
    /\ UNCHANGED <<reportVars, chainVars, issued, results, orphans, inputVars>>

ReadFailed == /\ Read("result")
              /\ ~Message.confirmed
              /\ OnFailed(Message.warrant)
              /\ Settled
              /\ CountStray
              /\ Afterwards
              /\ UNCHANGED <<reportVars, chainVars, issued, results, orphans,
                             inputVars>>

-----------------------------------------------------------------------------
(* The executor: each warrant is answered once, in any order.              *)

Forwarding == {commands[i].warrant :
                 i \in {j \in DOMAIN commands : commands[j].kind = "forward"}}

Answer(r, isConfirmed) ==
    /\ r \notin Forwarding \cup Unhandled(results) \cup Unhandled(mailbox)
    /\ results' = Append(results, [kind |-> "result", warrant |-> r,
                                   confirmed |-> isConfirmed])
    /\ UNCHANGED <<tradeVars, dbVars, warrants, issued, commands, actor,
                   mailbox, orphans, inputVars, historyVars>>

Accept(r) == /\ ReportConfirmed(r)
             /\ Answer(r, TRUE)

Reject(r) == /\ ReportFailed(r)
             /\ Answer(r, FALSE)

-----------------------------------------------------------------------------
(* The chain: it does not take more from a wallet than the wallet holds.   *)

\* The warrants that were not reported.
Open == {w \in warrants : ~\E m \in {results, mailbox} :
                             \E i \in DOMAIN m : /\ m[i].kind = "result"
                                                 /\ m[i].warrant = w}

ChainExecutes ==
    /\ \/ \E w \in Open \ Forwarding : Execute(w)
       \/ \E s \in late \cup {SaleOf(w) : w \in executed} : ExecuteMore(s)
    /\ landed' <= Holdings
    /\ UNCHANGED <<tradeVars, dbVars, reportVars, warrants, issued, routeVars,
                   inputVars, historyVars>>

-----------------------------------------------------------------------------
ActorStep == \/ ReadLogs \/ SkipLogs \/ ReadAdd \/ ReadRemove \/ ReadFailed
             \/ \E fetched \in BOOLEAN : ReadConfirmed(fetched)

Handle == \/ HandleAdd \/ HandleNew \/ HandleNewFails \/ HandleNewAborted
          \/ HandleRemove \/ HandleForward \/ HandleComplete

PositionNext ==
    \/ \E o \in OrderId : \/ DeliverCreation(o) \/ DeliverRemoval(o)
                          \/ OrphanActivates(o) \/ OrphanFails(o)
    \/ \E t \in Tx : RouteLogs(t)
    \/ Handle
    \/ RouteResult
    \/ ActorStep
    \/ \E r \in warrants : Accept(r) \/ Reject(r)
    \/ ChainExecutes

PositionSpec == PositionInit /\ [][PositionNext]_positionVars

-----------------------------------------------------------------------------
\* The trade of the position and its route are in step: a trade that stopped
\* has announced it once and holds nothing, a mailbox is that of a running
\* trade, and a trade that is complete has left its loop.
RouteOK ==
    /\ TradeTypeOK
    /\ actor \in {"absent", "running", "stopped", "failed"}
    /\ actor = "running" => ~complete
    /\ actor # "running" => mailbox = <<>>
    /\ Cardinality({i \in DOMAIN commands : commands[i].kind = "complete"})
         = (IF actor = "stopped" THEN 1 ELSE 0)

\* However often a creation is delivered, a transaction is routed or a result
\* strays, what the chain has taken for an order and what it may take for a
\* warrant that is not reported stay within one maximum for each delivery, over
\* all the trades the position ever has; but for the surplus, the executions of
\* warrants reported FAILED and the second ones.
WithinMaximum ==
    \A o \in OrderId :
      landedBy[o] + Total(ClaimsOf(Open \ executed, o))
        <= delivered[o] * MaxToSell[o] + surplusBy[o]

\* A trade's pending counter is what its own warrants in flight add up to, but
\* for the results of its predecessors that it took for its own: each of them
\* lowers the counter, past zero if need be, where the u64 wraps.
StrayAccounted ==
    actor = "running" =>
      (totalPending + stray) % Word
        = Total({w \in warrants : w.n > earlier}) % Word

\* COMPLETED gives way to nothing but a removal that finds no trade, or to the
\* trade that a second delivery of the order's creation brings back.
CompletedStays ==
    [][\A o \in OrderId :
         status[o] = "COMPLETED" => \/ status'[o] \in {"COMPLETED", "DELETED"}
                                    \/ delivered[o] > 1]_positionVars

\* An ACTIVE order is in the running trade, unless something that was confirmed
\* of it was not recorded, or an actor whose creation was given up wrote it.
ActiveIsHeld ==
    \A o \in OrderId :
      status[o] = "ACTIVE" =>
        \/ actor = "running" /\ ~Absent(o)
        \/ dbSold[o] < confirmedBy[o]
        \/ o \in orphaned
        \/ MaxToSell[o] = 0

\* The rows tell the truth about the chain and about the trades, however results
\* are misrouted and whatever a trade's successors do: COMPLETED is earned, no
\* more is recorded than was confirmed, and ACTIVE means that a trade has the
\* order.
RowsTrue == CompletedIsSold /\ ActiveIsHeld

Handled(o) == /\ delivered[o] > 0
              /\ \A i \in DOMAIN commands : commands[i].kind = "create"
                                              => commands[i].order # o
              /\ \A i \in DOMAIN mailbox : mailbox[i].kind = "add"
                                              => mailbox[i].order # o

\* An order is only lost to a trade that has ended, ends now, could not start
\* or is full: one that runs and has room takes every order posted to it.
LostOnlyWithoutTrade ==
    [][\A o \in OrderId :
         Handled(o)' /\ ~Handled(o) /\ status'[o] = "CREATED" =>
           actor' # "running" \/ Cardinality(live) = MaxOrders]_positionVars

-----------------------------------------------------------------------------
(* Claims of the code and its documentation that do not hold.              *)

\* No order sells more than its maximum.
NoOverselling == \A o \in OrderId : landedBy[o] <= MaxToSell[o]

\* The pending counter is a sum of warrants: it never exceeds the holdings.
PendingInRange == totalPending <= Holdings

\* An order that was delivered and handled reaches a trade: it is not CREATED
\* for ever unless its own trade could not start, or the trade was full.
OrdersReachTrade ==
    \A o \in OrderId :
      Handled(o) /\ status[o] = "CREATED" =>
        \/ actor = "failed" /\ entries[1].id = o
        \/ actor = "running" /\ Cardinality(live) = MaxOrders

-----------------------------------------------------------------------------
(* The inductive invariant of the proofs.                                  *)

CommandMsg == [kind : {"create", "remove"}, order : OrderId]
              \cup [kind : {"forward"}, warrant : Claim(OrderId)]
              \cup [kind : {"complete"}]

ResultMsg == [kind : {"result"}, warrant : Claim(OrderId), confirmed : BOOLEAN]

MailMsg == [kind : {"logs"}, tx : Tx]
          \cup [kind : {"add", "remove"}, order : OrderId]
          \cup ResultMsg

PositionTypeOK ==
    /\ TradeTypeOK
    /\ commands \in Seq(CommandMsg)
    /\ results \in Seq(ResultMsg)
    /\ actor \in {"absent", "running", "stopped", "failed"}
    /\ mailbox \in Seq(MailMsg)
    /\ delivered \in [OrderId -> Nat]
    /\ orphans \in [OrderId -> Nat]
    /\ removed \in [OrderId -> Nat]
    /\ routed \in [Tx -> Nat]
    /\ earlier \in Nat
    /\ stray \in Nat
    /\ orphaned \subseteq OrderId

\* How often a channel holds a message.
Occurs(s, e) == Cardinality({i \in DOMAIN s : s[i] = e})

\* The route's part of RouteOK.
InStep ==
    /\ actor = "running" => ~complete
    /\ actor # "running" => mailbox = <<>>
    /\ Occurs(commands, [kind |-> "complete"])
         = (IF actor = "stopped" THEN 1 ELSE 0)

\* A warrant has one result at most, on its way until its trade reads it.
OneResult(m) ==
    \A i, j \in DOMAIN m :
      /\ m[i].kind = "result" /\ m[j].kind = "result"
      /\ m[i].warrant = m[j].warrant
      => i = j

AnsweredOnce ==
    /\ OneResult(results) /\ OneResult(mailbox)
    /\ Unhandled(results) \cap Unhandled(mailbox) = {}
    /\ Unhandled(results) \cup Unhandled(mailbox) \subseteq warrants

\* Warrants are numbered, and none is larger than the wallet.
Numbered ==
    /\ IsFiniteSet(Units(warrants))
    /\ \A w \in warrants : w.n <= issued /\ w.amount <= Holdings
    /\ earlier <= issued
    /\ totalPending < Word
    /\ StrayAccounted

\* The warrants that were reported CONFIRMED and whose trade does not know it
\* yet, and those that were not.
ConfirmedIn(m) == {m[i].warrant : i \in {j \in DOMAIN m : /\ m[j].kind = "result"
                                                          /\ m[j].confirmed}}

Unread == ConfirmedIn(results) \cup ConfirmedIn(mailbox)

Unsold == warrants \ Unread

\* An order whose row may stay ACTIVE: something that was confirmed of it was
\* not recorded and never will be, or an orphan wrote it.
Astray(o) == \/ dbSold[o] + Total(ClaimsOf(Unread, o)) < confirmedBy[o]
             \/ o \in orphaned

\* What rows and trade know of the chain, and what they are about to be told.
Recorded ==
    /\ confirmed <= Holdings
    /\ \A o \in OrderId :
         /\ confirmedBy[o] <= confirmed
         /\ dbSold[o] + Total(ClaimsOf(Unread, o)) <= confirmedBy[o]
         /\ status[o] = "COMPLETED" => confirmedBy[o] >= MaxToSell[o]
    /\ \A i \in 1 .. Len(entries) :
         entries[i].sold + Total(ClaimsOf(Unread, entries[i].id))
           <= confirmedBy[entries[i].id]

\* The tokens an order of the trade may still issue warrants for.
Free(o) == {u \in live \X (1 .. MaxToSell[o]) :
              /\ entries[u[1]].id = o
              /\ entries[u[1]].sold + entries[u[1]].pending < u[2]}

\* The creations of an order that are on their way, or with an orphan.
Coming(o) == Occurs(commands, [kind |-> "create", order |-> o])
               + Occurs(mailbox, [kind |-> "add", order |-> o]) + orphans[o]

\* Each delivery of a creation brings its order's maximum, once.
Budgeted ==
    \A o \in OrderId :
      confirmedBy[o] + Total(ClaimsOf(Unsold, o)) + Cardinality(Free(o))
          + Coming(o) * MaxToSell[o]
        <= delivered[o] * MaxToSell[o]

Places(o) == {i \in live : entries[i].id = o}

\* And one place in a trade, which the order gives up when it is completed.
Counted ==
    /\ Cardinality(live) <= MaxOrders
    /\ \A o \in OrderId :
         Coming(o) + Cardinality(Places(o))
             + (IF status[o] = "COMPLETED" THEN 1 ELSE 0)
           <= delivered[o]

\* An order's counters fit in their words.
EntriesFit == \A i \in live : entries[i].sold + entries[i].pending < Word

\* An ACTIVE order is in the running trade, unless a sale was not recorded.
Held ==
    /\ \A o \in OrderId :
         status[o] = "ACTIVE" => \/ actor = "running" /\ ~Absent(o)
                                 \/ Astray(o)
                                 \/ MaxToSell[o] = 0
    /\ \A i \in live :
         LET o == entries[i].id
         IN  /\ entries[i].sold >= MaxToSell[o]
             => Astray(o) \/ MaxToSell[o] = 0

PositionInv == /\ PositionTypeOK
               /\ InStep
               /\ AnsweredOnce
               /\ Numbered
               /\ Recorded
               /\ Budgeted
               /\ Counted
               /\ EntriesFit
               /\ Held

\* The chain's side: what was executed is not reported yet, and what landed is
\* accounted for and was in the wallet.
PositionChainInv == /\ ChainInv
                    /\ executed \subseteq Open
                    /\ landed <= Holdings
=============================================================================
