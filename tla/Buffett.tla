------------------------------- MODULE Buffett ------------------------------
(***************************************************************************)
(* The orchestrator (buffett), with the tasks it directs: one actor task   *)
(* per trade (trades/src/actor.rs), the wallet manager that keeps the      *)
(* decrypted signers, and Guillotine's execution tasks.  Everything is     *)
(* connected by unbounded FIFO channels; Buffett takes from three of them  *)
(* in any order, and while it creates a trade it waits for the wallet      *)
(* manager's answer and takes from none.                                   *)
(*                                                                         *)
(* A countersell's trade id names its wallet and its token, so creating it *)
(* again adds an order to it; a one-shot's id is its order's, so creating  *)
(* it again, which only a redelivery of the queue does, replaces it.       *)
(* Spawned actors are numbered: tasks[a] is actor a's, and actors[t] = a   *)
(* when the registry holds the sender of its mailbox (0: none).            *)
(*                                                                         *)
(* Abstracted: what a trade decides.  Whether a message makes a trade      *)
(* order or complete is any choice its kind of trade can make; Countersell *)
(* has the details.  SUBMITTED results change nothing and are left out, as *)
(* is DeleteTrade, which nothing sends.                                    *)
(***************************************************************************)
EXTENDS Naturals, Sequences, FiniteSets

CONSTANTS Trade,        \* trade ids
          OneShot,      \* those of the one-shot trades
          Wallet, Mint,
          WalletOf, MintOf,
          Deliveries,   \* bound: creations delivered for each trade
          Transaction,  \* the ticker's: a mint, and the log events naming it
          MaxActors,    \* bound: actors the fairness and liveness speak of
          MaxOrders,    \* bound: orders issued
          MaxQueue,     \* bound: commands queued when one is delivered
          MaxMail,      \* bound: messages in a mailbox when logs are routed
          NoTrade       \* no creation is under way

ASSUME BuffettAssumption ==
    /\ OneShot \subseteq Trade
    /\ NoTrade \notin Trade
    /\ WalletOf \in [Trade -> Wallet]
    /\ MintOf \in [Trade -> Mint]
    /\ Deliveries \in [Trade -> Nat]
    /\ Transaction \subseteq [mint : Mint, curve : Nat, pool : Nat]
    /\ MaxActors \in Nat
    /\ MaxOrders \in Nat
    /\ MaxQueue \in Nat
    /\ MaxMail \in Nat

VARIABLES actors,     \* registry: the actor registered for a trade, or 0
          subs,       \* market_subscriptions: copies of an id in a mint's Vec
          poolRef,    \* pool_to_mint_map: references to a mint's pool
          commands,   \* the channel of BuffettCommands
          creating,   \* the trade whose signer Buffett awaits, or NoTrade
          reply,      \* what is in the reply channel: "none", "ok", "failed"
          walletCmds, \* the channel of WalletManagerCommands
          signers,    \* wallets whose decrypted key is in memory
          tasks,      \* every actor spawned: [trade, phase, mailbox]
          orders,     \* orders Guillotine's tasks are working on
          issued,     \* number of orders ever issued
          results,    \* the channel of ExecutionResults: issuing actors
          delivered,  \* creations delivered so far
          aborted     \* actors whose creation failed for want of a signer

routeVars  == <<actors, subs, poolRef>>
walletVars == <<creating, reply, walletCmds, signers>>
orderVars  == <<orders, issued, results>>
vars == <<routeVars, walletVars, orderVars, commands, tasks, delivered, aborted>>

Phase   == {"starting", "running", "stopped", "failed"}
Message == {"logs", "result", "add", "remove"}
Command == [kind : {"create", "remove", "complete"}, trade : Trade]
             \cup [kind : {"forward"}, n : Nat, actor : Nat]
WalletCmd == [kind : {"prepare", "destroy"}, wallet : Wallet]
TaskState == [trade : Trade, phase : Phase, mailbox : Seq(Message)]
Order     == [n : Nat, actor : Nat, signing : BOOLEAN]

-----------------------------------------------------------------------------
Registered(t) == actors[t] # 0

\* The actor's receiver is gone: a message sent to it is lost.
Dead(a) == tasks[a].phase \in {"stopped", "failed"}

\* No sender of the actor's mailbox is left.
Closed(a) == actors[tasks[a].trade] # a

Send(a, m) ==
    IF Dead(a) THEN tasks ELSE [tasks EXCEPT ![a].mailbox = Append(@, m)]

\* n copies of a message.
Copies(m, n) == [i \in 1 .. n |-> m]

Take(kind) == /\ creating = NoTrade
              /\ commands # <<>>
              /\ Head(commands).kind = kind
              /\ commands' = Tail(commands)

Init ==
    /\ actors = [t \in Trade |-> 0]
    /\ subs = [m \in Mint |-> [t \in Trade |-> 0]]
    /\ poolRef = [m \in Mint |-> 0]
    /\ commands = <<>>
    /\ creating = NoTrade
    /\ reply = "none"
    /\ walletCmds = <<>>
    /\ signers = {}
    /\ tasks = <<>>
    /\ orders = {}
    /\ issued = 0
    /\ results = <<>>
    /\ delivered = [t \in Trade |-> 0]
    /\ aborted = {}

-----------------------------------------------------------------------------
(* Janus forwards what the queue delivers.  A message is deleted from the  *)
(* queue only after it was forwarded, so any of them may come again; only  *)
(* a countersell's removal carries an id that a trade can have.            *)

Deliver(t) ==
    /\ Len(commands) < MaxQueue
    /\ delivered[t] < Deliveries[t]
    /\ delivered' = [delivered EXCEPT ![t] = @ + 1]
    /\ commands' = Append(commands, [kind |-> "create", trade |-> t])
    /\ UNCHANGED <<routeVars, walletVars, orderVars, tasks, aborted>>

DeliverRemoval(t) ==
    /\ Len(commands) < MaxQueue
    /\ t \notin OneShot
    /\ Registered(t) => Len(tasks[actors[t]].mailbox) < MaxMail
    /\ commands' = Append(commands, [kind |-> "remove", trade |-> t])
    /\ UNCHANGED <<routeVars, walletVars, orderVars, tasks, delivered, aborted>>

-----------------------------------------------------------------------------
(* registry.register and registry.deregister, with the pool's references,  *)
(* which every caller but the aborted creation keeps.                      *)

\* Slip: a trade's id is left in its token's list.
UnsubscribeKeeps(sb, t) == sb

Subscribe(sb, t) == [sb EXCEPT ![MintOf[t]][t] = @ + 1]
Unsubscribe(sb, t) == [sb EXCEPT ![MintOf[t]][t] = 0]

AddRef(pr, t) == [pr EXCEPT ![MintOf[t]] = @ + 1]
DropRef(pr, t) == [pr EXCEPT ![MintOf[t]] = IF @ > 0 THEN @ - 1 ELSE 0]

\* create_new_trade up to its await: the trade of that id, if any, makes
\* room; then the trade is built, which may fail, and registered.
CreateNewTrade(t) ==
    LET sb == IF Registered(t) THEN Unsubscribe(subs, t) ELSE subs
        pr == IF Registered(t) THEN DropRef(poolRef, t) ELSE poolRef
    IN \/ /\ actors' = [actors EXCEPT ![t] = 0]
          /\ subs' = sb
          /\ poolRef' = pr
          /\ UNCHANGED <<tasks, creating, walletCmds>>
       \/ /\ actors' = [actors EXCEPT ![t] = Len(tasks) + 1]
          /\ subs' = Subscribe(sb, t)
          /\ poolRef' = AddRef(pr, t)
          /\ tasks' = Append(tasks, [trade |-> t, phase |-> "starting",
                                     mailbox |-> <<>>])
          /\ creating' = t
          /\ walletCmds' = Append(walletCmds, [kind |-> "prepare",
                                               wallet |-> WalletOf[t]])

\* Slip: a countersell that is registered is replaced, as a one-shot is.
HandleCreateReplacing ==
    /\ Take("create")
    /\ CreateNewTrade(Head(commands).trade)
    /\ UNCHANGED <<reply, signers, orderVars, delivered, aborted>>

\* handle_create_trade: an order for a countersell that is registered goes to
\* its actor, whatever has become of it.
HandleCreate ==
    /\ Take("create")
    /\ LET t == Head(commands).trade
       IN IF t \notin OneShot /\ Registered(t)
          THEN /\ tasks' = Send(actors[t], "add")
               /\ UNCHANGED <<routeVars, creating, walletCmds>>
          ELSE CreateNewTrade(t)
    /\ UNCHANGED <<reply, signers, orderVars, delivered, aborted>>

\* The rest of create_new_trade, once the wallet manager has answered.
Created ==
    /\ reply = "ok"
    /\ reply' = "none"
    /\ creating' = NoTrade
    /\ UNCHANGED <<routeVars, walletCmds, signers, orderVars, commands, tasks,
                   delivered, aborted>>

AbortCreation ==
    /\ reply = "failed"
    /\ reply' = "none"
    /\ creating' = NoTrade
    /\ actors' = [actors EXCEPT ![creating] = 0]
    /\ subs' = Unsubscribe(subs, creating)
    /\ aborted' = aborted \cup {actors[creating]}
    /\ UNCHANGED <<poolRef, walletCmds, signers, orderVars, commands, tasks,
                   delivered>>

-----------------------------------------------------------------------------
\* Slip: the other trades of the wallet are not looked at.
SignerInUseNever(reg, w) == FALSE

SignerInUse(reg, w) == \E t \in Trade : reg[t] # 0 /\ WalletOf[t] = w

\* Slip: the pool's reference is released for a trade that is gone, too.
HandleCompleteUnchecked ==
    /\ Take("complete")
    /\ LET t == Head(commands).trade
       IN /\ actors' = [actors EXCEPT ![t] = 0]
          /\ subs' = Unsubscribe(subs, t)
          /\ poolRef' = [poolRef EXCEPT ![MintOf[t]] = @ - 1]
          /\ walletCmds' =
               IF SignerInUse(actors', WalletOf[t])
               THEN walletCmds
               ELSE Append(walletCmds, [kind |-> "destroy", wallet |-> WalletOf[t]])
    /\ UNCHANGED <<creating, reply, signers, orderVars, tasks, delivered, aborted>>

\* Slip: the signer's use is looked up before the trade is deregistered.
HandleCompleteLate ==
    /\ Take("complete")
    /\ LET t == Head(commands).trade
       IN \/ /\ Registered(t)
             /\ actors' = [actors EXCEPT ![t] = 0]
             /\ subs' = Unsubscribe(subs, t)
             /\ poolRef' = DropRef(poolRef, t)
             /\ walletCmds' =
                  IF SignerInUse(actors, WalletOf[t])
                  THEN walletCmds
                  ELSE Append(walletCmds, [kind |-> "destroy",
                                           wallet |-> WalletOf[t]])
          \/ /\ ~Registered(t)
             /\ UNCHANGED <<routeVars, walletCmds>>
    /\ UNCHANGED <<creating, reply, signers, orderVars, tasks, delivered, aborted>>

\* handle_trade_complete
HandleComplete ==
    /\ Take("complete")
    /\ LET t == Head(commands).trade
       IN \/ /\ Registered(t)
             /\ actors' = [actors EXCEPT ![t] = 0]
             /\ subs' = Unsubscribe(subs, t)
             /\ poolRef' = DropRef(poolRef, t)
             /\ walletCmds' =
                  IF SignerInUse(actors', WalletOf[t])
                  THEN walletCmds
                  ELSE Append(walletCmds, [kind |-> "destroy",
                                           wallet |-> WalletOf[t]])
          \/ /\ ~Registered(t)
             /\ UNCHANGED <<routeVars, walletCmds>>
    /\ UNCHANGED <<creating, reply, signers, orderVars, tasks, delivered, aborted>>

\* handle_remove_order: without an actor the row alone is updated.
HandleRemove ==
    /\ Take("remove")
    /\ LET t == Head(commands).trade
       IN tasks' = IF Registered(t) THEN Send(actors[t], "remove") ELSE tasks
    /\ UNCHANGED <<routeVars, walletVars, orderVars, delivered, aborted>>

\* ForwardExecutionOrder: Guillotine spawns a task for the order.
HandleForward ==
    /\ Take("forward")
    /\ orders' = orders \cup {[n |-> Head(commands).n, actor |-> Head(commands).actor,
                               signing |-> FALSE]}
    /\ UNCHANGED <<routeVars, walletVars, issued, results, tasks, delivered, aborted>>

\* route_transaction_logs: once for every identifier in the transaction, a
\* pool's only while the map knows it.
RouteLogs(tx) ==
    /\ creating = NoTrade
    /\ \A a \in 1 .. Len(tasks) : Len(tasks[a].mailbox) < MaxMail
    /\ LET times == tx.curve + (IF poolRef[tx.mint] > 0 THEN tx.pool ELSE 0)
           Copied(a) == LET t == tasks[a].trade
                        IN  IF actors[t] = a /\ ~Dead(a)
                            THEN times * subs[tx.mint][t] ELSE 0
       IN  /\ times > 0
           /\ tasks' = [a \in 1 .. Len(tasks) |->
                [tasks[a] EXCEPT !.mailbox = @ \o Copies("logs", Copied(a))]]
    /\ UNCHANGED <<routeVars, walletVars, orderVars, commands, delivered, aborted>>

\* The results' arm of command_loop: the result goes to the actor registered
\* for its trade now.
RouteResult ==
    /\ creating = NoTrade
    /\ results # <<>>
    /\ results' = Tail(results)
    /\ LET t == tasks[Head(results)].trade
       IN  tasks' = IF Registered(t) THEN Send(actors[t], "result") ELSE tasks
    /\ UNCHANGED <<routeVars, walletVars, orders, issued, commands, delivered, aborted>>

-----------------------------------------------------------------------------
(* wallet_manager_loop: decryption may fail; only Buffett waits for it.    *)

Prepare ==
    /\ walletCmds # <<>>
    /\ Head(walletCmds).kind = "prepare"
    /\ walletCmds' = Tail(walletCmds)
    /\ \/ /\ signers' = signers \cup {Head(walletCmds).wallet}
          /\ reply' = "ok"
       \/ /\ reply' = "failed"
          /\ UNCHANGED signers
    /\ UNCHANGED <<routeVars, creating, orderVars, commands, tasks, delivered, aborted>>

Destroy ==
    /\ walletCmds # <<>>
    /\ Head(walletCmds).kind = "destroy"
    /\ walletCmds' = Tail(walletCmds)
    /\ signers' = signers \ {Head(walletCmds).wallet}
    /\ UNCHANGED <<routeVars, creating, reply, orderVars, commands, tasks,
                   delivered, aborted>>

-----------------------------------------------------------------------------
(* TradeActor::run.  An actor starts as soon as it is spawned, while       *)
(* Buffett still waits for the signer.                                     *)

Issue(a) ==
    /\ issued < MaxOrders
    /\ issued' = issued + 1
    /\ commands' = Append(commands, [kind |-> "forward", n |-> issued + 1,
                                     actor |-> a])

\* initialize fails, and the task returns there; or it succeeds, and activate
\* gives a one-shot's order, or nothing when it fails.
Start(a) ==
    /\ tasks[a].phase = "starting"
    /\ \/ /\ tasks' = [tasks EXCEPT ![a].phase = "failed", ![a].mailbox = <<>>]
          /\ UNCHANGED <<issued, commands>>
       \/ /\ tasks' = [tasks EXCEPT ![a].phase = "running"]
          /\ UNCHANGED <<issued, commands>>
       \/ /\ tasks' = [tasks EXCEPT ![a].phase = "running"]
          /\ tasks[a].trade \in OneShot
          /\ Issue(a)
    /\ UNCHANGED <<routeVars, walletVars, orders, results, delivered, aborted>>

\* A one-shot completes with its result; a countersell may complete with any
\* result or removal.
MayComplete(a, m) == m = "result" \/ (m = "remove" /\ tasks[a].trade \notin OneShot)
MustComplete(a, m) == m = "result" /\ tasks[a].trade \in OneShot

Receive(a) == /\ tasks[a].phase = "running"
              /\ tasks[a].mailbox # <<>>

Handle(a) ==
    /\ Receive(a)
    /\ LET m == Head(tasks[a].mailbox)
       IN  /\ ~MustComplete(a, m)
           /\ \/ UNCHANGED <<issued, commands>>
              \/ m = "logs" /\ tasks[a].trade \notin OneShot /\ Issue(a)
    /\ tasks' = [tasks EXCEPT ![a].mailbox = Tail(@)]
    /\ UNCHANGED <<routeVars, walletVars, orders, results, delivered, aborted>>

\* Slip: the actor ends without telling Buffett.
CompleteSilently(a) ==
    /\ Receive(a)
    /\ MayComplete(a, Head(tasks[a].mailbox))
    /\ tasks' = [tasks EXCEPT ![a].phase = "stopped", ![a].mailbox = <<>>]
    /\ UNCHANGED <<routeVars, walletVars, orderVars, commands, delivered, aborted>>

Complete(a) ==
    /\ Receive(a)
    /\ MayComplete(a, Head(tasks[a].mailbox))
    /\ tasks' = [tasks EXCEPT ![a].phase = "stopped", ![a].mailbox = <<>>]
    /\ commands' = Append(commands, [kind |-> "complete", trade |-> tasks[a].trade])
    /\ UNCHANGED <<routeVars, walletVars, orderVars, delivered, aborted>>

\* Slip: the loop goes on when the mailbox is closed.
ShutDownIgnored(a) ==
    /\ tasks[a].phase = "running"
    /\ tasks[a].mailbox = <<>>
    /\ Closed(a)
    /\ UNCHANGED vars

\* The mailbox is closed and drained: recv returns None.
ShutDown(a) ==
    /\ tasks[a].phase = "running"
    /\ tasks[a].mailbox = <<>>
    /\ Closed(a)
    /\ tasks' = [tasks EXCEPT ![a].phase = "stopped"]
    /\ UNCHANGED <<routeVars, walletVars, orderVars, commands, delivered, aborted>>

-----------------------------------------------------------------------------
(* process_order: the plan may fail, which publishes nothing; the signer   *)
(* is looked up once, and its absence fails the order.                     *)

PlanFails(o) ==
    /\ ~o.signing
    /\ orders' = orders \ {o}
    /\ UNCHANGED <<routeVars, walletVars, issued, results, commands, tasks,
                   delivered, aborted>>

Sign(o) ==
    /\ ~o.signing
    /\ WalletOf[tasks[o.actor].trade] \in signers
    /\ orders' = (orders \ {o}) \cup {[o EXCEPT !.signing = TRUE]}
    /\ UNCHANGED <<routeVars, walletVars, issued, results, commands, tasks,
                   delivered, aborted>>

Unsigned(o) ==
    /\ ~o.signing
    /\ WalletOf[tasks[o.actor].trade] \notin signers
    /\ orders' = orders \ {o}
    /\ results' = Append(results, o.actor)
    /\ UNCHANGED <<routeVars, walletVars, issued, commands, tasks, delivered, aborted>>

\* The submission ends, CONFIRMED or FAILED.
Submit(o) ==
    /\ o.signing
    /\ orders' = orders \ {o}
    /\ results' = Append(results, o.actor)
    /\ UNCHANGED <<routeVars, walletVars, issued, commands, tasks, delivered, aborted>>

-----------------------------------------------------------------------------
BuffettStep == \/ HandleCreate \/ HandleComplete \/ HandleRemove \/ HandleForward
               \/ Created \/ AbortCreation

WalletStep == Prepare \/ Destroy

ActorStep(a) == Start(a) \/ Handle(a) \/ Complete(a) \/ ShutDown(a)

TaskStep(o) == PlanFails(o) \/ Sign(o) \/ Unsigned(o) \/ Submit(o)

Next ==
    \/ BuffettStep
    \/ RouteResult
    \/ WalletStep
    \/ \E t \in Trade : Deliver(t) \/ DeliverRemoval(t)
    \/ \E tx \in Transaction : RouteLogs(tx)
    \/ \E a \in 1 .. Len(tasks) : ActorStep(a)
    \/ \E o \in orders : TaskStep(o)

Spec == Init /\ [][Next]_vars
(* Each arm of command_loop is taken again and again while it is ready     *)
(* (select! picks among the ready arms at random); so is every actor's     *)
(* loop and the wallet manager's, whose calls return.                      *)
Fairness == /\ WF_vars(BuffettStep)
            /\ WF_vars(RouteResult)
            /\ WF_vars(WalletStep)
            /\ \A a \in 1 .. MaxActors : WF_vars(a <= Len(tasks) /\ ActorStep(a))

FairSpec == Spec /\ Fairness

-----------------------------------------------------------------------------
TypeOK ==
    /\ actors \in [Trade -> 0 .. Len(tasks)]
    /\ subs \in [Mint -> [Trade -> Nat]]
    /\ poolRef \in [Mint -> Nat]
    /\ commands \in Seq(Command)
    /\ creating \in Trade \cup {NoTrade}
    /\ reply \in {"none", "ok", "failed"}
    /\ walletCmds \in Seq(WalletCmd)
    /\ signers \subseteq Wallet
    /\ tasks \in Seq(TaskState)
    /\ orders \subseteq Order
    /\ issued \in Nat
    /\ results \in Seq(1 .. Len(tasks))
    /\ delivered \in [Trade -> Nat]
    /\ aborted \subseteq 1 .. Len(tasks)

On(m) == {t \in Trade : Registered(t) /\ MintOf[t] = m}

AbortedOn(m) == {a \in aborted : MintOf[tasks[a].trade] = m}

(* The routes of the logs follow the registry: a trade is in its token's   *)
(* list exactly once while it is registered and in no other, and a pool    *)
(* has one reference per registered trade, and one for ever from each      *)
(* creation aborted for want of a signer (handlers.rs:106).  A duplicate   *)
(* would hand a trade the same transaction twice; a reference too few      *)
(* would cut trades off from their pool.                                   *)
RoutesExact ==
    /\ \A m \in Mint, t \in Trade : subs[m][t] = IF t \in On(m) THEN 1 ELSE 0
    /\ \A m \in Mint :
         poolRef[m] = Cardinality(On(m))
                    + Cardinality(AbortedOn(m))

\* The registry, the channels and the routes agree with each other.
Consistent == TypeOK /\ RoutesExact

\* Between its creation and its end no registered trade is without a signer.
SignersKept ==
    \A t \in Trade : Registered(t) /\ t # creating =>
      /\ WalletOf[t] \in signers
      /\ \A i \in 1 .. Len(walletCmds) :
           walletCmds[i] # [kind |-> "destroy", wallet |-> WalletOf[t]]

(* A registered trade's signer is in memory from the end of its creation   *)
(* on, nobody is about to destroy it, and its actor's orders find it,      *)
(* although the actor may order before the signer was asked for and other  *)
(* trades of the wallet come and go.                                       *)
SignerReady ==
    /\ SignersKept
    /\ \A o \in orders :
         LET t == tasks[o.actor].trade
         IN  actors[t] = o.actor => WalletOf[t] \in signers

Redelivered(w) == \E t \in OneShot : WalletOf[t] = w /\ delivered[t] > 1

(* A decrypted key stays in memory only while a trade of its wallet is     *)
(* registered, or until its destruction is carried out; the one exception  *)
(* is a one-shot whose repeated creation failed after it made room.        *)
KeysAccounted ==
    \A w \in signers :
      \/ SignerInUse(actors, w)
      \/ \E i \in 1 .. Len(walletCmds) :
           walletCmds[i] = [kind |-> "destroy", wallet |-> w]
      \/ Redelivered(w)

(* A countersell's completion, whenever Buffett comes to it, is that of    *)
(* the actor registered then, which has stopped: it never takes the        *)
(* registration of a successor.                                            *)
CompletionOwn ==
    \A i \in 1 .. Len(commands) :
      commands[i].kind = "complete" /\ commands[i].trade \notin OneShot =>
        LET t == commands[i].trade
        IN  Registered(t) /\ tasks[actors[t]].phase = "stopped"

\* The registration of an actor that completed is always removed.
Reaped ==
    \A t \in Trade :
      Registered(t) /\ tasks[actors[t]].phase = "stopped"
        ~> ~(Registered(t) /\ tasks[actors[t]].phase = "stopped")

\* A key that no registered trade uses is destroyed, but for the exception.
KeysDestroyed ==
    \A w \in Wallet :
      w \in signers /\ ~SignerInUse(actors, w)
        ~> w \notin signers \/ SignerInUse(actors, w) \/ Redelivered(w)

\* An actor whose trade was deregistered or replaced comes to an end.
ClosedStops ==
    \A a \in 1 .. MaxActors :
      a <= Len(tasks) /\ Closed(a) ~> a <= Len(tasks) /\ Dead(a)

\* Both: an actor that has nothing more to do is neither registered nor running
\* for ever.
EndedAreGone == Reaped /\ ClosedStops

-----------------------------------------------------------------------------
(* Claims of the repository that the code does not keep.                   *)

\* countersell/mod.rs:316 takes a result for its own when the trade id is; the
\* result is to reach the actor that issued the order.
ResultsToIssuer ==
    [][RouteResult =>
         LET a == Head(results)
             t == tasks[a].trade
         IN  Registered(t) => actors[t] = a]_vars

\* handlers.rs:105 reports the creation aborted when the signer cannot be
\* prepared; an aborted trade is not to have an order signed.
AbortedNeverSigns == \A o \in orders : o.signing => o.actor \notin aborted

\* README.md:5 isolates trades from one another: the end of a trade that was
\* replaced is not to take the running one's registration.
CompletionOfStopped ==
    [][HandleComplete =>
         LET t == Head(commands).trade
         IN  Registered(t) => tasks[actors[t]].phase = "stopped"]_vars
-----------------------------------------------------------------------------
(* The inductive invariant of the proofs.                                  *)

\* Actor numbers in the registry, the channels and the executor are those of
\* spawned actors, and no registered actor's creation was aborted.
Spawned ==
    /\ \A t \in Trade : Registered(t) =>
         tasks[actors[t]].trade = t /\ actors[t] \notin aborted
    /\ \A i \in 1 .. Len(commands) :
         commands[i].kind = "forward" => commands[i].actor \in 1 .. Len(tasks)
    /\ \A o \in orders : o.actor \in 1 .. Len(tasks)

\* While Buffett waits for a signer nothing overtakes it: the request is the
\* last in the wallet manager's channel, the answer leaves that channel empty,
\* and no order of the new actor has reached Guillotine.
Awaited ==
    /\ creating = NoTrade => reply = "none"
    /\ creating # NoTrade =>
         Registered(creating) /\ \A o \in orders : o.actor # actors[creating]
    /\ reply = "ok" => WalletOf[creating] \in signers
    /\ reply # "none" => walletCmds = <<>>
    /\ \A i \in 1 .. Len(walletCmds) : walletCmds[i].kind = "prepare" =>
         /\ creating # NoTrade
         /\ i = Len(walletCmds)
         /\ walletCmds[i].wallet = WalletOf[creating]

FiniteRoutes == \A m \in Mint : IsFiniteSet(On(m))

IInv == /\ TypeOK
        /\ Spawned
        /\ Awaited
        /\ SignersKept
        /\ FiniteRoutes
        /\ RoutesExact

(* What CompletionOwn rests on: the mailbox of a countersell's actor is    *)
(* empty once it stopped, once it is not the registered one, and while its *)
(* creation lasts, so that only the registered actor can complete, once.   *)
Silenced == \A a \in 1 .. Len(tasks) : Dead(a) => tasks[a].mailbox = <<>>

Unheard ==
    \A a \in 1 .. Len(tasks) :
      /\ tasks[a].trade \notin OneShot
      /\ Closed(a) \/ creating = tasks[a].trade
      => tasks[a].mailbox = <<>>

CompletionOnce ==
    \A i, j \in 1 .. Len(commands) :
      /\ commands[i].kind = "complete" /\ commands[j].kind = "complete"
      /\ commands[i].trade = commands[j].trade
      /\ commands[i].trade \notin OneShot
      => i = j

CompletionAfter ==
    \A i \in 1 .. Len(commands) :
      commands[i].kind = "complete" /\ commands[i].trade \notin OneShot
        => commands[i].trade # creating

CInv == /\ Silenced
        /\ Unheard
        /\ CompletionOnce
        /\ CompletionAfter
        /\ CompletionOwn

(* What KeysAccounted rests on: a creation is handled once for each time   *)
(* it was delivered, so a one-shot that makes room for itself was          *)
(* delivered twice; and the key of a creation under way counts once the    *)
(* wallet manager has answered.                                            *)
Creates(i, t) == commands[i].kind = "create" /\ commands[i].trade = t

DeliveredFirst ==
    \A t \in Trade :
      /\ Registered(t) => delivered[t] > 0
      /\ \A i \in 1 .. Len(commands) : Creates(i, t) =>
           /\ delivered[t] > 0
           /\ Registered(t) => delivered[t] > 1
           /\ \A j \in 1 .. Len(commands) :
                Creates(j, t) /\ i # j => delivered[t] > 1

Needed(w) == \E t \in Trade : /\ Registered(t) /\ WalletOf[t] = w
                              /\ t = creating => reply = "ok"

KeysKept ==
    \A w \in signers :
      \/ Needed(w)
      \/ \E i \in 1 .. Len(walletCmds) :
           walletCmds[i] = [kind |-> "destroy", wallet |-> w]
      \/ Redelivered(w)

KInv == DeliveredFirst /\ KeysKept
=============================================================================
