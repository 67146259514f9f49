------------------------------ MODULE OneShot -------------------------------
(***************************************************************************)
(* One-shot trades (examples/oneshot/buy.rs and sell.rs, the same machine  *)
(* twice): an actor that orders one trade when it is activated, records    *)
(* its result through Hermes and completes.  With it the parts of Buffett, *)
(* Janus and Guillotine that decide which actor exists, where a result     *)
(* goes and whether the chain traded.                                      *)
(*                                                                         *)
(* The queue delivers a creation at least once, and every delivery builds  *)
(* a new actor in the place of the registered one.  An actor is a delivery *)
(* <<o, n>>: the n-th one of order o; its execution order and its          *)
(* signature carry its name.                                               *)
(*                                                                         *)
(* Abstracted: prices and protocols (module Swap), Shylock (of which the   *)
(* answers that matter are choices here), signers (module Buffett: here    *)
(* one is ready or not) and the attempts of Guillotine (module             *)
(* Guillotine): here an order has landed or not, and one that was reported *)
(* FAILED may land late.                                                   *)
(***************************************************************************)
EXTENDS Hermes, FiniteSets

CONSTANTS Deliveries,     \* bound: how often a creation is delivered
          NoSignature     \* "N/A"

Actor == Order \X (1 .. Deliveries)

ASSUME OneShotAssumption == /\ Deliveries \in Nat \ {0}
                            /\ Signature = Actor \cup {NoSignature}
                            /\ NoSignature \notin Actor

VARIABLES commands,     \* Buffett's command channel
          results,      \* the channel of Guillotine's results
          delivered,    \* how often each creation was delivered
          removed,      \* the orders whose removal was delivered
          built,        \* how many actors each order has had
          registered,   \* the actor each order id stands for, 0 if none
          phase,        \* each actor's place in its run
          inbox,        \* each actor's mailbox
          warrant,      \* what became of each actor's execution order
          landed,       \* the actors whose trade the chain has executed
          forgotten     \* orders one of whose results no actor recorded

janusVars == <<delivered, removed>>
buffettVars == <<built, registered>>
actorVars == <<phase, inbox>>
executorVars == <<results, warrant, landed>>

vars == <<hermesVars, commands, janusVars, buffettVars, actorVars,
          executorVars, forgotten>>

Phase == {"none", "failed", "activating", "waiting", "done"}
Fate == {"none", "queued", "running", "CONFIRMED", "FAILED", "unplanned"}

Init == /\ HermesInit
        /\ commands = <<>>
        /\ results = <<>>
        /\ delivered = [o \in Order |-> 0]
        /\ removed = {}
        /\ built = [o \in Order |-> 0]
        /\ registered = [o \in Order |-> 0]
        /\ phase = [a \in Actor |-> "none"]
        /\ inbox = [a \in Actor |-> <<>>]
        /\ warrant = [a \in Actor |-> "none"]
        /\ landed = {}
        /\ forgotten = {}

Registered(a) == registered[a[1]] = a[2]

-----------------------------------------------------------------------------
(* Janus: the queue's messages become commands.                            *)

DeliverCreation(o) ==
    /\ delivered[o] < Deliveries
    /\ delivered' = [delivered EXCEPT ![o] = @ + 1]
    /\ commands' = Append(commands, [kind |-> "create", order |-> o])
    /\ UNCHANGED <<hermesVars, removed, buffettVars, actorVars, executorVars,
                   forgotten>>

\* The API sends it for any order, whatever its type and status.
DeliverRemoval(o) ==
    /\ o \notin removed
    /\ removed' = removed \cup {o}
    /\ commands' = Append(commands, [kind |-> "remove", order |-> o])
    /\ UNCHANGED <<hermesVars, delivered, buffettVars, actorVars,
                   executorVars, forgotten>>

-----------------------------------------------------------------------------
(* Buffett: one command at a time, results beside them.                    *)

Take(kind) == /\ commands # <<>>
              /\ Head(commands).kind = kind
              /\ commands' = Tail(commands)

Subject == Head(commands).order

\* The registered actor, if any, is replaced: its mailbox is closed.  When the
\* signer, which the loop waits for, cannot be prepared, the new actor is
\* deregistered again, but it runs.
HandleCreate ==
    /\ Take("create")
    /\ LET n == built[Subject] + 1
       IN /\ built' = [built EXCEPT ![Subject] = n]
          /\ \E signerReady \in BOOLEAN :
               registered' = [registered EXCEPT
                                ![Subject] = IF signerReady THEN n ELSE 0]
          /\ phase' = [phase EXCEPT ![<<Subject, n>>] = "activating"]
    /\ UNCHANGED <<hermesVars, janusVars, inbox, executorVars, forgotten>>

\* The trade cannot be built: the old one is gone all the same.
CreateFails ==
    /\ Take("create")
    /\ registered' = [registered EXCEPT ![Subject] = 0]
    /\ UNCHANGED <<hermesVars, janusVars, built, actorVars, executorVars,
                   forgotten>>

\* No trade has the id "oneshotbuy-wallet-mint" that Janus makes up for the
\* removal: no actor is found, and the row is marked.
HandleRemove ==
    /\ Take("remove")
    /\ Tell(<<UpdateOrderStatus(Subject, "DELETED")>>)
    /\ UNCHANGED <<janusVars, buffettVars, actorVars, executorVars, forgotten>>

HandleForward ==
    /\ Take("forward")
    /\ warrant' = [warrant EXCEPT ![Head(commands).actor] = "running"]
    /\ UNCHANGED <<hermesVars, janusVars, buffettVars, actorVars, results,
                   landed, forgotten>>

\* Slip: registrations are counted.
HandleCompleteCounting ==
    /\ Take("complete")
    /\ registered' = [registered EXCEPT ![Subject] = @ - 1]
    /\ UNCHANGED <<hermesVars, janusVars, built, actorVars, executorVars,
                   forgotten>>

HandleComplete ==
    /\ Take("complete")
    /\ registered' = [registered EXCEPT ![Subject] = 0]
    /\ UNCHANGED <<hermesVars, janusVars, built, actorVars, executorVars,
                   forgotten>>

\* A result goes to the actor its order id stands for now.
RouteResult ==
    /\ results # <<>>
    /\ results' = Tail(results)
    /\ LET r == Head(results)
           a == <<r.actor[1], registered[r.actor[1]]>>
       IN IF a \in Actor /\ phase[a] \in {"activating", "waiting"}
          THEN /\ inbox' = [inbox EXCEPT ![a] = Append(@, r)]
               /\ UNCHANGED forgotten
          ELSE /\ forgotten' = forgotten \cup {a[1]}
               /\ UNCHANGED inbox
    /\ UNCHANGED <<hermesVars, commands, janusVars, buffettVars, phase,
                   warrant, landed>>

-----------------------------------------------------------------------------
(* The actor.                                                              *)

\* Shylock could not register the token: run returns, the actor stays
\* registered.
InitializeFails(a) ==
    /\ phase[a] = "activating"
    /\ phase' = [phase EXCEPT ![a] = "failed"]
    /\ forgotten' = IF inbox[a] = <<>> THEN forgotten
                                       ELSE forgotten \cup {a[1]}
    /\ UNCHANGED <<hermesVars, commands, janusVars, buffettVars, inbox,
                   executorVars>>

Activate(a) ==
    /\ phase[a] = "activating"
    /\ phase' = [phase EXCEPT ![a] = "waiting"]
    /\ warrant' = [warrant EXCEPT ![a] = "queued"]
    /\ commands' = Append(commands, [kind |-> "forward", actor |-> a])
    /\ UNCHANGED <<hermesVars, janusVars, buffettVars, inbox, results, landed,
                   forgotten>>

\* No live data, or that of the wrong protocol: the error is not even logged,
\* and the actor waits.
ActivateFails(a) ==
    /\ phase[a] = "activating"
    /\ phase' = [phase EXCEPT ![a] = "waiting"]
    /\ UNCHANGED <<hermesVars, commands, janusVars, buffettVars, inbox,
                   executorVars, forgotten>>

\* A terminal result completes the actor, whatever it could record of it.
Conclude(a, stage) ==
    /\ phase[a] = "waiting"
    /\ inbox[a] # <<>>
    /\ Head(inbox[a]).stage = stage
    /\ inbox' = [inbox EXCEPT ![a] = Tail(@)]
    /\ phase' = [phase EXCEPT ![a] = "done"]
    /\ commands' = Append(commands, [kind |-> "complete", order |-> a[1]])
    /\ UNCHANGED <<janusVars, buffettVars, executorVars>>

Forget(a, some) == forgotten' = IF some THEN forgotten \cup {a[1]} ELSE forgotten

\* What is left in the mailbox is lost with it.
More(a) == Len(inbox[a]) > 1

\* Slip: the order's amounts are booked without its transaction.
OnConfirmedUnlogged(a) ==
    /\ Conclude(a, "CONFIRMED")
    /\ Tell(<<IncrementOrderAmounts(a[1])>>)
    /\ Forget(a, More(a))

\* The transaction was fetched and its amounts could be read.
OnConfirmed(a) ==
    /\ Conclude(a, "CONFIRMED")
    /\ Tell(<<LogTransaction(Head(inbox[a]).actor, a[1], "CONFIRMED"),
              IncrementOrderAmounts(a[1])>>)
    /\ Forget(a, More(a))

\* It could not (never, for a dry run's signature): on_result has returned.
OnUnread(a) ==
    /\ Conclude(a, "CONFIRMED")
    /\ Forget(a, TRUE)
    /\ UNCHANGED hermesVars

\* Slip: the status of a failed order is not written.
OnFailedSilently(a) ==
    /\ Conclude(a, "FAILED")
    /\ Tell(<<LogTransaction(NoSignature, a[1], "FAILED")>>)
    /\ Forget(a, More(a))

OnFailed(a) ==
    /\ Conclude(a, "FAILED")
    /\ Tell(<<UpdateOrderStatus(a[1], "FAILED"),
              LogTransaction(NoSignature, a[1], "FAILED")>>)
    /\ Forget(a, More(a))

\* A replaced actor drains its mailbox and ends without a TradeComplete.
Closed(a) ==
    /\ phase[a] = "waiting"
    /\ inbox[a] = <<>>
    /\ ~Registered(a)
    /\ phase' = [phase EXCEPT ![a] = "done"]
    /\ UNCHANGED <<hermesVars, commands, janusVars, buffettVars, inbox,
                   executorVars, forgotten>>

-----------------------------------------------------------------------------
(* Guillotine and the chain.                                               *)

Report(a, stage) ==
    /\ warrant[a] = "running"
    /\ warrant' = [warrant EXCEPT ![a] = stage]
    /\ results' = Append(results, [actor |-> a, stage |-> stage])
    /\ UNCHANGED <<hermesVars, commands, janusVars, buffettVars, actorVars,
                   landed, forgotten>>

Land(a) ==
    /\ warrant[a] \in {"running", "FAILED"}
    /\ landed' = landed \cup {a}
    /\ UNCHANGED <<hermesVars, commands, janusVars, buffettVars, actorVars,
                   results, warrant, forgotten>>

\* Slip: a signature is taken for a confirmation.
ConfirmOnSend(a) == Report(a, "CONFIRMED")

Confirm(a) == a \in landed /\ Report(a, "CONFIRMED")

Fail(a) == Report(a, "FAILED")

\* The plan cannot be built: there is no result.
Unplanned(a) ==
    /\ warrant[a] = "running"
    /\ a \notin landed
    /\ warrant' = [warrant EXCEPT ![a] = "unplanned"]
    /\ UNCHANGED <<hermesVars, commands, janusVars, buffettVars, actorVars,
                   results, landed, forgotten>>

-----------------------------------------------------------------------------
Persist == HermesNext /\ UNCHANGED <<commands, janusVars, buffettVars,
                                     actorVars, executorVars, forgotten>>

Command == HandleCreate \/ CreateFails \/ HandleRemove \/ HandleForward
             \/ HandleComplete

ActorStep(a) == \/ InitializeFails(a) \/ Activate(a) \/ ActivateFails(a)
                \/ OnConfirmed(a) \/ OnUnread(a) \/ OnFailed(a) \/ Closed(a)

Next == \/ \E o \in Order : DeliverCreation(o) \/ DeliverRemoval(o)
        \/ Command
        \/ RouteResult
        \/ \E a \in Actor : \/ ActorStep(a)
                            \/ Land(a) \/ Confirm(a) \/ Fail(a) \/ Unplanned(a)
        \/ Persist

Spec == Init /\ [][Next]_vars

\* Every loop takes its next message, and calls return.
FairSpec == /\ Spec
            /\ WF_vars(Persist) /\ WF_vars(Command) /\ WF_vars(RouteResult)
            /\ \A a \in Actor : WF_vars(ActorStep(a))

-----------------------------------------------------------------------------
TypeOK ==
    /\ columns \subseteq InsertColumns \cup TriggerColumns
    /\ \A i \in DOMAIN queue : queue[i].order \in Order
    /\ row \in [Order -> [status : Status, booked : Nat]]
    /\ txs \in [DOMAIN txs -> [order : Order, status : {"CONFIRMED", "FAILED"}]]
    /\ DOMAIN txs \subseteq Signature
    /\ refused \in [Order -> Nat]
    /\ delivered \in [Order -> 0 .. Deliveries]
    /\ removed \cup forgotten \subseteq Order
    /\ built \in [Order -> 0 .. Deliveries]
    /\ registered \in [Order -> 0 .. Deliveries]
    /\ phase \in [Actor -> Phase]
    /\ warrant \in [Actor -> Fate]
    /\ landed \subseteq Actor

\* The commands that would make the database record a trade of order o.
Bookings(o) == {IncrementOrderAmounts(o)}
Logs(o) == {LogTransaction(s, o, "CONFIRMED") : s \in Signature}

Queued(these) == Cardinality({i \in DOMAIN queue : queue[i] \in these})

Booked(o) == row[o].booked + Queued(Bookings(o))

Logged(o) == {s \in DOMAIN txs : txs[s] = [order |-> o, status |-> "CONFIRMED"]}

Confirmed(o) == Cardinality(Logged(o)) + Queued(Logs(o))

\* An order's booked amount and its confirmed transactions tell the same
\* story: counting what is still queued, they differ by no more than the
\* commands the database refused, since the two are written one by one.
AmountsMatchTransactions ==
    \A o \in Order : /\ Booked(o) <= Confirmed(o) + refused[o]
                     /\ Confirmed(o) <= Booked(o) + refused[o]

\* The two tables agree.
Consistent == TypeOK /\ AmountsMatchTransactions

\* What the tables say was traded was traded: every confirmed signature is one
\* that landed, and no order books more trades than landed for it.
RecordsTrue ==
    /\ \A s \in DOMAIN txs : txs[s].status = "CONFIRMED" => s \in landed
    /\ \A o \in Order :
         row[o].booked <= Cardinality({a \in landed : a[1] = o})

\* A result that Guillotine published ends as a status of its order, unless
\* no actor could record it or the database refused one of its commands.
EveryResultRecorded ==
    \A a \in Actor :
      warrant[a] \in {"CONFIRMED", "FAILED"} ~>
        \/ row[a[1]].status # "CREATED"
        \/ a[1] \in forgotten
        \/ refused[a[1]] > 0

-----------------------------------------------------------------------------
(* Claims of the code that do not hold.                                    *)

\* A one-shot trades once.
TradesOnce ==
    \A o \in Order : Cardinality({a \in landed : a[1] = o}) <= 1

\* An order that is removed without an actor is complete or never started: no
\* actor of it is waiting for the result of a trade.
RemovedIsIdle ==
    \A o \in Order :
      (\E i \in DOMAIN queue : queue[i] = UpdateOrderStatus(o, "DELETED")) =>
        ~\E a \in Actor : a[1] = o /\ warrant[a] = "running"

\* A completed order has its transaction in order_tx, when no query failed by
\* chance (it has not, with the columns the repository creates).
TransactionsLogged ==
    \A o \in Order :
      row[o].status = "COMPLETED" /\ MaxRefused = 0 =>
        \E s \in DOMAIN txs : txs[s] = [order |-> o, status |-> "CONFIRMED"]

\* A failed order has its failed attempt in order_tx, when no query failed by
\* chance and its command was handled.
FailuresLogged ==
    \A o \in Order :
      row[o].status = "FAILED" /\ queue = <<>> /\ MaxRefused = 0 =>
        \E s \in DOMAIN txs : txs[s] = [order |-> o, status |-> "FAILED"]

-----------------------------------------------------------------------------
(* The inductive invariant of the proofs.                                  *)

CommandMsg == [kind : {"create", "remove", "complete"}, order : Order]
              \cup [kind : {"forward"}, actor : Actor]

Result == [actor : Actor, stage : {"CONFIRMED", "FAILED"}]

HermesMsg == [kind : {"status"}, order : Order, status : Status]
             \cup [kind : {"tx"}, sig : Signature, order : Order,
                   status : {"CONFIRMED", "FAILED"}]
             \cup [kind : {"amounts"}, order : Order]

Typed == /\ TypeOK
         /\ commands \in Seq(CommandMsg)
         /\ results \in Seq(Result)
         /\ inbox \in [Actor -> Seq(Result)]
         /\ queue \in Seq(HermesMsg)

Coming(o) == Cardinality({i \in DOMAIN commands :
                            commands[i] = [kind |-> "create", order |-> o]})

\* Each actor has a delivery of its own.
Numbered ==
    /\ \A o \in Order : /\ built[o] + Coming(o) <= delivered[o]
                       /\ registered[o] <= built[o]
    /\ \A a \in Actor : a[2] > built[a[1]] => phase[a] = "none"

Messages(m) == {m[i] : i \in DOMAIN m}

\* An actor orders its trade once, and Guillotine takes the order once.
ForwardOnce(m) ==
    \A i, j \in DOMAIN m :
      m[i].kind = "forward" /\ m[j].kind = "forward" /\ m[i].actor = m[j].actor
      => i = j

OrderedOnce ==
    /\ \A a \in Actor : phase[a] \in {"none", "activating"} => warrant[a] = "none"
    /\ \A c \in Messages(commands) :
         c.kind = "forward" => warrant[c.actor] = "queued"
    /\ ForwardOnce(commands)

Reports(m) == {r.actor : r \in Messages(m)}

EachOnce(m) == \A i, j \in DOMAIN m : m[i].actor = m[j].actor => i = j

\* A report is what became of the trade.
Reported(m) == \A r \in Messages(m) : warrant[r.actor] = r.stage

\* A trade is reported once, and its report is in one place until an actor of
\* its order has read it.
ReportedOnce ==
    /\ EachOnce(results) /\ Reported(results)
    /\ \A a \in Actor :
         /\ EachOnce(inbox[a]) /\ Reported(inbox[a])
         /\ \A b \in Reports(inbox[a]) : b[1] = a[1]
         /\ Reports(results) \cap Reports(inbox[a]) = {}
    /\ \A a, b \in Actor : b # a => Reports(inbox[b]) \cap Reports(inbox[a]) = {}

ConfirmedLanded == \A a \in Actor : warrant[a] = "CONFIRMED" => a \in landed

OnTheWay == Reports(results) \cup UNION {Reports(inbox[a]) : a \in Actor}

\* The trades of an order whose confirmation was read, or lost.
Told(o) == {a \in Actor : /\ a[1] = o
                          /\ warrant[a] = "CONFIRMED"
                          /\ a \notin OnTheWay}

\* Each of them is booked once at most, and logged once under its name.
BookedOnce == \A o \in Order : Booked(o) <= Cardinality(Told(o))

Confirms(c) == c.kind = "tx" /\ c.status = "CONFIRMED"

SigOnce(m) ==
    \A i, j \in DOMAIN m :
      Confirms(m[i]) /\ Confirms(m[j]) /\ m[i].sig = m[j].sig => i = j

LoggedOnce ==
    /\ \A s \in DOMAIN txs :
         /\ txs[s].status = "CONFIRMED" => s \in Told(txs[s].order)
         /\ txs[s].status = "FAILED" => s = NoSignature
    /\ \A c \in Messages(queue) :
         /\ Confirms(c) => c.sig \in Told(c.order) /\ c.sig \notin DOMAIN txs
         /\ c.kind = "tx" /\ c.status = "FAILED" => c.sig = NoSignature
    /\ SigOnce(queue)

OneShotInv == /\ Typed
              /\ Numbered
              /\ OrderedOnce
              /\ ReportedOnce
              /\ ConfirmedLanded
              /\ BookedOnce
              /\ LoggedOnce
              /\ AmountsMatchTransactions
=============================================================================
