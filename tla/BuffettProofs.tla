--------------------------- MODULE BuffettProofs ----------------------------
(***************************************************************************)
(* The orchestrator keeps its routes exact and a signer ready for every    *)
(* registered trade, for any trades, wallets, tokens and bounds.  Most     *)
(* steps leave the registry and the wallet manager alone: QuietStep treats *)
(* them together.  The others are taken one by one.                        *)
(***************************************************************************)
EXTENDS Buffett, SequenceTheorems, FiniteSetTheorems, TLAPS

\* The actors are the same and still of the same trades.
SameTrades ==
    /\ tasks' \in Seq(TaskState)
    /\ Len(tasks') = Len(tasks)
    /\ \A a \in 1 .. Len(tasks) : tasks'[a].trade = tasks[a].trade

CommandsSpawned ==
    \A i \in 1 .. Len(commands) :
      commands[i].kind = "forward" => commands[i].actor \in 1 .. Len(tasks)

OrdersSpawned == \A o \in orders : o.actor \in 1 .. Len(tasks)

OrdersWait ==
    creating # NoTrade => \A o \in orders : o.actor # actors[creating]

-----------------------------------------------------------------------------
LEMMA TailElements ==
  ASSUME NEW S, NEW s \in Seq(S), s # << >>
  PROVE  /\ Head(s) \in S /\ Head(s) = s[1]
         /\ Tail(s) \in Seq(S)
         /\ Len(Tail(s)) = Len(s) - 1
         /\ \A i \in 1 .. Len(Tail(s)) : i + 1 \in 1 .. Len(s) /\ Tail(s)[i] = s[i + 1]
BY HeadTailProperties, ElementOfSeq, LenProperties

LEMMA AppendElements ==
  ASSUME NEW S, NEW s \in Seq(S), NEW e \in S
  PROVE  /\ Append(s, e) \in Seq(S)
         /\ Len(Append(s, e)) = Len(s) + 1
         /\ \A i \in 1 .. Len(s) : Append(s, e)[i] = s[i]
         /\ Append(s, e)[Len(s) + 1] = e
BY AppendProperties, LenProperties

\* A change of one actor that keeps its trade.
LEMMA TaskExcept ==
  ASSUME TypeOK, NEW a \in 1 .. Len(tasks), NEW e \in TaskState,
         e.trade = tasks[a].trade, tasks' = [tasks EXCEPT ![a] = e]
  PROVE  SameTrades
<1>1. tasks \in Seq(TaskState)
  BY DEF TypeOK
<1> QED
  BY <1>1, ExceptSeq, LenProperties DEF SameTrades

LEMMA TaskFields ==
  ASSUME TypeOK, NEW a \in 1 .. Len(tasks)
  PROVE  /\ tasks[a] \in TaskState
         /\ tasks[a].trade \in Trade
         /\ tasks[a].mailbox \in Seq(Message)
<1>1. tasks[a] \in TaskState
  BY ElementOfSeq DEF TypeOK
<1> QED
  BY <1>1 DEF TaskState

LEMMA PhaseStep ==
  ASSUME TypeOK, NEW a \in 1 .. Len(tasks), NEW p \in Phase, NEW mb \in Seq(Message),
         tasks' = [tasks EXCEPT ![a].phase = p, ![a].mailbox = mb]
  PROVE  SameTrades
<1> DEFINE e == [tasks[a] EXCEPT !.phase = p, !.mailbox = mb]
<1>1. e \in TaskState /\ e.trade = tasks[a].trade
  BY TaskFields DEF TaskState
<1>2. tasks' = [tasks EXCEPT ![a] = e]
  BY TaskFields, LenProperties DEF TypeOK, TaskState
<1> HIDE DEF e
<1> QED
  BY <1>1, <1>2, TaskExcept

LEMMA MailboxStep ==
  ASSUME TypeOK, NEW a \in 1 .. Len(tasks), NEW mb \in Seq(Message),
         tasks' = [tasks EXCEPT ![a].mailbox = mb]
  PROVE  SameTrades
<1> DEFINE e == [tasks[a] EXCEPT !.mailbox = mb]
<1>1. e \in TaskState /\ e.trade = tasks[a].trade
  BY TaskFields DEF TaskState
<1>2. tasks' = [tasks EXCEPT ![a] = e]
  BY TaskFields DEF TypeOK, TaskState
<1> HIDE DEF e
<1> QED
  BY <1>1, <1>2, TaskExcept

LEMMA PhaseOnly ==
  ASSUME TypeOK, NEW a \in 1 .. Len(tasks), NEW p \in Phase,
         tasks' = [tasks EXCEPT ![a].phase = p]
  PROVE  SameTrades
<1> DEFINE e == [tasks[a] EXCEPT !.phase = p]
<1>1. e \in TaskState /\ e.trade = tasks[a].trade
  BY TaskFields DEF TaskState
<1>2. tasks' = [tasks EXCEPT ![a] = e]
  BY TaskFields DEF TypeOK, TaskState
<1> HIDE DEF e
<1> QED
  BY <1>1, <1>2, TaskExcept

LEMMA TasksUnchanged ==
  ASSUME TypeOK, UNCHANGED tasks
  PROVE  SameTrades
BY DEF TypeOK, SameTrades

LEMMA SendKeeps ==
  ASSUME TypeOK, NEW a \in 1 .. Len(tasks), NEW m \in Message,
         tasks' = Send(a, m)
  PROVE  SameTrades
<1>1. CASE Dead(a)
  BY <1>1, TasksUnchanged DEF Send
<1>2. CASE ~Dead(a)
  <2>1. Append(tasks[a].mailbox, m) \in Seq(Message)
    BY TaskFields, AppendElements
  <2>2. tasks' = [tasks EXCEPT ![a].mailbox = Append(tasks[a].mailbox, m)]
    BY <1>2 DEF Send
  <2> QED
    BY <2>1, <2>2, MailboxStep
<1> QED
  BY <1>1, <1>2

\* The sets the routes are counted by depend on the actors' trades only.
LEMMA SameRoutes ==
  ASSUME TypeOK, SameTrades, UNCHANGED <<routeVars, aborted>>, NEW m \in Mint
  PROVE  On(m)' = On(m) /\ AbortedOn(m)' = AbortedOn(m)
<1>1. On(m)' = On(m)
  BY DEF On, Registered, routeVars
<1>2. \A a \in aborted : tasks'[a].trade = tasks[a].trade
  BY DEF TypeOK, SameTrades
<1>3. AbortedOn(m)' = AbortedOn(m)
  BY <1>2 DEF AbortedOn
<1> QED
  BY <1>1, <1>3

\* A step that leaves the registry and the wallet manager alone.
LEMMA QuietStep ==
  ASSUME IInv, SameTrades, UNCHANGED <<routeVars, walletVars, aborted>>,
         commands' \in Seq(Command), CommandsSpawned',
         orders' \subseteq Order, OrdersSpawned', OrdersWait',
         issued' \in Nat, results' \in Seq(1 .. Len(tasks)),
         delivered' \in [Trade -> Nat]
  PROVE  IInv'
<1> USE DEF routeVars, walletVars
<1>1. TypeOK'
  <2>1. TypeOK
    BY DEF IInv
  <2> QED
    BY <2>1 DEF TypeOK, SameTrades
<1>2. Spawned'
  <2>1. TypeOK /\ Spawned
    BY DEF IInv
  <2>2. \A t \in Trade : Registered(t)' => actors[t] \in 1 .. Len(tasks)
    BY <2>1 DEF TypeOK, Registered
  <2>3. \A t \in Trade : Registered(t)' =>
          tasks'[actors'[t]].trade = t /\ actors'[t] \notin aborted'
    BY <2>1, <2>2 DEF Spawned, Registered, SameTrades
  <2> QED
    BY <2>3 DEF Spawned, CommandsSpawned, OrdersSpawned
<1>3. Awaited'
  BY DEF IInv, Awaited, OrdersWait, Registered
<1>4. SignersKept'
  BY DEF IInv, SignersKept, Registered
<1>5. FiniteRoutes' /\ RoutesExact'
  BY SameRoutes DEF IInv, FiniteRoutes, RoutesExact
<1> QED
  BY <1>1, <1>2, <1>3, <1>4, <1>5 DEF IInv
-----------------------------------------------------------------------------
(* Buffett's, Janus's and the ticker's quiet steps.                        *)

\* Taking the first command leaves the rest as they were.
LEMMA TakeKeeps ==
  ASSUME IInv, NEW kind, Take(kind)
  PROVE  /\ Head(commands) \in Command
         /\ Head(commands) = commands[1]
         /\ 1 \in 1 .. Len(commands)
         /\ commands' \in Seq(Command)
         /\ \A i \in 1 .. Len(commands') :
              commands'[i].kind = "forward" => commands'[i].actor \in 1 .. Len(tasks)
<1>1. commands \in Seq(Command) /\ commands # << >> /\ commands' = Tail(commands)
  BY DEF IInv, TypeOK, Take
<1>2. CommandsSpawned
  BY DEF IInv, Spawned, CommandsSpawned
<1>3. 1 \in 1 .. Len(commands)
  BY <1>1, EmptySeq
<1> QED
  BY <1>1, <1>2, <1>3, TailElements DEF CommandsSpawned

\* Appending one does not disturb them either.
LEMMA PostKeeps ==
  ASSUME IInv, SameTrades, NEW c \in Command, commands' = Append(commands, c),
         c.kind = "forward" => c.actor \in 1 .. Len(tasks)
  PROVE  commands' \in Seq(Command) /\ CommandsSpawned'
<1>1. commands \in Seq(Command)
  BY DEF IInv, TypeOK
<1>2. CommandsSpawned
  BY DEF IInv, Spawned, CommandsSpawned
<1>3. /\ commands' \in Seq(Command)
      /\ Len(commands') = Len(commands) + 1
      /\ \A i \in 1 .. Len(commands) : commands'[i] = commands[i]
      /\ commands'[Len(commands) + 1] = c
  BY <1>1, AppendElements
<1>4. Len(commands) \in Nat
  BY <1>1, LenProperties
<1>5. ASSUME NEW i \in 1 .. Len(commands'), commands'[i].kind = "forward"
      PROVE  commands'[i].actor \in 1 .. Len(tasks')
  <2>1. CASE i = Len(commands) + 1
    BY <1>3, <1>5, <2>1 DEF SameTrades
  <2>2. CASE i # Len(commands) + 1
    <3>1. i \in 1 .. Len(commands)
      BY <1>3, <1>4, <2>2
    <3> QED
      BY <1>2, <1>3, <1>5, <3>1 DEF SameTrades, CommandsSpawned
  <2> QED
    BY <2>1, <2>2
<1> QED
  BY <1>3, <1>5 DEF CommandsSpawned

LEMMA SameCommands ==
  ASSUME IInv, SameTrades, UNCHANGED commands
  PROVE  commands' \in Seq(Command) /\ CommandsSpawned'
BY DEF IInv, TypeOK, Spawned, CommandsSpawned, SameTrades

\* The same for what Guillotine works on.
LEMMA SameOrders ==
  ASSUME IInv, SameTrades, UNCHANGED <<actors, creating>>, orders' \subseteq orders
  PROVE  orders' \subseteq Order /\ OrdersSpawned' /\ OrdersWait'
BY DEF IInv, TypeOK, Spawned, Awaited, OrdersSpawned, OrdersWait, SameTrades

LEMMA DeliverStep ==
  ASSUME IInv, NEW t \in Trade, Deliver(t) \/ DeliverRemoval(t)
  PROVE  IInv'
<1>1. SameTrades
  BY TasksUnchanged DEF IInv, Deliver, DeliverRemoval
<1>2. \E c \in Command : c.kind # "forward" /\ commands' = Append(commands, c)
  BY DEF Deliver, DeliverRemoval, Command
<1>3. commands' \in Seq(Command) /\ CommandsSpawned'
  BY <1>1, <1>2, PostKeeps
<1>4. /\ UNCHANGED <<routeVars, walletVars, aborted>>
      /\ orders' = orders /\ issued' = issued /\ results' = results
      /\ delivered' = [delivered EXCEPT ![t] = @ + 1] \/ delivered' = delivered
  BY DEF Deliver, DeliverRemoval, orderVars
<1>5. orders' \subseteq Order /\ OrdersSpawned' /\ OrdersWait'
  BY <1>1, <1>4, SameOrders DEF routeVars, walletVars
<1>6. issued' \in Nat /\ results' \in Seq(1 .. Len(tasks))
  BY <1>4 DEF IInv, TypeOK
<1>7. delivered' \in [Trade -> Nat]
  <2>1. delivered \in [Trade -> Nat]
    BY DEF IInv, TypeOK
  <2> QED
    BY <1>4, <2>1
<1> QED
  BY <1>1, <1>3, <1>4, <1>5, <1>6, <1>7, QuietStep

\* A registered actor is one that was spawned.
LEMMA RegisteredActor ==
  ASSUME TypeOK, NEW t \in Trade, Registered(t)
  PROVE  actors[t] \in 1 .. Len(tasks)
<1>1. Len(tasks) \in Nat /\ actors[t] \in 0 .. Len(tasks)
  BY LenProperties DEF TypeOK
<1> QED
  BY <1>1 DEF Registered

LEMMA HandleRemoveStep ==
  ASSUME IInv, HandleRemove
  PROVE  IInv'
<1> DEFINE t == Head(commands).trade
<1>1. Take("remove")
  BY DEF HandleRemove
<1>2. Head(commands) \in Command /\ Head(commands).kind = "remove"
  BY <1>1, TakeKeeps DEF Take
<1>3. t \in Trade
  BY <1>2 DEF Command
<1>4. TypeOK
  BY DEF IInv
<1>5. SameTrades
  <2>1. CASE Registered(t)
    BY <1>3, <1>4, <2>1, RegisteredActor, SendKeeps DEF HandleRemove, Message
  <2>2. CASE ~Registered(t)
    BY <1>4, <2>2, TasksUnchanged DEF HandleRemove
  <2> QED
    BY <2>1, <2>2
<1>6. commands' \in Seq(Command) /\ CommandsSpawned'
  BY <1>1, <1>5, TakeKeeps DEF CommandsSpawned, SameTrades
<1>7. /\ UNCHANGED <<routeVars, walletVars, aborted>>
      /\ orders' = orders /\ issued' = issued /\ results' = results
      /\ delivered' = delivered
  BY DEF HandleRemove, orderVars
<1>8. orders' \subseteq Order /\ OrdersSpawned' /\ OrdersWait'
  BY <1>5, <1>7, SameOrders DEF routeVars, walletVars
<1>9. /\ issued' \in Nat /\ results' \in Seq(1 .. Len(tasks))
      /\ delivered' \in [Trade -> Nat]
  BY <1>4, <1>7 DEF TypeOK
<1> QED
  BY <1>5, <1>6, <1>7, <1>8, <1>9, QuietStep

LEMMA HandleForwardStep ==
  ASSUME IInv, HandleForward
  PROVE  IInv'
<1> DEFINE o == [n |-> Head(commands).n, actor |-> Head(commands).actor,
                 signing |-> FALSE]
<1>1. Take("forward")
  BY DEF HandleForward
<1>2. Head(commands) \in Command /\ Head(commands).kind = "forward"
  BY <1>1, TakeKeeps DEF Take
<1>3. Head(commands).n \in Nat /\ Head(commands).actor \in Nat
  BY <1>2 DEF Command
<1>4. Head(commands).actor \in 1 .. Len(tasks)
  BY <1>1, <1>2, TakeKeeps DEF IInv, Spawned
<1>5. SameTrades
  BY TasksUnchanged DEF IInv, HandleForward
<1>6. commands' \in Seq(Command) /\ CommandsSpawned'
  BY <1>1, <1>5, TakeKeeps DEF CommandsSpawned, SameTrades
<1>7. /\ UNCHANGED <<routeVars, walletVars, aborted>>
      /\ orders' = orders \cup {o} /\ issued' = issued /\ results' = results
      /\ delivered' = delivered
  BY DEF HandleForward
<1>8. o \in Order /\ o.actor \in 1 .. Len(tasks)
  BY <1>3, <1>4 DEF Order
<1> HIDE DEF o
<1>9. orders' \subseteq Order /\ OrdersSpawned' /\ OrdersWait'
  <2>1. creating' = NoTrade
    BY <1>1, <1>7 DEF Take, walletVars
  <2>2. orders \subseteq Order /\ \A x \in orders : x.actor \in 1 .. Len(tasks)
    BY DEF IInv, TypeOK, Spawned
  <2> QED
    BY <1>5, <1>7, <1>8, <2>1, <2>2 DEF OrdersSpawned, OrdersWait, SameTrades
<1>10. /\ issued' \in Nat /\ results' \in Seq(1 .. Len(tasks))
       /\ delivered' \in [Trade -> Nat]
  BY <1>7 DEF IInv, TypeOK
<1> QED
  BY <1>5, <1>6, <1>7, <1>9, <1>10, QuietStep
LEMMA RouteLogsStep ==
  ASSUME IInv, NEW tx \in Transaction, RouteLogs(tx)
  PROVE  IInv'
<1> DEFINE times == tx.curve + (IF poolRef[tx.mint] > 0 THEN tx.pool ELSE 0)
           Copied(a) == IF actors[tasks[a].trade] = a /\ ~Dead(a)
                        THEN times * subs[tx.mint][tasks[a].trade] ELSE 0
           Box(a) == tasks[a].mailbox \o Copies("logs", Copied(a))
<1>1. TypeOK
  BY DEF IInv
<1>2. tx.mint \in Mint /\ tx.curve \in Nat /\ tx.pool \in Nat
  BY BuffettAssumption
<1>3. times \in Nat
  BY <1>1, <1>2 DEF TypeOK
<1>4. ASSUME NEW a \in 1 .. Len(tasks) PROVE Copied(a) \in Nat
  <2>1. subs[tx.mint][tasks[a].trade] \in Nat
    BY <1>1, <1>2, TaskFields DEF TypeOK
  <2> HIDE DEF times
  <2> QED
    BY <1>3, <2>1
<1>5. tasks' = [a \in 1 .. Len(tasks) |-> [tasks[a] EXCEPT !.mailbox = Box(a)]]
  BY DEF RouteLogs
<1> HIDE DEF Copied, times
<1>6. ASSUME NEW a \in 1 .. Len(tasks)
      PROVE  /\ [tasks[a] EXCEPT !.mailbox = Box(a)] \in TaskState
             /\ [tasks[a] EXCEPT !.mailbox = Box(a)].trade = tasks[a].trade
  <2>1. Copies("logs", Copied(a)) \in Seq(Message)
    BY <1>4, IsASeq DEF Copies, Message
  <2>2. Box(a) \in Seq(Message)
    BY <1>1, <2>1, TaskFields, ConcatProperties
  <2> HIDE DEF Box
  <2> QED
    BY <1>1, <2>2, TaskFields DEF TaskState
<1>7. Len(tasks) \in Nat
  BY <1>1, LenProperties DEF TypeOK
<1> HIDE DEF Box
<1>8. tasks' \in [1 .. Len(tasks) -> TaskState]
  BY <1>5, <1>6
<1>9. SameTrades
  <2>1. tasks' \in Seq(TaskState) /\ Len(tasks') = Len(tasks)
    BY <1>7, <1>8, SeqDef, LenProperties
  <2> QED
    BY <1>5, <1>6, <2>1 DEF SameTrades
<1>10. /\ UNCHANGED <<routeVars, walletVars, aborted, commands>>
       /\ orders' = orders /\ issued' = issued /\ results' = results
       /\ delivered' = delivered
  BY DEF RouteLogs, orderVars
<1>11. orders' \subseteq Order /\ OrdersSpawned' /\ OrdersWait'
  BY <1>9, <1>10, SameOrders DEF routeVars, walletVars
<1>12. /\ issued' \in Nat /\ results' \in Seq(1 .. Len(tasks))
       /\ delivered' \in [Trade -> Nat]
  BY <1>1, <1>10 DEF TypeOK
<1> QED
  BY <1>9, <1>10, <1>11, <1>12, SameCommands, QuietStep

LEMMA RouteResultStep ==
  ASSUME IInv, RouteResult
  PROVE  IInv'
<1> DEFINE t == tasks[Head(results)].trade
<1>1. TypeOK
  BY DEF IInv
<1>2. /\ results \in Seq(1 .. Len(tasks)) /\ results # << >>
      /\ results' = Tail(results)
  BY <1>1 DEF TypeOK, RouteResult
<1>3. Head(results) \in 1 .. Len(tasks) /\ results' \in Seq(1 .. Len(tasks))
  BY <1>2, TailElements
<1>4. t \in Trade
  BY <1>1, <1>3, TaskFields
<1>5. SameTrades
  <2>1. CASE Registered(t)
    BY <1>1, <1>4, <2>1, RegisteredActor, SendKeeps DEF RouteResult, Message
  <2>2. CASE ~Registered(t)
    BY <1>1, <2>2, TasksUnchanged DEF RouteResult
  <2> QED
    BY <2>1, <2>2
<1>6. /\ UNCHANGED <<routeVars, walletVars, aborted, commands>>
      /\ orders' = orders /\ issued' = issued /\ delivered' = delivered
  BY DEF RouteResult
<1>7. orders' \subseteq Order /\ OrdersSpawned' /\ OrdersWait'
  BY <1>5, <1>6, SameOrders DEF routeVars, walletVars
<1>8. issued' \in Nat /\ delivered' \in [Trade -> Nat]
  BY <1>1, <1>6 DEF TypeOK
<1> QED
  BY <1>3, <1>5, <1>6, <1>7, <1>8, SameCommands, QuietStep

-----------------------------------------------------------------------------
(* The actors' steps and Guillotine's.                                     *)

\* An actor that orders, or not, disturbs no command.
LEMMA IssueKeeps ==
  ASSUME IInv, SameTrades, NEW a \in 1 .. Len(tasks),
         Issue(a) \/ UNCHANGED <<issued, commands>>
  PROVE  commands' \in Seq(Command) /\ CommandsSpawned' /\ issued' \in Nat
<1>1. issued \in Nat
  BY DEF IInv, TypeOK
<1>2. CASE Issue(a)
  <2>1. Len(tasks) \in Nat
    BY LenProperties DEF IInv, TypeOK
  <2>2. [kind |-> "forward", n |-> issued + 1, actor |-> a] \in Command
    BY <1>1, <2>1 DEF Command
  <2>3. commands' \in Seq(Command) /\ CommandsSpawned'
    BY <1>2, <2>2, PostKeeps DEF Issue
  <2> QED
    BY <1>1, <1>2, <2>3 DEF Issue
<1>3. CASE UNCHANGED <<issued, commands>>
  BY <1>1, <1>3, SameCommands
<1> QED
  BY <1>2, <1>3

LEMMA ActorStepKeeps ==
  ASSUME IInv, NEW a \in 1 .. Len(tasks), ActorStep(a)
  PROVE  IInv'
<1>1. TypeOK
  BY DEF IInv
<1>2. /\ UNCHANGED <<routeVars, walletVars, aborted>>
      /\ orders' = orders /\ results' = results /\ delivered' = delivered
  BY DEF ActorStep, Start, Handle, Complete, ShutDown, orderVars
<1>3. SameTrades
  <2>1. CASE Start(a)
    <3>1. << >> \in Seq(Message)
      OBVIOUS
    <3>2. CASE tasks' = [tasks EXCEPT ![a].phase = "failed", ![a].mailbox = << >>]
      BY <1>1, <3>1, <3>2, PhaseStep DEF Phase
    <3>3. CASE tasks' = [tasks EXCEPT ![a].phase = "running"]
      BY <1>1, <3>3, PhaseOnly DEF Phase
    <3> QED
      BY <2>1, <3>2, <3>3 DEF Start
  <2>2. CASE Handle(a)
    <3>1. Tail(tasks[a].mailbox) \in Seq(Message)
      BY <1>1, <2>2, TaskFields, TailElements DEF Handle, Receive
    <3>2. tasks' = [tasks EXCEPT ![a].mailbox = Tail(tasks[a].mailbox)]
      BY <2>2 DEF Handle
    <3> QED
      BY <1>1, <3>1, <3>2, MailboxStep
  <2>3. CASE Complete(a)
    <3>1. << >> \in Seq(Message)
      OBVIOUS
    <3> QED
      BY <1>1, <2>3, <3>1, PhaseStep DEF Complete, Phase
  <2>4. CASE ShutDown(a)
    BY <1>1, <2>4, PhaseOnly DEF ShutDown, Phase
  <2> QED
    BY <2>1, <2>2, <2>3, <2>4 DEF ActorStep
<1>4. commands' \in Seq(Command) /\ CommandsSpawned' /\ issued' \in Nat
  <2>1. CASE Start(a) \/ Handle(a)
    BY <1>3, <2>1, IssueKeeps DEF Start, Handle
  <2>2. CASE Complete(a)
    <3>1. [kind |-> "complete", trade |-> tasks[a].trade] \in Command
      BY <1>1, TaskFields DEF Command
    <3>2. commands' \in Seq(Command) /\ CommandsSpawned'
      BY <1>3, <2>2, <3>1, PostKeeps DEF Complete
    <3> QED
      BY <1>1, <2>2, <3>2 DEF Complete, orderVars, TypeOK
  <2>3. CASE ShutDown(a)
    BY <1>1, <1>3, <2>3, SameCommands DEF ShutDown, orderVars, TypeOK
  <2> QED
    BY <2>1, <2>2, <2>3 DEF ActorStep
<1>5. orders' \subseteq Order /\ OrdersSpawned' /\ OrdersWait'
  BY <1>2, <1>3, SameOrders DEF routeVars, walletVars
<1>6. results' \in Seq(1 .. Len(tasks)) /\ delivered' \in [Trade -> Nat]
  BY <1>1, <1>2 DEF TypeOK
<1> QED
  BY <1>2, <1>3, <1>4, <1>5, <1>6, QuietStep

LEMMA TaskStepKeeps ==
  ASSUME IInv, NEW o \in orders, TaskStep(o)
  PROVE  IInv'
<1>1. TypeOK /\ o \in Order /\ o.actor \in 1 .. Len(tasks)
  BY DEF IInv, TypeOK, Spawned
<1>2. /\ UNCHANGED <<routeVars, walletVars, aborted, commands, tasks>>
      /\ issued' = issued /\ delivered' = delivered
  BY DEF TaskStep, PlanFails, Sign, Unsigned, Submit
<1>3. SameTrades
  BY <1>1, <1>2, TasksUnchanged
<1>4. results' \in Seq(1 .. Len(tasks))
  <2>1. results' = results \/ results' = Append(results, o.actor)
    BY DEF TaskStep, PlanFails, Sign, Unsigned, Submit
  <2>2. results \in Seq(1 .. Len(tasks))
    BY <1>1 DEF TypeOK
  <2> QED
    BY SMTT(20), <1>1, <2>1, <2>2, AppendElements
<1>5. orders' \subseteq Order /\ OrdersSpawned' /\ OrdersWait'
  <2>1. CASE Sign(o)
    <3> DEFINE s == [o EXCEPT !.signing = TRUE]
    <3>1. s \in Order /\ s.actor = o.actor
      BY <1>1 DEF Order
    <3>2. orders' = (orders \ {o}) \cup {s}
      BY <2>1 DEF Sign
    <3> HIDE DEF s
    <3>3. orders' \subseteq Order /\ \A x \in orders' : \E y \in orders : x.actor = y.actor
      BY <1>1, <3>1, <3>2 DEF TypeOK
    <3>4. UNCHANGED <<actors, creating, tasks>>
      BY <1>2 DEF routeVars, walletVars
    <3>5. OrdersSpawned /\ OrdersWait
      BY DEF IInv, Spawned, Awaited, OrdersSpawned, OrdersWait
    <3> QED
      BY <3>3, <3>4, <3>5 DEF OrdersSpawned, OrdersWait
  <2>2. CASE ~Sign(o)
    <3>1. orders' \subseteq orders
      BY <2>2 DEF TaskStep, PlanFails, Unsigned, Submit
    <3> QED
      BY <1>2, <1>3, <3>1, SameOrders DEF routeVars, walletVars
  <2> QED
    BY <2>1, <2>2
<1>6. issued' \in Nat /\ delivered' \in [Trade -> Nat]
  BY <1>1, <1>2 DEF TypeOK
<1> QED
  BY <1>2, <1>3, <1>4, <1>5, <1>6, SameCommands, QuietStep
-----------------------------------------------------------------------------
(* The wallet manager, and what Buffett does with its answer.              *)

\* Steps that keep the registry and the actors keep the routes.
LEMMA SameSpawned ==
  ASSUME IInv, UNCHANGED <<routeVars, aborted, tasks, orders, commands>>
  PROVE  Spawned' /\ FiniteRoutes' /\ RoutesExact'
<1>1. SameTrades
  BY TasksUnchanged DEF IInv
<1>2. Spawned'
  BY DEF IInv, Spawned, Registered, routeVars
<1>3. FiniteRoutes' /\ RoutesExact'
  BY <1>1, SameRoutes DEF IInv, FiniteRoutes, RoutesExact, routeVars
<1> QED
  BY <1>2, <1>3

LEMMA PrepareStep ==
  ASSUME IInv, Prepare
  PROVE  IInv'
<1>1. /\ walletCmds \in Seq(WalletCmd) /\ walletCmds # << >>
      /\ Head(walletCmds).kind = "prepare" /\ walletCmds' = Tail(walletCmds)
  BY DEF IInv, TypeOK, Prepare
<1>2. Head(walletCmds) \in WalletCmd /\ Head(walletCmds) = walletCmds[1]
  BY <1>1, TailElements
<1>3. 1 \in 1 .. Len(walletCmds)
  BY <1>1, EmptySeq
<1>4. /\ creating # NoTrade /\ Len(walletCmds) = 1
      /\ Head(walletCmds).wallet = WalletOf[creating]
  BY <1>1, <1>2, <1>3 DEF IInv, Awaited
<1>5. walletCmds' = << >>
  BY <1>1, <1>4, TailElements, EmptySeq
<1>6. UNCHANGED <<routeVars, creating, orderVars, commands, tasks, delivered, aborted>>
  BY DEF Prepare
<1>7. /\ reply' \in {"ok", "failed"}
      /\ signers \subseteq signers' /\ signers' \subseteq Wallet
      /\ reply' = "ok" => WalletOf[creating] \in signers'
  BY <1>2, <1>4 DEF IInv, TypeOK, Prepare, WalletCmd
<1>8. TypeOK'
  BY <1>5, <1>6, <1>7 DEF IInv, TypeOK, routeVars, orderVars
<1>9. Spawned' /\ FiniteRoutes' /\ RoutesExact'
  BY <1>6, SameSpawned DEF orderVars
<1>10. Awaited'
  BY <1>4, <1>5, <1>6, <1>7 DEF IInv, Awaited, Registered, routeVars, orderVars
<1>11. SignersKept'
  <2>1. Len(walletCmds') = 0
    BY <1>5
  <2>2. ASSUME NEW t \in Trade, Registered(t), t # creating
        PROVE  WalletOf[t] \in signers'
    BY <1>7, <2>2 DEF IInv, SignersKept
  <2> QED
    BY <1>6, <2>1, <2>2 DEF SignersKept, Registered, routeVars
<1> QED
  BY <1>8, <1>9, <1>10, <1>11 DEF IInv

LEMMA DestroyStep ==
  ASSUME IInv, Destroy
  PROVE  IInv'
<1>1. /\ walletCmds \in Seq(WalletCmd) /\ walletCmds # << >>
      /\ Head(walletCmds).kind = "destroy" /\ walletCmds' = Tail(walletCmds)
      /\ signers' = signers \ {Head(walletCmds).wallet}
  BY DEF IInv, TypeOK, Destroy
<1>2. /\ Head(walletCmds) \in WalletCmd /\ Head(walletCmds) = walletCmds[1]
      /\ walletCmds' \in Seq(WalletCmd) /\ Len(walletCmds') = Len(walletCmds) - 1
      /\ \A i \in 1 .. Len(walletCmds') :
           i + 1 \in 1 .. Len(walletCmds) /\ walletCmds'[i] = walletCmds[i + 1]
  BY <1>1, TailElements
<1>3. 1 \in 1 .. Len(walletCmds)
  BY <1>1, EmptySeq
<1>4. UNCHANGED <<routeVars, creating, reply, orderVars, commands, tasks,
                  delivered, aborted>>
  BY DEF Destroy
<1>5. TypeOK'
  BY <1>1, <1>2, <1>4 DEF IInv, TypeOK, routeVars, orderVars
<1>6. Spawned' /\ FiniteRoutes' /\ RoutesExact'
  BY <1>4, SameSpawned DEF orderVars
<1>7. reply = "none"
  BY <1>1 DEF IInv, TypeOK, Awaited
<1>8. Awaited'
  BY <1>2, <1>4, <1>7 DEF IInv, Awaited, Registered, routeVars, orderVars
<1>9. SignersKept'
  <2>1. ASSUME NEW t \in Trade, Registered(t), t # creating
        PROVE  /\ WalletOf[t] \in signers'
               /\ \A i \in 1 .. Len(walletCmds') :
                    walletCmds'[i] # [kind |-> "destroy", wallet |-> WalletOf[t]]
    <3>1. /\ WalletOf[t] \in signers
          /\ \A i \in 1 .. Len(walletCmds) :
               walletCmds[i] # [kind |-> "destroy", wallet |-> WalletOf[t]]
      BY <2>1 DEF IInv, SignersKept
    <3>2. Head(walletCmds) = [kind |-> "destroy", wallet |-> Head(walletCmds).wallet]
      BY <1>1, <1>2 DEF WalletCmd
    <3>3. Head(walletCmds).wallet # WalletOf[t]
      BY <1>2, <1>3, <3>1, <3>2
    <3> QED
      BY <1>1, <1>2, <3>1, <3>3
  <2> QED
    BY <1>4, <2>1 DEF SignersKept, Registered, routeVars
<1> QED
  BY <1>5, <1>6, <1>8, <1>9 DEF IInv

LEMMA CreatedStep ==
  ASSUME IInv, Created
  PROVE  IInv'
<1>1. /\ reply = "ok" /\ reply' = "none" /\ creating' = NoTrade
      /\ UNCHANGED <<routeVars, walletCmds, signers, orderVars, commands, tasks,
                     delivered, aborted>>
  BY DEF Created
<1>2. TypeOK'
  BY <1>1 DEF IInv, TypeOK, routeVars, orderVars
<1>3. Spawned' /\ FiniteRoutes' /\ RoutesExact'
  BY <1>1, SameSpawned DEF orderVars
<1>4. walletCmds = << >> /\ WalletOf[creating] \in signers
  BY <1>1 DEF IInv, Awaited
<1>5. Awaited'
  BY <1>1, <1>4 DEF Awaited
<1>6. SignersKept'
  BY <1>1, <1>4 DEF IInv, SignersKept, Registered, routeVars
<1> QED
  BY <1>2, <1>3, <1>5, <1>6 DEF IInv
-----------------------------------------------------------------------------
(* The registry's own steps.                                               *)

\* How the routes change when one trade is registered or deregistered.
LEMMA OnAdded ==
  ASSUME TypeOK, FiniteRoutes, NEW t \in Trade, ~Registered(t), NEW a, a # 0,
         actors' = [actors EXCEPT ![t] = a], NEW m \in Mint
  PROVE  /\ IsFiniteSet(On(m)')
         /\ Cardinality(On(m)') = Cardinality(On(m)) + (IF MintOf[t] = m THEN 1 ELSE 0)
<1>1. actors \in [Trade -> 0 .. Len(tasks)]
  BY DEF TypeOK
<1>2. IsFiniteSet(On(m)) /\ t \notin On(m)
  BY DEF FiniteRoutes, On
<1>3. Cardinality(On(m)) \in Nat
  BY <1>2, FS_CardinalityType
<1>4. CASE MintOf[t] = m
  <2>1. On(m)' = On(m) \cup {t}
    BY <1>1, <1>4 DEF On, Registered
  <2> QED
    BY <1>2, <1>4, <2>1, FS_AddElement
<1>5. CASE MintOf[t] # m
  <2>1. On(m)' = On(m)
    BY <1>1, <1>5 DEF On, Registered
  <2> QED
    BY <1>2, <1>3, <1>5, <2>1
<1> QED
  BY <1>4, <1>5

LEMMA OnRemoved ==
  ASSUME TypeOK, FiniteRoutes, NEW t \in Trade, Registered(t),
         actors' = [actors EXCEPT ![t] = 0], NEW m \in Mint
  PROVE  /\ IsFiniteSet(On(m)')
         /\ Cardinality(On(m)) = Cardinality(On(m)') + (IF MintOf[t] = m THEN 1 ELSE 0)
<1>1. actors \in [Trade -> 0 .. Len(tasks)]
  BY DEF TypeOK
<1>2. IsFiniteSet(On(m)) /\ (t \in On(m) <=> MintOf[t] = m)
  BY DEF FiniteRoutes, On
<1>3. Cardinality(On(m)) \in Nat
  BY <1>2, FS_CardinalityType
<1>4. CASE MintOf[t] = m
  <2>1. On(m)' = On(m) \ {t}
    BY <1>1, <1>4 DEF On, Registered
  <2>2. /\ IsFiniteSet(On(m) \ {t})
        /\ Cardinality(On(m) \ {t}) = Cardinality(On(m)) - 1
    BY <1>2, <1>4, FS_RemoveElement
  <2> QED
    BY <1>3, <1>4, <2>1, <2>2
<1>5. CASE MintOf[t] # m
  <2>1. On(m)' = On(m)
    BY <1>1, <1>5 DEF On, Registered
  <2> QED
    BY <1>2, <1>3, <1>5, <2>1
<1> QED
  BY <1>4, <1>5

LEMMA SubsTyped ==
  ASSUME TypeOK, NEW t \in Trade
  PROVE  /\ MintOf[t] \in Mint
         /\ subs \in [Mint -> [Trade -> Nat]]
         /\ poolRef \in [Mint -> Nat]
BY BuffettAssumption DEF TypeOK

\* Deregistering a trade keeps its token's list exact.
LEMMA Unsubscribed ==
  ASSUME TypeOK, RoutesExact, NEW t \in Trade, actors' = [actors EXCEPT ![t] = 0],
         subs' = Unsubscribe(subs, t)
  PROVE  /\ subs' \in [Mint -> [Trade -> Nat]]
         /\ \A m \in Mint, u \in Trade : subs'[m][u] = IF u \in On(m)' THEN 1 ELSE 0
<1>1. actors \in [Trade -> 0 .. Len(tasks)]
  BY DEF TypeOK
<1>2. /\ subs' \in [Mint -> [Trade -> Nat]]
      /\ \A m \in Mint, u \in Trade :
           subs'[m][u] = IF m = MintOf[t] /\ u = t THEN 0 ELSE subs[m][u]
  BY SubsTyped DEF Unsubscribe
<1>3. \A m \in Mint, u \in Trade : u \in On(m)' <=> u \in On(m) /\ u # t
  BY <1>1 DEF On, Registered
<1>4. \A m \in Mint, u \in Trade : u \in On(m) => m = MintOf[u]
  BY DEF On
<1>5. \A m \in Mint, u \in Trade : subs[m][u] = IF u \in On(m) THEN 1 ELSE 0
  BY DEF RoutesExact
<1> QED
  BY <1>2, <1>3, <1>4, <1>5

\* Registering one does.
LEMMA Subscribed ==
  ASSUME TypeOK, RoutesExact, NEW t \in Trade, ~Registered(t), NEW a, a # 0,
         actors' = [actors EXCEPT ![t] = a], subs' = Subscribe(subs, t)
  PROVE  /\ subs' \in [Mint -> [Trade -> Nat]]
         /\ \A m \in Mint, u \in Trade : subs'[m][u] = IF u \in On(m)' THEN 1 ELSE 0
<1>1. actors \in [Trade -> 0 .. Len(tasks)]
  BY DEF TypeOK
<1>2. /\ subs' \in [Mint -> [Trade -> Nat]]
      /\ \A m \in Mint, u \in Trade :
           subs'[m][u] = IF m = MintOf[t] /\ u = t THEN subs[m][u] + 1 ELSE subs[m][u]
  BY SubsTyped DEF Subscribe
<1>3. \A m \in Mint, u \in Trade :
        u \in On(m)' <=> u \in On(m) \/ (u = t /\ m = MintOf[t])
  BY <1>1 DEF On, Registered
<1>4. \A m \in Mint : t \notin On(m)
  BY DEF On
<1>5. \A m \in Mint, u \in Trade : subs[m][u] = IF u \in On(m) THEN 1 ELSE 0
  BY DEF RoutesExact
<1> QED
  BY <1>2, <1>3, <1>4, <1>5

\* The sets of aborted actors are finite.
LEMMA AbortedFinite ==
  ASSUME TypeOK, NEW m
  PROVE  IsFiniteSet(AbortedOn(m)) /\ Cardinality(AbortedOn(m)) \in Nat
<1>1. Len(tasks) \in Nat
  BY LenProperties DEF TypeOK
<1>2. IsFiniteSet(1 .. Len(tasks))
  BY <1>1, FS_Interval
<1>3. AbortedOn(m) \in SUBSET (1 .. Len(tasks))
  BY DEF TypeOK, AbortedOn
<1> QED
  BY <1>2, <1>3, FS_Subset, FS_CardinalityType
\* A trade leaves the registry, its list and, with its reference, its pool.
LEMMA Deregistered ==
  ASSUME IInv, NEW t \in Trade, Registered(t),
         actors' = [actors EXCEPT ![t] = 0], subs' = Unsubscribe(subs, t),
         poolRef' = DropRef(poolRef, t), UNCHANGED <<aborted, tasks>>
  PROVE  /\ actors' \in [Trade -> 0 .. Len(tasks)]
         /\ subs' \in [Mint -> [Trade -> Nat]]
         /\ poolRef' \in [Mint -> Nat]
         /\ FiniteRoutes' /\ RoutesExact'
<1>1. TypeOK /\ FiniteRoutes /\ RoutesExact
  BY DEF IInv
<1>2. actors' \in [Trade -> 0 .. Len(tasks)]
  <2>1. Len(tasks) \in Nat /\ actors \in [Trade -> 0 .. Len(tasks)]
    BY <1>1, LenProperties DEF TypeOK
  <2> QED
    BY <2>1
<1>3. ASSUME NEW m \in Mint
      PROVE  /\ poolRef'[m] \in Nat
             /\ IsFiniteSet(On(m)')
             /\ poolRef'[m] = Cardinality(On(m)') + Cardinality(AbortedOn(m)')
  <2>1. poolRef[m] = Cardinality(On(m)) + Cardinality(AbortedOn(m))
    BY <1>1 DEF RoutesExact
  <2>2. AbortedOn(m)' = AbortedOn(m) /\ Cardinality(AbortedOn(m)) \in Nat
    BY <1>1, AbortedFinite DEF AbortedOn
  <2>3. /\ IsFiniteSet(On(m)')
        /\ Cardinality(On(m)) = Cardinality(On(m)') + (IF MintOf[t] = m THEN 1 ELSE 0)
    BY <1>1, OnRemoved
  <2>4. Cardinality(On(m)') \in Nat
    BY <2>3, FS_CardinalityType
  <2>5. poolRef'[m] = IF MintOf[t] = m THEN IF poolRef[m] > 0 THEN poolRef[m] - 1 ELSE 0
                                       ELSE poolRef[m]
    BY <1>1, SubsTyped DEF DropRef
  <2> QED
    BY <2>1, <2>2, <2>3, <2>4, <2>5
<1>4. poolRef' \in [Mint -> Nat]
  <2>1. poolRef' = [m \in Mint |-> poolRef'[m]]
    BY <1>1, SubsTyped DEF DropRef
  <2> QED
    BY <1>3, <2>1
<1>5. /\ subs' \in [Mint -> [Trade -> Nat]]
      /\ \A m \in Mint, u \in Trade : subs'[m][u] = IF u \in On(m)' THEN 1 ELSE 0
  BY <1>1, Unsubscribed
<1>6. FiniteRoutes' /\ RoutesExact'
  BY <1>3, <1>5 DEF FiniteRoutes, RoutesExact
<1> QED
  BY <1>2, <1>4, <1>5, <1>6

\* A trade is registered anew, in place of its predecessor if it has one.
LEMMA Enlisted ==
  ASSUME IInv, NEW t \in Trade,
         actors' = [actors EXCEPT ![t] = Len(tasks) + 1],
         subs' = Subscribe(IF Registered(t) THEN Unsubscribe(subs, t) ELSE subs, t),
         poolRef' = AddRef(IF Registered(t) THEN DropRef(poolRef, t) ELSE poolRef, t),
         UNCHANGED aborted,
         \A a \in 1 .. Len(tasks) : tasks'[a].trade = tasks[a].trade
  PROVE  /\ subs' \in [Mint -> [Trade -> Nat]]
         /\ poolRef' \in [Mint -> Nat]
         /\ FiniteRoutes' /\ RoutesExact'
<1>1. TypeOK /\ FiniteRoutes /\ RoutesExact
  BY DEF IInv
<1>2. Len(tasks) \in Nat /\ actors \in [Trade -> 0 .. Len(tasks)]
  BY <1>1, LenProperties DEF TypeOK
<1>3. \A m \in Mint : AbortedOn(m)' = AbortedOn(m)
  BY <1>1 DEF AbortedOn, TypeOK
<1>4. CASE ~Registered(t)
  <2>1. Len(tasks) + 1 # 0
    BY <1>2
  <2>2. /\ subs' \in [Mint -> [Trade -> Nat]]
        /\ \A m \in Mint, u \in Trade : subs'[m][u] = IF u \in On(m)' THEN 1 ELSE 0
    BY <1>1, <1>4, <2>1, Subscribed
  <2>3. ASSUME NEW m \in Mint
        PROVE  /\ poolRef'[m] \in Nat
               /\ IsFiniteSet(On(m)')
               /\ poolRef'[m] = Cardinality(On(m)') + Cardinality(AbortedOn(m)')
    <3>1. poolRef[m] = Cardinality(On(m)) + Cardinality(AbortedOn(m))
      BY <1>1 DEF RoutesExact
    <3>2. Cardinality(AbortedOn(m)) \in Nat /\ Cardinality(On(m)) \in Nat
      BY <1>1, AbortedFinite, FS_CardinalityType DEF FiniteRoutes
    <3>3. /\ IsFiniteSet(On(m)')
          /\ Cardinality(On(m)') = Cardinality(On(m)) + (IF MintOf[t] = m THEN 1 ELSE 0)
      BY <1>1, <1>4, <2>1, OnAdded
    <3>4. poolRef'[m] = poolRef[m] + (IF MintOf[t] = m THEN 1 ELSE 0)
      BY <1>1, <1>4, SubsTyped DEF AddRef
    <3> QED
      BY <1>3, <3>1, <3>2, <3>3, <3>4
  <2>4. poolRef' \in [Mint -> Nat]
    <3>1. poolRef' = [m \in Mint |-> poolRef'[m]]
      BY <1>1, <1>4, SubsTyped DEF AddRef
    <3> QED
      BY <2>3, <3>1
  <2> QED
    BY <2>2, <2>3, <2>4 DEF FiniteRoutes, RoutesExact
<1>5. CASE Registered(t)
  <2>1. \A m \in Mint : On(m)' = On(m)
    BY <1>2, <1>5 DEF On, Registered
  <2>2. t \in On(MintOf[t])
    BY <1>5 DEF On
  <2>3. subs[MintOf[t]][t] = 1
    BY <1>1, <2>2, SubsTyped DEF RoutesExact
  <2>4. subs' = subs
    <3>1. /\ subs' = [m \in Mint |-> subs'[m]]
          /\ \A m \in Mint : subs'[m] = [u \in Trade |-> subs'[m][u]]
      BY <1>1, <1>5, SubsTyped DEF Subscribe, Unsubscribe
    <3>2. \A m \in Mint, u \in Trade : subs'[m][u] = subs[m][u]
      BY <1>1, <1>5, <2>3, SubsTyped DEF Subscribe, Unsubscribe
    <3> QED
      BY <1>1, <3>1, <3>2, SubsTyped
  <2>5. poolRef[MintOf[t]] > 0
    <3>1. Cardinality(On(MintOf[t])) # 0 /\ Cardinality(On(MintOf[t])) \in Nat
      BY <1>1, <2>2, SubsTyped, FS_EmptySet, FS_CardinalityType DEF FiniteRoutes
    <3>2. poolRef[MintOf[t]] = Cardinality(On(MintOf[t])) + Cardinality(AbortedOn(MintOf[t]))
      BY <1>1, SubsTyped DEF RoutesExact
    <3> QED
      BY <1>1, <3>1, <3>2, AbortedFinite
  <2>6. poolRef' = poolRef
    BY <1>1, <1>5, <2>5, SubsTyped DEF AddRef, DropRef
  <2> QED
    BY <1>1, <1>3, <2>1, <2>4, <2>6, SubsTyped DEF FiniteRoutes, RoutesExact
<1> QED
  BY <1>4, <1>5

\* The creation is given up: the actor's reference to its pool stays behind.
LEMMA AbortCreationStep ==
  ASSUME IInv, AbortCreation
  PROVE  IInv'
<1> DEFINE c == creating
           a == actors[creating]
<1>1. TypeOK /\ FiniteRoutes /\ RoutesExact /\ Spawned /\ Awaited /\ SignersKept
  BY DEF IInv
<1>2. /\ reply = "failed" /\ reply' = "none" /\ creating' = NoTrade
      /\ actors' = [actors EXCEPT ![c] = 0] /\ subs' = Unsubscribe(subs, c)
      /\ aborted' = aborted \cup {a}
      /\ UNCHANGED <<poolRef, walletCmds, signers, orderVars, commands, tasks,
                     delivered>>
  BY DEF AbortCreation
<1>3. walletCmds = << >> /\ creating # NoTrade
  BY <1>1, <1>2 DEF Awaited
<1>4. c \in Trade /\ Registered(c)
  BY <1>1, <1>3 DEF TypeOK, Awaited
<1>5. a \in 1 .. Len(tasks) /\ tasks[a].trade = c /\ a \notin aborted
  BY <1>1, <1>4, RegisteredActor DEF Spawned
<1>6. actors \in [Trade -> 0 .. Len(tasks)] /\ Len(tasks) \in Nat
  BY <1>1, LenProperties DEF TypeOK
<1> HIDE DEF c, a
<1>7. \A t \in Trade : actors'[t] = IF t = c THEN 0 ELSE actors[t]
  BY <1>2, <1>4, <1>6
<1>8. \A t \in Trade : Registered(t)' <=> Registered(t) /\ t # c
  BY <1>7 DEF Registered
<1>9. ASSUME NEW m \in Mint
      PROVE  /\ IsFiniteSet(On(m)')
             /\ poolRef'[m] = Cardinality(On(m)') + Cardinality(AbortedOn(m)')
  <2>1. /\ IsFiniteSet(On(m)')
        /\ Cardinality(On(m)) = Cardinality(On(m)') + (IF MintOf[c] = m THEN 1 ELSE 0)
    BY <1>1, <1>2, <1>4, OnRemoved
  <2>2. IsFiniteSet(AbortedOn(m)) /\ Cardinality(AbortedOn(m)) \in Nat
    BY <1>1, AbortedFinite
  <2>3. Cardinality(AbortedOn(m)')
          = Cardinality(AbortedOn(m)) + (IF MintOf[c] = m THEN 1 ELSE 0)
    <3>1. CASE MintOf[c] = m
      <4>1. AbortedOn(m)' = AbortedOn(m) \cup {a} /\ a \notin AbortedOn(m)
        BY <1>2, <1>5, <3>1 DEF AbortedOn
      <4>2. Cardinality(AbortedOn(m) \cup {a}) = Cardinality(AbortedOn(m)) + 1
        BY <2>2, <4>1, FS_AddElement
      <4> QED
        BY <3>1, <4>1, <4>2
    <3>2. CASE MintOf[c] # m
      <4>1. AbortedOn(m)' = AbortedOn(m)
        BY <1>2, <1>5, <3>2 DEF AbortedOn
      <4> QED
        BY <2>2, <3>2, <4>1
    <3> QED
      BY <3>1, <3>2
  <2>4. Cardinality(On(m)') \in Nat
    BY <2>1, FS_CardinalityType
  <2>5. poolRef[m] = Cardinality(On(m)) + Cardinality(AbortedOn(m))
    BY <1>1 DEF RoutesExact
  <2> QED
    BY <1>2, <2>1, <2>2, <2>3, <2>4, <2>5
<1>10. /\ subs' \in [Mint -> [Trade -> Nat]]
       /\ \A m \in Mint, u \in Trade : subs'[m][u] = IF u \in On(m)' THEN 1 ELSE 0
  BY <1>1, <1>2, <1>4, Unsubscribed
<1>11. FiniteRoutes' /\ RoutesExact'
  BY <1>9, <1>10 DEF FiniteRoutes, RoutesExact
<1>12. TypeOK'
  <2>1. actors' \in [Trade -> 0 .. Len(tasks)]
    BY <1>2, <1>4, <1>6
  <2>2. aborted' \subseteq 1 .. Len(tasks)
    BY <1>1, <1>2, <1>5 DEF TypeOK
  <2> QED
    BY <1>1, <1>2, <1>10, <2>1, <2>2 DEF TypeOK, orderVars
<1>13. Spawned'
  <2>1. ASSUME NEW t \in Trade, Registered(t)'
        PROVE  tasks[actors'[t]].trade = t /\ actors'[t] \notin aborted'
    BY <1>1, <1>2, <1>5, <1>7, <1>8, <2>1 DEF Spawned
  <2> QED
    BY <1>1, <1>2, <2>1 DEF Spawned, orderVars
<1>14. Awaited'
  <2>1. Len(walletCmds') = 0
    BY <1>2, <1>3
  <2> QED
    BY <1>2, <1>3, <2>1 DEF Awaited
<1>15. SignersKept'
  <2>1. Len(walletCmds') = 0
    BY <1>2, <1>3
  <2>2. ASSUME NEW t \in Trade, Registered(t)' PROVE WalletOf[t] \in signers'
    BY <1>1, <1>2, <1>8, <2>2 DEF SignersKept, c
  <2> QED
    BY <2>1, <2>2 DEF SignersKept
<1> QED
  BY <1>11, <1>12, <1>13, <1>14, <1>15 DEF IInv

LEMMA HandleCompleteStep ==
  ASSUME IInv, HandleComplete
  PROVE  IInv'
<1> DEFINE t == Head(commands).trade
           d == [kind |-> "destroy", wallet |-> WalletOf[t]]
<1>1. TypeOK /\ Spawned /\ Awaited /\ SignersKept
  BY DEF IInv
<1>2. Take("complete")
  BY DEF HandleComplete
<1>3. Head(commands) \in Command /\ Head(commands).kind = "complete"
  BY <1>2, TakeKeeps DEF Take
<1>4. t \in Trade
  BY <1>3 DEF Command
<1>5. /\ UNCHANGED <<creating, reply, signers, aborted, tasks>>
      /\ orders' = orders /\ issued' = issued /\ results' = results
      /\ delivered' = delivered /\ creating = NoTrade
  BY DEF HandleComplete, orderVars, Take
<1>6. SameTrades
  BY <1>1, <1>5, TasksUnchanged
<1>7. commands' \in Seq(Command) /\ CommandsSpawned'
  BY <1>2, <1>6, TakeKeeps DEF CommandsSpawned, SameTrades
<1>8. orders' \subseteq Order /\ OrdersSpawned' /\ OrdersWait'
  BY <1>1, <1>5 DEF TypeOK, Spawned, OrdersSpawned, OrdersWait
<1>9. /\ issued' \in Nat /\ results' \in Seq(1 .. Len(tasks))
      /\ delivered' \in [Trade -> Nat]
  BY <1>1, <1>5 DEF TypeOK
<1>10. CASE ~Registered(t)
  <2>1. UNCHANGED <<routeVars, walletVars, aborted>>
    BY <1>5, <1>10 DEF HandleComplete, walletVars
  <2> QED
    BY <1>6, <1>7, <1>8, <1>9, <2>1, QuietStep
<1>11. CASE Registered(t)
  <2>1. /\ actors' = [actors EXCEPT ![t] = 0] /\ subs' = Unsubscribe(subs, t)
        /\ poolRef' = DropRef(poolRef, t)
        /\ walletCmds' = IF SignerInUse(actors', WalletOf[t])
                         THEN walletCmds ELSE Append(walletCmds, d)
    BY <1>11 DEF HandleComplete, routeVars
  <2>2. /\ actors' \in [Trade -> 0 .. Len(tasks)]
        /\ subs' \in [Mint -> [Trade -> Nat]]
        /\ poolRef' \in [Mint -> Nat]
        /\ FiniteRoutes' /\ RoutesExact'
    BY <1>4, <1>5, <1>11, <2>1, Deregistered
  <2>3. walletCmds \in Seq(WalletCmd) /\ d \in WalletCmd /\ Len(walletCmds) \in Nat
    BY <1>1, <1>4, BuffettAssumption, LenProperties DEF TypeOK, WalletCmd
  <2>4. \A u \in Trade : actors'[u] = IF u = t THEN 0 ELSE actors[u]
    BY <1>1, <1>4, <2>1 DEF TypeOK
  <2>5. \A u \in Trade : Registered(u)' <=> Registered(u) /\ u # t
    BY <2>4 DEF Registered
  <2> HIDE DEF t
  <2>6. /\ walletCmds' \in Seq(WalletCmd)
        /\ \A i \in 1 .. Len(walletCmds') :
             \/ i \in 1 .. Len(walletCmds) /\ walletCmds'[i] = walletCmds[i]
             \/ walletCmds'[i] = d /\ ~SignerInUse(actors', WalletOf[t])
    <3>1. CASE SignerInUse(actors', WalletOf[t])
      BY <2>1, <2>3, <3>1
    <3>2. CASE ~SignerInUse(actors', WalletOf[t])
      <4>1. walletCmds' = Append(walletCmds, d)
        BY <2>1, <3>2
      <4> HIDE DEF d
      <4> QED
        BY <2>3, <3>2, <4>1, AppendElements
    <3> QED
      BY <3>1, <3>2
  <2>7. TypeOK'
    BY <1>1, <1>5, <1>7, <1>8, <1>9, <2>2, <2>6 DEF TypeOK
  <2>8. Spawned'
    <3>1. \A u \in Trade : Registered(u)' =>
            tasks'[actors'[u]].trade = u /\ actors'[u] \notin aborted'
      BY <1>1, <1>5, <2>4, <2>5 DEF Spawned
    <3> QED
      BY <1>7, <1>8, <3>1 DEF Spawned, CommandsSpawned, OrdersSpawned
  <2>9. Awaited'
    <3>1. reply = "none" /\ reply' = "none" /\ creating' = NoTrade
      BY <1>1, <1>5 DEF Awaited
    <3>2. \A i \in 1 .. Len(walletCmds) : walletCmds[i].kind # "prepare"
      BY <1>1, <1>5 DEF Awaited
    <3>3. \A i \in 1 .. Len(walletCmds') : walletCmds'[i].kind # "prepare"
      BY <2>6, <3>2
    <3> QED
      BY <3>1, <3>3 DEF Awaited
  <2>10. SignersKept'
    <3>1. ASSUME NEW u \in Trade, Registered(u)'
          PROVE  /\ WalletOf[u] \in signers'
                 /\ \A i \in 1 .. Len(walletCmds') :
                      walletCmds'[i] # [kind |-> "destroy", wallet |-> WalletOf[u]]
      <4>1. Registered(u) /\ u # creating
        BY <1>4, <1>5, <2>5, <3>1, BuffettAssumption
      <4>2. /\ WalletOf[u] \in signers
            /\ \A i \in 1 .. Len(walletCmds) :
                 walletCmds[i] # [kind |-> "destroy", wallet |-> WalletOf[u]]
        BY <1>1, <4>1 DEF SignersKept
      <4>3. ~SignerInUse(actors', WalletOf[t]) => WalletOf[u] # WalletOf[t]
        BY <3>1 DEF SignerInUse, Registered
      <4>4. d = [kind |-> "destroy", wallet |-> WalletOf[u]] => WalletOf[u] = WalletOf[t]
        OBVIOUS
      <4> HIDE DEF d
      <4> QED
        BY <1>5, <2>6, <4>2, <4>3, <4>4
    <3> QED
      BY <3>1 DEF SignersKept
  <2> QED
    BY <2>2, <2>7, <2>8, <2>9, <2>10 DEF IInv
<1> QED
  BY <1>10, <1>11

\* The build fails: the trade that made room, if there was one, is gone.
LEMMA BuildFailsStep ==
  ASSUME IInv, NEW t \in Trade, creating = NoTrade,
         actors' = [actors EXCEPT ![t] = 0],
         subs' = IF Registered(t) THEN Unsubscribe(subs, t) ELSE subs,
         poolRef' = IF Registered(t) THEN DropRef(poolRef, t) ELSE poolRef,
         commands' \in Seq(Command), CommandsSpawned',
         UNCHANGED <<tasks, walletVars, orderVars, delivered, aborted>>
  PROVE  IInv'
<1>1. TypeOK /\ Spawned /\ Awaited /\ SignersKept
  BY DEF IInv
<1>2. SameTrades
  BY <1>1, TasksUnchanged
<1>3. /\ orders' \subseteq Order /\ OrdersSpawned' /\ OrdersWait'
      /\ issued' \in Nat /\ results' \in Seq(1 .. Len(tasks))
      /\ delivered' \in [Trade -> Nat]
  BY <1>1 DEF TypeOK, Spawned, OrdersSpawned, OrdersWait, orderVars, walletVars
<1>4. CASE ~Registered(t)
  <2>1. actors' = actors
    BY <1>1, <1>4 DEF Registered, TypeOK
  <2>2. UNCHANGED <<routeVars, walletVars, aborted>>
    BY <1>4, <2>1 DEF routeVars
  <2> QED
    BY <1>2, <1>3, <2>2, QuietStep
<1>5. CASE Registered(t)
  <2>1. /\ actors' \in [Trade -> 0 .. Len(tasks)]
        /\ subs' \in [Mint -> [Trade -> Nat]]
        /\ poolRef' \in [Mint -> Nat]
        /\ FiniteRoutes' /\ RoutesExact'
    BY <1>5, Deregistered
  <2>2. \A u \in Trade : actors'[u] = IF u = t THEN 0 ELSE actors[u]
    BY <1>1 DEF TypeOK
  <2>3. \A u \in Trade : Registered(u)' <=> Registered(u) /\ u # t
    BY <2>2 DEF Registered
  <2>4. TypeOK'
    BY <1>1, <1>3, <2>1 DEF TypeOK, walletVars
  <2>5. Spawned'
    <3>1. \A u \in Trade : Registered(u)' =>
            tasks'[actors'[u]].trade = u /\ actors'[u] \notin aborted'
      BY <1>1, <2>2, <2>3 DEF Spawned
    <3> QED
      BY <1>3, <3>1 DEF Spawned, CommandsSpawned, OrdersSpawned
  <2>6. Awaited' /\ SignersKept'
    BY <1>1, <2>3 DEF Awaited, SignersKept, walletVars
  <2> QED
    BY <2>1, <2>4, <2>5, <2>6 DEF IInv
<1> QED
  BY <1>4, <1>5

\* The trade is built: its new actor is registered, and its signer asked for.
LEMMA BuiltStep ==
  ASSUME IInv, NEW t \in Trade, creating = NoTrade,
         actors' = [actors EXCEPT ![t] = Len(tasks) + 1],
         subs' = Subscribe(IF Registered(t) THEN Unsubscribe(subs, t) ELSE subs, t),
         poolRef' = AddRef(IF Registered(t) THEN DropRef(poolRef, t) ELSE poolRef, t),
         tasks' = Append(tasks, [trade |-> t, phase |-> "starting", mailbox |-> << >>]),
         creating' = t,
         walletCmds' = Append(walletCmds, [kind |-> "prepare", wallet |-> WalletOf[t]]),
         commands' \in Seq(Command),
         \A i \in 1 .. Len(commands') :
           commands'[i].kind = "forward" => commands'[i].actor \in 1 .. Len(tasks),
         UNCHANGED <<reply, signers, orderVars, delivered, aborted>>
  PROVE  IInv'
<1> DEFINE e == [trade |-> t, phase |-> "starting", mailbox |-> << >>]
           p == [kind |-> "prepare", wallet |-> WalletOf[t]]
<1>1. TypeOK /\ Spawned /\ Awaited /\ SignersKept
  BY DEF IInv
<1>2. e \in TaskState /\ e.trade = t
  BY DEF TaskState, Phase
<1>3. p \in WalletCmd /\ p.kind = "prepare" /\ p.wallet = WalletOf[t]
  BY BuffettAssumption DEF WalletCmd
<1>4. tasks' = Append(tasks, e) /\ walletCmds' = Append(walletCmds, p)
  OBVIOUS
<1> HIDE DEF e, p
<1>5. Len(tasks) \in Nat /\ Len(walletCmds) \in Nat
  BY <1>1, LenProperties DEF TypeOK
<1>6. /\ tasks' \in Seq(TaskState) /\ Len(tasks') = Len(tasks) + 1
      /\ \A a \in 1 .. Len(tasks) : tasks'[a] = tasks[a]
      /\ tasks'[Len(tasks) + 1] = e
  BY <1>1, <1>2, <1>4, AppendElements DEF TypeOK
<1>7. /\ walletCmds' \in Seq(WalletCmd) /\ Len(walletCmds') = Len(walletCmds) + 1
      /\ \A i \in 1 .. Len(walletCmds) : walletCmds'[i] = walletCmds[i]
      /\ walletCmds'[Len(walletCmds) + 1] = p
  BY <1>1, <1>3, <1>4, AppendElements DEF TypeOK
<1>8. 1 .. Len(tasks) \subseteq 1 .. Len(tasks')
  BY <1>5, <1>6
<1>9. actors \in [Trade -> 0 .. Len(tasks)]
  BY <1>1 DEF TypeOK
<1>10. \A u \in Trade : actors'[u] = IF u = t THEN Len(tasks) + 1 ELSE actors[u]
  BY <1>9
<1>11. \A u \in Trade : Registered(u)' <=> Registered(u) \/ u = t
  BY <1>5, <1>10 DEF Registered
<1>12. /\ subs' \in [Mint -> [Trade -> Nat]]
       /\ poolRef' \in [Mint -> Nat]
       /\ FiniteRoutes' /\ RoutesExact'
  BY <1>6, Enlisted
<1>13. TypeOK'
  <2>1. actors' \in [Trade -> 0 .. Len(tasks')]
    BY <1>5, <1>6, <1>9
  <2>2. results' \in Seq(1 .. Len(tasks'))
    <3>1. results \in Seq(1 .. Len(tasks))
      BY <1>1 DEF TypeOK
    <3>2. \A i \in 1 .. Len(results) : results[i] \in 1 .. Len(tasks')
      BY <1>8, <3>1, ElementOfSeq
    <3> QED
      BY <3>1, <3>2, SeqDef, LenProperties DEF orderVars
  <2>3. aborted' \subseteq 1 .. Len(tasks')
    BY <1>1, <1>8 DEF TypeOK
  <2>4. /\ commands' \in Seq(Command) /\ creating' \in Trade \cup {NoTrade}
        /\ reply' \in {"none", "ok", "failed"} /\ signers' \subseteq Wallet
        /\ orders' \subseteq Order /\ issued' \in Nat
        /\ delivered' \in [Trade -> Nat]
    BY <1>1 DEF TypeOK, orderVars
  <2> QED
    BY <1>6, <1>7, <1>12, <2>1, <2>2, <2>3, <2>4 DEF TypeOK
<1>14. Spawned'
  <2>1. ASSUME NEW u \in Trade, Registered(u)'
        PROVE  tasks'[actors'[u]].trade = u /\ actors'[u] \notin aborted'
    <3>1. CASE u = t
      BY <1>1, <1>2, <1>5, <1>6, <1>10, <3>1 DEF TypeOK
    <3>2. CASE u # t
      <4>1. Registered(u) /\ actors'[u] = actors[u]
        BY <1>10, <1>11, <2>1, <3>2
      <4> QED
        BY <1>1, <1>6, <4>1, RegisteredActor DEF Spawned
    <3> QED
      BY <3>1, <3>2
  <2>2. \A o \in orders' : o.actor \in 1 .. Len(tasks')
    BY <1>1, <1>8 DEF Spawned, orderVars
  <2>3. \A i \in 1 .. Len(commands') :
          commands'[i].kind = "forward" => commands'[i].actor \in 1 .. Len(tasks')
    BY <1>8
  <2> QED
    BY <2>1, <2>2, <2>3 DEF Spawned
<1>15. Awaited'
  <2>1. reply = "none" /\ reply' = "none"
    BY <1>1 DEF Awaited
  <2>2. Registered(t)'
    BY <1>11
  <2>3. \A o \in orders' : o.actor # actors'[creating']
    BY <1>1, <1>5, <1>10 DEF Spawned, orderVars
  <2>4. ASSUME NEW i \in 1 .. Len(walletCmds'), walletCmds'[i].kind = "prepare"
        PROVE  i = Len(walletCmds') /\ walletCmds'[i].wallet = WalletOf[t]
    <3>1. CASE i = Len(walletCmds) + 1
      BY <1>3, <1>7, <3>1
    <3>2. CASE i # Len(walletCmds) + 1
      <4>1. i \in 1 .. Len(walletCmds)
        BY <1>5, <1>7, <3>2
      <4> QED
        BY <1>1, <1>7, <2>4, <4>1 DEF Awaited
    <3> QED
      BY <3>1, <3>2
  <2>5. creating' # NoTrade
    BY BuffettAssumption
  <2> QED
    BY <2>1, <2>2, <2>3, <2>4, <2>5 DEF Awaited
<1>16. SignersKept'
  <2>1. ASSUME NEW u \in Trade, Registered(u)', u # creating'
        PROVE  /\ WalletOf[u] \in signers'
               /\ \A i \in 1 .. Len(walletCmds') :
                    walletCmds'[i] # [kind |-> "destroy", wallet |-> WalletOf[u]]
    <3>1. Registered(u) /\ u # creating
      BY <1>11, <2>1, BuffettAssumption
    <3>2. /\ WalletOf[u] \in signers
          /\ \A i \in 1 .. Len(walletCmds) :
               walletCmds[i] # [kind |-> "destroy", wallet |-> WalletOf[u]]
      BY <1>1, <3>1 DEF SignersKept
    <3>3. p # [kind |-> "destroy", wallet |-> WalletOf[u]]
      BY <1>3
    <3> QED
      BY <1>5, <1>7, <3>2, <3>3
  <2> QED
    BY <2>1 DEF SignersKept
<1> QED
  BY <1>12, <1>13, <1>14, <1>15, <1>16 DEF IInv

LEMMA HandleCreateStep ==
  ASSUME IInv, HandleCreate
  PROVE  IInv'
<1> DEFINE t == Head(commands).trade
<1>1. TypeOK
  BY DEF IInv
<1>2. Take("create") /\ creating = NoTrade
  BY DEF HandleCreate, Take
<1>3. Head(commands) \in Command /\ Head(commands).kind = "create"
  BY <1>2, TakeKeeps DEF Take
<1>4. t \in Trade
  BY <1>3 DEF Command
<1>5. /\ commands' \in Seq(Command)
      /\ \A i \in 1 .. Len(commands') :
           commands'[i].kind = "forward" => commands'[i].actor \in 1 .. Len(tasks)
  BY <1>2, TakeKeeps
<1>6. UNCHANGED <<reply, signers, orderVars, delivered, aborted>>
  BY DEF HandleCreate
<1>7. CASE t \notin OneShot /\ Registered(t)
  <2>1. /\ tasks' = Send(actors[t], "add")
        /\ UNCHANGED <<routeVars, creating, walletCmds>>
    BY <1>7 DEF HandleCreate
  <2>2. SameTrades
    BY <1>1, <1>4, <1>7, <2>1, RegisteredActor, SendKeeps DEF Message
  <2>3. CommandsSpawned'
    BY <1>5, <2>2 DEF CommandsSpawned, SameTrades
  <2>4. UNCHANGED <<routeVars, walletVars, aborted>>
    BY <1>6, <2>1 DEF walletVars
  <2>5. orders' \subseteq Order /\ OrdersSpawned' /\ OrdersWait'
    BY <1>6, <2>1, <2>2, SameOrders DEF routeVars, orderVars
  <2>6. /\ issued' \in Nat /\ results' \in Seq(1 .. Len(tasks))
        /\ delivered' \in [Trade -> Nat]
    BY <1>1, <1>6 DEF TypeOK, orderVars
  <2> QED
    BY <1>5, <2>2, <2>3, <2>4, <2>5, <2>6, QuietStep
<1>8. CASE ~(t \notin OneShot /\ Registered(t))
  <2>1. CreateNewTrade(t)
    BY <1>8 DEF HandleCreate
  <2> HIDE DEF t
  <2>2. CASE UNCHANGED <<tasks, creating, walletCmds>>
             /\ actors' = [actors EXCEPT ![t] = 0]
             /\ subs' = (IF Registered(t) THEN Unsubscribe(subs, t) ELSE subs)
             /\ poolRef' = (IF Registered(t) THEN DropRef(poolRef, t) ELSE poolRef)
    <3>1. CommandsSpawned'
      BY <1>5, <2>2 DEF CommandsSpawned
    <3>2. UNCHANGED <<tasks, walletVars, orderVars, delivered, aborted>>
      BY <1>6, <2>2 DEF walletVars
    <3> QED
      BY <1>2, <1>4, <1>5, <2>2, <3>1, <3>2, BuildFailsStep
  <2>3. CASE /\ actors' = [actors EXCEPT ![t] = Len(tasks) + 1]
             /\ subs' = Subscribe(IF Registered(t) THEN Unsubscribe(subs, t)
                                                   ELSE subs, t)
             /\ poolRef' = AddRef(IF Registered(t) THEN DropRef(poolRef, t)
                                                   ELSE poolRef, t)
             /\ tasks' = Append(tasks, [trade |-> t, phase |-> "starting",
                                        mailbox |-> << >>])
             /\ creating' = t
             /\ walletCmds' = Append(walletCmds, [kind |-> "prepare",
                                                  wallet |-> WalletOf[t]])
    BY <1>2, <1>4, <1>5, <1>6, <2>3, BuiltStep
  <2> QED
    BY <2>1, <2>2, <2>3 DEF CreateNewTrade
<1> QED
  BY <1>7, <1>8
-----------------------------------------------------------------------------
LEMMA InitInv ==
  ASSUME Init
  PROVE  IInv
<1>1. TypeOK
  BY DEF Init, TypeOK
<1>2. Spawned /\ Awaited /\ SignersKept
  BY DEF Init, Spawned, Awaited, SignersKept, Registered
<1>3. \A m \in Mint : On(m) = {} /\ AbortedOn(m) = {}
  BY DEF Init, On, AbortedOn, Registered
<1>4. IsFiniteSet({}) /\ Cardinality({}) = 0
  BY FS_EmptySet
<1>5. FiniteRoutes
  BY <1>3, <1>4 DEF FiniteRoutes
<1>6. \A m \in Mint, t \in Trade : subs[m][t] = IF t \in On(m) THEN 1 ELSE 0
  BY <1>3 DEF Init
<1>7. \A m \in Mint : poolRef[m] = Cardinality(On(m)) + Cardinality(AbortedOn(m))
  <2>1. \A m \in Mint : poolRef[m] = 0
    BY DEF Init
  <2> QED
    BY <1>3, <1>4, <2>1
<1> QED
  BY <1>1, <1>2, <1>5, <1>6, <1>7 DEF IInv, RoutesExact

LEMMA InvStep ==
  ASSUME IInv, [Next]_vars
  PROVE  IInv'
<1>1. CASE BuffettStep
  BY <1>1, HandleCreateStep, HandleCompleteStep, HandleRemoveStep,
     HandleForwardStep, CreatedStep, AbortCreationStep DEF BuffettStep
<1>2. CASE RouteResult
  BY <1>2, RouteResultStep
<1>3. CASE WalletStep
  BY <1>3, PrepareStep, DestroyStep DEF WalletStep
<1>4. CASE \E t \in Trade : Deliver(t) \/ DeliverRemoval(t)
  BY <1>4, DeliverStep
<1>5. CASE \E tx \in Transaction : RouteLogs(tx)
  BY <1>5, RouteLogsStep
<1>6. CASE \E a \in 1 .. Len(tasks) : ActorStep(a)
  BY <1>6, ActorStepKeeps
<1>7. CASE \E o \in orders : TaskStep(o)
  BY <1>7, TaskStepKeeps
<1>8. CASE UNCHANGED vars
  <2>1. UNCHANGED <<routeVars, walletVars, orderVars, commands, tasks, delivered,
                    aborted>>
    BY <1>8 DEF vars
  <2>2. SameTrades
    BY <2>1, TasksUnchanged DEF IInv
  <2>3. orders' \subseteq Order /\ OrdersSpawned' /\ OrdersWait'
    BY <2>1, <2>2, SameOrders DEF routeVars, walletVars, orderVars
  <2>4. /\ issued' \in Nat /\ results' \in Seq(1 .. Len(tasks))
        /\ delivered' \in [Trade -> Nat]
    BY <2>1 DEF IInv, TypeOK, orderVars
  <2> QED
    BY <2>1, <2>2, <2>3, <2>4, SameCommands, QuietStep
<1> QED
  BY <1>1, <1>2, <1>3, <1>4, <1>5, <1>6, <1>7, <1>8 DEF Next

\* The inductive invariant holds in every reachable state.
THEOREM Invariant == Spec => []IInv
<1>1. Init => IInv
  BY InitInv
<1>2. IInv /\ [Next]_vars => IInv'
  BY InvStep
<1> QED
  BY <1>1, <1>2, PTL DEF Spec

\* Every variable keeps its type: the registry, the channels and the results
\* name actors that were spawned.
THEOREM TypeCorrect == Spec => []TypeOK
<1>1. IInv => TypeOK
  BY DEF IInv
<1> QED
  BY <1>1, Invariant, PTL

\* register, deregister and every handler that calls them keep each trade in
\* its token's list exactly once while it is registered, and a pool's references
\* equal to its trades and the creations aborted (registry.rs:64-143).
THEOREM RoutesTrue == Spec => []RoutesExact
<1>1. IInv => RoutesExact
  BY DEF IInv
<1> QED
  BY <1>1, Invariant, PTL

\* The registry, the channels and the routes agree with each other, whatever
\* Buffett, the actors and the executor's tasks do in between.
THEOREM RegistryConsistent == Spec => []Consistent
<1>1. IInv => Consistent
  BY DEF IInv, Consistent
<1> QED
  BY <1>1, Invariant, PTL

\* A trade that is registered and past its creation has its signer, nobody is
\* about to destroy it, and its actor's orders find it (handlers.rs:98-108,
\* 155-161; executor.rs:188-214).
THEOREM SignersReady == Spec => []SignerReady
<1>1. ASSUME IInv PROVE SignerReady
  <2>1. TypeOK /\ Spawned /\ Awaited /\ SignersKept
    BY <1>1 DEF IInv
  <2>2. ASSUME NEW o \in orders, actors[tasks[o.actor].trade] = o.actor
        PROVE  WalletOf[tasks[o.actor].trade] \in signers
    <3> DEFINE t == tasks[o.actor].trade
    <3>1. o.actor \in 1 .. Len(tasks)
      BY <2>1 DEF Spawned
    <3>2. t \in Trade
      BY <2>1, <3>1, TaskFields
    <3>3. Registered(t)
      BY <2>1, <2>2, <3>1, LenProperties DEF Registered, TypeOK
    <3>4. t # creating
      BY <2>1, <2>2, <3>2, BuffettAssumption DEF Awaited
    <3> QED
      BY <2>1, <3>2, <3>3, <3>4 DEF SignersKept
  <2> QED
    BY <2>1, <2>2 DEF SignerReady
<1>2. IInv => SignerReady
  BY <1>1
<1> QED
  BY <1>2, Invariant, PTL

-----------------------------------------------------------------------------
(* A countersell's completion never takes its successor's registration.    *)
(* CInv is inductive beside IInv: every step but an actor's own completion *)
(* keeps the completions that are queued, hands messages to registered     *)
(* actors only, and registers or deregisters a countersell only when none  *)
(* of its completions and messages is left (Kept).                         *)
(* And no decrypted key outlives its trades but in the case KeysAccounted  *)
(* names: KInv, inductive beside IInv too, counts creations delivered.     *)

\* Nothing of trade t is queued or waiting.
Clear(t) ==
    /\ \A i \in 1 .. Len(commands) :
         commands[i].kind = "complete" => commands[i].trade # t
    /\ \A a \in 1 .. Len(tasks) : tasks[a].trade = t => tasks[a].mailbox = << >>

\* Every completion queued after the step was queued before, k places later.
Shifted(k) ==
    \A i \in 1 .. Len(commands') : commands'[i].kind = "complete" =>
      i + k \in 1 .. Len(commands) /\ commands'[i] = commands[i + k]

\* What a step may do to an actor.
ActorKept(a) ==
    /\ tasks'[a].trade = tasks[a].trade
    /\ tasks[a].phase = "stopped" => tasks'[a].phase = "stopped"
    /\ \/ tasks'[a].mailbox = << >>
       \/ tasks'[a].mailbox = tasks[a].mailbox /\ tasks'[a].phase = tasks[a].phase
       \/ /\ ~Dead(a)'
          /\ tasks[a].mailbox # << >> \/ (~Closed(a) /\ creating = NoTrade)

-----------------------------------------------------------------------------
LEMMA Kept ==
  ASSUME IInv, IInv', CInv, NEW k \in Nat, Shifted(k),
         \A a \in 1 .. Len(tasks) : ActorKept(a),
         Len(tasks') >= Len(tasks),
         \A a \in 1 .. Len(tasks') : a > Len(tasks) => tasks'[a].mailbox = << >>,
         \A t \in Trade : t \in OneShot \/ actors'[t] = actors[t] \/ Clear(t)',
         \/ creating' \in {NoTrade, creating} \cup OneShot
         \/ Clear(creating)'
  PROVE  CInv'
<1>1. TypeOK /\ TypeOK' /\ Silenced /\ Unheard /\ CompletionOnce
      /\ CompletionAfter /\ CompletionOwn
  BY DEF IInv, CInv
<1>2. Len(tasks) \in Nat /\ Len(tasks') \in Nat /\ Len(commands') \in Nat
  BY <1>1, LenProperties DEF TypeOK
<1>3. \A i \in 1 .. Len(commands') : commands'[i] \in Command
  BY <1>1, ElementOfSeq DEF TypeOK
<1>4. \A i \in 1 .. Len(commands') : commands'[i].kind = "complete" =>
        commands'[i].trade \in Trade /\ commands'[i].trade # NoTrade
  BY <1>3, BuffettAssumption DEF Command
<1>5. ASSUME NEW a \in 1 .. Len(tasks'), tasks'[a].mailbox # << >>
      PROVE  /\ a \in 1 .. Len(tasks) /\ ActorKept(a) /\ ~Dead(a)'
             /\ tasks[a].mailbox # << >> \/ (~Closed(a) /\ creating = NoTrade)
  <2>1. a \in 1 .. Len(tasks) /\ ActorKept(a)
    BY <1>2, <1>5
  <2>2. CASE tasks'[a].mailbox = tasks[a].mailbox /\ tasks'[a].phase = tasks[a].phase
    BY <1>1, <1>5, <2>1, <2>2 DEF Silenced, Dead
  <2> QED
    BY <1>5, <2>1, <2>2 DEF ActorKept
<1>6. Silenced'
  BY <1>5 DEF Silenced
<1>7. Unheard'
  <2>1. ASSUME NEW a \in 1 .. Len(tasks'), NEW t \in Trade, tasks'[a].trade = t,
               t \notin OneShot, tasks'[a].mailbox # << >>
        PROVE  ~Closed(a)' /\ creating' # t
    <3>1. a \in 1 .. Len(tasks) /\ tasks[a].trade = t /\ t # NoTrade
      BY <1>5, <2>1, BuffettAssumption DEF ActorKept
    <3>2. ~Clear(t)'
      BY <2>1 DEF Clear
    <3>3. ~Closed(a) /\ creating # t
      BY <1>1, <1>5, <2>1, <3>1 DEF Unheard
    <3>4. actors'[t] = actors[t]
      BY <2>1, <3>2
    <3>5. creating' # t
      BY <2>1, <3>1, <3>2, <3>3 DEF Clear
    <3> QED
      BY <2>1, <3>1, <3>3, <3>4, <3>5 DEF Closed
  <2>2. \A a \in 1 .. Len(tasks') : tasks'[a].trade \in Trade
    <3>1. \A a \in 1 .. Len(tasks') : tasks'[a] \in TaskState
      BY <1>1, ElementOfSeq DEF TypeOK
    <3> QED
      BY <3>1 DEF TaskState
  <2> QED
    BY <2>1, <2>2 DEF Unheard
<1>8. CompletionOnce'
  <2>1. ASSUME NEW i \in 1 .. Len(commands'), NEW j \in 1 .. Len(commands'),
               commands'[i].kind = "complete", commands'[j].kind = "complete",
               commands'[i].trade = commands'[j].trade,
               commands'[i].trade \notin OneShot
        PROVE  i = j
    <3>1. i + k = j + k
      BY <1>1, <2>1 DEF Shifted, CompletionOnce
    <3> QED
      BY <1>2, <3>1
  <2> QED
    BY <2>1 DEF CompletionOnce
<1>9. ASSUME NEW i \in 1 .. Len(commands'), commands'[i].kind = "complete",
             NEW t \in Trade, commands'[i].trade = t, t \notin OneShot
      PROVE  /\ Registered(t)' /\ tasks'[actors'[t]].phase = "stopped"
             /\ t # creating'
  <2>1. ~Clear(t)'
    BY <1>9 DEF Clear
  <2>2. i + k \in 1 .. Len(commands) /\ commands'[i] = commands[i + k]
    BY <1>9 DEF Shifted
  <2>3. Registered(t) /\ tasks[actors[t]].phase = "stopped" /\ t # creating
    BY <1>1, <1>9, <2>2 DEF CompletionOwn, CompletionAfter
  <2>4. actors'[t] = actors[t] /\ actors[t] \in 1 .. Len(tasks)
    BY <1>1, <1>9, <2>1, <2>3, RegisteredActor
  <2>5. t # creating'
    BY <1>4, <1>9, <2>1, <2>3 DEF Clear
  <2> QED
    BY <2>3, <2>4, <2>5 DEF Registered, ActorKept
<1>10. CompletionAfter' /\ CompletionOwn'
  BY <1>4, <1>9 DEF CompletionAfter, CompletionOwn
<1> QED
  BY <1>6, <1>7, <1>8, <1>10 DEF CInv

\* A step that changes neither the registry nor the creation under way.
LEMMA KeptQuiet ==
  ASSUME IInv, IInv', CInv, NEW k \in Nat, Shifted(k),
         \A a \in 1 .. Len(tasks) : ActorKept(a), Len(tasks') = Len(tasks),
         UNCHANGED <<actors, creating>>
  PROVE  CInv'
<1>1. Len(tasks) \in Nat
  BY LenProperties DEF IInv, TypeOK
<1>2. /\ Len(tasks') >= Len(tasks)
      /\ \A a \in 1 .. Len(tasks') : ~(a > Len(tasks))
  BY <1>1
<1> QED
  BY <1>2, Kept

-----------------------------------------------------------------------------
(* The commands.                                                           *)

LEMMA TakenShifts ==
  ASSUME TypeOK, NEW kind, Take(kind)
  PROVE  Shifted(1)
<1>1. commands \in Seq(Command) /\ commands # << >> /\ commands' = Tail(commands)
  BY DEF TypeOK, Take
<1> QED
  BY <1>1, TailElements DEF Shifted

LEMMA PostedShifts ==
  ASSUME TypeOK, NEW c \in Command, c.kind # "complete",
         commands' = Append(commands, c)
  PROVE  Shifted(0)
<1>1. commands \in Seq(Command) /\ Len(commands) \in Nat
  BY LenProperties DEF TypeOK
<1>2. /\ Len(commands') = Len(commands) + 1
      /\ \A i \in 1 .. Len(commands) : commands'[i] = commands[i]
      /\ commands'[Len(commands) + 1] = c
  BY <1>1, AppendElements
<1> QED
  BY <1>1, <1>2 DEF Shifted

LEMMA SameShifts ==
  ASSUME TypeOK, UNCHANGED commands
  PROVE  Shifted(0)
<1>1. Len(commands) \in Nat
  BY LenProperties DEF TypeOK
<1> QED
  BY <1>1 DEF Shifted

-----------------------------------------------------------------------------
(* The actors.                                                             *)

LEMMA SameActors ==
  ASSUME UNCHANGED tasks
  PROVE  \A a \in 1 .. Len(tasks) : ActorKept(a)
BY DEF ActorKept

LEMMA ActorChanged ==
  ASSUME TypeOK, NEW a \in 1 .. Len(tasks), NEW e \in TaskState,
         tasks' = [tasks EXCEPT ![a] = e]
  PROVE  /\ Len(tasks') = Len(tasks)
         /\ tasks'[a] = e
         /\ \A b \in 1 .. Len(tasks) : b # a => tasks'[b] = tasks[b]
<1>1. tasks \in Seq(TaskState)
  BY DEF TypeOK
<1> QED
  BY <1>1, ExceptSeq

\* A change of one actor's phase and mailbox.
LEMMA OneActor ==
  ASSUME TypeOK, NEW a \in 1 .. Len(tasks), NEW p \in Phase, NEW mb \in Seq(Message),
         tasks' = [tasks EXCEPT ![a].phase = p, ![a].mailbox = mb],
         tasks[a].phase = "stopped" => p = "stopped",
         \/ mb = << >>
         \/ /\ p \notin {"stopped", "failed"}
            /\ tasks[a].mailbox # << >> \/ (~Closed(a) /\ creating = NoTrade)
  PROVE  Len(tasks') = Len(tasks) /\ \A b \in 1 .. Len(tasks) : ActorKept(b)
<1> DEFINE e == [tasks[a] EXCEPT !.phase = p, !.mailbox = mb]
<1>1. /\ e \in TaskState /\ e.trade = tasks[a].trade
      /\ e.phase = p /\ e.mailbox = mb
  BY TaskFields DEF TaskState
<1>2. tasks' = [tasks EXCEPT ![a] = e]
  BY TaskFields, LenProperties DEF TypeOK, TaskState
<1> HIDE DEF e
<1>3. /\ Len(tasks') = Len(tasks)
      /\ tasks'[a] = e
      /\ \A b \in 1 .. Len(tasks) : b # a => tasks'[b] = tasks[b]
  BY <1>1, <1>2, ActorChanged
<1>4. ActorKept(a)
  BY <1>1, <1>3 DEF ActorKept, Dead
<1>5. \A b \in 1 .. Len(tasks) : b # a => ActorKept(b)
  BY <1>3 DEF ActorKept
<1> QED
  BY <1>3, <1>4, <1>5

\* A phase or a mailbox alone is a case of both.
LEMMA PhaseAndMailbox ==
  ASSUME TypeOK, NEW a \in 1 .. Len(tasks), NEW p, NEW mb
  PROVE  /\ [tasks EXCEPT ![a].phase = p]
              = [tasks EXCEPT ![a].phase = p, ![a].mailbox = tasks[a].mailbox]
         /\ [tasks EXCEPT ![a].mailbox = mb]
              = [tasks EXCEPT ![a].phase = tasks[a].phase, ![a].mailbox = mb]
<1> DEFINE e1 == [tasks[a] EXCEPT !.phase = p]
           e2 == [tasks[a] EXCEPT !.mailbox = mb]
<1>1. tasks[a] \in TaskState
  BY TaskFields
<1>2. e1 = [tasks[a] EXCEPT !.phase = p, !.mailbox = tasks[a].mailbox]
  BY <1>1 DEF TaskState
<1>3. e2 = [tasks[a] EXCEPT !.phase = tasks[a].phase, !.mailbox = mb]
  BY <1>1 DEF TaskState
<1> QED
  BY ZenonT(40), <1>1, <1>2, <1>3, LenProperties DEF TypeOK, TaskState

\* A message sent to a registered actor, while nothing is being created.
LEMMA Sent ==
  ASSUME TypeOK, creating = NoTrade, NEW t \in Trade, Registered(t), Spawned,
         NEW m \in Message, tasks' = Send(actors[t], m)
  PROVE  Len(tasks') = Len(tasks) /\ \A b \in 1 .. Len(tasks) : ActorKept(b)
<1> DEFINE a == actors[t]
<1>1. a \in 1 .. Len(tasks) /\ tasks[a].trade = t
  BY RegisteredActor DEF Spawned
<1>2. ~Closed(a)
  BY <1>1 DEF Closed
<1>3. CASE Dead(a)
  BY <1>3, SameActors DEF Send
<1>4. CASE ~Dead(a)
  <2> DEFINE mb == Append(tasks[a].mailbox, m)
  <2> HIDE DEF a
  <2>1. tasks' = [tasks EXCEPT ![a].mailbox = mb]
    BY <1>4 DEF Send, a
  <2>2. mb \in Seq(Message) /\ tasks[a].phase \in Phase
    BY <1>1, TaskFields, AppendElements DEF TaskState
  <2>3. tasks[a].phase \notin {"stopped", "failed"}
    BY <1>4 DEF Dead
  <2> HIDE DEF mb
  <2>4. tasks' = [tasks EXCEPT ![a].phase = tasks[a].phase, ![a].mailbox = mb]
    BY <1>1, <2>1, PhaseAndMailbox
  <2> QED
    BY <1>1, <1>2, <2>2, <2>3, <2>4, OneActor
<1> QED
  BY <1>3, <1>4

\* The logs are copied to registered actors that are not dead.
LEMMA LogsKept ==
  ASSUME IInv, NEW tx \in Transaction, RouteLogs(tx)
  PROVE  Len(tasks') = Len(tasks) /\ \A b \in 1 .. Len(tasks) : ActorKept(b)
<1> DEFINE times == tx.curve + (IF poolRef[tx.mint] > 0 THEN tx.pool ELSE 0)
           Copied(a) == IF actors[tasks[a].trade] = a /\ ~Dead(a)
                        THEN times * subs[tx.mint][tasks[a].trade] ELSE 0
           Box(a) == tasks[a].mailbox \o Copies("logs", Copied(a))
<1>1. TypeOK /\ creating = NoTrade
  BY DEF IInv, RouteLogs
<1>2. Len(tasks) \in Nat
  BY <1>1, LenProperties DEF TypeOK
<1>3. tasks' = [a \in 1 .. Len(tasks) |-> [tasks[a] EXCEPT !.mailbox = Box(a)]]
  BY DEF RouteLogs
<1>4. ASSUME NEW a \in 1 .. Len(tasks) PROVE ActorKept(a)
  <2>1. tasks[a] \in TaskState /\ tasks[a].mailbox \in Seq(Message)
    BY <1>1, TaskFields
  <2>2. /\ tasks'[a].trade = tasks[a].trade /\ tasks'[a].phase = tasks[a].phase
        /\ tasks'[a].mailbox = Box(a)
    <3> HIDE DEF Box
    <3> QED
      BY <1>3, <2>1 DEF TaskState
  <2>3. CASE ~Closed(a) /\ ~Dead(a)
    BY <1>1, <2>2, <2>3 DEF ActorKept, Dead
  <2>4. CASE Closed(a) \/ Dead(a)
    <3>1. Copied(a) = 0
      BY <2>4 DEF Closed
    <3>2. Copies("logs", Copied(a)) = << >>
      BY <3>1 DEF Copies
    <3>3. Box(a) = tasks[a].mailbox
      BY <2>1, <3>2, ConcatEmptySeq
    <3> QED
      BY <2>2, <3>3 DEF ActorKept
  <2> QED
    BY <2>3, <2>4
<1> HIDE DEF Box
<1>5. Len(tasks') = Len(tasks)
  BY <1>2, <1>3
<1> QED
  BY <1>4, <1>5

\* An order is no completion.
LEMMA IssueShifts ==
  ASSUME TypeOK, NEW a \in 1 .. Len(tasks), Issue(a) \/ UNCHANGED <<issued, commands>>
  PROVE  Shifted(0)
<1>1. CASE Issue(a)
  <2>1. Len(tasks) \in Nat /\ issued \in Nat
    BY LenProperties DEF TypeOK
  <2>2. [kind |-> "forward", n |-> issued + 1, actor |-> a] \in Command
    BY <2>1 DEF Command
  <2> QED
    BY <1>1, <2>2, PostedShifts DEF Issue
<1>2. CASE UNCHANGED <<issued, commands>>
  BY <1>2, SameShifts
<1> QED
  BY <1>1, <1>2

LEMMA ActorStepCompletion ==
  ASSUME IInv, IInv', CInv, NEW a \in 1 .. Len(tasks),
         Start(a) \/ Handle(a) \/ ShutDown(a)
  PROVE  CInv'
<1>1. TypeOK /\ tasks[a].mailbox \in Seq(Message) /\ tasks[a].phase \in Phase
  BY TaskFields DEF IInv, TaskState
<1>2. UNCHANGED <<actors, creating>>
  BY DEF Start, Handle, ShutDown, routeVars, walletVars
<1>3. Shifted(0)
  BY <1>1, IssueShifts, SameShifts DEF Start, Handle, ShutDown
<1>4. << >> \in Seq(Message)
  OBVIOUS
<1>5. Len(tasks') = Len(tasks) /\ \A b \in 1 .. Len(tasks) : ActorKept(b)
  <2>1. CASE Start(a)
    <3>1. CASE tasks' = [tasks EXCEPT ![a].phase = "failed", ![a].mailbox = << >>]
      BY <1>1, <1>4, <2>1, <3>1, OneActor DEF Start, Phase
    <3>2. CASE tasks' = [tasks EXCEPT ![a].phase = "running"]
      <4>1. tasks' = [tasks EXCEPT ![a].phase = "running",
                                   ![a].mailbox = tasks[a].mailbox]
        BY <1>1, <3>2, PhaseAndMailbox
      <4>2. tasks[a].phase = "starting"
        BY <2>1 DEF Start
      <4> QED
        BY <1>1, <4>1, <4>2, OneActor DEF Phase
    <3> QED
      BY <2>1, <3>1, <3>2 DEF Start
  <2>2. CASE Handle(a)
    <3> DEFINE mb == Tail(tasks[a].mailbox)
    <3>1. tasks[a].phase = "running" /\ tasks[a].mailbox # << >>
      BY <2>2 DEF Handle, Receive
    <3>2. mb \in Seq(Message)
      BY <1>1, <3>1, TailElements
    <3>3. tasks' = [tasks EXCEPT ![a].mailbox = mb]
      BY <2>2 DEF Handle
    <3> HIDE DEF mb
    <3>4. tasks' = [tasks EXCEPT ![a].phase = tasks[a].phase, ![a].mailbox = mb]
      BY <1>1, <3>3, PhaseAndMailbox
    <3> QED
      BY <1>1, <3>1, <3>2, <3>4, OneActor
  <2>3. CASE ShutDown(a)
    <3>1. tasks' = [tasks EXCEPT ![a].phase = "stopped"] /\ tasks[a].mailbox = << >>
      BY <2>3 DEF ShutDown
    <3>2. tasks' = [tasks EXCEPT ![a].phase = "stopped",
                                 ![a].mailbox = tasks[a].mailbox]
      BY <1>1, <3>1, PhaseAndMailbox
    <3> QED
      BY <1>1, <3>1, <3>2, OneActor DEF Phase
  <2> QED
    BY <2>1, <2>2, <2>3
<1> QED
  BY <1>2, <1>3, <1>5, KeptQuiet

\* The steps that keep the registry and the creation under way.
LEMMA QuietCompletion ==
  ASSUME IInv, IInv', CInv,
         \/ \E t \in Trade : Deliver(t) \/ DeliverRemoval(t)
         \/ HandleRemove \/ HandleForward \/ RouteResult \/ WalletStep
         \/ \E tx \in Transaction : RouteLogs(tx)
         \/ \E o \in orders : TaskStep(o)
         \/ UNCHANGED vars
  PROVE  CInv'
<1>1. TypeOK /\ Spawned
  BY DEF IInv
<1>2. CASE \E t \in Trade : Deliver(t) \/ DeliverRemoval(t)
  <2>1. \E c \in Command : c.kind # "complete" /\ commands' = Append(commands, c)
    BY <1>2 DEF Deliver, DeliverRemoval, Command
  <2>2. UNCHANGED <<actors, creating, tasks>>
    BY <1>2 DEF Deliver, DeliverRemoval, routeVars, walletVars
  <2> QED
    BY <1>1, <2>1, <2>2, PostedShifts, SameActors, KeptQuiet
<1>3. CASE HandleRemove
  <2> DEFINE t == Head(commands).trade
  <2>1. Take("remove") /\ creating = NoTrade
    BY <1>3 DEF HandleRemove, Take
  <2>2. t \in Trade
    BY <2>1, TakeKeeps DEF Take, Command
  <2>3. UNCHANGED <<actors, creating>>
    BY <1>3 DEF HandleRemove, routeVars, walletVars
  <2>4. Len(tasks') = Len(tasks) /\ \A b \in 1 .. Len(tasks) : ActorKept(b)
    <3>1. CASE Registered(t)
      BY <1>1, <1>3, <2>1, <2>2, <3>1, Sent DEF HandleRemove, Message
    <3>2. CASE ~Registered(t)
      BY <1>3, <3>2, SameActors DEF HandleRemove
    <3> QED
      BY <3>1, <3>2
  <2> QED
    BY <1>1, <2>1, <2>3, <2>4, TakenShifts, KeptQuiet
<1>4. CASE HandleForward
  BY <1>1, <1>4, TakenShifts, SameActors, KeptQuiet
  DEF HandleForward, routeVars, walletVars
<1>5. CASE RouteResult
  <2> DEFINE t == tasks[Head(results)].trade
  <2>1. creating = NoTrade /\ UNCHANGED <<actors, creating, commands>>
    BY <1>5 DEF RouteResult, routeVars, walletVars
  <2>2. Head(results) \in 1 .. Len(tasks)
    BY <1>1, <1>5, TailElements DEF RouteResult, TypeOK
  <2>3. t \in Trade
    BY <1>1, <2>2, TaskFields
  <2>4. Len(tasks') = Len(tasks) /\ \A b \in 1 .. Len(tasks) : ActorKept(b)
    <3>1. CASE Registered(t)
      BY <1>1, <1>5, <2>1, <2>3, <3>1, Sent DEF RouteResult, Message
    <3>2. CASE ~Registered(t)
      BY <1>5, <3>2, SameActors DEF RouteResult
    <3> QED
      BY <3>1, <3>2
  <2> QED
    BY <1>1, <2>1, <2>4, SameShifts, KeptQuiet
<1>6. CASE WalletStep \/ \E o \in orders : TaskStep(o)
  <2>1. UNCHANGED <<actors, creating, commands, tasks>>
    BY <1>6 DEF WalletStep, Prepare, Destroy, TaskStep, PlanFails, Sign, Unsigned,
       Submit, routeVars, walletVars
  <2> QED
    BY <1>1, <2>1, SameShifts, SameActors, KeptQuiet
<1>7. CASE \E tx \in Transaction : RouteLogs(tx)
  <2>1. UNCHANGED <<actors, creating, commands>>
    BY <1>7 DEF RouteLogs, routeVars, walletVars
  <2> QED
    BY <1>1, <1>7, <2>1, LogsKept, SameShifts, KeptQuiet
<1>8. CASE UNCHANGED vars
  BY <1>1, <1>8, SameShifts, SameActors, KeptQuiet DEF vars, routeVars, walletVars
<1> QED
  BY <1>2, <1>3, <1>4, <1>5, <1>6, <1>7, <1>8
-----------------------------------------------------------------------------
(* The steps that register, deregister or complete.                        *)

\* A countersell without an actor has nothing queued or waiting.
LEMMA UnregisteredClear ==
  ASSUME IInv, CInv, NEW t \in Trade, t \notin OneShot, ~Registered(t)
  PROVE  Clear(t)
<1>1. TypeOK /\ Unheard /\ CompletionOwn
  BY DEF IInv, CInv
<1>2. \A a \in 1 .. Len(tasks) : tasks[a].trade = t => Closed(a)
  BY <1>1, LenProperties DEF Closed, Registered, TypeOK
<1> QED
  BY <1>1, <1>2 DEF Clear, Unheard, CompletionOwn

\* What remains of the queue is as clear as the queue was.
LEMMA ClearTaken ==
  ASSUME TypeOK, NEW t, Clear(t), Shifted(1), UNCHANGED tasks
  PROVE  Clear(t)'
BY DEF Clear, Shifted

LEMMA CreatedCompletion ==
  ASSUME IInv, IInv', CInv, Created
  PROVE  CInv'
<1>1. TypeOK
  BY DEF IInv
<1>2. creating' = NoTrade /\ UNCHANGED <<actors, commands, tasks>>
  BY DEF Created, routeVars
<1>3. /\ Len(tasks') >= Len(tasks)
      /\ \A a \in 1 .. Len(tasks') : ~(a > Len(tasks))
  BY <1>1, <1>2, LenProperties DEF TypeOK
<1> QED
  BY <1>1, <1>2, <1>3, SameShifts, SameActors, Kept

LEMMA AbortCompletion ==
  ASSUME IInv, IInv', CInv, AbortCreation
  PROVE  CInv'
<1>1. TypeOK /\ Awaited /\ Unheard /\ CompletionAfter
  BY DEF IInv, CInv
<1>2. /\ creating' = NoTrade /\ actors' = [actors EXCEPT ![creating] = 0]
      /\ UNCHANGED <<commands, tasks>>
  BY DEF AbortCreation
<1>3. \A t \in Trade : t \in OneShot \/ actors'[t] = actors[t] \/ Clear(t)'
  <2>1. ASSUME NEW t \in Trade, t \notin OneShot, t = creating PROVE Clear(t)'
    BY <1>1, <1>2, <2>1 DEF Clear, Unheard, CompletionAfter
  <2>2. ASSUME NEW t \in Trade, t # creating PROVE actors'[t] = actors[t]
    BY <1>1, <1>2, <2>2 DEF TypeOK
  <2> QED
    BY <2>1, <2>2
<1>4. /\ Len(tasks') >= Len(tasks)
      /\ \A a \in 1 .. Len(tasks') : ~(a > Len(tasks))
  BY <1>1, <1>2, LenProperties DEF TypeOK
<1> QED
  BY <1>1, <1>2, <1>3, <1>4, SameShifts, SameActors, Kept

LEMMA HandleCompleteCompletion ==
  ASSUME IInv, IInv', CInv, HandleComplete
  PROVE  CInv'
<1>1. TypeOK /\ Spawned /\ CInv
  BY DEF IInv
<1>2. Take("complete") /\ creating' = creating /\ UNCHANGED tasks
  BY DEF HandleComplete
<1>3. PICK t \in Trade : Head(commands).trade = t
  BY <1>2, TakeKeeps DEF Take, Command
<1>4. /\ Head(commands) = commands[1] /\ 1 \in 1 .. Len(commands)
      /\ commands[1].kind = "complete" /\ commands[1].trade = t
  BY <1>2, <1>3, TakeKeeps DEF Take
<1>5. actors' = [actors EXCEPT ![t] = 0] \/ actors' = actors
  BY <1>3 DEF HandleComplete, routeVars
<1>6. \A u \in Trade : u # t => actors'[u] = actors[u]
  BY <1>1, <1>5 DEF TypeOK
<1>7. Shifted(1)
  BY <1>1, <1>2, TakenShifts
<1>8. ASSUME t \notin OneShot PROVE Clear(t)'
  <2>1. \A i \in 1 .. Len(commands') :
          commands'[i].kind = "complete" => commands'[i].trade # t
    <3>1. ASSUME NEW i \in 1 .. Len(commands'), commands'[i].kind = "complete",
                 commands'[i].trade = t
          PROVE  FALSE
      <4>1. /\ i + 1 \in 1 .. Len(commands) /\ commands[i + 1].kind = "complete"
            /\ commands[i + 1].trade = t
        BY <1>7, <3>1 DEF Shifted
      <4>2. i + 1 = 1
        BY <1>1, <1>4, <1>8, <4>1 DEF CInv, CompletionOnce
      <4> QED
        BY <4>2
    <3> QED
      BY <3>1
  <2>2. Registered(t) /\ tasks[actors[t]].phase = "stopped"
    BY <1>1, <1>4, <1>8 DEF CInv, CompletionOwn
  <2>3. ASSUME NEW a \in 1 .. Len(tasks), tasks[a].trade = t
        PROVE  tasks[a].mailbox = << >>
    BY <1>1, <1>8, <2>2, <2>3 DEF CInv, Unheard, Silenced, Closed, Dead
  <2> QED
    BY <1>2, <2>1, <2>3 DEF Clear
<1>9. /\ Len(tasks') >= Len(tasks)
      /\ \A a \in 1 .. Len(tasks') : ~(a > Len(tasks))
  BY <1>1, <1>2, LenProperties DEF TypeOK
<1> QED
  BY <1>2, <1>6, <1>7, <1>8, <1>9, SameActors, Kept

LEMMA HandleCreateCompletion ==
  ASSUME IInv, IInv', CInv, HandleCreate
  PROVE  CInv'
<1>1. TypeOK /\ Spawned
  BY DEF IInv
<1>2. Take("create") /\ creating = NoTrade
  BY DEF HandleCreate, Take
<1>3. PICK t \in Trade : Head(commands).trade = t
  BY <1>2, TakeKeeps DEF Take, Command
<1>4. Shifted(1)
  BY <1>1, <1>2, TakenShifts
<1>5. CASE t \notin OneShot /\ Registered(t)
  <2>1. tasks' = Send(actors[t], "add") /\ UNCHANGED <<actors, creating>>
    BY <1>3, <1>5 DEF HandleCreate, routeVars
  <2>2. Len(tasks') = Len(tasks) /\ \A b \in 1 .. Len(tasks) : ActorKept(b)
    BY <1>1, <1>2, <1>5, <2>1, Sent DEF Message
  <2> QED
    BY <1>4, <2>1, <2>2, KeptQuiet
<1>6. CASE ~(t \notin OneShot /\ Registered(t))
  <2>1. CreateNewTrade(t)
    BY <1>3, <1>6 DEF HandleCreate
  <2>2. \A u \in Trade : u # t => actors'[u] = actors[u]
    BY <1>1, <2>1 DEF CreateNewTrade, TypeOK
  <2>3. t \notin OneShot => Clear(t)
    BY <1>6, UnregisteredClear
  <2>4. CASE UNCHANGED <<tasks, creating>>
    <3>1. t \notin OneShot => Clear(t)'
      BY <1>1, <1>4, <2>3, <2>4, ClearTaken
    <3>2. /\ Len(tasks') >= Len(tasks)
          /\ \A a \in 1 .. Len(tasks') : ~(a > Len(tasks))
      BY <1>1, <2>4, LenProperties DEF TypeOK
    <3> QED
      BY <1>4, <2>2, <2>4, <3>1, <3>2, SameActors, Kept
  <2>5. CASE /\ tasks' = Append(tasks, [trade |-> t, phase |-> "starting",
                                        mailbox |-> << >>])
             /\ creating' = t
    <3> DEFINE e == [trade |-> t, phase |-> "starting", mailbox |-> << >>]
    <3>1. e \in TaskState /\ e.trade = t /\ e.mailbox = << >>
      BY DEF TaskState, Phase
    <3>2. tasks' = Append(tasks, e)
      BY <2>5
    <3> HIDE DEF e
    <3>3. /\ Len(tasks) \in Nat /\ Len(tasks') = Len(tasks) + 1
          /\ \A a \in 1 .. Len(tasks) : tasks'[a] = tasks[a]
          /\ tasks'[Len(tasks) + 1] = e
      BY <1>1, <3>1, <3>2, AppendElements, LenProperties DEF TypeOK
    <3>4. \A a \in 1 .. Len(tasks) : ActorKept(a)
      BY <3>3 DEF ActorKept
    <3>5. \A a \in 1 .. Len(tasks') : a > Len(tasks) => tasks'[a].mailbox = << >>
      BY <3>1, <3>3
    <3>6. t \notin OneShot => Clear(t)'
      <4>1. ASSUME t \notin OneShot, NEW a \in 1 .. Len(tasks'), tasks'[a].trade = t
            PROVE  tasks'[a].mailbox = << >>
        <5>1. CASE a > Len(tasks)
          BY <3>5, <5>1
        <5>2. CASE ~(a > Len(tasks))
          BY <2>3, <3>3, <4>1, <5>2 DEF Clear
        <5> QED
          BY <5>1, <5>2
      <4> QED
        BY <1>4, <2>3, <4>1 DEF Clear, Shifted
    <3>7. \/ creating' \in {NoTrade, creating} \cup OneShot
          \/ Clear(creating)'
      BY <2>5, <3>6 DEF Clear
    <3>8. Len(tasks') >= Len(tasks)
      BY <3>3
    <3> QED
      BY <1>4, <2>2, <3>4, <3>5, <3>6, <3>7, <3>8, Kept
  <2> QED
    BY <2>1, <2>4, <2>5 DEF CreateNewTrade
<1> QED
  BY <1>5, <1>6

\* Only the registered actor of a countersell can complete, and only once.
LEMMA CompleteCompletion ==
  ASSUME IInv, IInv', CInv, NEW a \in 1 .. Len(tasks), Complete(a)
  PROVE  CInv'
<1> DEFINE c == [kind |-> "complete", trade |-> tasks[a].trade]
<1>1. /\ TypeOK /\ TypeOK' /\ Silenced /\ Unheard /\ CompletionOnce
      /\ CompletionAfter /\ CompletionOwn
  BY DEF IInv, CInv
<1>2. /\ tasks' = [tasks EXCEPT ![a].phase = "stopped", ![a].mailbox = << >>]
      /\ commands' = Append(commands, c) /\ UNCHANGED <<actors, creating>>
      /\ tasks[a].phase = "running" /\ tasks[a].mailbox # << >>
  BY DEF Complete, Receive, routeVars, walletVars
<1>3. /\ c \in Command /\ c.kind = "complete" /\ c.trade = tasks[a].trade
      /\ c.trade \in Trade
  BY <1>1, TaskFields DEF Command
<1> HIDE DEF c
<1>4. /\ Len(commands) \in Nat /\ Len(commands') = Len(commands) + 1
      /\ \A i \in 1 .. Len(commands) : commands'[i] = commands[i]
      /\ commands'[Len(commands) + 1] = c
  BY <1>1, <1>2, <1>3, AppendElements, LenProperties DEF TypeOK
<1>5. /\ Len(tasks') = Len(tasks)
      /\ tasks'[a].trade = tasks[a].trade /\ tasks'[a].phase = "stopped"
      /\ tasks'[a].mailbox = << >>
      /\ \A b \in 1 .. Len(tasks) : b # a => tasks'[b] = tasks[b]
  <2> DEFINE e == [tasks[a] EXCEPT !.phase = "stopped", !.mailbox = << >>]
  <2>1. /\ e \in TaskState /\ e.trade = tasks[a].trade /\ e.phase = "stopped"
        /\ e.mailbox = << >>
    <3>1. << >> \in Seq(Message) /\ "stopped" \in Phase
      BY DEF Phase
    <3> QED
      BY <1>1, <3>1, TaskFields DEF TaskState
  <2>2. tasks' = [tasks EXCEPT ![a] = e]
    BY <1>1, <1>2, TaskFields, LenProperties DEF TypeOK, TaskState
  <2> HIDE DEF e
  <2> QED
    BY <1>1, <2>1, <2>2, ActorChanged
<1>6. Silenced' /\ Unheard'
  BY <1>1, <1>2, <1>5 DEF Silenced, Unheard, Dead, Closed
<1>7. c.trade \notin OneShot =>
        actors[c.trade] = a /\ Registered(c.trade) /\ c.trade # creating
  <2>1. a # 0
    BY <1>1, LenProperties DEF TypeOK
  <2> QED
    BY <1>1, <1>2, <1>3, <2>1 DEF Unheard, Closed, Registered
<1>8. ASSUME NEW i \in 1 .. Len(commands), commands[i].kind = "complete",
             commands[i].trade \notin OneShot
      PROVE  /\ commands[i].trade # c.trade
             /\ actors'[commands[i].trade] # 0
             /\ tasks'[actors'[commands[i].trade]].phase = "stopped"
             /\ commands[i].trade # creating'
  <2>1. commands[i] \in Command
    BY <1>1, ElementOfSeq DEF TypeOK
  <2>2. commands[i].trade \in Trade
    BY <1>8, <2>1 DEF Command
  <2>3. /\ Registered(commands[i].trade) /\ commands[i].trade # creating
        /\ tasks[actors[commands[i].trade]].phase = "stopped"
    BY <1>1, <1>8 DEF CompletionOwn, CompletionAfter
  <2>4. actors[commands[i].trade] \in 1 .. Len(tasks)
    BY <1>1, <2>2, <2>3, RegisteredActor
  <2>5. actors[commands[i].trade] # a
    BY <1>2, <2>3
  <2>6. commands[i].trade # c.trade
    BY <1>7, <1>8, <2>5
  <2> QED
    BY <1>2, <1>5, <2>3, <2>4, <2>5, <2>6 DEF Registered
<1>9. ASSUME NEW i \in 1 .. Len(commands') PROVE i \in 1 .. Len(commands) \/ commands'[i] = c
  BY <1>4
<1>10. CompletionOnce'
  <2>1. ASSUME NEW i \in 1 .. Len(commands'), NEW j \in 1 .. Len(commands'),
               commands'[i].kind = "complete", commands'[j].kind = "complete",
               commands'[i].trade = commands'[j].trade,
               commands'[i].trade \notin OneShot
        PROVE  i = j
    <3>1. CASE i \in 1 .. Len(commands) /\ j \in 1 .. Len(commands)
      BY <1>1, <1>4, <2>1, <3>1 DEF CompletionOnce
    <3>2. CASE i \in 1 .. Len(commands) /\ j \notin 1 .. Len(commands)
      BY <1>4, <1>8, <1>9, <2>1, <3>2
    <3>3. CASE i \notin 1 .. Len(commands) /\ j \in 1 .. Len(commands)
      BY <1>4, <1>8, <1>9, <2>1, <3>3
    <3>4. CASE i \notin 1 .. Len(commands) /\ j \notin 1 .. Len(commands)
      BY <1>4, <3>4
    <3> QED
      BY <3>1, <3>2, <3>3, <3>4
  <2> QED
    BY <2>1 DEF CompletionOnce
<1>11. ASSUME NEW i \in 1 .. Len(commands'), commands'[i].kind = "complete",
              commands'[i].trade \notin OneShot
       PROVE  /\ actors'[commands'[i].trade] # 0
              /\ tasks'[actors'[commands'[i].trade]].phase = "stopped"
              /\ commands'[i].trade # creating'
  <2>1. CASE i \in 1 .. Len(commands)
    <3>1. commands'[i] = commands[i]
      BY <1>4, <2>1
    <3>2. /\ actors'[commands[i].trade] # 0
          /\ tasks'[actors'[commands[i].trade]].phase = "stopped"
          /\ commands[i].trade # creating'
      BY <1>8, <1>11, <2>1, <3>1
    <3> QED
      BY <3>1, <3>2
  <2>2. CASE commands'[i] = c
    BY <1>2, <1>5, <1>7, <1>11, <2>2 DEF Registered
  <2> QED
    BY <1>9, <2>1, <2>2
<1>12. CompletionAfter' /\ CompletionOwn'
  BY <1>11 DEF CompletionAfter, CompletionOwn, Registered
<1> QED
  BY <1>6, <1>10, <1>12 DEF CInv
-----------------------------------------------------------------------------
LEMMA CompletionStep ==
  ASSUME IInv, IInv', CInv, [Next]_vars
  PROVE  CInv'
<1>1. CASE BuffettStep
  BY <1>1, HandleCreateCompletion, HandleCompleteCompletion, CreatedCompletion,
     AbortCompletion, QuietCompletion DEF BuffettStep
<1>2. CASE \E a \in 1 .. Len(tasks) : ActorStep(a)
  BY <1>2, ActorStepCompletion, CompleteCompletion DEF ActorStep
<1> QED
  BY <1>1, <1>2, QuietCompletion DEF Next

\* TradeComplete of a countersell is handled while the actor that sent it is
\* the registered one (actor.rs:85, handlers.rs:142-168): its end never takes
\* the registration of a successor, whatever was delivered in between.
THEOREM CompletionsOwn == Spec => []CompletionOwn
<1>1. Init => CInv
  BY DEF Init, CInv, Silenced, Unheard, CompletionOnce, CompletionAfter, CompletionOwn
<1>2. IInv /\ IInv' /\ CInv /\ [Next]_vars => CInv'
  BY CompletionStep
<1>3. CInv => CompletionOwn
  BY DEF CInv
<1> QED
  BY <1>1, <1>2, <1>3, Invariant, PTL DEF Spec
-----------------------------------------------------------------------------
(* The keys in memory.  KInv is inductive beside IInv.                     *)

Destroying(w) == \E i \in 1 .. Len(walletCmds) :
                   walletCmds[i] = [kind |-> "destroy", wallet |-> w]

\* A command added to the wallet manager's channel displaces none.
LEMMA PostedCmd ==
  ASSUME TypeOK, NEW c \in WalletCmd, walletCmds' = Append(walletCmds, c), NEW w
  PROVE  /\ Destroying(w) => Destroying(w)'
         /\ c = [kind |-> "destroy", wallet |-> w] => Destroying(w)'
<1>1. walletCmds \in Seq(WalletCmd) /\ Len(walletCmds) \in Nat
  BY LenProperties DEF TypeOK
<1>2. /\ Len(walletCmds') = Len(walletCmds) + 1
      /\ \A i \in 1 .. Len(walletCmds) : walletCmds'[i] = walletCmds[i]
      /\ walletCmds'[Len(walletCmds) + 1] = c
  BY <1>1, AppendElements
<1>3. Len(walletCmds) + 1 \in 1 .. Len(walletCmds')
  BY <1>1, <1>2
<1>4. \A i \in 1 .. Len(walletCmds) : i \in 1 .. Len(walletCmds')
  BY <1>1, <1>2
<1> QED
  BY <1>2, <1>3, <1>4 DEF Destroying

LEMMA CmdTyped ==
  ASSUME NEW t \in Trade
  PROVE  /\ [kind |-> "prepare", wallet |-> WalletOf[t]] \in WalletCmd
         /\ [kind |-> "destroy", wallet |-> WalletOf[t]] \in WalletCmd
BY BuffettAssumption DEF WalletCmd

\* No creation is queued that was not, and nothing registered that was not.
LEMMA DeliveredKept ==
  ASSUME TypeOK, DeliveredFirst, NEW k \in Nat,
         \A i \in 1 .. Len(commands') : commands'[i].kind = "create" =>
           i + k \in 1 .. Len(commands) /\ commands'[i] = commands[i + k],
         \A t \in Trade : Registered(t)' => Registered(t),
         delivered' = delivered
  PROVE  DeliveredFirst'
<1>2. ASSUME NEW t \in Trade, NEW i \in 1 .. Len(commands'), Creates(i, t)'
      PROVE  i + k \in 1 .. Len(commands) /\ Creates(i + k, t)
  BY <1>2 DEF Creates
<1>3. ASSUME NEW t \in Trade, NEW i \in 1 .. Len(commands'), Creates(i, t)',
             NEW j \in 1 .. Len(commands'), Creates(j, t)', i # j
      PROVE  delivered[t] > 1
  <2>1. i + k # j + k
    BY <1>3
  <2> QED
    BY <1>2, <1>3, <2>1 DEF DeliveredFirst
<1>4. \A t \in Trade, i \in 1 .. Len(commands') : Creates(i, t)' =>
        delivered[t] > 0 /\ (Registered(t)' => delivered[t] > 1)
  BY <1>2 DEF DeliveredFirst
<1>5. \A t \in Trade : Registered(t)' => delivered[t] > 0
  BY DEF DeliveredFirst
<1> QED
  BY <1>3, <1>4, <1>5 DEF DeliveredFirst

LEMMA CommandsTaken ==
  ASSUME TypeOK, NEW kind, Take(kind)
  PROVE  \A i \in 1 .. Len(commands') :
           i + 1 \in 1 .. Len(commands) /\ commands'[i] = commands[i + 1]
<1>1. commands \in Seq(Command) /\ commands # << >> /\ commands' = Tail(commands)
  BY DEF TypeOK, Take
<1> QED
  BY <1>1, TailElements

LEMMA DeliveredQuiet ==
  ASSUME IInv, DeliveredFirst, UNCHANGED <<actors, delivered>>,
         \/ commands' = commands
         \/ \E kind \in {"remove", "forward", "complete"} : Take(kind)
         \/ \E c \in Command : c.kind # "create" /\ commands' = Append(commands, c)
  PROVE  DeliveredFirst'
<1>1. TypeOK /\ Len(commands) \in Nat
  BY LenProperties DEF IInv, TypeOK
<1>2. \A t \in Trade : Registered(t)' => Registered(t)
  BY DEF Registered
<1>3. CASE commands' = commands
  <2>1. \A i \in 1 .. Len(commands') :
          i + 0 \in 1 .. Len(commands) /\ commands'[i] = commands[i + 0]
    BY <1>1, <1>3
  <2> QED
    BY <1>1, <1>2, <2>1, DeliveredKept
<1>4. CASE \E kind \in {"remove", "forward", "complete"} : Take(kind)
  BY <1>1, <1>2, <1>4, CommandsTaken, DeliveredKept
<1>5. ASSUME NEW c \in Command, c.kind # "create", commands' = Append(commands, c)
      PROVE  DeliveredFirst'
  <2>1. /\ Len(commands') = Len(commands) + 1
        /\ \A i \in 1 .. Len(commands) : commands'[i] = commands[i]
        /\ commands'[Len(commands) + 1] = c
    BY <1>1, <1>5, AppendElements DEF TypeOK
  <2>2. \A i \in 1 .. Len(commands') : commands'[i].kind = "create" =>
          i + 0 \in 1 .. Len(commands) /\ commands'[i] = commands[i + 0]
    BY <1>1, <1>5, <2>1
  <2> QED
    BY <1>1, <1>2, <2>2, DeliveredKept
<1> QED
  BY <1>3, <1>4, <1>5

\* A step that leaves the registry and the wallet manager alone.
LEMMA QuietKeys ==
  ASSUME IInv, KInv, UNCHANGED <<actors, creating, reply, walletCmds, signers,
                                 delivered>>,
         \/ commands' = commands
         \/ \E kind \in {"remove", "forward", "complete"} : Take(kind)
         \/ \E c \in Command : c.kind # "create" /\ commands' = Append(commands, c)
  PROVE  KInv'
<1>1. DeliveredFirst'
  BY DeliveredQuiet DEF KInv
<1>2. KeysKept'
  BY DEF KInv, KeysKept, Needed, Registered, Redelivered
<1> QED
  BY <1>1, <1>2 DEF KInv

LEMMA DeliverKeys ==
  ASSUME IInv, KInv, NEW t \in Trade, Deliver(t)
  PROVE  KInv'
<1> DEFINE c == [kind |-> "create", trade |-> t]
<1>1. TypeOK /\ Len(commands) \in Nat /\ delivered \in [Trade -> Nat]
  BY LenProperties DEF IInv, TypeOK
<1>2. /\ commands' = Append(commands, c)
      /\ delivered' = [delivered EXCEPT ![t] = @ + 1]
      /\ UNCHANGED <<actors, creating, reply, walletCmds, signers>>
  BY DEF Deliver, routeVars, walletVars
<1>3. c \in Command /\ c.kind = "create" /\ c.trade = t
  BY DEF Command
<1> HIDE DEF c
<1>4. /\ Len(commands') = Len(commands) + 1
      /\ \A i \in 1 .. Len(commands) : commands'[i] = commands[i]
      /\ commands'[Len(commands) + 1] = c
  BY <1>1, <1>2, <1>3, AppendElements DEF TypeOK
<1>5. /\ delivered'[t] = delivered[t] + 1
      /\ \A u \in Trade : delivered[u] \in Nat /\ delivered'[u] >= delivered[u]
      /\ \A u \in Trade : u # t => delivered'[u] = delivered[u]
  BY <1>1, <1>2
<1>6. \A u \in Trade : Registered(u)' = Registered(u)
  BY <1>2 DEF Registered
<1>7. \A u \in Trade, i \in 1 .. Len(commands') : Creates(i, u)' =>
        \/ i \in 1 .. Len(commands) /\ Creates(i, u)
        \/ i = Len(commands) + 1 /\ u = t
  BY <1>1, <1>3, <1>4 DEF Creates
<1>8. DeliveredFirst'
  <2>1. ASSUME NEW u \in Trade
        PROVE  Registered(u)' => delivered'[u] > 0
    BY <1>5, <1>6 DEF KInv, DeliveredFirst
  <2>2. ASSUME NEW u \in Trade, NEW i \in 1 .. Len(commands'), Creates(i, u)'
        PROVE  delivered'[u] > 0 /\ (Registered(u)' => delivered'[u] > 1)
    BY <1>5, <1>6, <1>7, <2>2 DEF KInv, DeliveredFirst
  <2>3. ASSUME NEW u \in Trade, NEW i \in 1 .. Len(commands'), Creates(i, u)',
               NEW j \in 1 .. Len(commands'), Creates(j, u)', i # j
        PROVE  delivered'[u] > 1
    <3>1. CASE /\ i \in 1 .. Len(commands) /\ Creates(i, u)
               /\ j \in 1 .. Len(commands) /\ Creates(j, u)
      BY <1>5, <2>3, <3>1 DEF KInv, DeliveredFirst
    <3>2. CASE /\ u = t
               /\ \/ i \in 1 .. Len(commands) /\ Creates(i, u)
                  \/ j \in 1 .. Len(commands) /\ Creates(j, u)
      BY <1>5, <3>2 DEF KInv, DeliveredFirst
    <3> QED
      BY <1>7, <2>3, <3>1, <3>2
  <2> QED
    BY <2>1, <2>2, <2>3 DEF DeliveredFirst
<1>9. KeysKept'
  <2>1. \A w : Redelivered(w) => Redelivered(w)'
    <3>1. \A u \in Trade : delivered[u] > 1 => delivered'[u] > 1
      BY <1>5
    <3> QED
      BY <3>1, BuffettAssumption DEF Redelivered
  <2>2. \A w : Needed(w) => Needed(w)'
    BY <1>2 DEF Needed, Registered
  <2> QED
    BY <1>2, <2>1, <2>2 DEF KInv, KeysKept
<1> QED
  BY <1>8, <1>9 DEF KInv

-----------------------------------------------------------------------------
LEMMA CreateKeys ==
  ASSUME IInv, KInv, HandleCreate
  PROVE  KInv'
<1>1. TypeOK /\ creating = NoTrade /\ Take("create")
  BY DEF IInv, HandleCreate, Take
<1>2. PICK t \in Trade : Head(commands).trade = t
  BY <1>1, TakeKeeps DEF Take, Command
<1>3. 1 \in 1 .. Len(commands) /\ Creates(1, t)
  BY <1>1, <1>2, TakeKeeps DEF Take, Creates
<1>4. \A i \in 1 .. Len(commands') :
        i + 1 \in 1 .. Len(commands) /\ commands'[i] = commands[i + 1]
  BY <1>1, CommandsTaken
<1>5. UNCHANGED <<reply, signers, delivered>>
  BY DEF HandleCreate
<1>6. \A u \in Trade : u # t => actors'[u] = actors[u]
  BY <1>1, <1>2 DEF HandleCreate, CreateNewTrade, routeVars, TypeOK
<1>7. DeliveredFirst'
  <2>1. delivered[t] > 0 /\ (Registered(t) => delivered[t] > 1)
    BY <1>3 DEF KInv, DeliveredFirst
  <2>2. ASSUME NEW u \in Trade, NEW i \in 1 .. Len(commands'), Creates(i, u)'
        PROVE  /\ i + 1 \in 1 .. Len(commands) /\ Creates(i + 1, u)
               /\ delivered[u] > 0 /\ (Registered(u)' => delivered[u] > 1)
    <3>1. i + 1 \in 1 .. Len(commands) /\ Creates(i + 1, u)
      BY <1>4, <2>2 DEF Creates
    <3>2. CASE u = t
      <4>1. i + 1 # 1
        BY <1>1, LenProperties
      <4> QED
        BY <1>3, <3>1, <3>2, <4>1 DEF KInv, DeliveredFirst
    <3>3. CASE u # t
      BY <1>6, <3>1, <3>3 DEF KInv, DeliveredFirst, Registered
    <3> QED
      BY <3>1, <3>2, <3>3
  <2>3. ASSUME NEW u \in Trade, NEW i \in 1 .. Len(commands'), Creates(i, u)',
               NEW j \in 1 .. Len(commands'), Creates(j, u)', i # j
        PROVE  delivered[u] > 1
    <3>1. i + 1 # j + 1
      BY <2>3
    <3> QED
      BY <2>2, <2>3, <3>1 DEF KInv, DeliveredFirst
  <2>4. \A u \in Trade : Registered(u)' => delivered[u] > 0
    BY <1>6, <2>1 DEF KInv, DeliveredFirst, Registered
  <2> QED
    BY <1>5, <2>2, <2>3, <2>4 DEF DeliveredFirst
<1>8. KeysKept'
  <2>1. ASSUME NEW w \in signers PROVE Needed(w)' \/ Destroying(w)' \/ Redelivered(w)'
    <3>1. CASE Needed(w)
      <4>1. PICK u \in Trade : Registered(u) /\ WalletOf[u] = w
        BY <3>1 DEF Needed
      <4>2. CASE u = t /\ t \in OneShot
        <5>1. delivered'[t] > 1
          BY <1>3, <1>5, <4>1, <4>2 DEF KInv, DeliveredFirst
        <5> QED
          BY <4>1, <4>2, <5>1 DEF Redelivered
      <4>3. CASE u = t /\ t \notin OneShot
        <5>1. UNCHANGED <<actors, creating>>
          BY <1>2, <4>1, <4>3 DEF HandleCreate, routeVars
        <5> QED
          BY <1>1, <4>1, <5>1, BuffettAssumption DEF Needed, Registered
      <4>4. CASE u # t
        <5>1. creating' \in {NoTrade, t}
          BY <1>1, <1>2 DEF HandleCreate, CreateNewTrade
        <5> QED
          BY <1>6, <4>1, <4>4, <5>1, BuffettAssumption DEF Needed, Registered
      <4> QED
        BY <4>2, <4>3, <4>4
    <3>2. CASE Destroying(w)
      <4>1. CASE walletCmds' = walletCmds
        BY <3>2, <4>1 DEF Destroying
      <4>2. CASE walletCmds' = Append(walletCmds, [kind |-> "prepare",
                                                   wallet |-> WalletOf[t]])
        BY <1>1, <3>2, <4>2, PostedCmd, CmdTyped
      <4> QED
        BY <1>2, <4>1, <4>2 DEF HandleCreate, CreateNewTrade
    <3>3. CASE Redelivered(w)
      BY <1>5, <3>3 DEF Redelivered
    <3> QED
      BY <2>1, <3>1, <3>2, <3>3 DEF KInv, KeysKept, Destroying
  <2> QED
    BY <1>5, <2>1 DEF KeysKept, Destroying
<1> QED
  BY <1>7, <1>8 DEF KInv

\* The signer of the creation is in memory, or its trade makes way.
LEMMA AnsweredKeys ==
  ASSUME IInv, KInv, Created \/ AbortCreation
  PROVE  KInv'
<1>1. TypeOK /\ Awaited
  BY DEF IInv
<1>2. creating' = NoTrade /\ UNCHANGED <<commands, walletCmds, signers, delivered>>
  BY DEF Created, AbortCreation
<1>3. \A t \in Trade : \/ actors'[t] = actors[t]
                       \/ actors'[t] = 0 /\ t = creating /\ reply = "failed"
  BY <1>1 DEF Created, AbortCreation, routeVars, TypeOK
<1>4. DeliveredFirst'
  <2>1. Len(commands) \in Nat
    BY <1>1, LenProperties DEF TypeOK
  <2>2. \A i \in 1 .. Len(commands') :
          i + 0 \in 1 .. Len(commands) /\ commands'[i] = commands[i + 0]
    BY <1>2, <2>1
  <2>3. \A t \in Trade : Registered(t)' => Registered(t)
    BY <1>3 DEF Registered
  <2> QED
    BY <1>1, <1>2, <2>2, <2>3, DeliveredKept DEF KInv
<1>5. \A w : Needed(w) => Needed(w)'
  BY <1>2, <1>3, BuffettAssumption DEF Needed, Registered
<1>6. KeysKept'
  BY <1>2, <1>5 DEF KInv, KeysKept, Redelivered
<1> QED
  BY <1>4, <1>6 DEF KInv

LEMMA CompleteKeys ==
  ASSUME IInv, KInv, HandleComplete
  PROVE  KInv'
<1>1. TypeOK /\ creating = NoTrade /\ Take("complete")
  BY DEF IInv, HandleComplete, Take
<1>2. PICK t \in Trade : Head(commands).trade = t
  BY <1>1, TakeKeeps DEF Take, Command
<1>3. UNCHANGED <<creating, reply, signers, delivered>>
  BY DEF HandleComplete
<1>4. CASE UNCHANGED <<routeVars, walletVars>>
  BY <1>1, <1>3, <1>4, QuietKeys DEF routeVars, walletVars
<1>5. CASE /\ actors' = [actors EXCEPT ![t] = 0]
           /\ walletCmds' = IF SignerInUse(actors', WalletOf[t])
                            THEN walletCmds
                            ELSE Append(walletCmds, [kind |-> "destroy",
                                                     wallet |-> WalletOf[t]])
  <2>1. \A u \in Trade : u # t => actors'[u] = actors[u]
    BY <1>1, <1>5 DEF TypeOK
  <2>2. actors'[t] = 0
    BY <1>1, <1>5 DEF TypeOK
  <2>3. DeliveredFirst'
    <3>1. \A u \in Trade : Registered(u)' => Registered(u)
      BY <2>1, <2>2 DEF Registered
    <3> QED
      BY <1>1, <1>3, <3>1, CommandsTaken, DeliveredKept DEF KInv
  <2>4. \A w : SignerInUse(actors', w) => Needed(w)'
    BY <1>1, <1>3, BuffettAssumption DEF SignerInUse, Needed, Registered
  <2>5. ~SignerInUse(actors', WalletOf[t]) => Destroying(WalletOf[t])'
    BY <1>1, <1>5, PostedCmd, CmdTyped
  <2>6. \A w : Destroying(w) => Destroying(w)'
    <3>1. CASE walletCmds' = walletCmds
      BY <3>1 DEF Destroying
    <3>2. CASE walletCmds' = Append(walletCmds, [kind |-> "destroy",
                                                 wallet |-> WalletOf[t]])
      BY <1>1, <3>2, PostedCmd, CmdTyped
    <3> QED
      BY <1>5, <3>1, <3>2
  <2>7. \A w : Needed(w) => Needed(w)' \/ Destroying(w)'
    BY <2>1, <2>4, <2>5 DEF Needed, SignerInUse, Registered
  <2>8. KeysKept'
    BY <1>3, <2>6, <2>7 DEF KInv, KeysKept, Destroying, Redelivered
  <2> QED
    BY <2>3, <2>8 DEF KInv
<1> QED
  BY <1>2, <1>4, <1>5 DEF HandleComplete, walletVars

\* The first of the wallet manager's commands is taken.
LEMMA WalletKeys ==
  ASSUME IInv, KInv, WalletStep
  PROVE  KInv'
<1>1. TypeOK /\ Awaited
  BY DEF IInv
<1>2. /\ walletCmds # << >> /\ walletCmds' = Tail(walletCmds)
      /\ UNCHANGED <<actors, creating, commands, delivered>>
  BY DEF WalletStep, Prepare, Destroy, routeVars
<1>3. DeliveredFirst'
  BY <1>2, DeliveredQuiet DEF KInv
<1>4. /\ Len(walletCmds) \in Nat /\ 1 \in 1 .. Len(walletCmds)
      /\ Head(walletCmds) = walletCmds[1] /\ walletCmds[1] \in WalletCmd
      /\ Len(walletCmds') = Len(walletCmds) - 1
      /\ \A i \in 1 .. Len(walletCmds') : walletCmds'[i] = walletCmds[i + 1]
  BY <1>1, <1>2, TailElements, EmptySeq, LenProperties, ElementOfSeq DEF TypeOK
<1>5. \A w : Redelivered(w) => Redelivered(w)'
  BY <1>2 DEF Redelivered
<1>6. CASE Prepare
  <2>1. walletCmds[1].kind = "prepare"
    BY <1>4, <1>6 DEF Prepare
  <2>2. /\ creating # NoTrade /\ Len(walletCmds) = 1
        /\ walletCmds[1].wallet = WalletOf[creating]
    BY <1>1, <1>4, <2>1 DEF Awaited
  <2>3. creating \in Trade /\ Registered(creating)
    BY <1>1, <2>2 DEF Awaited, TypeOK
  <2>4. reply = "none"
    BY <1>1, <1>2 DEF Awaited, TypeOK
  <2>5. \A w : ~Destroying(w)
    BY <2>1, <2>2 DEF Destroying
  <2>6. \A w : Needed(w) => Needed(w)'
    BY <1>2, <2>4 DEF Needed, Registered
  <2>7. \A w \in signers : Needed(w)' \/ Redelivered(w)'
    <3>1. \A w \in signers : Needed(w) \/ Destroying(w) \/ Redelivered(w)
      BY DEF KInv, KeysKept, Destroying
    <3> QED
      BY <1>5, <2>5, <2>6, <3>1
  <2>8. \A w : w = WalletOf[creating] => Needed(w)' \/ signers' = signers
    <3>1. signers' = signers \/ reply' = "ok"
      BY <1>6 DEF Prepare
    <3> QED
      BY <1>2, <2>3, <3>1 DEF Needed, Registered
  <2>9. signers' \subseteq signers \cup {WalletOf[creating]}
    BY <1>4, <1>6, <2>2 DEF Prepare
  <2>10. \A w \in signers' : Needed(w)' \/ Redelivered(w)'
    BY <2>7, <2>8, <2>9
  <2>11. KeysKept'
    BY <2>10 DEF KeysKept
  <2> QED
    BY <1>3, <2>11 DEF KInv
<1>7. CASE Destroy
  <2>1. /\ signers' = signers \ {walletCmds[1].wallet} /\ reply' = reply
    BY <1>4, <1>7 DEF Destroy
  <2>2. ASSUME NEW w \in signers', Destroying(w)
        PROVE  Destroying(w)'
    <3>1. PICK i \in 1 .. Len(walletCmds) :
            walletCmds[i] = [kind |-> "destroy", wallet |-> w]
      BY <2>2 DEF Destroying
    <3>2. i # 1
      BY <2>1, <3>1
    <3>3. i - 1 \in 1 .. Len(walletCmds') /\ (i - 1) + 1 = i
      BY <1>4, <3>1, <3>2
    <3>4. walletCmds'[i - 1] = walletCmds[i]
      BY <1>4, <3>3
    <3> QED
      BY <3>1, <3>3, <3>4 DEF Destroying
  <2>3. \A w : Needed(w) => Needed(w)'
    BY <1>2, <2>1 DEF Needed, Registered
  <2>4. KeysKept'
    BY <1>5, <2>1, <2>2, <2>3 DEF KInv, KeysKept, Destroying
  <2> QED
    BY <1>3, <2>4 DEF KInv
<1> QED
  BY <1>6, <1>7 DEF WalletStep

LEMMA KeysStep ==
  ASSUME IInv, KInv, [Next]_vars
  PROVE  KInv'
<1>1. TypeOK
  BY DEF IInv
<1>2. CASE HandleRemove \/ HandleForward
  <2>1. \E kind \in {"remove", "forward", "complete"} : Take(kind)
    BY <1>2 DEF HandleRemove, HandleForward
  <2> QED
    BY <1>2, <2>1, QuietKeys DEF HandleRemove, HandleForward, routeVars, walletVars
<1>3. CASE \E t \in Trade : DeliverRemoval(t)
  <2>1. \E c \in Command : c.kind # "create" /\ commands' = Append(commands, c)
    BY <1>3 DEF DeliverRemoval, Command
  <2> QED
    BY <1>3, <2>1, QuietKeys DEF DeliverRemoval, routeVars, walletVars
<1>4. CASE \/ RouteResult \/ \E tx \in Transaction : RouteLogs(tx)
           \/ \E o \in orders : TaskStep(o)
           \/ UNCHANGED vars
  BY <1>4, QuietKeys DEF RouteResult, RouteLogs, TaskStep, PlanFails, Sign,
     Unsigned, Submit, vars, routeVars, walletVars
<1>5. ASSUME NEW a \in 1 .. Len(tasks), ActorStep(a)
      PROVE  KInv'
  <2>1. \/ commands' = commands
        \/ \E c \in Command : c.kind # "create" /\ commands' = Append(commands, c)
    <3>1. issued \in Nat /\ Len(tasks) \in Nat /\ tasks[a].trade \in Trade
      BY <1>1, TaskFields, LenProperties DEF TypeOK
    <3>2. /\ [kind |-> "forward", n |-> issued + 1, actor |-> a] \in Command
          /\ [kind |-> "complete", trade |-> tasks[a].trade] \in Command
      BY <3>1 DEF Command
    <3> QED
      BY <1>5, <3>2 DEF ActorStep, Start, Handle, Complete, ShutDown, Issue
  <2>2. UNCHANGED <<actors, creating, reply, walletCmds, signers, delivered>>
    BY <1>5 DEF ActorStep, Start, Handle, Complete, ShutDown, routeVars, walletVars
  <2> QED
    BY <2>1, <2>2, QuietKeys
<1> QED
  BY <1>2, <1>3, <1>4, <1>5, CreateKeys, CompleteKeys, AnsweredKeys, WalletKeys,
     DeliverKeys DEF Next, BuffettStep

\* handle_trade_complete destroys a wallet's signer with its last trade
\* (handlers.rs:156), and the wallet manager puts no other in memory than that
\* of a creation under way: a key outlives the trades of its wallet only in the
\* one case that KeysAccounted names.
THEOREM KeysCounted == Spec => []KeysAccounted
<1>1. Init => KInv
  BY DEF Init, KInv, DeliveredFirst, KeysKept, Registered
<1>2. IInv /\ KInv /\ [Next]_vars => KInv'
  BY KeysStep
<1>3. KInv => KeysAccounted
  BY DEF KInv, KeysKept, Needed, KeysAccounted, SignerInUse, Registered
<1> QED
  BY <1>1, <1>2, <1>3, Invariant, PTL DEF Spec
=============================================================================
