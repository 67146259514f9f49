--------------------------- MODULE ShylockProofs ----------------------------
(***************************************************************************)
(* Theorems of module Shylock, for any actors, tokens and number of        *)
(* attempts: the reference counts are exact, the cache follows them, and   *)
(* together they implement Leases.                                         *)
(***************************************************************************)
EXTENDS Shylock, FiniteSetTheorems, SequenceTheorems, TLAPS

Waiting == {commands[i] : i \in 1 .. Len(commands)}

\* An actor has one command in the queue at most ...
Distinct == \A i, j \in 1 .. Len(commands) :
              commands[i].client = commands[j].client => i = j

\* ... which is the one it is waiting for, or its last.
Awaits(kind, c) ==
    /\ kind = "register" => phase[c] = "registering" /\ answer[c] = "none"
    /\ kind \in {"cached", "live"} => /\ phase[c] = "preparing"
                                      /\ answer[c] = "none"
    /\ kind = "transaction" => phase[c] = "asking" /\ answer[c] = "none"
    /\ kind = "deregister" => phase[c] = "gone"

Fits(x) == Awaits(x.kind, x.client)

ClientOK(c) == /\ answer[c] # "none"
                    => phase[c] \in {"registering", "preparing", "asking"}
               /\ phase[c] = "preparing" => answer[c] # "err"

Orderly == /\ Distinct
           /\ \A x \in Waiting : Fits(x)
           /\ \A c \in Client : ClientOK(c)

IInv == /\ TypeOK
        /\ Orderly
        /\ CountsExact
        /\ CacheFollowsCounts
        /\ OneContext

-----------------------------------------------------------------------------
(* The queue.                                                              *)

LEMMA Appending ==
  ASSUME commands \in Seq(Command), NEW e \in Command, Distinct,
         \A x \in Waiting : x.client # e.client,
         commands' = Append(commands, e)
  PROVE  /\ commands' \in Seq(Command)
         /\ Waiting' = Waiting \cup {e}
         /\ Distinct'
<1>1. /\ commands' \in Seq(Command) /\ Len(commands) \in Nat
      /\ Len(commands') = Len(commands) + 1
      /\ \A i \in 1 .. Len(commands) : commands'[i] = commands[i]
      /\ commands'[Len(commands) + 1] = e
  BY AppendProperties, LenProperties
<1>2. Waiting' = Waiting \cup {e}
  BY <1>1 DEF Waiting
<1>3. Distinct'
  <2> SUFFICES ASSUME NEW i \in 1 .. Len(commands'),
                      NEW j \in 1 .. Len(commands'),
                      commands'[i].client = commands'[j].client
               PROVE  i = j
    BY DEF Distinct
  <2>1. CASE i \in 1 .. Len(commands) /\ j \in 1 .. Len(commands)
    BY <1>1, <2>1 DEF Distinct
  <2>2. CASE i = Len(commands) + 1 \/ j = Len(commands) + 1
    BY <1>1, <2>2 DEF Waiting
  <2> QED
    BY <1>1, <2>1, <2>2
<1> QED
  BY <1>1, <1>2, <1>3

LEMMA Taking ==
  ASSUME commands \in Seq(Command), commands # <<>>, Distinct,
         commands' = Tail(commands)
  PROVE  /\ commands' \in Seq(Command)
         /\ Head(commands) \in Command
         /\ Waiting = Waiting' \cup {Head(commands)}
         /\ \A x \in Waiting' : x.client # Head(commands).client
         /\ Distinct'
<1>1. /\ commands' \in Seq(Command) /\ Len(commands) \in Nat \ {0}
      /\ Len(commands') = Len(commands) - 1
      /\ \A i \in 1 .. Len(commands') : commands'[i] = commands[i + 1]
      /\ Head(commands) = commands[1]
  BY HeadTailProperties, LenProperties, EmptySeq
<1>2. Head(commands) \in Command
  BY <1>1, ElementOfSeq
<1>3. Waiting = Waiting' \cup {Head(commands)}
  <2>1. ASSUME NEW x \in Waiting
        PROVE  x \in Waiting' \cup {Head(commands)}
    <3>1. PICK i \in 1 .. Len(commands) : x = commands[i]
      BY DEF Waiting
    <3>2. CASE i = 1
      BY <1>1, <3>1, <3>2
    <3>3. CASE i # 1
      <4>1. i - 1 \in 1 .. Len(commands') /\ (i - 1) + 1 = i
        BY <1>1, <3>1, <3>3
      <4>2. commands'[i - 1] = x
        BY <1>1, <3>1, <4>1
      <4> QED
        BY <4>1, <4>2 DEF Waiting
    <3> QED
      BY <3>2, <3>3
  <2>2. ASSUME NEW x \in Waiting' \cup {Head(commands)}
        PROVE  x \in Waiting
    BY <1>1 DEF Waiting
  <2> QED
    BY <2>1, <2>2
<1>4. \A x \in Waiting' : x.client # Head(commands).client
  BY <1>1 DEF Waiting, Distinct
<1>5. Distinct'
  BY <1>1 DEF Distinct
<1> QED
  BY <1>1, <1>2, <1>3, <1>4, <1>5

\* A step that concerns one actor.
LEMMA OrderlyKept ==
  ASSUME Orderly, NEW c \in Client, Distinct', ClientOK(c)',
         \A d \in Client \ {c} : phase'[d] = phase[d] /\ answer'[d] = answer[d],
         \A x \in Waiting' : \/ x \in Waiting /\ x.client \in Client \ {c}
                             \/ Fits(x)'
  PROVE  Orderly'
<1>1. \A d \in Client : ClientOK(d)'
  BY DEF Orderly, ClientOK
<1>2. ASSUME NEW x \in Waiting'
      PROVE  Fits(x)'
  BY <1>2 DEF Orderly, Fits, Awaits
<1> QED
  BY <1>1, <1>2 DEF Orderly

LEMMA WaitingTyped ==
  ASSUME TypeOK, NEW x \in Waiting
  PROVE  x \in Command /\ x.client \in Client
<1>1. PICK i \in 1 .. Len(commands) : x = commands[i]
  BY DEF Waiting
<1>2. x \in Command
  BY <1>1, ElementOfSeq DEF TypeOK
<1> QED
  BY <1>2 DEF Command

\* An actor that asks for something was not waiting.
LEMMA Asking ==
  ASSUME IInv, NEW c \in Client,
         NEW kind \in {"register", "deregister", "cached", "live", "transaction"},
         context' \in [Client -> Protocol], Ask(c, kind),
         \A d \in Client \ {c} : phase'[d] = phase[d] /\ answer'[d] = answer[d],
         \/ phase[c] \in {"idle", "running"}
         \/ phase[c] = "registering" /\ answer[c] # "none",
         Awaits(kind, c)',
         ClientOK(c)'
  PROVE  /\ commands' \in Seq(Command)
         /\ Waiting' = Waiting
              \cup {[kind |-> kind, client |-> c, context |-> context'[c]]}
         /\ \A x \in Waiting : x.client # c
         /\ Orderly'
<1> DEFINE e == [kind |-> kind, client |-> c, context |-> context'[c]]
<1>1. \A x \in Waiting : x.client # c
  BY WaitingTyped DEF IInv, Orderly, Fits, Awaits, Command
<1>2. e \in Command /\ e.client = c
  BY DEF Command
<1>3. /\ commands' \in Seq(Command)
      /\ Waiting' = Waiting \cup {e}
      /\ Distinct'
  BY <1>1, <1>2, Appending DEF IInv, TypeOK, Orderly, Ask
<1>4. \A x \in Waiting' : \/ x \in Waiting /\ x.client \in Client \ {c}
                          \/ Fits(x)'
  <2>1. \A x \in Waiting : x.client \in Client \ {c}
    BY <1>1, WaitingTyped DEF IInv
  <2>2. e.kind = kind /\ e.client = c
    OBVIOUS
  <2>3. \A x \in {e} : Fits(x)'
    BY <2>2 DEF Fits, Awaits
  <2> HIDE DEF e
  <2> QED
    BY <1>3, <2>1, <2>3
<1>5. Orderly'
  BY <1>3, <1>4, OrderlyKept DEF IInv
<1> QED
  BY <1>1, <1>3, <1>5

\* One that reads its answer has nothing waiting, nor has it afterwards.
LEMMA Reading ==
  ASSUME IInv, NEW c \in Client, commands' = commands,
         \A d \in Client \ {c} : phase'[d] = phase[d] /\ answer'[d] = answer[d],
         \/ phase[c] = "running"
         \/ answer[c] # "none",
         ClientOK(c)'
  PROVE  Orderly' /\ Waiting' = Waiting /\ \A x \in Waiting : x.client # c
<1>1. Waiting' = Waiting /\ Distinct'
  BY DEF IInv, Orderly, Waiting, Distinct
<1>2. \A x \in Waiting : x.client # c
  BY WaitingTyped DEF IInv, Orderly, Fits, Awaits, Command, ClientOK
<1>3. Orderly'
  BY <1>1, <1>2, WaitingTyped, OrderlyKept DEF IInv
<1> QED
  BY <1>1, <1>2, <1>3

LEMMA AskerTyped ==
  ASSUME IInv, commands # <<>>
  PROVE  /\ Head(commands) \in Command
         /\ Asker \in Client /\ Token \in Mint
         /\ Fits(Head(commands))
<1>1. Head(commands) \in Command /\ Head(commands) \in Waiting
  <2>1. Head(commands) = commands[1] /\ 1 \in 1 .. Len(commands)
    BY HeadTailProperties, LenProperties, EmptySeq DEF IInv, TypeOK
  <2> QED
    BY <2>1, ElementOfSeq DEF IInv, TypeOK, Waiting
<1>2. Asker \in Client
  BY <1>1 DEF Asker, Command
<1> QED
  BY <1>1, <1>2, ShylockAssumption DEF Token, IInv, Orderly

\* The loop answers the actor whose command it takes.
LEMMA Answering ==
  ASSUME IInv, commands # <<>>, commands' = Tail(commands), phase' = phase,
         NEW c \in Client, c = Asker,
         \A d \in Client \ {c} : answer'[d] = answer[d],
         ClientOK(c)'
  PROVE  /\ commands' \in Seq(Command)
         /\ Waiting = Waiting' \cup {Head(commands)}
         /\ \A x \in Waiting' : x.client # c
         /\ Orderly'
<1>1. /\ commands' \in Seq(Command)
      /\ Waiting = Waiting' \cup {Head(commands)}
      /\ \A x \in Waiting' : x.client # c
      /\ Distinct'
  BY Taking DEF IInv, TypeOK, Orderly, Asker
<1>2. \A x \in Waiting' : x \in Waiting /\ x.client \in Client \ {c}
  <2>1. \A x \in Waiting : x.client \in Client
    BY WaitingTyped DEF IInv
  <2> QED
    BY <1>1, <2>1
<1>3. Orderly'
  BY <1>1, <1>2, OrderlyKept DEF IInv
<1> QED
  BY <1>1, <1>3

-----------------------------------------------------------------------------
(* The holders.                                                            *)

Gives(c) == c \notin Holders /\ Holders' = Holders \cup {c}
            /\ count' = [count EXCEPT ![MintOf[c]] = @ + 1]

Takes(c) == c \in Holders /\ Holders' = Holders \ {c}
            /\ count' = [count EXCEPT ![MintOf[c]] = @ - 1]

Counted == \/ Holders' = Holders /\ count' = count
           \/ \E c \in Client : Gives(c) \/ Takes(c)

HeldBy(m) == {c \in Holders : MintOf[c] = m}

LEMMA HoldersFinite ==
  /\ Holders \subseteq Client
  /\ \A m \in Mint : /\ IsFiniteSet(HeldBy(m))
                     /\ Cardinality(HeldBy(m)) \in Nat
<1>1. Holders \subseteq Client
  BY DEF Holders
<1>2. ASSUME NEW m \in Mint
      PROVE  IsFiniteSet(HeldBy(m)) /\ Cardinality(HeldBy(m)) \in Nat
  <2>1. HeldBy(m) \in SUBSET Client
    BY <1>1 DEF HeldBy
  <2> QED
    BY <2>1, FS_Subset, FS_CardinalityType, ShylockAssumption
<1> QED
  BY <1>1, <1>2

LEMMA QueuedWaiting ==
  ASSUME NEW c, NEW kind
  PROVE  /\ Queued(c, kind)
              <=> \E x \in Waiting : x.client = c /\ x.kind = kind
         /\ Queued(c, kind)'
              <=> \E x \in Waiting' : x.client = c /\ x.kind = kind
BY DEF Queued, Waiting

LEMMA CountIs ==
  ASSUME IInv, NEW m \in Mint
  PROVE  /\ count[m] = Cardinality(HeldBy(m))
         /\ count[m] \in Nat
         /\ count[m] > 0 <=> HeldBy(m) # {}
<1>1. count[m] = Cardinality(HeldBy(m))
  BY DEF IInv, CountsExact, HeldBy
<1>2. IsFiniteSet(HeldBy(m)) /\ Cardinality(HeldBy(m)) \in Nat
  BY HoldersFinite
<1>3. Cardinality(HeldBy(m)) = 0 <=> HeldBy(m) = {}
  BY <1>2, FS_EmptySet
<1> QED
  BY <1>1, <1>2, <1>3

\* Exact counts stay exact.
LEMMA CountsKept ==
  ASSUME IInv, Counted, count \in [Mint -> Nat]
  PROVE  CountsExact' /\ count' \in [Mint -> Nat]
<1> DEFINE Size(m) == Cardinality(HeldBy(m))
<1>0. \A m \in Mint : count[m] = Size(m)
  BY DEF IInv, CountsExact, HeldBy
<1>1. CASE Holders' = Holders /\ count' = count
  BY <1>1 DEF IInv, CountsExact
<1>2. ASSUME NEW c \in Client, Gives(c) \/ Takes(c)
      PROVE  CountsExact' /\ count' \in [Mint -> Nat]
  <2> DEFINE t == MintOf[c]
  <2>0. t \in Mint
    BY ShylockAssumption
  <2>1. ASSUME NEW m \in Mint, m # t
        PROVE  HeldBy(m)' = HeldBy(m) /\ count'[m] = count[m]
    BY <1>2, <2>1 DEF Gives, Takes, HeldBy
  <2>2. /\ count'[t] = Cardinality(HeldBy(t)')
        /\ count'[t] \in Nat
    <3>1. IsFiniteSet(HeldBy(t)) /\ Size(t) \in Nat
      BY <2>0, HoldersFinite
    <3>2. CASE Gives(c)
      <4>1. c \notin HeldBy(t) /\ HeldBy(t)' = HeldBy(t) \cup {c}
            /\ count'[t] = count[t] + 1
        BY <2>0, <3>2 DEF Gives, HeldBy
      <4> QED
        BY SMTT(20), <1>0, <2>0, <3>1, <4>1, FS_AddElement
    <3>3. CASE Takes(c)
      <4>1. c \in HeldBy(t) /\ HeldBy(t)' = HeldBy(t) \ {c}
            /\ count'[t] = count[t] - 1
        BY <2>0, <3>3 DEF Takes, HeldBy
      <4>2. Cardinality(HeldBy(t) \ {c}) = Size(t) - 1
            /\ IsFiniteSet(HeldBy(t) \ {c})
        BY <3>1, <4>1, FS_RemoveElement
      <4>3. Cardinality(HeldBy(t) \ {c}) \in Nat
        BY <4>2, FS_CardinalityType
      <4> QED
        BY <1>0, <2>0, <4>1, <4>2, <4>3
    <3> QED
      BY <1>2, <3>2, <3>3
  <2>3. count' \in [Mint -> Nat]
    <3>1. \A m \in Mint : count'[m] \in Nat
      BY <2>1, <2>2
    <3>2. count' = [m \in Mint |-> count'[m]]
      BY <1>2 DEF Gives, Takes
    <3> QED
      BY <3>1, <3>2
  <2>4. \A m \in Mint : count'[m] = Cardinality(HeldBy(m)')
    BY <1>0, <2>1, <2>2
  <2> QED
    BY <2>3, <2>4 DEF CountsExact, HeldBy
<1> QED
  BY <1>1, <1>2 DEF Counted

Holding(c) == \/ phase[c] = "registering" /\ answer[c] = "ok"
              \/ phase[c] \in {"preparing", "running", "asking"}
              \/ phase[c] = "gone" /\ Queued(c, "deregister")

\* A step that concerns one actor makes it a holder or not.
LEMMA OneHolder ==
  ASSUME NEW c \in Client,
         \A d \in Client \ {c} : /\ phase'[d] = phase[d]
                                 /\ answer'[d] = answer[d],
         \A x \in Waiting \cup Waiting' :
           x.client # c => (x \in Waiting <=> x \in Waiting')
  PROVE  /\ (Holding(c)' <=> Holding(c)) => Holders' = Holders
         /\ Holding(c)' /\ ~Holding(c)
              => c \notin Holders /\ Holders' = Holders \cup {c}
         /\ ~Holding(c)' /\ Holding(c)
              => c \in Holders /\ Holders' = Holders \ {c}
<1>1. Holders = {d \in Client : Holding(d)}
  BY DEF Holders, Holding
<1>2. Holders' = {d \in Client : Holding(d)'}
  BY DEF Holders, Holding
<1>3. ASSUME NEW d \in Client \ {c}
      PROVE  Holding(d)' <=> Holding(d)
  <2>1. Queued(d, "deregister")' <=> Queued(d, "deregister")
    BY QueuedWaiting
  <2> QED
    BY <2>1 DEF Holding
<1> QED
  BY <1>1, <1>2, <1>3

\* Steps that leave Shylock's own state alone.
LEMMA ClientKeeps ==
  ASSUME IInv, TypeOK', Orderly', Holders' = Holders, UNCHANGED shylockVars
  PROVE  IInv' /\ Counted
<1>1. Counted
  BY DEF Counted, shylockVars
<1>2. CountsExact'
  BY <1>1, CountsKept DEF IInv, TypeOK
<1>3. CacheFollowsCounts' /\ OneContext'
  BY DEF IInv, CacheFollowsCounts, OneContext, shylockVars
<1> QED
  BY <1>1, <1>2, <1>3 DEF IInv

\* An actor asks, and holds its token or not as before.
LEMMA AskKeeps ==
  ASSUME IInv, NEW c \in Client,
         NEW kind \in {"register", "deregister", "cached", "live", "transaction"},
         Ask(c, kind), UNCHANGED shylockVars,
         NEW to \in Phase, phase' = [phase EXCEPT ![c] = to],
         context' \in [Client -> Protocol],
         chain' = chain, polling' = polling,
         answer' = [answer EXCEPT ![c] = "none"],
         \/ phase[c] = "idle" /\ to = "registering" /\ kind = "register"
         \/ /\ phase[c] = "registering" /\ answer[c] = "ok"
            /\ to = "preparing" /\ kind \in {"cached", "live"}
         \/ phase[c] = "running" /\ to = "asking" /\ kind = "transaction"
         \/ phase[c] = "running" /\ to = "gone" /\ kind = "deregister"
  PROVE  IInv' /\ Counted
<1> DEFINE e == [kind |-> kind, client |-> c, context |-> context'[c]]
<1>0. TypeOK
  BY DEF IInv
<1>1. /\ phase'[c] = to /\ answer'[c] = "none"
      /\ \A d \in Client \ {c} : phase'[d] = phase[d] /\ answer'[d] = answer[d]
  BY <1>0 DEF TypeOK
<1>2. ClientOK(c)' /\ Awaits(kind, c)'
  BY <1>1 DEF ClientOK, Awaits
<1>3. /\ commands' \in Seq(Command)
      /\ Waiting' = Waiting \cup {e}
      /\ \A x \in Waiting : x.client # c
      /\ Orderly'
  BY <1>1, <1>2, Asking
<1>4. TypeOK'
  BY <1>0, <1>3 DEF TypeOK, Answer, shylockVars
<1>5. e.client = c /\ e.kind = kind
  OBVIOUS
<1>6. Queued(c, "deregister")' <=> kind = "deregister"
  <2>1. Queued(c, "deregister")'
          <=> \E x \in Waiting' : x.client = c /\ x.kind = "deregister"
    BY QueuedWaiting
  <2>2. \A x \in Waiting' : x.client = c => x = e
    BY <1>3
  <2>3. e \in Waiting'
    BY <1>3
  <2> HIDE DEF e
  <2> QED
    BY <1>5, <2>1, <2>2, <2>3
<1>7. Holding(c)' <=> Holding(c)
  BY <1>1, <1>6 DEF Holding
<1>8. Holders' = Holders
  BY <1>1, <1>3, <1>5, <1>7, OneHolder
<1> QED
  BY <1>3, <1>4, <1>8, ClientKeeps

\* An actor reads its answer, or sees the migration.
LEMMA ReadKeeps ==
  ASSUME IInv, NEW c \in Client, NEW to \in Phase,
         UNCHANGED <<chain, commands, shylockVars, polling>>,
         phase' = [phase EXCEPT ![c] = to],
         answer' = [answer EXCEPT ![c] = "none"],
         context' \in [Client -> Protocol],
         \/ /\ phase[c] = "registering" /\ answer[c] = "err"
            /\ to = "failed"
         \/ phase[c] \in {"preparing", "asking"} /\ answer[c] # "none" /\ to = "running"
         \/ phase[c] = "running" /\ to = "running"
  PROVE  IInv' /\ Counted
<1>0. TypeOK
  BY DEF IInv
<1>1. /\ phase'[c] = to /\ answer'[c] = "none"
      /\ \A d \in Client \ {c} : phase'[d] = phase[d] /\ answer'[d] = answer[d]
  BY <1>0 DEF TypeOK
<1>2. ClientOK(c)'
  BY <1>1 DEF ClientOK
<1>3. Orderly' /\ Waiting' = Waiting
  BY <1>1, <1>2, Reading
<1>4. TypeOK'
  BY <1>0 DEF TypeOK, Answer, shylockVars
<1>5. Holding(c)' <=> Holding(c)
  BY <1>1 DEF Holding
<1>6. Holders' = Holders
  BY <1>1, <1>3, <1>5, OneHolder
<1> QED
  BY <1>3, <1>4, <1>6, ClientKeeps DEF shylockVars

\* A step that changes neither the actors nor the queue.
LEMMA SameClients ==
  ASSUME IInv, UNCHANGED <<phase, answer, commands>>
  PROVE  Orderly' /\ Holders' = Holders
<1>1. Orderly'
  BY DEF IInv, Orderly, Distinct, Waiting, Fits, Awaits, ClientOK
<1>2. Holders' = Holders
  BY DEF Holders, Queued
<1> QED
  BY <1>1, <1>2

\* The loop answers a, and its actor then holds its token, gives it back, or
\* holds it as before.
LEMMA ReplyKeeps ==
  ASSUME IInv, commands # <<>>, NEW c \in Client, c = Asker,
         NEW a \in Answer, Reply(a), UNCHANGED <<chain, clientVars>>,
         Head(commands).kind # "deregister",
         a # "none",
         phase[c] = "preparing" => a # "err"
  PROVE  /\ commands' \in Seq(Command) /\ answer' \in [Client -> Answer]
         /\ Orderly'
         /\ IF Head(commands).kind = "register" /\ a = "ok"
            THEN c \notin Holders /\ Holders' = Holders \cup {c}
            ELSE Holders' = Holders
<1> DEFINE kind == Head(commands).kind
<1>0. TypeOK /\ Head(commands) \in Command /\ Fits(Head(commands))
  BY AskerTyped DEF IInv
<1>1. /\ commands' = Tail(commands) /\ phase' = phase
      /\ answer'[c] = a
      /\ \A d \in Client \ {c} : answer'[d] = answer[d]
      /\ answer' \in [Client -> Answer]
  BY <1>0 DEF Reply, TypeOK, clientVars
<1>2. /\ kind = "register" => phase[c] = "registering" /\ answer[c] = "none"
      /\ kind \in {"cached", "live"} => phase[c] = "preparing"
      /\ kind = "transaction" => phase[c] = "asking"
      /\ kind \in {"register", "cached", "live", "transaction"}
  BY <1>0 DEF Fits, Awaits, Asker, Command
<1>3. ClientOK(c)'
  BY <1>1, <1>2 DEF ClientOK
<1>4. /\ commands' \in Seq(Command)
      /\ Waiting = Waiting' \cup {Head(commands)}
      /\ \A x \in Waiting' : x.client # c
      /\ Orderly'
  BY <1>1, <1>3, Answering
<1>5. /\ Holding(c) <=> kind # "register"
      /\ Holding(c)' <=> kind # "register" \/ a = "ok"
  BY <1>1, <1>2 DEF Holding
<1>6. \A x \in Waiting \cup Waiting' :
        x.client # c => (x \in Waiting <=> x \in Waiting')
  BY <1>4 DEF Asker
<1> HIDE DEF kind
<1>7. IF kind = "register" /\ a = "ok"
      THEN c \notin Holders /\ Holders' = Holders \cup {c}
      ELSE Holders' = Holders
  BY <1>1, <1>5, <1>6, OneHolder
<1> QED
  BY <1>1, <1>4, <1>7 DEF kind

-----------------------------------------------------------------------------
(* The steps.                                                              *)

LEMMA InitIInv == Init => IInv
<1> SUFFICES ASSUME Init PROVE IInv
  OBVIOUS
<1>1. TypeOK
  BY ShylockAssumption
     DEF Init, TypeOK, Protocol, Phase, Answer, Data, NoData
<1>2. Len(commands) = 0 /\ Waiting = {}
  BY DEF Init, Waiting
<1>3. Orderly
  BY <1>2 DEF Init, Orderly, Distinct, ClientOK
<1>4. Holders = {}
  BY DEF Init, Holders
<1>5. CountsExact
  <2>1. \A m \in Mint : {c \in Holders : MintOf[c] = m} = {}
    BY <1>4
  <2> QED
    BY <2>1, FS_EmptySet DEF Init, CountsExact
<1> QED
  BY <1>1, <1>3, <1>5 DEF Init, IInv, CacheFollowsCounts, OneContext, NoData

LEMMA ClientSteps ==
  ASSUME IInv, NEW c \in Client,
         \/ Register(c) \/ Registered(c) \/ NotRegistered(c) \/ Prepared(c)
         \/ SeeMigration(c) \/ AskTransaction(c) \/ ReadTransaction(c)
         \/ CleanUp(c)
  PROVE  IInv' /\ Counted
<1>0. TypeOK /\ ClientOK(c) /\ chain[MintOf[c]] \in Protocol
  BY ShylockAssumption DEF IInv, Orderly, TypeOK
<1>1. CASE Register(c)
  <2>1. answer' = [answer EXCEPT ![c] = "none"]
    BY <1>0, <1>1 DEF Register, TypeOK, ClientOK
  <2> QED
    BY <1>0, <1>1, <2>1, AskKeeps DEF Register, TypeOK, Phase
<1>2. CASE Registered(c)
  <2>1. (IF c \in OneShot THEN "live" ELSE "cached") \in {"cached", "live"}
    OBVIOUS
  <2> QED
    BY <1>0, <1>2, <2>1, AskKeeps DEF Registered, Read, TypeOK, Phase
<1>3. CASE NotRegistered(c)
  BY <1>0, <1>3, ReadKeeps DEF NotRegistered, Read, TypeOK, Phase
<1>4. CASE Prepared(c)
  BY <1>0, <1>4, ReadKeeps DEF Prepared, Read, TypeOK, Phase
<1>5. CASE SeeMigration(c)
  <2>1. /\ answer' = [answer EXCEPT ![c] = "none"]
        /\ phase' = [phase EXCEPT ![c] = "running"]
        /\ context' \in [Client -> Protocol]
    BY <1>0, <1>5 DEF SeeMigration, TypeOK, ClientOK, Protocol
  <2> QED
    BY <1>5, <2>1, ReadKeeps DEF SeeMigration, Phase
<1>6. CASE AskTransaction(c)
  <2>1. answer' = [answer EXCEPT ![c] = "none"]
    BY <1>0, <1>6 DEF AskTransaction, TypeOK, ClientOK
  <2> QED
    BY <1>0, <1>6, <2>1, AskKeeps DEF AskTransaction, TypeOK, Phase
<1>7. CASE ReadTransaction(c)
  BY <1>0, <1>7, ReadKeeps DEF ReadTransaction, Read, TypeOK, Phase
<1>8. CASE CleanUp(c)
  <2>1. answer' = [answer EXCEPT ![c] = "none"]
    BY <1>0, <1>8 DEF CleanUp, TypeOK, ClientOK
  <2> QED
    BY <1>0, <1>8, <2>1, AskKeeps DEF CleanUp, TypeOK, Phase
<1> QED
  BY <1>1, <1>2, <1>3, <1>4, <1>5, <1>6, <1>7, <1>8

\* A registration that succeeds.
LEMMA RegisterSteps ==
  ASSUME IInv, HandleRegister \/ FetchSucceeds
  PROVE  IInv' /\ Counted
<1>0. TypeOK /\ commands # <<>> /\ Head(commands).kind = "register"
  BY DEF IInv, HandleRegister, FetchSucceeds, Fetching, Is
<1>1. Head(commands) \in Command /\ Asker \in Client /\ Token \in Mint
      /\ Fits(Head(commands)) /\ Token = MintOf[Asker]
  BY <1>0, AskerTyped DEF Token
<1>2. PICK c \in Client : c = Asker
  BY <1>1
<1>3. /\ Reply("ok") /\ UNCHANGED <<chain, clientVars, polling>>
      /\ count' = [count EXCEPT ![MintOf[c]] = @ + 1]
  BY <1>0, <1>1, <1>2
     DEF HandleRegister, FetchSucceeds, Fetching, TypeOK
<1>4. /\ commands' \in Seq(Command) /\ answer' \in [Client -> Answer]
      /\ Orderly'
      /\ c \notin Holders /\ Holders' = Holders \cup {c}
  BY <1>0, <1>2, <1>3, ReplyKeeps DEF Answer
<1>5. Counted
  BY <1>3, <1>4 DEF Counted, Gives
<1>6. CountsExact' /\ count' \in [Mint -> Nat]
  BY <1>0, <1>5, CountsKept DEF TypeOK
<1>7. Head(commands).context \in Protocol
      /\ [protocol |-> Head(commands).context, fee |-> "default"] \in Data
      /\ [protocol |-> Head(commands).context, fee |-> "default"] # NoData
  BY <1>1 DEF Command, Data, NoData, Protocol
<1>8. CASE HandleRegister
  <2>1. TypeOK'
    BY <1>0, <1>3, <1>4, <1>6, <1>8 DEF TypeOK, HandleRegister, clientVars
  <2>2. CacheFollowsCounts' /\ OneContext'
    BY <1>0, <1>1, <1>8
       DEF IInv, TypeOK, CacheFollowsCounts, OneContext, HandleRegister
  <2> QED
    BY <1>4, <1>5, <1>6, <2>1, <2>2 DEF IInv
<1>9. CASE FetchSucceeds
  <2>1. TypeOK'
    BY <1>0, <1>1, <1>3, <1>4, <1>6, <1>7, <1>9, ShylockAssumption
       DEF TypeOK, FetchSucceeds, clientVars
  <2>2. CacheFollowsCounts'
    BY <1>0, <1>1, <1>7, <1>9
       DEF IInv, TypeOK, CacheFollowsCounts, FetchSucceeds
  <2>3. OneContext'
    BY <1>0, <1>1, <1>7, <1>9 DEF IInv, TypeOK, OneContext, FetchSucceeds
  <2> QED
    BY <1>4, <1>5, <1>6, <2>1, <2>2, <2>3 DEF IInv
<1> QED
  BY <1>8, <1>9

LEMMA FetchFailsStep ==
  ASSUME IInv, FetchFails
  PROVE  IInv' /\ Counted
<1>0. TypeOK /\ commands # <<>> /\ Head(commands).kind = "register"
  BY DEF IInv, FetchFails, Fetching, Is
<1>1. fetching' \in 0 .. MaxAttempts - 1
  BY <1>0, ShylockAssumption DEF FetchFails, TypeOK
<1>2. CASE UNCHANGED <<answer, commands>>
  <2>1. Orderly' /\ Holders' = Holders
    BY <1>2, SameClients DEF FetchFails, clientVars
  <2>2. TypeOK'
    BY <1>0, <1>1, <1>2 DEF TypeOK, FetchFails, clientVars
  <2>3. Counted
    BY <2>1 DEF Counted, FetchFails
  <2>4. CountsExact' /\ CacheFollowsCounts' /\ OneContext'
    BY <1>0, <2>3, CountsKept
       DEF IInv, TypeOK, FetchFails, CacheFollowsCounts, OneContext
  <2> QED
    BY <2>1, <2>2, <2>3, <2>4 DEF IInv
<1>3. CASE Reply("err")
  <2>1. PICK c \in Client : c = Asker
    BY <1>0, AskerTyped
  <2>2. Fits(Head(commands)) /\ phase[c] = "registering"
    BY <1>0, <2>1, AskerTyped DEF Fits, Awaits, Asker
  <2>3. /\ commands' \in Seq(Command) /\ answer' \in [Client -> Answer]
        /\ Orderly' /\ Holders' = Holders
    BY <1>0, <1>3, <2>1, <2>2, ReplyKeeps DEF Answer, FetchFails
  <2>4. TypeOK'
    BY <1>0, <1>1, <2>3 DEF TypeOK, FetchFails, clientVars
  <2>5. Counted
    BY <2>3 DEF Counted, FetchFails
  <2>6. CountsExact' /\ CacheFollowsCounts' /\ OneContext'
    BY <1>0, <2>5, CountsKept
       DEF IInv, TypeOK, FetchFails, CacheFollowsCounts, OneContext
  <2> QED
    BY <2>3, <2>4, <2>5, <2>6 DEF IInv
<1> QED
  BY <1>2, <1>3 DEF FetchFails

LEMMA DeregisterStep ==
  ASSUME IInv, HandleDeregister
  PROVE  IInv' /\ Counted
<1>0. TypeOK /\ commands # <<>> /\ Head(commands).kind = "deregister"
  BY DEF IInv, HandleDeregister, Is
<1>1. Head(commands) \in Command /\ Asker \in Client /\ Token \in Mint
      /\ Fits(Head(commands)) /\ Token = MintOf[Asker]
  BY <1>0, AskerTyped DEF Token
<1>2. PICK c \in Client : c = Asker
  BY <1>1
<1>3. /\ commands' = Tail(commands)
      /\ UNCHANGED <<chain, phase, context, answer, fetching, subContext,
                     polling>>
  BY DEF HandleDeregister, clientVars
<1>4. phase[c] = "gone" /\ ClientOK(c)'
  BY <1>0, <1>1, <1>2, <1>3 DEF Fits, Awaits, Asker, IInv, Orderly, ClientOK
<1>5. /\ commands' \in Seq(Command)
      /\ Waiting = Waiting' \cup {Head(commands)}
      /\ \A x \in Waiting' : x.client # c
      /\ Orderly'
  BY <1>0, <1>2, <1>3, <1>4, Answering
<1>6. Holding(c) /\ ~Holding(c)'
  <2>1. Queued(c, "deregister") /\ ~Queued(c, "deregister")'
    BY <1>0, <1>2, <1>5, QueuedWaiting DEF Asker
  <2> QED
    BY <1>3, <1>4, <2>1 DEF Holding
<1>7. \A x \in Waiting \cup Waiting' :
        x.client # c => (x \in Waiting <=> x \in Waiting')
  BY <1>2, <1>5 DEF Asker
<1>8. c \in Holders /\ Holders' = Holders \ {c}
  BY <1>3, <1>6, <1>7, OneHolder
<1>9. count[Token] > 0 /\ count[Token] \in Nat
  <2>1. PICK m \in Mint : m = Token
    BY <1>1
  <2>2. c \in HeldBy(m)
    BY <1>1, <1>2, <1>8, <2>1 DEF HeldBy
  <2> QED
    BY <2>1, <2>2, CountIs
<1>10. count' = [count EXCEPT ![MintOf[c]] = @ - 1]
  <2>1. count' = [count EXCEPT ![Token] =
                    IF count[Token] = 0 THEN 0 ELSE count[Token] - 1]
    BY DEF HandleDeregister
  <2>2. Token = MintOf[c] /\ count[Token] # 0
    BY <1>1, <1>2, <1>9
  <2> QED
    BY <2>1, <2>2
<1>11. Counted
  BY <1>8, <1>10 DEF Counted, Takes
<1>12. CountsExact' /\ count' \in [Mint -> Nat]
  BY <1>0, <1>11, CountsKept DEF TypeOK
<1>13. TypeOK'
  BY <1>0, <1>3, <1>5, <1>12 DEF TypeOK, HandleDeregister, Data
<1>14. CacheFollowsCounts' /\ OneContext'
  BY <1>0, <1>1, <1>2, <1>3, <1>9, <1>10
     DEF IInv, TypeOK, CacheFollowsCounts, OneContext, HandleDeregister
<1> QED
  BY <1>5, <1>11, <1>12, <1>13, <1>14 DEF IInv

\* The requests for data: an actor that holds its token finds some.
LEMMA DataSteps ==
  ASSUME IInv,
         \/ HandleCached
         \/ \E readable \in BOOLEAN : HandleLive(readable)
         \/ \E a \in {"ok", "err", "dropped"} : HandleTransaction(a)
  PROVE  IInv' /\ Counted
<1>0. /\ TypeOK /\ commands # <<>>
      /\ Head(commands).kind \in {"cached", "live", "transaction"}
      /\ UNCHANGED <<chain, clientVars, shylockVars, polling>>
  BY DEF IInv, HandleCached, HandleLive, HandleTransaction, Is
<1>1. Head(commands) \in Command /\ Asker \in Client /\ Token \in Mint
      /\ Fits(Head(commands)) /\ Token = MintOf[Asker]
  BY <1>0, AskerTyped DEF Token
<1>2. PICK c \in Client : c = Asker
  BY <1>1
<1>3. /\ Head(commands).kind \in {"cached", "live"} => phase[c] = "preparing"
      /\ Head(commands).kind = "transaction" => phase[c] = "asking"
  BY <1>0, <1>1, <1>2 DEF Fits, Awaits, Asker
<1>4. Head(commands).kind \in {"cached", "live"}
        => count[Token] > 0 /\ cache[Token] # NoData
  <2> SUFFICES ASSUME Head(commands).kind \in {"cached", "live"}
               PROVE  count[Token] > 0 /\ cache[Token] # NoData
    OBVIOUS
  <2>1. PICK m \in Mint : m = Token
    BY <1>1
  <2>2. c \in HeldBy(m)
    BY <1>1, <1>2, <1>3, <2>1 DEF HeldBy, Holders
  <2>3. count[Token] > 0
    BY <2>1, <2>2, CountIs
  <2> QED
    BY <1>1, <2>3 DEF IInv, CacheFollowsCounts
<1>5. \E a \in Answer : /\ Reply(a) /\ a # "none"
                        /\ phase[c] = "preparing" => a # "err"
  <2>1. CASE HandleCached
    <3>1. Reply(cache[Token].protocol) /\ cache[Token].protocol \in Protocol
      BY <1>0, <1>1, <1>4, <2>1 DEF HandleCached, Is, TypeOK, Data
    <3> QED
      BY <3>1 DEF Answer, Protocol
  <2>2. ASSUME NEW readable \in BOOLEAN, HandleLive(readable)
        PROVE  \E a \in Answer : /\ Reply(a) /\ a # "none"
                                 /\ phase[c] = "preparing" => a # "err"
    <3>1. count[Token] > 0 /\ count[Token] # 0
      BY <1>0, <1>1, <1>4, <2>2 DEF HandleLive, Is, TypeOK
    <3>2. CASE readable
      <4>1. Reply(subContext[Token]) /\ subContext[Token] \in Protocol
        BY <1>0, <1>1, <2>2, <3>1, <3>2 DEF HandleLive, TypeOK
      <4> QED
        BY <4>1 DEF Answer, Protocol
    <3>3. CASE ~readable
      <4>1. Reply("dropped")
        BY <2>2, <3>1, <3>3 DEF HandleLive
      <4> QED
        BY <4>1 DEF Answer
    <3> QED
      BY <3>2, <3>3
  <2>3. ASSUME NEW a \in {"ok", "err", "dropped"}, HandleTransaction(a)
        PROVE  \E b \in Answer : /\ Reply(b) /\ b # "none"
                                 /\ phase[c] = "preparing" => b # "err"
    <3>1. Reply(a) /\ phase[c] = "asking"
      BY <1>3, <2>3 DEF HandleTransaction, Is
    <3> QED
      BY <3>1 DEF Answer
  <2> QED
    BY <2>1, <2>2, <2>3
<1>6. /\ commands' \in Seq(Command) /\ answer' \in [Client -> Answer]
      /\ Orderly' /\ Holders' = Holders
  BY <1>0, <1>2, <1>5, ReplyKeeps
<1>7. TypeOK'
  BY <1>0, <1>6 DEF TypeOK, clientVars, shylockVars
<1> QED
  BY <1>0, <1>6, <1>7, ClientKeeps

LEMMA OtherSteps ==
  ASSUME IInv,
         \/ \E m \in Mint : Migrate(m)
         \/ StartPoll
         \/ \E known \in SUBSET Mint : EndPoll(known)
         \/ UNCHANGED vars
  PROVE  IInv' /\ Counted
<1>0. TypeOK /\ UNCHANGED <<phase, context, answer, commands, count, subContext,
                            fetching>>
  BY DEF IInv, Migrate, StartPoll, EndPoll, vars, clientVars, shylockVars
<1>1. Orderly' /\ Holders' = Holders
  BY <1>0, SameClients
<1>2. CASE \E known \in SUBSET Mint : EndPoll(known)
  <2>1. PICK known \in SUBSET Mint : EndPoll(known)
    BY <1>2
  <2>2. \A m \in Mint : \/ cache'[m] = cache[m]
                        \/ /\ cache[m] # NoData
                           /\ cache'[m] = [cache[m] EXCEPT !.fee = "polled"]
    BY <2>1 DEF EndPoll
  <2>3. \A m \in Mint : /\ cache'[m] \in Data
                        /\ cache'[m] # NoData <=> cache[m] # NoData
                        /\ cache'[m].protocol = cache[m].protocol
    <3> SUFFICES ASSUME NEW m \in Mint, cache[m] # NoData,
                        cache'[m] = [cache[m] EXCEPT !.fee = "polled"]
                 PROVE  /\ cache'[m] \in Data
                        /\ cache'[m] # NoData
                        /\ cache'[m].protocol = cache[m].protocol
      BY <1>0, <2>2 DEF TypeOK
    <3>1. cache[m] \in [protocol : Protocol, fee : {"default", "polled"}]
      BY <1>0 DEF TypeOK, Data
    <3>2. /\ cache'[m] \in [protocol : Protocol, fee : {"default", "polled"}]
          /\ cache'[m].protocol = cache[m].protocol
      BY <3>1
    <3> QED
      BY <3>2 DEF Data, NoData, Protocol
  <2>4. TypeOK'
    BY <1>0, <2>1, <2>3 DEF TypeOK, EndPoll, clientVars
  <2>5. Counted
    BY <1>0, <1>1 DEF Counted
  <2>6. CountsExact'
    BY <1>0, <2>5, CountsKept DEF TypeOK
  <2>7. CacheFollowsCounts' /\ OneContext'
    BY <1>0, <2>3 DEF IInv, CacheFollowsCounts, OneContext
  <2> QED
    BY <1>1, <2>4, <2>5, <2>6, <2>7 DEF IInv
<1>3. CASE \E m \in Mint : Migrate(m)
  <2>1. TypeOK'
    BY <1>0, <1>3 DEF TypeOK, Migrate, shylockVars, Protocol
  <2> QED
    BY <1>1, <1>3, <2>1, ClientKeeps DEF Migrate
<1>4. CASE StartPoll \/ UNCHANGED vars
  <2>1. TypeOK'
    BY <1>0, <1>4 DEF TypeOK, StartPoll, shylockVars, vars
  <2>2. UNCHANGED shylockVars
    BY <1>4 DEF StartPoll, vars, shylockVars
  <2> QED
    BY <1>1, <2>1, <2>2, ClientKeeps
<1> QED
  BY <1>2, <1>3, <1>4

LEMMA NextIInv == IInv /\ [Next]_vars => IInv' /\ Counted
<1> SUFFICES ASSUME IInv, [Next]_vars
             PROVE  IInv' /\ Counted
  OBVIOUS
<1>1. ASSUME NEW c \in Client,
             \/ Register(c) \/ SeeMigration(c) \/ AskTransaction(c)
             \/ CleanUp(c) \/ ClientStep(c)
      PROVE  IInv' /\ Counted
  BY <1>1, ClientSteps DEF ClientStep
<1>2. CASE Serve
  BY <1>2, RegisterSteps, FetchFailsStep, DeregisterStep, DataSteps DEF Serve
<1>3. CASE \/ \E m \in Mint : Migrate(m)
           \/ StartPoll
           \/ \E known \in SUBSET Mint : EndPoll(known)
           \/ UNCHANGED vars
  BY <1>3, OtherSteps
<1> QED
  BY <1>1, <1>2, <1>3 DEF Next

LEMMA Invariance == Spec => []IInv
<1>1. IInv /\ [Next]_vars => IInv'
  BY NextIInv
<1> QED
  BY <1>1, InitIInv, PTL DEF Spec

-----------------------------------------------------------------------------
\* The reference count of a token is the number of actors that hold it.
THEOREM CountsCorrect == Spec => []CountsExact
<1>1. IInv => CountsExact
  BY DEF IInv
<1> QED
  BY <1>1, Invariance, PTL

\* Cache, counts and what the actors believe of them agree, whatever the poller
\* read before it writes.
THEOREM CacheConsistent == Spec => []Consistent
<1>1. IInv => Consistent
  BY DEF IInv, Consistent, Orderly, ClientOK, DataWhenRegistered
<1> QED
  BY <1>1, Invariance, PTL

LEMMA CachedNeeded ==
  ASSUME IInv
  PROVE  {m \in Mint : cache[m] # NoData} = {MintOf[c] : c \in Holders}
<1>1. ASSUME NEW m \in Mint
      PROVE  cache[m] # NoData <=> HeldBy(m) # {}
  BY CountIs DEF IInv, CacheFollowsCounts
<1>2. \A c \in Holders : MintOf[c] \in Mint
  BY HoldersFinite, ShylockAssumption
<1> QED
  BY <1>1, <1>2 DEF HeldBy

\* The counts, the queue and the cache implement leases.
THEOREM Refinement == Spec => ImplementsLeases
<1>1. Init => Lease!LeaseInit
  BY DEF Init, Lease!LeaseInit, Holders, NoData
<1>2. IInv /\ [Next]_vars => [Lease!LeaseNext]_(Lease!leaseVars)
  <2> SUFFICES ASSUME IInv, [Next]_vars
               PROVE  [Lease!LeaseNext]_(Lease!leaseVars)
    OBVIOUS
  <2>1. IInv' /\ Counted
    BY NextIInv
  <2>2. /\ {m \in Mint : cache[m] # NoData} = {MintOf[c] : c \in Holders}
        /\ {m \in Mint : cache'[m] # NoData} = {MintOf[c] : c \in Holders'}
    <3>1. {m \in Mint : cache[m] # NoData} = {MintOf[c] : c \in Holders}
      BY CachedNeeded
    <3>2. {m \in Mint : cache'[m] # NoData} = {MintOf[c] : c \in Holders'}
      <4>1. (IInv => {m \in Mint : cache[m] # NoData}
                       = {MintOf[c] : c \in Holders})'
        BY CachedNeeded, PTL
      <4> QED
        BY <2>1, <4>1
    <3> QED
      BY <3>1, <3>2
  <2>3. CASE Holders' = Holders
    BY <2>2, <2>3 DEF Lease!leaseVars
  <2>4. ASSUME NEW c \in Client, Gives(c) \/ Takes(c)
        PROVE  Lease!LeaseNext
    <3>1. Lease!Acquire(c) \/ Lease!Release(c)
      BY <2>2, <2>4
         DEF Gives, Takes, Lease!Acquire, Lease!Release, Lease!Needed
    <3> QED
      BY <3>1 DEF Lease!LeaseNext
  <2> QED
    BY <2>1, <2>3, <2>4 DEF Counted
<1> QED
  BY <1>1, <1>2, Invariance, PTL DEF Spec, ImplementsLeases, Lease!LeaseSpec
=============================================================================
