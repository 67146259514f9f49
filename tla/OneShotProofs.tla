--------------------------- MODULE OneShotProofs ----------------------------
(***************************************************************************)
(* The one-shots, for any orders, deliveries and failing queries: what the *)
(* tables say was traded was traded.  The path of a trade is followed from *)
(* the order of its actor, given once, through the one report of it, to    *)
(* the two commands that book and log it.                                  *)
(***************************************************************************)
EXTENDS OneShot, SequenceTheorems, FunctionTheorems, FiniteSetTheorems, TLAPS

-----------------------------------------------------------------------------
(* Channels.                                                               *)

LEMMA Appended ==
  ASSUME NEW S, NEW s \in Seq(S), NEW e \in S
  PROVE  /\ Append(s, e) \in Seq(S)
         /\ Len(s) \in Nat /\ Len(Append(s, e)) = Len(s) + 1
         /\ DOMAIN s = 1 .. Len(s)
         /\ DOMAIN Append(s, e) = (1 .. Len(s)) \cup {Len(s) + 1}
         /\ Len(s) + 1 \notin 1 .. Len(s)
         /\ \A i \in 1 .. Len(s) : s[i] \in S /\ Append(s, e)[i] = s[i]
         /\ Append(s, e)[Len(s) + 1] = e
BY AppendProperties, LenProperties, ElementOfSeq

LEMMA Shifted ==
  ASSUME NEW S, NEW s \in Seq(S), s # << >>
  PROVE  /\ Head(s) \in S /\ Head(s) = s[1]
         /\ Tail(s) \in Seq(S)
         /\ Len(s) \in Nat /\ Len(s) >= 1 /\ Len(Tail(s)) = Len(s) - 1
         /\ DOMAIN s = 1 .. Len(s)
         /\ DOMAIN Tail(s) = 1 .. (Len(s) - 1)
         /\ \A i \in 1 .. (Len(s) - 1) : i + 1 \in 1 .. Len(s) /\ Tail(s)[i] = s[i + 1]
         /\ \A j \in 1 .. Len(s) : j # 1 => j - 1 \in 1 .. (Len(s) - 1)
                                            /\ Tail(s)[j - 1] = s[j]
<1>1. /\ Head(s) \in S /\ Head(s) = s[1] /\ Tail(s) \in Seq(S)
      /\ Len(s) \in Nat /\ Len(s) >= 1 /\ Len(Tail(s)) = Len(s) - 1
      /\ DOMAIN s = 1 .. Len(s) /\ DOMAIN Tail(s) = 1 .. (Len(s) - 1)
  BY HeadTailProperties, ElementOfSeq, LenProperties, EmptySeq
<1>2. ASSUME NEW i \in 1 .. (Len(s) - 1)
      PROVE  i + 1 \in 1 .. Len(s) /\ Tail(s)[i] = s[i + 1]
  BY <1>1, HeadTailProperties
<1>3. ASSUME NEW j \in 1 .. Len(s), j # 1
      PROVE  j - 1 \in 1 .. (Len(s) - 1) /\ Tail(s)[j - 1] = s[j]
  <2>1. j - 1 \in 1 .. (Len(s) - 1) /\ (j - 1) + 1 = j
    BY <1>1, <1>3
  <2> QED
    BY <1>2, <2>1
<1> QED
  BY <1>1, <1>2, <1>3

\* How many messages of a kind a channel holds.
Among(s, T) == Cardinality({i \in DOMAIN s : s[i] \in T})

LEMMA AmongType ==
  ASSUME NEW S, NEW s \in Seq(S), NEW T
  PROVE  /\ IsFiniteSet({i \in DOMAIN s : s[i] \in T})
         /\ Among(s, T) \in Nat
<1>1. IsFiniteSet(1 .. Len(s)) /\ DOMAIN s = 1 .. Len(s)
  BY FS_Interval, LenProperties
<1>2. {i \in DOMAIN s : s[i] \in T} \in SUBSET (1 .. Len(s))
  BY <1>1
<1> QED
  BY <1>1, <1>2, FS_Subset, FS_CardinalityType DEF Among

LEMMA AmongNone ==
  ASSUME NEW T
  PROVE  Among(<< >>, T) = 0
<1>1. {i \in DOMAIN << >> : << >>[i] \in T} = {}
  OBVIOUS
<1> QED
  BY <1>1, FS_EmptySet DEF Among

LEMMA AmongAppend ==
  ASSUME NEW S, NEW s \in Seq(S), NEW x \in S, NEW T
  PROVE  Among(Append(s, x), T) = Among(s, T) + (IF x \in T THEN 1 ELSE 0)
<1> DEFINE A == {i \in DOMAIN s : s[i] \in T}
           B == {i \in DOMAIN Append(s, x) : Append(s, x)[i] \in T}
<1>1. IsFiniteSet(A) /\ Cardinality(A) \in Nat
  BY AmongType DEF Among
<1>2. /\ DOMAIN s = 1 .. Len(s)
      /\ DOMAIN Append(s, x) = (1 .. Len(s)) \cup {Len(s) + 1}
      /\ Len(s) + 1 \notin 1 .. Len(s)
      /\ \A i \in 1 .. Len(s) : Append(s, x)[i] = s[i]
      /\ Append(s, x)[Len(s) + 1] = x
  BY Appended
<1>3. CASE x \in T
  <2>1. B = A \cup {Len(s) + 1} /\ Len(s) + 1 \notin A
    BY <1>2, <1>3
  <2>2. Cardinality(B) = Cardinality(A) + 1
    BY <1>1, <2>1, FS_AddElement
  <2> QED
    BY <1>3, <2>2 DEF Among
<1>4. CASE x \notin T
  <2>1. B = A
    BY <1>2, <1>4
  <2> HIDE DEF A, B
  <2>2. Among(s, T) = Cardinality(A) /\ Among(Append(s, x), T) = Cardinality(B)
    BY DEF Among, A, B
  <2> QED
    BY <1>1, <1>4, <2>1, <2>2
<1> QED
  BY <1>3, <1>4

LEMMA AmongTail ==
  ASSUME NEW S, NEW s \in Seq(S), s # << >>, NEW T
  PROVE  /\ Among(Tail(s), T) = Among(s, T) - (IF Head(s) \in T THEN 1 ELSE 0)
         /\ Head(s) \in T => Among(s, T) >= 1
<1> DEFINE A == {i \in DOMAIN s : s[i] \in T}
           B == {i \in DOMAIN Tail(s) : Tail(s)[i] \in T}
           f == [i \in B |-> i + 1]
<1>1. /\ DOMAIN s = 1 .. Len(s) /\ DOMAIN Tail(s) = 1 .. (Len(s) - 1)
      /\ Len(s) \in Nat /\ Len(s) >= 1 /\ Head(s) = s[1] /\ Tail(s) \in Seq(S)
      /\ \A i \in 1 .. (Len(s) - 1) : i + 1 \in 1 .. Len(s) /\ Tail(s)[i] = s[i + 1]
      /\ \A j \in 1 .. Len(s) : j # 1 => j - 1 \in 1 .. (Len(s) - 1)
                                         /\ Tail(s)[j - 1] = s[j]
  BY Shifted
<1>2. /\ IsFiniteSet(A) /\ Cardinality(A) \in Nat
      /\ IsFiniteSet(B) /\ Cardinality(B) \in Nat
  <2>1. Tail(s) \in Seq(S)
    BY <1>1
  <2>2. IsFiniteSet(A) /\ IsFiniteSet(B)
    BY <2>1, AmongType
  <2> QED
    BY <2>2, FS_CardinalityType
<1>3. f \in [B -> A \ {1}]
  BY <1>1
<1>4. \A a, b \in B : f[a] = f[b] => a = b
  BY <1>1
<1>5. ASSUME NEW j \in A \ {1} PROVE \E i \in B : f[i] = j
  <2>1. j - 1 \in B /\ (j - 1) + 1 = j
    BY <1>1, <1>5
  <2> QED
    BY <2>1
<1> HIDE DEF f
<1>6. f \in Bijection(B, A \ {1})
  BY <1>3, <1>4, <1>5, Fun_IsBij
<1>7. Cardinality(A \ {1}) = Cardinality(B)
  BY <1>2, <1>6, Fun_ExistsBij, FS_Bijection
<1>8. /\ 1 \in A => Cardinality(A \ {1}) = Cardinality(A) - 1
      /\ 1 \notin A => Cardinality(A \ {1}) = Cardinality(A)
  BY <1>2, FS_RemoveElement
<1>9. 1 \in A <=> Head(s) \in T
  BY <1>1
<1> HIDE DEF A, B
<1>10. Among(s, T) = Cardinality(A) /\ Among(Tail(s), T) = Cardinality(B)
  BY DEF Among, A, B
<1> QED
  BY <1>2, <1>7, <1>8, <1>9, <1>10

-----------------------------------------------------------------------------
(* Messages.                                                               *)

LEMMA CommandKinds ==
  /\ \A k \in {"create", "remove", "complete"}, o \in Order :
       [kind |-> k, order |-> o] \in CommandMsg
  /\ \A a \in Actor : [kind |-> "forward", actor |-> a] \in CommandMsg
  /\ \A c \in CommandMsg :
       \/ /\ c.kind \in {"create", "remove", "complete"} /\ c.order \in Order
          /\ c = [kind |-> c.kind, order |-> c.order]
       \/ c.kind = "forward" /\ c.actor \in Actor
BY DEF CommandMsg

\* Which command of the database books a trade, and which logs one.
LEMMA HermesKinds ==
  /\ \A o \in Order, st \in Status : UpdateOrderStatus(o, st) \in HermesMsg
  /\ \A o \in Order, s \in Signature, st \in {"CONFIRMED", "FAILED"} :
       LogTransaction(s, o, st) \in HermesMsg
  /\ \A o \in Order : IncrementOrderAmounts(o) \in HermesMsg
  /\ \A c \in HermesMsg :
       /\ c.order \in Order
       /\ \/ c.kind = "status" /\ c.status \in Status
          \/ c.kind = "tx" /\ c.sig \in Signature /\ c.status \in {"CONFIRMED", "FAILED"}
          \/ c.kind = "amounts"
       /\ \A o : /\ c \in Bookings(o) <=> c.kind = "amounts" /\ c.order = o
                 /\ c \in Logs(o) <=> Confirms(c) /\ c.order = o
<1>1. /\ \A o \in Order, st \in Status : UpdateOrderStatus(o, st) \in HermesMsg
      /\ \A o \in Order, s \in Signature, st \in {"CONFIRMED", "FAILED"} :
           LogTransaction(s, o, st) \in HermesMsg
      /\ \A o \in Order : IncrementOrderAmounts(o) \in HermesMsg
  BY DEF HermesMsg, UpdateOrderStatus, LogTransaction, IncrementOrderAmounts
<1>2. ASSUME NEW c \in HermesMsg
      PROVE  /\ c.order \in Order
             /\ \/ c.kind = "status" /\ c.status \in Status
                \/ /\ c.kind = "tx" /\ c.sig \in Signature
                   /\ c.status \in {"CONFIRMED", "FAILED"}
                \/ c.kind = "amounts"
  BY DEF HermesMsg
<1>3. ASSUME NEW c \in HermesMsg, NEW o
      PROVE  c \in Bookings(o) <=> c.kind = "amounts" /\ c.order = o
  <2>1. c \in Bookings(o) => c.kind = "amounts" /\ c.order = o
    BY DEF Bookings, IncrementOrderAmounts
  <2>2. c.kind = "amounts" /\ c.order = o => c \in Bookings(o)
    BY DEF Bookings, IncrementOrderAmounts, HermesMsg
  <2> QED
    BY <2>1, <2>2
<1>4. ASSUME NEW c \in HermesMsg, NEW o
      PROVE  c \in Logs(o) <=> Confirms(c) /\ c.order = o
  <2>1. c \in Logs(o) => Confirms(c) /\ c.order = o
    BY DEF Logs, LogTransaction, Confirms
  <2>2. ASSUME Confirms(c), c.order = o PROVE c \in Logs(o)
    <3>1. c.sig \in Signature /\ c = LogTransaction(c.sig, o, "CONFIRMED")
      BY <2>2 DEF Confirms, HermesMsg, LogTransaction
    <3> QED
      BY <3>1 DEF Logs
  <2> QED
    BY <2>1, <2>2
<1> QED
  BY <1>1, <1>2, <1>3, <1>4

LEMMA MessagesAppend ==
  ASSUME NEW S, NEW s \in Seq(S), NEW e \in S
  PROVE  Messages(Append(s, e)) = Messages(s) \cup {e}
<1>1. /\ DOMAIN s = 1 .. Len(s)
      /\ DOMAIN Append(s, e) = (1 .. Len(s)) \cup {Len(s) + 1}
      /\ \A i \in 1 .. Len(s) : Append(s, e)[i] = s[i]
      /\ Append(s, e)[Len(s) + 1] = e
  BY Appended
<1> DEFINE t == Append(s, e)
           n == Len(s) + 1
<1> HIDE DEF t, n
<1>2. /\ DOMAIN s = 1 .. Len(s)
      /\ DOMAIN t = (1 .. Len(s)) \cup {n}
      /\ \A i \in 1 .. Len(s) : t[i] = s[i]
      /\ t[n] = e
  BY <1>1 DEF t, n
<1>3. Messages(t) \subseteq Messages(s) \cup {e}
  BY <1>2 DEF Messages
<1>4. Messages(s) \subseteq Messages(t) /\ e \in Messages(t)
  BY <1>2 DEF Messages
<1> QED
  BY <1>3, <1>4 DEF t

LEMMA MessagesTail ==
  ASSUME NEW S, NEW s \in Seq(S), s # << >>
  PROVE  /\ Head(s) \in S /\ Tail(s) \in Seq(S)
         /\ Messages(s) = Messages(Tail(s)) \cup {Head(s)}
<1> DEFINE t == Tail(s)
           h == Head(s)
<1>1. /\ DOMAIN s = 1 .. Len(s) /\ DOMAIN t = 1 .. (Len(s) - 1)
      /\ Len(s) \in Nat /\ Len(s) >= 1 /\ h = s[1] /\ h \in S /\ t \in Seq(S)
      /\ \A i \in 1 .. (Len(s) - 1) : i + 1 \in 1 .. Len(s) /\ t[i] = s[i + 1]
      /\ \A j \in 1 .. Len(s) : j # 1 => j - 1 \in 1 .. (Len(s) - 1)
                                         /\ t[j - 1] = s[j]
  BY Shifted
<1>2. 1 \in DOMAIN s
  BY <1>1
<1> HIDE DEF t, h
<1>3. ASSUME NEW e \in Messages(s) PROVE e \in Messages(t) \cup {h}
  <2>1. PICK i \in DOMAIN s : e = s[i]
    BY DEF Messages
  <2> QED
    BY <1>1, <2>1 DEF Messages
<1>4. ASSUME NEW e \in Messages(t) PROVE e \in Messages(s)
  <2>1. PICK i \in DOMAIN t : e = t[i]
    BY DEF Messages
  <2> QED
    BY <1>1, <2>1 DEF Messages
<1>5. h \in Messages(s)
  BY <1>1, <1>2 DEF Messages
<1> QED
  BY <1>1, <1>3, <1>4, <1>5 DEF t, h

LEMMA MessagesType ==
  ASSUME NEW S, NEW s \in Seq(S)
  PROVE  Messages(s) \subseteq S
BY ElementOfSeq DEF Messages

LEMMA NoMessages ==
  /\ Messages(<< >>) = {} /\ Reports(<< >>) = {}
  /\ EachOnce(<< >>) /\ ForwardOnce(<< >>) /\ SigOnce(<< >>)
BY DEF Messages, Reports, EachOnce, ForwardOnce, SigOnce

\* A message that is sent is unlike the others, and so are those that stay.
LEMMA OnceAppend ==
  ASSUME NEW S, NEW s \in Seq(S), NEW e \in S
  PROVE  /\ /\ EachOnce(s)
            /\ \A r \in Messages(s) : r.actor # e.actor
            => EachOnce(Append(s, e))
         /\ /\ ForwardOnce(s)
            /\ e.kind = "forward" =>
                 \A c \in Messages(s) : c.kind = "forward" => c.actor # e.actor
            => ForwardOnce(Append(s, e))
         /\ /\ SigOnce(s)
            /\ Confirms(e) => \A c \in Messages(s) : Confirms(c) => c.sig # e.sig
            => SigOnce(Append(s, e))
<1> DEFINE t == Append(s, e)
           n == Len(s) + 1
<1>1. /\ DOMAIN s = 1 .. Len(s)
      /\ DOMAIN t = (1 .. Len(s)) \cup {n}
      /\ \A i \in 1 .. Len(s) : t[i] = s[i]
      /\ t[n] = e
  BY Appended
<1> HIDE DEF t, n
<1>2. \A i \in DOMAIN s : s[i] \in Messages(s)
  BY DEF Messages
<1>3. ASSUME EachOnce(s), \A r \in Messages(s) : r.actor # e.actor
      PROVE  EachOnce(t)
  <2> SUFFICES ASSUME NEW i \in DOMAIN t, NEW j \in DOMAIN t, t[i].actor = t[j].actor
               PROVE  i = j
    BY DEF EachOnce
  <2>1. CASE i \in DOMAIN s /\ j \in DOMAIN s
    BY <1>1, <1>3, <2>1 DEF EachOnce
  <2>2. CASE i = n \/ j = n
    BY <1>1, <1>2, <1>3, <2>2
  <2> QED
    BY <1>1, <2>1, <2>2
<1>4. ASSUME ForwardOnce(s),
             e.kind = "forward" =>
               \A c \in Messages(s) : c.kind = "forward" => c.actor # e.actor
      PROVE  ForwardOnce(t)
  <2> SUFFICES ASSUME NEW i \in DOMAIN t, NEW j \in DOMAIN t,
                      t[i].kind = "forward", t[j].kind = "forward",
                      t[i].actor = t[j].actor
               PROVE  i = j
    BY DEF ForwardOnce
  <2>1. CASE i \in DOMAIN s /\ j \in DOMAIN s
    BY <1>1, <1>4, <2>1 DEF ForwardOnce
  <2>2. CASE i = n \/ j = n
    BY <1>1, <1>2, <1>4, <2>2
  <2> QED
    BY <1>1, <2>1, <2>2
<1>5. ASSUME SigOnce(s),
             Confirms(e) => \A c \in Messages(s) : Confirms(c) => c.sig # e.sig
      PROVE  SigOnce(t)
  <2> SUFFICES ASSUME NEW i \in DOMAIN t, NEW j \in DOMAIN t,
                      Confirms(t[i]), Confirms(t[j]), t[i].sig = t[j].sig
               PROVE  i = j
    BY DEF SigOnce
  <2>1. CASE i \in DOMAIN s /\ j \in DOMAIN s
    BY <1>1, <1>5, <2>1 DEF SigOnce
  <2>2. CASE i = n \/ j = n
    BY <1>1, <1>2, <1>5, <2>2
  <2> QED
    BY <1>1, <2>1, <2>2
<1> QED
  BY <1>3, <1>4, <1>5 DEF t

LEMMA OnceTail ==
  ASSUME NEW S, NEW s \in Seq(S), s # << >>
  PROVE  /\ EachOnce(s) =>
              /\ EachOnce(Tail(s))
              /\ \A r \in Messages(Tail(s)) : r.actor # Head(s).actor
         /\ ForwardOnce(s) =>
              /\ ForwardOnce(Tail(s))
              /\ Head(s).kind = "forward" =>
                   \A c \in Messages(Tail(s)) :
                     c.kind = "forward" => c.actor # Head(s).actor
         /\ SigOnce(s) =>
              /\ SigOnce(Tail(s))
              /\ Confirms(Head(s)) =>
                   \A c \in Messages(Tail(s)) : Confirms(c) => c.sig # Head(s).sig
<1> DEFINE t == Tail(s)
           h == Head(s)
<1>1. /\ h = s[1] /\ 1 \in DOMAIN s
      /\ \A i \in DOMAIN t : /\ i \in Nat /\ i + 1 \in DOMAIN s
                             /\ i + 1 # 1 /\ t[i] = s[i + 1]
      /\ \A i, j \in DOMAIN t : i + 1 = j + 1 => i = j
  BY Shifted
<1> HIDE DEF t, h
<1>2. \A c \in Messages(t) : \E i \in DOMAIN t : c = t[i]
  BY DEF Messages
<1>3. ASSUME EachOnce(s)
      PROVE  EachOnce(t) /\ \A r \in Messages(t) : r.actor # h.actor
  <2>1. EachOnce(t)
    BY <1>1, <1>3 DEF EachOnce
  <2>2. ASSUME NEW r \in Messages(t) PROVE r.actor # h.actor
    BY <1>1, <1>2, <1>3 DEF EachOnce
  <2> QED
    BY <2>1, <2>2
<1>4. ASSUME ForwardOnce(s)
      PROVE  /\ ForwardOnce(t)
             /\ h.kind = "forward" =>
                  \A c \in Messages(t) : c.kind = "forward" => c.actor # h.actor
  <2>1. ForwardOnce(t)
    BY <1>1, <1>4 DEF ForwardOnce
  <2>2. ASSUME h.kind = "forward", NEW c \in Messages(t), c.kind = "forward"
        PROVE  c.actor # h.actor
    BY <1>1, <1>2, <1>4, <2>2 DEF ForwardOnce
  <2> QED
    BY <2>1, <2>2
<1>5. ASSUME SigOnce(s)
      PROVE  /\ SigOnce(t)
             /\ Confirms(h) => \A c \in Messages(t) : Confirms(c) => c.sig # h.sig
  <2>1. SigOnce(t)
    BY <1>1, <1>5 DEF SigOnce
  <2>2. ASSUME Confirms(h), NEW c \in Messages(t), Confirms(c)
        PROVE  c.sig # h.sig
    BY <1>1, <1>2, <1>5, <2>2 DEF SigOnce
  <2> QED
    BY <2>1, <2>2
<1> QED
  BY <1>3, <1>4, <1>5 DEF t, h

\* Two commands that are sent at once are sent one after the other.
LEMMA SentAtOnce ==
  ASSUME NEW S, NEW q \in Seq(S), NEW c \in S, NEW d \in S
  PROVE  q \o <<c>> = Append(q, c) /\ q \o <<c, d>> = Append(Append(q, c), d)
OBVIOUS

-----------------------------------------------------------------------------
(* What the invariant says of a state.                                     *)

\* The actors of an order are as many as its deliveries.
LEMMA ActorsFinite ==
  ASSUME NEW o, NEW A, \A a \in A : a \in Actor /\ a[1] = o
  PROVE  IsFiniteSet(A) /\ Cardinality(A) \in Nat
<1>1. IsFiniteSet(1 .. Deliveries)
  BY OneShotAssumption, FS_Interval
<1>2. IsFiniteSet({o})
  BY FS_Singleton
<1> DEFINE D == 1 .. Deliveries
<1> HIDE DEF D
<1>3. IsFiniteSet({o} \X D)
  BY <1>1, <1>2, FS_Product DEF D
<1>4. A \in SUBSET ({o} \X D)
  BY DEF Actor, D
<1> QED
  BY <1>3, <1>4, FS_Subset, FS_CardinalityType

LEMMA Actors ==
  /\ \A a \in Actor : /\ a[1] \in Order /\ a[2] \in 1 .. Deliveries
                      /\ a = <<a[1], a[2]>>
  /\ \A o \in Order, n \in 1 .. Deliveries :
       <<o, n>> \in Actor /\ <<o, n>>[1] = o /\ <<o, n>>[2] = n
BY DEF Actor

LEMMA ToldFinite ==
  ASSUME NEW o
  PROVE  /\ Told(o) \subseteq Actor
         /\ IsFiniteSet(Told(o)) /\ Cardinality(Told(o)) \in Nat
<1>1. \A a \in Told(o) : a \in Actor /\ a[1] = o
  BY DEF Told
<1> QED
  BY <1>1, ActorsFinite

\* The types that the steps need, one by one.
LEMMA Types ==
  ASSUME OneShotInv
  PROVE  /\ columns \subseteq InsertColumns \cup TriggerColumns
         /\ row \in [Order -> [status : Status, booked : Nat]]
         /\ txs \in [DOMAIN txs -> [order : Order, status : {"CONFIRMED", "FAILED"}]]
         /\ DOMAIN txs \subseteq Signature
         /\ refused \in [Order -> Nat]
         /\ delivered \in [Order -> 0 .. Deliveries]
         /\ removed \cup forgotten \subseteq Order
         /\ built \in [Order -> 0 .. Deliveries]
         /\ registered \in [Order -> 0 .. Deliveries]
         /\ phase \in [Actor -> Phase]
         /\ warrant \in [Actor -> Fate]
         /\ landed \subseteq Actor
         /\ commands \in Seq(CommandMsg)
         /\ results \in Seq(Result)
         /\ inbox \in [Actor -> Seq(Result)]
         /\ queue \in Seq(HermesMsg)
         /\ Deliveries \in Nat \ {0}
         /\ Signature = Actor \cup {NoSignature} /\ NoSignature \notin Actor
BY OneShotAssumption DEF OneShotInv, Typed, TypeOK

-----------------------------------------------------------------------------
(* What a step does to each part of the invariant.                         *)

LEMMA CommandSent ==
  ASSUME OneShotInv, NEW c \in CommandMsg, commands' = Append(commands, c)
  PROVE  /\ commands' \in Seq(CommandMsg)
         /\ Messages(commands') = Messages(commands) \cup {c}
         /\ \A o : /\ Coming(o) \in Nat
                   /\ Coming(o)' = Coming(o)
                        + (IF c = [kind |-> "create", order |-> o] THEN 1 ELSE 0)
<1>1. commands \in Seq(CommandMsg)
  BY Types
<1>2. ASSUME NEW o
      PROVE  /\ Coming(o) \in Nat
             /\ Coming(o)' = Coming(o)
                  + (IF c = [kind |-> "create", order |-> o] THEN 1 ELSE 0)
  <2> DEFINE e == [kind |-> "create", order |-> o]
  <2>1. Coming(o) = Among(commands, {e}) /\ Coming(o)' = Among(commands', {e})
    BY DEF Coming, Among
  <2> HIDE DEF e
  <2>2. Among(commands, {e}) \in Nat
    BY <1>1, AmongType
  <2>3. Among(Append(commands, c), {e}) = Among(commands, {e}) + (IF c \in {e} THEN 1 ELSE 0)
    BY <1>1, AmongAppend
  <2>4. Coming(o) \in Nat /\ Coming(o)' = Coming(o) + (IF c = e THEN 1 ELSE 0)
    BY <2>1, <2>2, <2>3
  <2> QED
    BY <2>4 DEF e
<1> QED
  BY <1>1, <1>2, MessagesAppend, Appended

LEMMA CommandTaken ==
  ASSUME OneShotInv, NEW kind, Take(kind)
  PROVE  /\ Head(commands) \in CommandMsg /\ Head(commands).kind = kind
         /\ Head(commands) \in Messages(commands)
         /\ commands' \in Seq(CommandMsg)
         /\ Messages(commands') \subseteq Messages(commands)
         /\ ForwardOnce(commands')
         /\ kind = "forward" =>
              \A c \in Messages(commands') :
                c.kind = "forward" => c.actor # Head(commands).actor
         /\ \A o : /\ Coming(o) \in Nat /\ Coming(o)' \in Nat
                   /\ Coming(o)' <= Coming(o)
                   /\ Head(commands) = [kind |-> "create", order |-> o] =>
                        Coming(o)' = Coming(o) - 1
<1>1. /\ commands \in Seq(CommandMsg) /\ commands # << >>
      /\ commands' = Tail(commands) /\ Head(commands).kind = kind
  BY Types DEF Take
<1>2. ForwardOnce(commands)
  BY DEF OneShotInv, OrderedOnce
<1>3. /\ Head(commands) \in CommandMsg /\ Tail(commands) \in Seq(CommandMsg)
      /\ Messages(commands) = Messages(Tail(commands)) \cup {Head(commands)}
  BY <1>1, MessagesTail
<1>4. /\ ForwardOnce(Tail(commands))
      /\ kind = "forward" =>
           \A c \in Messages(Tail(commands)) :
             c.kind = "forward" => c.actor # Head(commands).actor
  BY <1>1, <1>2, OnceTail
<1>5. ASSUME NEW o
      PROVE  /\ Coming(o) \in Nat /\ Coming(o)' \in Nat
             /\ Coming(o)' <= Coming(o)
             /\ Head(commands) = [kind |-> "create", order |-> o] =>
                  Coming(o)' = Coming(o) - 1
  <2> DEFINE e == [kind |-> "create", order |-> o]
  <2>1. Coming(o) = Among(commands, {e}) /\ Coming(o)' = Among(commands', {e})
    BY DEF Coming, Among
  <2> HIDE DEF e
  <2>2. Among(commands, {e}) \in Nat /\ Among(Tail(commands), {e}) \in Nat
    BY <1>1, <1>3, AmongType
  <2>3. Among(Tail(commands), {e}) =
          Among(commands, {e}) - (IF Head(commands) \in {e} THEN 1 ELSE 0)
    BY <1>1, AmongTail
  <2>4. /\ Coming(o) \in Nat /\ Coming(o)' \in Nat
        /\ Coming(o)' <= Coming(o)
        /\ Head(commands) = e => Coming(o)' = Coming(o) - 1
    BY <1>1, <2>1, <2>2, <2>3
  <2> QED
    BY <2>4 DEF e
<1> QED
  BY <1>1, <1>3, <1>4, <1>5

\* A reported trade is settled: what it became is not changed any more.
LEMMA Settled ==
  ASSUME OneShotInv
  PROVE  /\ \A r \in Messages(results) :
              /\ r \in Result /\ warrant[r.actor] = r.stage
              /\ r.actor \in Reports(results)
         /\ \A a \in Actor : \A r \in Messages(inbox[a]) :
              /\ r \in Result /\ warrant[r.actor] = r.stage
              /\ r.actor \in Reports(inbox[a])
              /\ r.actor[1] = a[1]
         /\ \A a \in OnTheWay : a \in Actor /\ warrant[a] \in {"CONFIRMED", "FAILED"}
<1>1. /\ Messages(results) \subseteq Result
      /\ \A a \in Actor : Messages(inbox[a]) \subseteq Result
  BY Types, MessagesType
<1>2. \A r \in Messages(results) :
        /\ r \in Result /\ warrant[r.actor] = r.stage
        /\ r.actor \in Reports(results)
  BY <1>1 DEF OneShotInv, ReportedOnce, Reported, Reports
<1>3. ASSUME NEW a \in Actor, NEW r \in Messages(inbox[a])
      PROVE  /\ r \in Result /\ warrant[r.actor] = r.stage
             /\ r.actor \in Reports(inbox[a])
             /\ r.actor[1] = a[1]
  <2>1. r \in Result
    BY <1>1
  <2>2. r.actor \in Reports(inbox[a])
    BY DEF Reports
  <2> QED
    BY <2>1, <2>2 DEF OneShotInv, ReportedOnce, Reported
<1>4. \A a \in OnTheWay : a \in Actor /\ warrant[a] \in {"CONFIRMED", "FAILED"}
  BY <1>2, <1>3 DEF OnTheWay, Reports, Result
<1> QED
  BY <1>2, <1>3, <1>4

LEMMA ReportsKept ==
  ASSUME OneShotInv, UNCHANGED <<results, inbox>>,
         \A a \in Actor : warrant[a] \in {"CONFIRMED", "FAILED"}
                            => warrant'[a] = warrant[a]
  PROVE  ReportedOnce' /\ OnTheWay' = OnTheWay
<1>1. Reported(results)'
  BY Settled DEF Reported, Result
<1>2. \A a \in Actor : \A r \in Messages(inbox[a]) : warrant'[r.actor] = r.stage
  BY Settled DEF Result
<1>3. OnTheWay' = OnTheWay
  BY DEF OnTheWay
<1> QED
  BY <1>1, <1>2, <1>3 DEF OneShotInv, ReportedOnce, Reported

LEMMA ToldGrows ==
  ASSUME OneShotInv,
         \A a \in Actor : warrant[a] = "CONFIRMED" => warrant'[a] = "CONFIRMED",
         \A a \in Actor : warrant[a] = "CONFIRMED" /\ a \in OnTheWay'
                            => a \in OnTheWay,
         NEW o
  PROVE  /\ Told(o) \subseteq Told(o)'
         /\ IsFiniteSet(Told(o)') /\ Cardinality(Told(o)') \in Nat
         /\ Cardinality(Told(o)) <= Cardinality(Told(o)')
<1>1. Told(o) \subseteq Told(o)'
  BY DEF Told
<1>2. \A a \in Told(o)' : a \in Actor /\ a[1] = o
  BY DEF Told
<1>3. IsFiniteSet(Told(o)') /\ Cardinality(Told(o)') \in Nat
  BY <1>2, ActorsFinite
<1> QED
  BY <1>1, <1>3, FS_Subset

\* The tables' part of the invariant, when nothing is told to Hermes and Hermes
\* does nothing.
Tables == BookedOnce /\ LoggedOnce /\ AmountsMatchTransactions

LEMMA Counts ==
  ASSUME OneShotInv, NEW o \in Order
  PROVE  /\ row[o].booked \in Nat /\ refused[o] \in Nat
         /\ \A T : Queued(T) \in Nat
         /\ Booked(o) \in Nat
         /\ Logged(o) \subseteq Told(o)
         /\ IsFiniteSet(Logged(o)) /\ Cardinality(Logged(o)) \in Nat
         /\ Confirmed(o) \in Nat
<1>1. row[o].booked \in Nat /\ refused[o] \in Nat
  BY Types
<1>2. ASSUME NEW T PROVE Queued(T) \in Nat
  <2>1. Among(queue, T) \in Nat
    BY Types, AmongType
  <2> QED
    BY <2>1 DEF Queued, Among
<1>3. Logged(o) \subseteq Told(o)
  BY DEF Logged, OneShotInv, LoggedOnce
<1>4. IsFiniteSet(Logged(o)) /\ Cardinality(Logged(o)) \in Nat
  BY <1>3, ToldFinite, FS_Subset, FS_CardinalityType
<1> QED
  BY <1>1, <1>2, <1>3, <1>4 DEF Booked, Confirmed

LEMMA TablesKept ==
  ASSUME OneShotInv, UNCHANGED hermesVars,
         \A a \in Actor : warrant[a] = "CONFIRMED" => warrant'[a] = "CONFIRMED",
         \A a \in Actor : warrant[a] = "CONFIRMED" /\ a \in OnTheWay'
                            => a \in OnTheWay
  PROVE  Tables'
<1>1. /\ row' = row /\ txs' = txs /\ queue' = queue /\ refused' = refused
  BY DEF hermesVars
<1>2. \A o \in Order : Booked(o)' = Booked(o) /\ Confirmed(o)' = Confirmed(o)
  BY <1>1 DEF Booked, Confirmed, Queued, Logged, Bookings, Logs,
              IncrementOrderAmounts, LogTransaction
<1>3. AmountsMatchTransactions'
  BY <1>1, <1>2 DEF AmountsMatchTransactions, OneShotInv
<1>4. BookedOnce'
  <2> SUFFICES ASSUME NEW o \in Order PROVE Booked(o)' <= Cardinality(Told(o)')
    BY DEF BookedOnce
  <2>1. Booked(o) <= Cardinality(Told(o)) /\ Booked(o) \in Nat
    BY Counts DEF OneShotInv, BookedOnce
  <2>2. /\ Cardinality(Told(o)) <= Cardinality(Told(o)')
        /\ Cardinality(Told(o)) \in Nat /\ Cardinality(Told(o)') \in Nat
    BY ToldGrows, ToldFinite
  <2> QED
    BY <1>2, <2>1, <2>2
<1>5. \A o : Told(o) \subseteq Told(o)'
  BY ToldGrows
<1>6. LoggedOnce'
  <2>1. ASSUME NEW s \in DOMAIN txs, txs[s].status = "CONFIRMED"
        PROVE  s \in Told(txs[s].order)'
    <3>1. PICK o : o = txs[s].order
      OBVIOUS
    <3>2. s \in Told(o) /\ o = txs'[s].order
      BY <1>1, <2>1, <3>1 DEF OneShotInv, LoggedOnce
    <3>3. s \in Told(o)'
      BY <1>5, <3>2
    <3> QED
      BY <1>1, <3>1, <3>3 DEF Told
  <2>2. ASSUME NEW c \in Messages(queue), Confirms(c)
        PROVE  (c.sig \in Told(c.order))'
    <3>1. PICK o : o = c.order
      OBVIOUS
    <3>2. c.sig \in Told(o)
      BY <2>2, <3>1 DEF OneShotInv, LoggedOnce
    <3>3. c.sig \in Told(o)'
      BY <1>5, <3>2
    <3> QED
      BY <3>1, <3>3
  <2> QED
    BY <1>1, <2>1, <2>2 DEF OneShotInv, LoggedOnce, Messages, SigOnce, Confirms
<1> QED
  BY <1>3, <1>4, <1>6 DEF Tables

-----------------------------------------------------------------------------
(* The steps that tell Hermes nothing and move no report.                  *)

\* Actors and executor may go on, as long as no trade's end is changed.
LEMMA QuietStep ==
  ASSUME OneShotInv, Typed', Numbered', OrderedOnce',
         UNCHANGED <<hermesVars, results, inbox>>,
         landed \subseteq landed',
         \A a \in Actor : \/ warrant'[a] = warrant[a]
                          \/ /\ warrant[a] \notin {"CONFIRMED", "FAILED"}
                             /\ warrant'[a] # "CONFIRMED"
  PROVE  OneShotInv'
<1>1. ReportedOnce' /\ OnTheWay' = OnTheWay
  BY ReportsKept
<1>2. \A a \in Actor : warrant[a] = "CONFIRMED" <=> warrant'[a] = "CONFIRMED"
  OBVIOUS
<1>3. ConfirmedLanded'
  BY <1>2 DEF OneShotInv, ConfirmedLanded
<1>4. Tables'
  BY <1>1, <1>2, TablesKept
<1> QED
  BY <1>1, <1>3, <1>4 DEF OneShotInv, Tables

LEMMA OrdersSent ==
  ASSUME OneShotInv, NEW c \in CommandMsg, commands' = Append(commands, c),
         c.kind # "forward", warrant' = warrant,
         \A a \in Actor : phase'[a] \in {"none", "activating"} => phase'[a] = phase[a]
  PROVE  OrderedOnce'
<1>1. Messages(commands') = Messages(commands) \cup {c}
  BY CommandSent
<1>2. ForwardOnce(commands')
  BY Types, OnceAppend DEF OneShotInv, OrderedOnce
<1> QED
  BY <1>1, <1>2 DEF OneShotInv, OrderedOnce

LEMMA DeliverStep ==
  ASSUME OneShotInv, NEW o \in Order, DeliverCreation(o) \/ DeliverRemoval(o)
  PROVE  OneShotInv'
<1>1. PICK k \in {"create", "remove"} :
        /\ commands' = Append(commands, [kind |-> k, order |-> o])
        /\ k = "create" => /\ delivered[o] < Deliveries
                           /\ delivered' = [delivered EXCEPT ![o] = @ + 1]
        /\ k = "remove" => delivered' = delivered
        /\ removed' \subseteq removed \cup {o}
  BY DEF DeliverCreation, DeliverRemoval
<1>2. UNCHANGED <<hermesVars, buffettVars, actorVars, executorVars, forgotten>>
  BY DEF DeliverCreation, DeliverRemoval
<1> DEFINE c == [kind |-> k, order |-> o]
<1>3. c \in CommandMsg /\ c.kind # "forward" /\ commands' = Append(commands, c)
  BY <1>1, CommandKinds
<1>4. \A p \in Order : /\ c = [kind |-> "create", order |-> p] => k = "create" /\ p = o
  OBVIOUS
<1> HIDE DEF c
<1>5. /\ commands' \in Seq(CommandMsg)
      /\ \A p : /\ Coming(p) \in Nat
                /\ Coming(p)' = Coming(p)
                     + (IF c = [kind |-> "create", order |-> p] THEN 1 ELSE 0)
  BY <1>3, CommandSent
<1>6. /\ delivered' \in [Order -> 0 .. Deliveries]
      /\ \A p \in Order : /\ delivered[p] \in Nat /\ delivered'[p] \in Nat
                          /\ delivered[p] <= delivered'[p]
      /\ k = "create" => delivered'[o] = delivered[o] + 1
  <2>1. delivered \in [Order -> 0 .. Deliveries] /\ Deliveries \in Nat
    BY Types
  <2>2. CASE k = "create"
    <3>1. delivered' = [delivered EXCEPT ![o] = delivered[o] + 1]
      BY <1>1, <2>2
    <3>2. delivered[o] + 1 \in 0 .. Deliveries
      BY <1>1, <2>1, <2>2
    <3> QED
      BY <2>1, <3>1, <3>2
  <2>3. CASE k = "remove"
    BY <1>1, <2>1, <2>3
  <2> QED
    BY <2>2, <2>3
<1>7. Typed'
  BY <1>1, <1>2, <1>5, <1>6
  DEF OneShotInv, Typed, TypeOK, hermesVars, buffettVars, actorVars, executorVars
<1>8. Numbered'
  <2>1. ASSUME NEW p \in Order PROVE built[p] + Coming(p)' <= delivered'[p]
    <3>1. built[p] + Coming(p) <= delivered[p] /\ built[p] \in Nat
      BY Types DEF OneShotInv, Numbered
    <3> QED
      BY <1>4, <1>5, <1>6, <3>1
  <2> QED
    BY <1>2, <2>1 DEF OneShotInv, Numbered, buffettVars, actorVars
<1>9. OrderedOnce'
  BY <1>2, <1>3, OrdersSent DEF actorVars, executorVars
<1> QED
  BY <1>2, <1>7, <1>8, <1>9, QuietStep DEF actorVars, executorVars

\* A command that was not a creation, or that no actor came of.
LEMMA TakenStep ==
  ASSUME OneShotInv, NEW kind, Take(kind),
         UNCHANGED <<delivered, phase, built>>,
         \A p \in Order : registered'[p] \in {0, registered[p]},
         warrant' = warrant
  PROVE  Numbered' /\ OrderedOnce'
<1>1. /\ Messages(commands') \subseteq Messages(commands)
      /\ ForwardOnce(commands')
      /\ \A p : Coming(p) \in Nat /\ Coming(p)' \in Nat /\ Coming(p)' <= Coming(p)
  BY CommandTaken
<1>2. ASSUME NEW p \in Order
      PROVE  built[p] + Coming(p)' <= delivered[p] /\ registered'[p] <= built[p]
  <2>1. /\ built[p] \in Nat /\ delivered[p] \in Nat /\ registered[p] \in Nat
        /\ built[p] + Coming(p) <= delivered[p] /\ registered[p] <= built[p]
    BY Types DEF OneShotInv, Numbered
  <2> QED
    BY <1>1, <2>1
<1> QED
  BY <1>1, <1>2 DEF OneShotInv, Numbered, OrderedOnce

LEMMA HandleCreateStep ==
  ASSUME OneShotInv, HandleCreate
  PROVE  OneShotInv'
<1>1. /\ Take("create")
      /\ UNCHANGED <<hermesVars, janusVars, inbox, executorVars, forgotten>>
  BY DEF HandleCreate
<1>2. PICK o, n, ready :
        /\ o = Subject /\ n = built[o] + 1
        /\ built' = [built EXCEPT ![o] = n]
        /\ registered' = [registered EXCEPT ![o] = IF ready THEN n ELSE 0]
        /\ phase' = [phase EXCEPT ![<<o, n>>] = "activating"]
  BY DEF HandleCreate
<1>3. /\ Head(commands) \in CommandMsg /\ Head(commands).kind = "create"
      /\ commands' \in Seq(CommandMsg)
      /\ Messages(commands') \subseteq Messages(commands)
      /\ ForwardOnce(commands')
      /\ \A p : /\ Coming(p) \in Nat /\ Coming(p)' \in Nat /\ Coming(p)' <= Coming(p)
                /\ Head(commands) = [kind |-> "create", order |-> p] =>
                     Coming(p)' = Coming(p) - 1
  BY <1>1, CommandTaken
<1>4. o \in Order /\ Coming(o)' = Coming(o) - 1
  <2>1. Head(commands) = [kind |-> "create", order |-> o] /\ o \in Order
    BY <1>2, <1>3, CommandKinds DEF Subject
  <2> QED
    BY <1>3, <2>1
<1>5. /\ built[o] + Coming(o) <= delivered[o] /\ built[o] \in Nat
      /\ delivered[o] \in 0 .. Deliveries /\ Deliveries \in Nat
  BY <1>4, Types DEF OneShotInv, Numbered
<1>6. n \in 1 .. Deliveries /\ <<o, n>> \in Actor
      /\ <<o, n>>[1] = o /\ <<o, n>>[2] = n
  <2>1. n \in 1 .. Deliveries
    BY <1>2, <1>3, <1>4, <1>5
  <2> QED
    BY <1>4, <2>1, Actors
<1>7. phase[<<o, n>>] = "none" /\ warrant[<<o, n>>] = "none"
  BY <1>2, <1>5, <1>6 DEF OneShotInv, Numbered, OrderedOnce
<1>8. Typed'
  <2>1. built' \in [Order -> 0 .. Deliveries] /\ registered' \in [Order -> 0 .. Deliveries]
    BY <1>2, <1>4, <1>6, Types
  <2>2. phase' \in [Actor -> Phase]
    BY <1>2, <1>6, Types DEF Phase
  <2> QED
    BY <1>1, <1>3, <2>1, <2>2
    DEF OneShotInv, Typed, TypeOK, hermesVars, janusVars, executorVars
<1>9. Numbered'
  <2>1. ASSUME NEW p \in Order
        PROVE  built'[p] + Coming(p)' <= delivered'[p] /\ registered'[p] <= built'[p]
    <3>1. /\ built[p] + Coming(p) <= delivered[p] /\ registered[p] <= built[p]
          /\ built[p] \in Nat /\ delivered[p] \in Nat /\ registered[p] \in Nat
          /\ Coming(p) \in Nat /\ Coming(p)' \in Nat /\ Coming(p)' <= Coming(p)
          /\ delivered' = delivered
      BY <1>1, <1>3, Types DEF OneShotInv, Numbered, janusVars
    <3>2. CASE p = o
      BY <1>2, <1>4, <1>5, <3>1, <3>2, Types
    <3>3. CASE p # o
      <4>1. built'[p] = built[p] /\ registered'[p] = registered[p]
        BY <1>2, <3>3, Types
      <4> QED
        BY <3>1, <4>1
    <3> QED
      BY <3>2, <3>3
  <2>2. ASSUME NEW a \in Actor, a[2] > built'[a[1]]
        PROVE  phase'[a] = "none"
    <3>1. a[1] \in Order /\ a[2] \in Nat /\ built[a[1]] \in Nat
      BY Actors, Types
    <3>2. a[2] > built[a[1]] /\ a # <<o, n>>
      <4>1. CASE a[1] = o
        BY <1>2, <1>4, <1>5, <1>6, <2>2, <3>1, <4>1, Types
      <4>2. CASE a[1] # o
        BY <1>2, <1>6, <2>2, <3>1, <4>2, Types
      <4> QED
        BY <4>1, <4>2
    <3> QED
      BY <1>2, <3>2, Types DEF OneShotInv, Numbered
  <2> QED
    BY <2>1, <2>2 DEF Numbered
<1>10. OrderedOnce'
  <2>1. ASSUME NEW a \in Actor, phase'[a] \in {"none", "activating"}
        PROVE  warrant'[a] = "none"
    BY <1>1, <1>2, <1>7, <2>1, Types DEF OneShotInv, OrderedOnce, executorVars
  <2> QED
    BY <1>1, <1>3, <2>1 DEF OneShotInv, OrderedOnce, executorVars
<1> QED
  BY <1>1, <1>8, <1>9, <1>10, QuietStep DEF executorVars

\* A completion, and a creation that fails, leave the order without an actor.
LEMMA LeaveStep ==
  ASSUME OneShotInv, CreateFails \/ HandleComplete
  PROVE  OneShotInv'
<1>1. PICK kind \in {"create", "complete"} : Take(kind)
  BY DEF CreateFails, HandleComplete
<1>2. /\ registered' = [registered EXCEPT ![Subject] = 0]
      /\ UNCHANGED <<hermesVars, janusVars, built, actorVars, executorVars, forgotten>>
  BY DEF CreateFails, HandleComplete
<1>3. commands' \in Seq(CommandMsg)
  BY <1>1, CommandTaken
<1>4. /\ registered' \in [Order -> 0 .. Deliveries]
      /\ \A p \in Order : registered'[p] \in {0, registered[p]}
  <2>1. PICK s : registered' = [registered EXCEPT ![s] = 0]
    BY <1>2
  <2>2. registered \in [Order -> 0 .. Deliveries] /\ 0 \in 0 .. Deliveries
    BY Types
  <2>3. \A p \in Order : registered'[p] = IF p = s THEN 0 ELSE registered[p]
    BY <2>1, <2>2
  <2>4. registered' \in [Order -> 0 .. Deliveries]
    BY <2>1, <2>2
  <2> QED
    BY <2>3, <2>4
<1>5. Typed'
  BY <1>2, <1>3, <1>4
  DEF OneShotInv, Typed, TypeOK, hermesVars, janusVars, actorVars, executorVars
<1>6. Numbered' /\ OrderedOnce'
  BY <1>1, <1>2, <1>4, TakenStep DEF janusVars, actorVars, executorVars
<1> QED
  BY <1>2, <1>5, <1>6, QuietStep DEF actorVars, executorVars

LEMMA HandleForwardStep ==
  ASSUME OneShotInv, HandleForward
  PROVE  OneShotInv'
<1>1. /\ Take("forward")
      /\ UNCHANGED <<hermesVars, janusVars, buffettVars, actorVars, results,
                     landed, forgotten>>
  BY DEF HandleForward
<1>2. PICK b : /\ b = Head(commands).actor
               /\ warrant' = [warrant EXCEPT ![b] = "running"]
  BY DEF HandleForward
<1>3. /\ Head(commands) \in CommandMsg /\ Head(commands).kind = "forward"
      /\ Head(commands) \in Messages(commands)
      /\ commands' \in Seq(CommandMsg)
      /\ Messages(commands') \subseteq Messages(commands)
      /\ ForwardOnce(commands')
      /\ \A c \in Messages(commands') :
           c.kind = "forward" => c.actor # Head(commands).actor
      /\ \A p : Coming(p) \in Nat /\ Coming(p)' \in Nat /\ Coming(p)' <= Coming(p)
  BY <1>1, CommandTaken
<1>4. b \in Actor /\ warrant[b] = "queued"
  BY <1>2, <1>3, CommandKinds DEF OneShotInv, OrderedOnce
<1>5. /\ warrant' \in [Actor -> Fate]
      /\ \A a \in Actor : warrant'[a] = IF a = b THEN "running" ELSE warrant[a]
  BY <1>2, <1>4, Types DEF Fate
<1>6. Typed'
  BY <1>1, <1>3, <1>5
  DEF OneShotInv, Typed, TypeOK, hermesVars, janusVars, buffettVars, actorVars
<1>7. Numbered'
  <2>1. ASSUME NEW p \in Order PROVE built[p] + Coming(p)' <= delivered[p]
    <3>1. /\ built[p] \in Nat /\ delivered[p] \in Nat
          /\ built[p] + Coming(p) <= delivered[p]
      BY Types DEF OneShotInv, Numbered
    <3> QED
      BY <1>3, <3>1
  <2> QED
    BY <1>1, <2>1 DEF OneShotInv, Numbered, janusVars, buffettVars, actorVars
<1>8. OrderedOnce'
  <2>1. ASSUME NEW a \in Actor, phase'[a] \in {"none", "activating"}
        PROVE  warrant'[a] = "none"
    <3>1. warrant[a] = "none"
      BY <1>1, <2>1 DEF OneShotInv, OrderedOnce, actorVars
    <3> QED
      BY <1>4, <1>5, <3>1
  <2>2. ASSUME NEW c \in Messages(commands'), c.kind = "forward"
        PROVE  warrant'[c.actor] = "queued"
    <3>1. warrant[c.actor] = "queued" /\ c.actor # b
      BY <1>2, <1>3, <2>2 DEF OneShotInv, OrderedOnce
    <3>2. c.actor \in Actor
      BY <1>3, <2>2, MessagesType, CommandKinds
    <3> QED
      BY <1>5, <3>1, <3>2
  <2> QED
    BY <1>3, <2>1, <2>2 DEF OrderedOnce
<1> QED
  BY <1>1, <1>4, <1>5, <1>6, <1>7, <1>8, QuietStep DEF actorVars

LEMMA PhaseStep ==
  ASSUME OneShotInv, NEW a \in Actor,
         InitializeFails(a) \/ ActivateFails(a) \/ Closed(a)
  PROVE  OneShotInv'
<1>1. PICK p \in {"failed", "waiting", "done"} :
        /\ phase[a] \in {"activating", "waiting"}
        /\ phase' = [phase EXCEPT ![a] = p]
  BY DEF InitializeFails, ActivateFails, Closed
<1>2. /\ UNCHANGED <<hermesVars, commands, janusVars, buffettVars, inbox, executorVars>>
      /\ forgotten' \subseteq forgotten \cup {a[1]}
  BY DEF InitializeFails, ActivateFails, Closed
<1>3. /\ phase' \in [Actor -> Phase]
      /\ \A b \in Actor : phase'[b] = IF b = a THEN p ELSE phase[b]
  BY <1>1, Types DEF Phase
<1>4. Typed'
  BY SMTT(20), <1>2, <1>3, Actors
  DEF OneShotInv, Typed, TypeOK, hermesVars, janusVars, buffettVars, executorVars
<1>5. Numbered'
  <2>1. \A b \in Actor : b[2] > built[b[1]] => b # a /\ phase'[b] = "none"
    BY <1>1, <1>3 DEF OneShotInv, Numbered
  <2>2. \A o : Coming(o)' = Coming(o)
    BY <1>2 DEF Coming
  <2> QED
    BY <1>2, <2>1, <2>2 DEF OneShotInv, Numbered, janusVars, buffettVars
<1>6. OrderedOnce'
  BY <1>1, <1>2, <1>3 DEF OneShotInv, OrderedOnce, executorVars
<1> QED
  BY <1>2, <1>4, <1>5, <1>6, QuietStep DEF executorVars

LEMMA ActivateStep ==
  ASSUME OneShotInv, NEW a \in Actor, Activate(a)
  PROVE  OneShotInv'
<1> DEFINE c == [kind |-> "forward", actor |-> a]
<1>1. /\ phase[a] = "activating"
      /\ phase' = [phase EXCEPT ![a] = "waiting"]
      /\ warrant' = [warrant EXCEPT ![a] = "queued"]
      /\ commands' = Append(commands, c)
      /\ UNCHANGED <<hermesVars, janusVars, buffettVars, inbox, results, landed,
                     forgotten>>
  BY DEF Activate
<1>2. c \in CommandMsg /\ c.kind = "forward" /\ c.actor = a
      /\ \A o : c # [kind |-> "create", order |-> o]
  BY CommandKinds
<1> HIDE DEF c
<1>3. /\ phase' \in [Actor -> Phase]
      /\ \A b \in Actor : phase'[b] = IF b = a THEN "waiting" ELSE phase[b]
  BY <1>1, Types DEF Phase
<1>4. /\ warrant' \in [Actor -> Fate]
      /\ \A b \in Actor : warrant'[b] = IF b = a THEN "queued" ELSE warrant[b]
  BY <1>1, Types DEF Fate
<1>5. /\ commands' \in Seq(CommandMsg)
      /\ Messages(commands') = Messages(commands) \cup {c}
      /\ \A o : Coming(o) \in Nat /\ Coming(o)' = Coming(o)
  <2>1. \A o : Coming(o) \in Nat /\ Coming(o)' = Coming(o) + 0
    BY <1>1, <1>2, CommandSent
  <2> QED
    BY <1>1, <1>2, <2>1, CommandSent
<1>6. warrant[a] = "none"
  BY <1>1 DEF OneShotInv, OrderedOnce
<1>7. Typed'
  BY <1>1, <1>3, <1>4, <1>5
  DEF OneShotInv, Typed, TypeOK, hermesVars, janusVars, buffettVars
<1>8. Numbered'
  <2>1. \A b \in Actor : b[2] > built[b[1]] => b # a /\ phase'[b] = "none"
    BY <1>1, <1>3 DEF OneShotInv, Numbered
  <2> QED
    BY <1>1, <1>5, <2>1 DEF OneShotInv, Numbered, janusVars, buffettVars
<1>9. OrderedOnce'
  <2>1. \A b \in Actor : phase'[b] \in {"none", "activating"} => warrant'[b] = "none"
    BY <1>3, <1>4 DEF OneShotInv, OrderedOnce
  <2>2. ASSUME NEW d \in Messages(commands), d.kind = "forward"
        PROVE  d.actor # a /\ warrant'[d.actor] = "queued"
    <3>1. d.actor \in Actor
      BY <2>2, MessagesType, CommandKinds, Types
    <3>2. warrant[d.actor] = "queued"
      BY <2>2 DEF OneShotInv, OrderedOnce
    <3> QED
      BY <1>4, <1>6, <3>1, <3>2
  <2>3. warrant'[c.actor] = "queued"
    BY <1>2, <1>4
  <2>4. ForwardOnce(commands')
    BY <1>1, <1>2, <2>2, Types, OnceAppend DEF OneShotInv, OrderedOnce
  <2> QED
    BY <1>5, <2>1, <2>2, <2>3, <2>4 DEF OrderedOnce
<1> QED
  BY <1>1, <1>4, <1>6, <1>7, <1>8, <1>9, QuietStep

\* The orders' part does not see what happens to a trade that runs.
LEMMA OrdersKept ==
  ASSUME OneShotInv, UNCHANGED <<commands, delivered, built, registered, phase>>,
         \A a \in Actor : \/ warrant'[a] = warrant[a]
                          \/ warrant[a] = "running"
  PROVE  Numbered' /\ OrderedOnce'
<1>1. \A o : Coming(o)' = Coming(o)
  BY DEF Coming
<1>2. ASSUME NEW c \in Messages(commands), c.kind = "forward"
      PROVE  warrant'[c.actor] = "queued"
  <2>1. c.actor \in Actor
    BY <1>2, MessagesType, CommandKinds, Types
  <2> QED
    BY <1>2, <2>1 DEF OneShotInv, OrderedOnce
<1> QED
  BY <1>1, <1>2 DEF OneShotInv, Numbered, OrderedOnce

LEMMA LandStep ==
  ASSUME OneShotInv, NEW a \in Actor, Land(a) \/ Unplanned(a)
  PROVE  OneShotInv'
<1>1. /\ UNCHANGED <<hermesVars, commands, janusVars, buffettVars, actorVars,
                     results, forgotten>>
      /\ landed \subseteq landed' /\ landed' \subseteq landed \cup {a}
      /\ \/ warrant' = warrant
         \/ warrant[a] = "running" /\ warrant' = [warrant EXCEPT ![a] = "unplanned"]
  BY DEF Land, Unplanned
<1>2. /\ warrant' \in [Actor -> Fate]
      /\ \A b \in Actor : \/ warrant'[b] = warrant[b]
                          \/ warrant[b] = "running" /\ warrant'[b] = "unplanned"
  BY <1>1, Types DEF Fate
<1>3. Typed'
  BY <1>1, <1>2
  DEF OneShotInv, Typed, TypeOK, hermesVars, janusVars, buffettVars, actorVars
<1>4. Numbered' /\ OrderedOnce'
  BY <1>1, <1>2, OrdersKept DEF janusVars, buffettVars, actorVars
<1> QED
  BY <1>1, <1>2, <1>3, <1>4, QuietStep DEF actorVars

-----------------------------------------------------------------------------
(* The steps that move a report.                                           *)

LEMMA ReportStep ==
  ASSUME OneShotInv, NEW a \in Actor, Confirm(a) \/ Fail(a)
  PROVE  OneShotInv'
<1>1. PICK stage \in {"CONFIRMED", "FAILED"} :
        Report(a, stage) /\ (stage = "CONFIRMED" => a \in landed)
  BY DEF Confirm, Fail
<1> DEFINE r == [actor |-> a, stage |-> stage]
<1>2. /\ warrant[a] = "running"
      /\ warrant' = [warrant EXCEPT ![a] = stage]
      /\ results' = Append(results, r)
      /\ UNCHANGED <<hermesVars, commands, janusVars, buffettVars, actorVars,
                     landed, forgotten>>
  BY <1>1 DEF Report
<1>3. r \in Result /\ r.actor = a /\ r.stage = stage
  BY DEF Result
<1> HIDE DEF r
<1>4. /\ results \in Seq(Result) /\ results' \in Seq(Result)
      /\ Messages(results') = Messages(results) \cup {r}
  BY <1>2, <1>3, Types, Appended, MessagesAppend
<1>5. /\ warrant' \in [Actor -> Fate]
      /\ \A b \in Actor : warrant'[b] = IF b = a THEN stage ELSE warrant[b]
  BY <1>2, Types DEF Fate
<1>6. a \notin OnTheWay
  BY <1>2, Settled
<1>7. \A b \in Actor : a \notin Reports(inbox[b])
  BY <1>6 DEF OnTheWay
<1>8. a \notin Reports(results)
  BY <1>6 DEF OnTheWay
<1>9. Reports(results') = Reports(results) \cup {a}
  BY <1>3, <1>4 DEF Reports
<1>10. Typed'
  BY <1>2, <1>4, <1>5
  DEF OneShotInv, Typed, TypeOK, hermesVars, janusVars, buffettVars, actorVars
<1>11. Numbered' /\ OrderedOnce'
  BY <1>2, <1>5, OrdersKept DEF janusVars, buffettVars, actorVars
<1>12. ReportedOnce'
  <2>1. EachOnce(results')
    <3>1. EachOnce(results) /\ \A q \in Messages(results) : q.actor # r.actor
      BY <1>3, <1>8 DEF OneShotInv, ReportedOnce, Reports
    <3> QED
      BY <1>2, <1>3, <1>4, <3>1, OnceAppend
  <2>2. \A q \in Messages(results') : warrant'[q.actor] = q.stage
    <3>1. ASSUME NEW q \in Messages(results) PROVE warrant'[q.actor] = q.stage
      BY <1>5, <1>8, Settled DEF Result, Reports
    <3> QED
      BY <1>3, <1>4, <1>5, <3>1
  <2>3. \A b \in Actor : \A q \in Messages(inbox[b]) : warrant'[q.actor] = q.stage
    BY <1>5, <1>7, Settled DEF Result, Reports
  <2>4. inbox' = inbox
    BY <1>2 DEF actorVars
  <2>5. \A b \in Actor : Reports(results') \cap Reports(inbox[b]) = {}
    BY <1>7, <1>9 DEF OneShotInv, ReportedOnce
  <2> QED
    BY <2>1, <2>2, <2>3, <2>4, <2>5 DEF OneShotInv, ReportedOnce, Reported
<1>13. ConfirmedLanded'
  BY <1>1, <1>2, <1>5 DEF OneShotInv, ConfirmedLanded
<1>14. Tables'
  <2>1. OnTheWay' = OnTheWay \cup {a}
    BY <1>2, <1>9 DEF OnTheWay, actorVars
  <2>2. \A b \in Actor : warrant[b] = "CONFIRMED" => b # a
    BY <1>2
  <2> QED
    BY <1>2, <1>5, <2>1, <2>2, TablesKept
<1> QED
  BY <1>10, <1>11, <1>12, <1>13, <1>14 DEF OneShotInv, Tables

LEMMA RouteStep ==
  ASSUME OneShotInv, RouteResult
  PROVE  OneShotInv'
<1>1. PICK r, a :
        /\ r = Head(results) /\ a = <<r.actor[1], registered[r.actor[1]]>>
        /\ \/ /\ a \in Actor
              /\ inbox' = [inbox EXCEPT ![a] = Append(@, r)]
              /\ forgotten' = forgotten
           \/ /\ inbox' = inbox
              /\ forgotten' = forgotten \cup {a[1]}
  BY DEF RouteResult
<1>2. /\ results # << >> /\ results' = Tail(results)
      /\ UNCHANGED <<hermesVars, commands, janusVars, buffettVars, phase,
                     warrant, landed>>
  BY DEF RouteResult
<1>3. /\ results \in Seq(Result) /\ EachOnce(results)
  BY Types DEF OneShotInv, ReportedOnce
<1>4. /\ r \in Result /\ results' \in Seq(Result)
      /\ Messages(results) = Messages(results') \cup {r}
  BY <1>1, <1>2, <1>3, MessagesTail
<1>5. EachOnce(results') /\ \A q \in Messages(results') : q.actor # r.actor
  BY <1>1, <1>2, <1>3, OnceTail
<1>6. r.actor \in Actor /\ r.actor[1] \in Order /\ a[1] = r.actor[1]
  BY <1>1, <1>4, Actors DEF Result
<1>7. /\ Reports(results) = Reports(results') \cup {r.actor}
      /\ r.actor \notin Reports(results')
      /\ warrant[r.actor] = r.stage
  BY <1>4, <1>5, Settled DEF Reports
<1>8. \A b \in Actor : r.actor \notin Reports(inbox[b])
  BY <1>7 DEF OneShotInv, ReportedOnce
<1>9. CASE inbox' = inbox
  <2>1. Typed'
    BY <1>1, <1>2, <1>4, <1>6, <1>9, Types
    DEF OneShotInv, Typed, TypeOK, hermesVars, janusVars, buffettVars
  <2>2. Numbered' /\ OrderedOnce'
    BY <1>2, OrdersKept DEF janusVars, buffettVars
  <2>3. ReportedOnce'
    BY <1>2, <1>4, <1>5, <1>7, <1>9 DEF OneShotInv, ReportedOnce, Reported
  <2>4. OnTheWay' \subseteq OnTheWay
    BY <1>7, <1>9 DEF OnTheWay
  <2>5. Tables' /\ ConfirmedLanded'
    BY <1>2, <2>4, TablesKept DEF OneShotInv, ConfirmedLanded
  <2> QED
    BY <2>1, <2>2, <2>3, <2>5 DEF OneShotInv, Tables
<1>10. CASE a \in Actor /\ inbox' = [inbox EXCEPT ![a] = Append(@, r)]
  <2>1. /\ inbox[a] \in Seq(Result) /\ inbox'[a] = Append(inbox[a], r)
        /\ \A b \in Actor : b # a => inbox'[b] = inbox[b]
        /\ inbox' \in [Actor -> Seq(Result)]
    <3>1. inbox \in [Actor -> Seq(Result)] /\ Append(inbox[a], r) \in Seq(Result)
      BY <1>4, <1>10, Types, Appended
    <3> QED
      BY <1>10, <3>1
  <2>2. Messages(inbox'[a]) = Messages(inbox[a]) \cup {r}
    BY <1>4, <2>1, MessagesAppend
  <2>3. Reports(inbox'[a]) = Reports(inbox[a]) \cup {r.actor}
    BY <2>2 DEF Reports
  <2>4. EachOnce(inbox'[a])
    <3>1. EachOnce(inbox[a]) /\ \A q \in Messages(inbox[a]) : q.actor # r.actor
      BY <1>8, <1>10 DEF OneShotInv, ReportedOnce, Reports
    <3> QED
      BY <1>4, <2>1, <3>1, OnceAppend
  <2>5. Typed'
    BY <1>1, <1>2, <1>4, <1>6, <2>1, Types
    DEF OneShotInv, Typed, TypeOK, hermesVars, janusVars, buffettVars
  <2>6. Numbered' /\ OrderedOnce'
    BY <1>2, OrdersKept DEF janusVars, buffettVars
  <2>7. ReportedOnce'
    <3>1. EachOnce(results') /\ \A q \in Messages(results') : warrant'[q.actor] = q.stage
      BY <1>2, <1>4, <1>5, Settled
    <3>2. ASSUME NEW b \in Actor
          PROVE  /\ EachOnce(inbox'[b])
                 /\ \A q \in Messages(inbox'[b]) : warrant'[q.actor] = q.stage
                 /\ \A d \in Reports(inbox'[b]) : d[1] = b[1]
                 /\ Reports(results') \cap Reports(inbox'[b]) = {}
      <4>1. CASE b = a
        <5>1. \A q \in Messages(inbox'[a]) : warrant'[q.actor] = q.stage
          BY <1>2, <1>7, <1>10, <2>2, Settled
        <5>2. \A d \in Reports(inbox'[a]) : d[1] = a[1]
          BY <1>6, <1>10, <2>3 DEF OneShotInv, ReportedOnce
        <5>3. Reports(results') \cap Reports(inbox'[a]) = {}
          BY <1>7, <1>10, <2>3 DEF OneShotInv, ReportedOnce
        <5> QED
          BY <2>4, <4>1, <5>1, <5>2, <5>3
      <4>2. CASE b # a
        BY ZenonT(40), <1>2, <1>7, <2>1, <4>2, Settled DEF OneShotInv, ReportedOnce
      <4> QED
        BY <4>1, <4>2
    <3>3. ASSUME NEW b \in Actor, NEW d \in Actor, d # b
          PROVE  Reports(inbox'[d]) \cap Reports(inbox'[b]) = {}
      <4>1. Reports(inbox[d]) \cap Reports(inbox[b]) = {}
        BY <3>3 DEF OneShotInv, ReportedOnce
      <4> QED
        BY <1>8, <2>1, <2>3, <3>3, <4>1
    <3> QED
      BY <3>1, <3>2, <3>3 DEF ReportedOnce, Reported
  <2>8. OnTheWay' \subseteq OnTheWay
    <3>1. \A b \in Actor : Reports(inbox'[b]) \subseteq Reports(inbox[b]) \cup {r.actor}
      BY <2>1, <2>3
    <3> QED
      BY <1>7, <3>1 DEF OnTheWay
  <2>9. Tables' /\ ConfirmedLanded'
    BY <1>2, <2>8, TablesKept DEF OneShotInv, ConfirmedLanded
  <2> QED
    BY <2>5, <2>6, <2>7, <2>9 DEF OneShotInv, Tables
<1> QED
  BY <1>1, <1>9, <1>10

\* An actor reads the one report of a trade of its order, and is done.
LEMMA ConcludeParts ==
  ASSUME OneShotInv, NEW a \in Actor, NEW stage, Conclude(a, stage),
         warrant' = warrant, NEW r, r = Head(inbox[a])
  PROVE  /\ r \in Result /\ r.stage = stage /\ r.actor[1] = a[1]
         /\ warrant[r.actor] = stage
         /\ r.actor \in OnTheWay /\ r.actor \notin OnTheWay'
         /\ OnTheWay' \subseteq OnTheWay
         /\ inbox' \in [Actor -> Seq(Result)]
         /\ phase' \in [Actor -> Phase]
         /\ commands' \in Seq(CommandMsg)
         /\ Numbered' /\ OrderedOnce' /\ ReportedOnce'
<1> DEFINE c == [kind |-> "complete", order |-> a[1]]
<1>1. /\ phase[a] = "waiting" /\ inbox[a] # << >> /\ r.stage = stage
      /\ inbox' = [inbox EXCEPT ![a] = Tail(@)]
      /\ phase' = [phase EXCEPT ![a] = "done"]
      /\ commands' = Append(commands, c)
      /\ UNCHANGED <<janusVars, buffettVars, executorVars>>
  BY DEF Conclude
<1>2. c \in CommandMsg /\ c.kind # "forward"
      /\ \A o : c # [kind |-> "create", order |-> o]
  BY Actors, CommandKinds
<1> HIDE DEF c
<1>3. inbox[a] \in Seq(Result) /\ EachOnce(inbox[a])
  BY Types DEF OneShotInv, ReportedOnce
<1>4. /\ r \in Result /\ Tail(inbox[a]) \in Seq(Result)
      /\ Messages(inbox[a]) = Messages(Tail(inbox[a])) \cup {r}
  BY <1>1, <1>3, MessagesTail
<1>5. EachOnce(Tail(inbox[a])) /\ \A q \in Messages(Tail(inbox[a])) : q.actor # r.actor
  BY <1>1, <1>3, OnceTail
<1>6. /\ inbox'[a] = Tail(inbox[a])
      /\ \A b \in Actor : b # a => inbox'[b] = inbox[b]
      /\ inbox' \in [Actor -> Seq(Result)]
  BY <1>1, <1>4, Types
<1>7. warrant[r.actor] = stage /\ r.actor \in Reports(inbox[a]) /\ r.actor[1] = a[1]
  BY <1>1, <1>4, Settled
<1>8. /\ Reports(inbox[a]) = Reports(inbox'[a]) \cup {r.actor}
      /\ r.actor \notin Reports(inbox'[a])
  BY <1>4, <1>5, <1>6 DEF Reports
<1>9. /\ r.actor \notin Reports(results)
      /\ \A b \in Actor : b # a => r.actor \notin Reports(inbox[b])
  BY <1>7 DEF OneShotInv, ReportedOnce
<1>10. results' = results
  BY <1>1 DEF executorVars
<1>11. \A b \in Actor : Reports(inbox'[b]) \subseteq Reports(inbox[b])
  BY <1>6, <1>8
<1>12. /\ r.actor \in OnTheWay /\ r.actor \notin OnTheWay'
       /\ OnTheWay' \subseteq OnTheWay
  <2>1. \A b \in Actor : r.actor \notin Reports(inbox'[b])
    BY <1>6, <1>8, <1>9
  <2> QED
    BY <1>7, <1>9, <1>10, <1>11, <2>1 DEF OnTheWay
<1>13. /\ phase' \in [Actor -> Phase]
       /\ \A b \in Actor : phase'[b] = IF b = a THEN "done" ELSE phase[b]
  BY <1>1, Types DEF Phase
<1>14. /\ commands' \in Seq(CommandMsg)
       /\ \A o : Coming(o)' = Coming(o)
  <2>1. \A o : Coming(o) \in Nat /\ Coming(o)' = Coming(o) + 0
    BY <1>1, <1>2, CommandSent
  <2> QED
    BY <1>1, <1>2, <2>1, CommandSent
<1>15. Numbered'
  <2>1. \A b \in Actor : b[2] > built[b[1]] => b # a /\ phase'[b] = "none"
    BY <1>1, <1>13 DEF OneShotInv, Numbered
  <2> QED
    BY <1>1, <1>14, <2>1 DEF OneShotInv, Numbered, janusVars, buffettVars
<1>16. OrderedOnce'
  BY <1>1, <1>2, <1>13, OrdersSent
<1>17. ReportedOnce'
  <2>1. EachOnce(results') /\ \A q \in Messages(results') : warrant'[q.actor] = q.stage
    BY <1>10, Settled DEF OneShotInv, ReportedOnce
  <2>2. ASSUME NEW b \in Actor
        PROVE  /\ EachOnce(inbox'[b])
               /\ \A q \in Messages(inbox'[b]) : warrant'[q.actor] = q.stage
               /\ \A d \in Reports(inbox'[b]) : d[1] = b[1]
               /\ Reports(results') \cap Reports(inbox'[b]) = {}
    <3>1. EachOnce(inbox'[b]) /\ Messages(inbox'[b]) \subseteq Messages(inbox[b])
      <4>1. CASE b = a
        BY <1>4, <1>5, <1>6, <4>1
      <4>2. CASE b # a
        BY <1>6, <4>2 DEF OneShotInv, ReportedOnce
      <4> QED
        BY <4>1, <4>2
    <3> QED
      BY <1>10, <1>11, <3>1, Settled DEF OneShotInv, ReportedOnce
  <2>3. ASSUME NEW b \in Actor, NEW d \in Actor, d # b
        PROVE  Reports(inbox'[d]) \cap Reports(inbox'[b]) = {}
    BY <1>11, <2>3 DEF OneShotInv, ReportedOnce
  <2> QED
    BY <2>1, <2>2, <2>3 DEF ReportedOnce, Reported
<1> QED
  BY <1>1, <1>4, <1>6, <1>7, <1>12, <1>13, <1>14, <1>15, <1>16, <1>17

-----------------------------------------------------------------------------
(* The steps that send commands to Hermes.                                 *)

\* A command that neither books nor logs a trade changes no count.
LEMMA IdleCommand ==
  ASSUME NEW q \in Seq(HermesMsg), NEW c \in HermesMsg,
         ~Confirms(c), c.kind # "amounts"
  PROVE  /\ Append(q, c) \in Seq(HermesMsg)
         /\ Messages(Append(q, c)) = Messages(q) \cup {c}
         /\ SigOnce(q) => SigOnce(Append(q, c))
         /\ \A o : /\ Among(Append(q, c), Bookings(o)) = Among(q, Bookings(o))
                   /\ Among(Append(q, c), Logs(o)) = Among(q, Logs(o))
<1>1. ASSUME NEW T, c \notin T PROVE Among(Append(q, c), T) = Among(q, T)
  <2>1. Among(q, T) \in Nat
    BY AmongType
  <2>2. Among(Append(q, c), T) = Among(q, T) + (IF c \in T THEN 1 ELSE 0)
    BY AmongAppend
  <2> QED
    BY <1>1, <2>1, <2>2
<1>2. \A o : c \notin Bookings(o) /\ c \notin Logs(o)
  BY HermesKinds
<1> QED
  BY <1>1, <1>2, Appended, MessagesAppend, OnceAppend

\* Commands that come and go without booking or logging a trade.
LEMMA TablesTold ==
  ASSUME OneShotInv, queue' \in Seq(HermesMsg),
         warrant' = warrant, OnTheWay' \subseteq OnTheWay,
         txs' = txs, refused' = refused,
         \A o \in Order : row'[o].booked = row[o].booked,
         \A o : /\ Among(queue', Bookings(o)) = Among(queue, Bookings(o))
                /\ Among(queue', Logs(o)) = Among(queue, Logs(o)),
         SigOnce(queue'),
         \A c \in Messages(queue') :
            \/ c \in Messages(queue)
            \/ ~Confirms(c) /\ (c.kind = "tx" => c.sig = NoSignature)
  PROVE  Tables'
<1>1. \A o : Told(o) \subseteq Told(o)'
  BY DEF Told
<1>2. ASSUME NEW o \in Order
      PROVE  Booked(o)' = Booked(o) /\ Confirmed(o)' = Confirmed(o)
  <2>1. /\ Bookings(o)' = Bookings(o) /\ Logs(o)' = Logs(o)
    BY DEF Bookings, Logs, IncrementOrderAmounts, LogTransaction
  <2>2. /\ Queued(Bookings(o)) = Among(queue, Bookings(o))
        /\ Queued(Logs(o)) = Among(queue, Logs(o))
        /\ Queued(Bookings(o))' = Among(queue', Bookings(o))
        /\ Queued(Logs(o))' = Among(queue', Logs(o))
    BY <2>1 DEF Queued, Among
  <2>3. Logged(o)' = Logged(o)
    BY DEF Logged
  <2> QED
    BY <2>2, <2>3 DEF Booked, Confirmed
<1>3. AmountsMatchTransactions'
  BY <1>2 DEF OneShotInv, AmountsMatchTransactions
<1>4. BookedOnce'
  <2> SUFFICES ASSUME NEW o \in Order PROVE Booked(o)' <= Cardinality(Told(o)')
    BY DEF BookedOnce
  <2>1. Booked(o) <= Cardinality(Told(o)) /\ Booked(o) \in Nat
    BY Counts DEF OneShotInv, BookedOnce
  <2>2. /\ Cardinality(Told(o)) <= Cardinality(Told(o)')
        /\ Cardinality(Told(o)) \in Nat /\ Cardinality(Told(o)') \in Nat
    BY ToldGrows, ToldFinite
  <2> QED
    BY <1>2, <2>1, <2>2
<1>5. LoggedOnce'
  <2>1. ASSUME NEW s \in DOMAIN txs, txs[s].status = "CONFIRMED"
        PROVE  (s \in Told(txs[s].order))'
    <3>1. PICK o : o = txs[s].order
      OBVIOUS
    <3>2. s \in Told(o)
      BY <2>1, <3>1 DEF OneShotInv, LoggedOnce
    <3>3. s \in Told(o)'
      BY <1>1, <3>2
    <3> QED
      BY <3>1, <3>3
  <2>2. ASSUME NEW c \in Messages(queue'), Confirms(c)
        PROVE  (c.sig \in Told(c.order))' /\ c.sig \notin DOMAIN txs
    <3>1. PICK o : o = c.order
      OBVIOUS
    <3>2. c.sig \in Told(o) /\ c.sig \notin DOMAIN txs
      BY <2>2, <3>1 DEF OneShotInv, LoggedOnce
    <3>3. c.sig \in Told(o)'
      BY <1>1, <3>2
    <3> QED
      BY <3>1, <3>2, <3>3
  <2>3. ASSUME NEW c \in Messages(queue'), c.kind = "tx", c.status = "FAILED"
        PROVE  c.sig = NoSignature
    BY <2>3 DEF OneShotInv, LoggedOnce
  <2> QED
    BY <2>1, <2>2, <2>3 DEF OneShotInv, LoggedOnce
<1> QED
  BY <1>3, <1>4, <1>5 DEF Tables

LEMMA QueuedOrders ==
  ASSUME NEW q \in Seq(HermesMsg), NEW i \in DOMAIN q
  PROVE  q[i].order \in Order
<1>1. q[i] \in HermesMsg
  BY ElementOfSeq
<1> QED
  BY <1>1, HermesKinds

LEMMA HandleRemoveStep ==
  ASSUME OneShotInv, HandleRemove
  PROVE  OneShotInv'
<1>1. PICK o, c :
        /\ o = Head(commands).order /\ c = UpdateOrderStatus(o, "DELETED")
        /\ Take("remove")
        /\ queue' = queue \o <<c>>
        /\ UNCHANGED <<columns, row, txs, refused>>
        /\ UNCHANGED <<janusVars, buffettVars, actorVars, executorVars, forgotten>>
  BY DEF HandleRemove, Tell, Subject
<1>2. /\ Head(commands) \in CommandMsg /\ Head(commands).kind = "remove"
      /\ commands' \in Seq(CommandMsg)
  BY <1>1, CommandTaken
<1>3. o \in Order
  BY <1>1, <1>2, CommandKinds
<1>4. c \in HermesMsg /\ c.kind = "status" /\ ~Confirms(c)
  BY <1>1, <1>3, HermesKinds DEF Status, UpdateOrderStatus, Confirms
<1>5. queue \in Seq(HermesMsg) /\ queue' = Append(queue, c)
  BY <1>1, <1>4, Types, SentAtOnce
<1>6. /\ queue' \in Seq(HermesMsg)
      /\ Messages(queue') = Messages(queue) \cup {c}
      /\ SigOnce(queue')
      /\ \A p : /\ Among(queue', Bookings(p)) = Among(queue, Bookings(p))
                /\ Among(queue', Logs(p)) = Among(queue, Logs(p))
  BY <1>4, <1>5, IdleCommand DEF OneShotInv, LoggedOnce
<1>7. Typed'
  <2>1. \A i \in DOMAIN queue' : queue'[i].order \in Order
    BY <1>6, QueuedOrders
  <2> QED
    BY <1>1, <1>2, <1>6, <2>1
    DEF OneShotInv, Typed, TypeOK, janusVars, buffettVars, actorVars, executorVars
<1>8. Numbered' /\ OrderedOnce'
  BY <1>1, TakenStep DEF janusVars, buffettVars, actorVars, executorVars
<1>9. ReportedOnce' /\ OnTheWay' = OnTheWay
  BY <1>1, ReportsKept DEF actorVars, executorVars
<1>10. Tables'
  BY <1>1, <1>4, <1>6, <1>9, TablesTold DEF executorVars
<1>11. ConfirmedLanded'
  BY <1>1 DEF OneShotInv, ConfirmedLanded, executorVars
<1> QED
  BY <1>7, <1>8, <1>9, <1>10, <1>11 DEF OneShotInv, Tables

\* The part of the invariant that is Hermes' own types.
LEMMA ConcludeTyped ==
  ASSUME OneShotInv, NEW a \in Actor, NEW stage, Conclude(a, stage),
         executorVars' = executorVars, queue' \in Seq(HermesMsg),
         UNCHANGED <<columns, row, txs, refused>>,
         forgotten' \subseteq forgotten \cup {a[1]}
  PROVE  Typed' /\ ConfirmedLanded'
<1>1. /\ inbox' \in [Actor -> Seq(Result)]
      /\ phase' \in [Actor -> Phase]
      /\ commands' \in Seq(CommandMsg)
  BY ConcludeParts DEF executorVars
<1>2. UNCHANGED <<janusVars, buffettVars>> /\ a[1] \in Order
  BY Actors DEF Conclude
<1>3. Typed'
  <2>1. \A i \in DOMAIN queue' : queue'[i].order \in Order
    BY QueuedOrders
  <2> QED
    BY <1>1, <1>2, <2>1
    DEF OneShotInv, Typed, TypeOK, executorVars, janusVars, buffettVars
<1> QED
  BY <1>3 DEF OneShotInv, ConfirmedLanded, executorVars

LEMMA OnUnreadStep ==
  ASSUME OneShotInv, NEW a \in Actor, OnUnread(a)
  PROVE  OneShotInv'
<1>1. /\ Conclude(a, "CONFIRMED") /\ executorVars' = executorVars
      /\ UNCHANGED hermesVars /\ forgotten' \subseteq forgotten \cup {a[1]}
  BY DEF OnUnread, Conclude, Forget
<1>2. OnTheWay' \subseteq OnTheWay /\ Numbered' /\ OrderedOnce' /\ ReportedOnce'
  BY <1>1, ConcludeParts DEF executorVars
<1>3. Tables'
  BY <1>1, <1>2, TablesKept DEF executorVars
<1>4. Typed' /\ ConfirmedLanded'
  BY <1>1, Types, ConcludeTyped DEF hermesVars
<1> QED
  BY <1>2, <1>3, <1>4 DEF OneShotInv, Tables

LEMMA OnFailedStep ==
  ASSUME OneShotInv, NEW a \in Actor, OnFailed(a)
  PROVE  OneShotInv'
<1>1. PICK c, d :
        /\ c = UpdateOrderStatus(a[1], "FAILED")
        /\ d = LogTransaction(NoSignature, a[1], "FAILED")
        /\ queue' = queue \o <<c, d>>
  BY DEF OnFailed, Tell
<1>2. /\ Conclude(a, "FAILED") /\ executorVars' = executorVars
      /\ UNCHANGED <<columns, row, txs, refused>>
      /\ forgotten' \subseteq forgotten \cup {a[1]}
  BY DEF OnFailed, Tell, Conclude, Forget
<1>3. /\ c \in HermesMsg /\ c.kind = "status" /\ ~Confirms(c)
      /\ d \in HermesMsg /\ d.kind = "tx" /\ d.sig = NoSignature /\ ~Confirms(d)
  <2>1. a[1] \in Order /\ NoSignature \in Signature
    BY Actors, Types
  <2> QED
    BY <1>1, <2>1, HermesKinds
    DEF Status, UpdateOrderStatus, LogTransaction, Confirms
<1>4. queue \in Seq(HermesMsg) /\ queue' = Append(Append(queue, c), d)
  BY <1>1, <1>3, Types, SentAtOnce
<1>5. /\ Append(queue, c) \in Seq(HermesMsg)
      /\ Messages(Append(queue, c)) = Messages(queue) \cup {c}
      /\ SigOnce(Append(queue, c))
      /\ \A o : /\ Among(Append(queue, c), Bookings(o)) = Among(queue, Bookings(o))
                /\ Among(Append(queue, c), Logs(o)) = Among(queue, Logs(o))
  BY <1>3, <1>4, IdleCommand DEF OneShotInv, LoggedOnce
<1>6. /\ queue' \in Seq(HermesMsg)
      /\ Messages(queue') = Messages(queue) \cup {c} \cup {d}
      /\ SigOnce(queue')
      /\ \A o : /\ Among(queue', Bookings(o)) = Among(queue, Bookings(o))
                /\ Among(queue', Logs(o)) = Among(queue, Logs(o))
  <2>1. PICK q : q = Append(queue, c)
    OBVIOUS
  <2>2. /\ q \in Seq(HermesMsg) /\ SigOnce(q)
        /\ Messages(q) = Messages(queue) \cup {c}
        /\ \A o : /\ Among(q, Bookings(o)) = Among(queue, Bookings(o))
                  /\ Among(q, Logs(o)) = Among(queue, Logs(o))
    BY <1>5, <2>1
  <2>3. /\ Append(q, d) \in Seq(HermesMsg)
        /\ Messages(Append(q, d)) = Messages(q) \cup {d}
        /\ SigOnce(Append(q, d))
        /\ \A o : /\ Among(Append(q, d), Bookings(o)) = Among(q, Bookings(o))
                  /\ Among(Append(q, d), Logs(o)) = Among(q, Logs(o))
    BY <1>3, <2>2, IdleCommand
  <2>4. queue' = Append(q, d)
    BY <1>4, <2>1
  <2> QED
    BY <2>2, <2>3, <2>4
<1>7. OnTheWay' \subseteq OnTheWay /\ Numbered' /\ OrderedOnce' /\ ReportedOnce'
  BY <1>2, ConcludeParts DEF executorVars
<1>8. Tables'
  BY <1>2, <1>3, <1>6, <1>7, TablesTold DEF executorVars
<1>9. Typed' /\ ConfirmedLanded'
  BY <1>2, <1>6, ConcludeTyped
<1> QED
  BY <1>7, <1>8, <1>9 DEF OneShotInv, Tables

\* The transaction is logged under the name of the trade, and booked.
LEMMA OnConfirmedStep ==
  ASSUME OneShotInv, NEW a \in Actor, OnConfirmed(a)
  PROVE  OneShotInv'
<1>1. PICK r, o, c, d :
        /\ r = Head(inbox[a]) /\ o = a[1]
        /\ c = LogTransaction(r.actor, o, "CONFIRMED")
        /\ d = IncrementOrderAmounts(o)
        /\ queue' = queue \o <<c, d>>
  BY DEF OnConfirmed, Tell
<1>2. /\ Conclude(a, "CONFIRMED") /\ executorVars' = executorVars
      /\ UNCHANGED <<columns, row, txs, refused>>
      /\ forgotten' \subseteq forgotten \cup {a[1]}
  BY DEF OnConfirmed, Tell, Conclude, Forget
<1>3. /\ r \in Result /\ r.actor[1] = o /\ warrant[r.actor] = "CONFIRMED"
      /\ r.actor \in OnTheWay /\ r.actor \notin OnTheWay'
      /\ OnTheWay' \subseteq OnTheWay
      /\ Numbered' /\ OrderedOnce' /\ ReportedOnce'
  BY <1>1, <1>2, ConcludeParts DEF executorVars
<1>4. r.actor \in Actor /\ r.actor \in Signature /\ o \in Order
  BY <1>1, <1>3, Types, Actors DEF Result
<1>5. /\ c \in HermesMsg /\ Confirms(c) /\ c.sig = r.actor /\ c.order = o
      /\ d \in HermesMsg /\ d.kind = "amounts" /\ d.order = o /\ ~Confirms(d)
  BY <1>1, <1>4, HermesKinds DEF LogTransaction, IncrementOrderAmounts, Confirms
<1>6. queue \in Seq(HermesMsg) /\ queue' = Append(Append(queue, c), d)
  BY <1>1, <1>5, Types, SentAtOnce
<1>7. /\ Append(queue, c) \in Seq(HermesMsg) /\ queue' \in Seq(HermesMsg)
      /\ Messages(Append(queue, c)) = Messages(queue) \cup {c}
      /\ Messages(queue') = Messages(queue) \cup {c} \cup {d}
  <2>1. PICK q : q = Append(queue, c)
    OBVIOUS
  <2>2. q \in Seq(HermesMsg) /\ Messages(q) = Messages(queue) \cup {c}
    BY <1>5, <1>6, <2>1, Appended, MessagesAppend
  <2>3. /\ Append(q, d) \in Seq(HermesMsg)
        /\ Messages(Append(q, d)) = Messages(q) \cup {d}
    BY <1>5, <2>2, Appended, MessagesAppend
  <2> QED
    BY <1>6, <2>1, <2>2, <2>3
<1>8. \A p : r.actor \notin Told(p)
  BY <1>3 DEF Told
<1>9. SigOnce(queue')
  <2>1. \A e \in Messages(queue) : Confirms(e) => e.sig # c.sig
    BY <1>5, <1>8 DEF OneShotInv, LoggedOnce
  <2>2. SigOnce(Append(queue, c))
    BY <1>5, <1>6, <2>1, OnceAppend DEF OneShotInv, LoggedOnce
  <2> QED
    BY <1>5, <1>6, <1>7, <2>2, OnceAppend
<1>10. ASSUME NEW p
       PROVE  /\ Among(queue', Bookings(p)) =
                   Among(queue, Bookings(p)) + (IF p = o THEN 1 ELSE 0)
              /\ Among(queue', Logs(p)) =
                   Among(queue, Logs(p)) + (IF p = o THEN 1 ELSE 0)
  <2>1. /\ c \notin Bookings(p) /\ (c \in Logs(p) <=> p = o)
        /\ d \notin Logs(p) /\ (d \in Bookings(p) <=> p = o)
    BY <1>5, HermesKinds DEF Confirms
  <2>2. \A T : /\ Among(queue, T) \in Nat
               /\ Among(Append(queue, c), T) = Among(queue, T) + (IF c \in T THEN 1 ELSE 0)
               /\ Among(queue', T) = Among(Append(queue, c), T)
                                       + (IF d \in T THEN 1 ELSE 0)
    BY ZenonT(40), <1>5, <1>6, <1>7, AmongType, AmongAppend
  <2>3. Among(queue', Bookings(p)) = Among(queue, Bookings(p)) + (IF p = o THEN 1 ELSE 0)
    <3>1. /\ Among(queue, Bookings(p)) \in Nat
          /\ Among(Append(queue, c), Bookings(p)) = Among(queue, Bookings(p)) + 0
          /\ Among(queue', Bookings(p)) = Among(Append(queue, c), Bookings(p))
                                            + (IF p = o THEN 1 ELSE 0)
      BY <2>1, <2>2
    <3> QED
      BY <3>1
  <2>4. Among(queue', Logs(p)) = Among(queue, Logs(p)) + (IF p = o THEN 1 ELSE 0)
    <3>1. /\ Among(queue, Logs(p)) \in Nat
          /\ Among(Append(queue, c), Logs(p)) = Among(queue, Logs(p))
                                                  + (IF p = o THEN 1 ELSE 0)
          /\ Among(queue', Logs(p)) = Among(Append(queue, c), Logs(p)) + 0
      BY <2>1, <2>2
    <3> QED
      BY <3>1
  <2> QED
    BY <2>3, <2>4
<1>11. ASSUME NEW p \in Order
       PROVE  /\ Booked(p)' = Booked(p) + (IF p = o THEN 1 ELSE 0)
              /\ Confirmed(p)' = Confirmed(p) + (IF p = o THEN 1 ELSE 0)
  <2>1. /\ Bookings(p)' = Bookings(p) /\ Logs(p)' = Logs(p)
    BY DEF Bookings, Logs, IncrementOrderAmounts, LogTransaction
  <2>2. /\ Queued(Bookings(p)) = Among(queue, Bookings(p))
        /\ Queued(Logs(p)) = Among(queue, Logs(p))
        /\ Queued(Bookings(p))' = Among(queue', Bookings(p))
        /\ Queued(Logs(p))' = Among(queue', Logs(p))
    BY <2>1 DEF Queued, Among
  <2>3. Logged(p)' = Logged(p)
    BY <1>2 DEF Logged
  <2>4. /\ row[p].booked \in Nat /\ Cardinality(Logged(p)) \in Nat
        /\ Queued(Bookings(p)) \in Nat /\ Queued(Logs(p)) \in Nat
    BY Counts
  <2> QED
    BY <1>2, <1>10, <2>2, <2>3, <2>4 DEF Booked, Confirmed
<1>12. AmountsMatchTransactions'
  <2> SUFFICES ASSUME NEW p \in Order
               PROVE  /\ Booked(p)' <= Confirmed(p)' + refused[p]
                      /\ Confirmed(p)' <= Booked(p)' + refused[p]
    BY <1>2 DEF AmountsMatchTransactions
  <2>1. /\ Booked(p) <= Confirmed(p) + refused[p]
        /\ Confirmed(p) <= Booked(p) + refused[p]
        /\ Booked(p) \in Nat /\ Confirmed(p) \in Nat /\ refused[p] \in Nat
    BY Counts DEF OneShotInv, AmountsMatchTransactions
  <2> QED
    BY <1>11, <2>1
<1>13. \A p : /\ Told(p) \subseteq Told(p)'
              /\ IsFiniteSet(Told(p)')
              /\ Cardinality(Told(p)) <= Cardinality(Told(p)')
              /\ Cardinality(Told(p)) \in Nat /\ Cardinality(Told(p)') \in Nat
  BY <1>2, <1>3, ToldGrows, ToldFinite DEF executorVars
<1>14. r.actor \in Told(o)'
  BY <1>2, <1>3, <1>4 DEF Told, executorVars
<1>15. BookedOnce'
  <2> SUFFICES ASSUME NEW p \in Order PROVE Booked(p)' <= Cardinality(Told(p)')
    BY DEF BookedOnce
  <2>1. Booked(p) <= Cardinality(Told(p)) /\ Booked(p) \in Nat
    BY Counts DEF OneShotInv, BookedOnce
  <2>2. CASE p # o
    BY <1>11, <1>13, <2>1, <2>2
  <2>3. CASE p = o
    <3> DEFINE A == Told(o)
               B == Told(o)'
    <3>1. /\ IsFiniteSet(A) /\ Cardinality(A) \in Nat
          /\ IsFiniteSet(B) /\ Cardinality(B) \in Nat
          /\ A \subseteq B /\ r.actor \in B /\ r.actor \notin A
      BY <1>8, <1>13, <1>14, ToldFinite
    <3> HIDE DEF A, B
    <3>2. Cardinality(B \ {r.actor}) = Cardinality(B) - 1 /\ IsFiniteSet(B \ {r.actor})
      BY <3>1, FS_RemoveElement
    <3>3. A \in SUBSET (B \ {r.actor})
      BY <3>1
    <3>4. Cardinality(A) <= Cardinality(B) - 1
      BY <3>2, <3>3, FS_Subset
    <3>5. Booked(p)' = Booked(p) + 1 /\ Booked(p) <= Cardinality(A)
      BY <1>11, <2>1, <2>3 DEF A
    <3>6. Booked(p)' <= Cardinality(B)
      BY <2>1, <3>1, <3>4, <3>5
    <3> QED
      BY <2>3, <3>6 DEF B
  <2> QED
    BY <2>2, <2>3
<1>16. LoggedOnce'
  <2>1. ASSUME NEW s \in DOMAIN txs, txs[s].status = "CONFIRMED"
        PROVE  (s \in Told(txs[s].order))'
    <3>1. PICK p : p = txs[s].order
      OBVIOUS
    <3>2. s \in Told(p)
      BY <2>1, <3>1 DEF OneShotInv, LoggedOnce
    <3>3. s \in Told(p)' /\ p = txs'[s].order
      BY <1>2, <1>13, <3>1, <3>2
    <3> QED
      BY <3>3
  <2>2. ASSUME NEW e \in Messages(queue'), Confirms(e)
        PROVE  (e.sig \in Told(e.order))' /\ e.sig \notin DOMAIN txs
    <3>1. CASE e \in Messages(queue)
      <4>1. PICK p : p = e.order
        OBVIOUS
      <4>2. e.sig \in Told(p) /\ e.sig \notin DOMAIN txs
        BY <2>2, <3>1, <4>1 DEF OneShotInv, LoggedOnce
      <4>3. e.sig \in Told(p)'
        BY <1>13, <4>2
      <4> QED
        BY <4>1, <4>2, <4>3
    <3>2. CASE e = c
      <4>1. c.sig \notin DOMAIN txs
        <5> SUFFICES ASSUME r.actor \in DOMAIN txs PROVE FALSE
          BY <1>5
        <5>1. txs[r.actor].status \in {"CONFIRMED", "FAILED"}
          BY Types
        <5>2. r.actor # NoSignature
          BY <1>4, Types
        <5> QED
          BY <1>8, <5>1, <5>2 DEF OneShotInv, LoggedOnce
      <4>2. e.sig = r.actor /\ e.order = o
        BY <1>5, <3>2
      <4>3. (e.sig \in Told(e.order))'
        BY <1>14, <4>2
      <4> QED
        BY <3>2, <4>1, <4>3
    <3>3. e # d
      BY <1>5, <2>2
    <3> QED
      BY <1>7, <3>1, <3>2, <3>3
  <2>3. ASSUME NEW e \in Messages(queue'), e.kind = "tx", e.status = "FAILED"
        PROVE  e.sig = NoSignature
    <3>1. e # c /\ e # d
      BY <1>5, <2>3 DEF Confirms
    <3> QED
      BY <1>7, <2>3, <3>1 DEF OneShotInv, LoggedOnce
  <2> QED
    BY <1>2, <1>9, <2>1, <2>2, <2>3 DEF OneShotInv, LoggedOnce
<1>17. Typed' /\ ConfirmedLanded'
  BY <1>2, <1>7, ConcludeTyped
<1> QED
  BY <1>3, <1>12, <1>15, <1>16, <1>17 DEF OneShotInv

-----------------------------------------------------------------------------
(* Hermes.                                                                 *)

\* A command that is handled, or lost, leaves the channel.
LEMMA HermesTaken ==
  ASSUME OneShotInv, queue # << >>, queue' = Tail(queue), NEW h, h = Head(queue)
  PROVE  /\ h \in HermesMsg /\ h \in Messages(queue)
         /\ queue' \in Seq(HermesMsg)
         /\ \A i \in DOMAIN queue' : queue'[i].order \in Order
         /\ Messages(queue') \subseteq Messages(queue)
         /\ SigOnce(queue')
         /\ Confirms(h) =>
              \A c \in Messages(queue') : Confirms(c) => c.sig # h.sig
         /\ \A T : /\ Among(queue, T) \in Nat /\ Among(queue', T) \in Nat
                   /\ Among(queue', T) =
                        Among(queue, T) - (IF h \in T THEN 1 ELSE 0)
<1>1. queue \in Seq(HermesMsg) /\ SigOnce(queue)
  BY Types DEF OneShotInv, LoggedOnce
<1>2. /\ h \in HermesMsg /\ queue' \in Seq(HermesMsg)
      /\ Messages(queue) = Messages(queue') \cup {h}
  BY <1>1, MessagesTail
<1>3. \A i \in DOMAIN queue' : queue'[i].order \in Order
  BY <1>2, QueuedOrders
<1>4. /\ SigOnce(queue')
      /\ Confirms(h) =>
           \A c \in Messages(queue') : Confirms(c) => c.sig # h.sig
  BY <1>1, OnceTail
<1>5. ASSUME NEW T
      PROVE  /\ Among(queue, T) \in Nat /\ Among(queue', T) \in Nat
             /\ Among(queue', T) =
                  Among(queue, T) - (IF h \in T THEN 1 ELSE 0)
  <2>1. Among(queue, T) \in Nat
    BY <1>1, AmongType
  <2>2. Among(queue', T) \in Nat
    BY <1>2, AmongType
  <2>3. Among(Tail(queue), T) = Among(queue, T) - (IF Head(queue) \in T THEN 1 ELSE 0)
    BY <1>1, AmongTail
  <2> QED
    BY <2>1, <2>2, <2>3
<1> QED
  BY <1>2, <1>3, <1>4, <1>5

\* What is still queued of an order's bookings and of its confirmations.
LEMMA HermesCounts ==
  ASSUME OneShotInv, queue # << >>, queue' = Tail(queue), NEW h, h = Head(queue),
         NEW o \in Order
  PROVE  /\ Queued(Bookings(o)) \in Nat /\ Queued(Bookings(o))' \in Nat
         /\ Queued(Bookings(o))' = Queued(Bookings(o))
              - (IF h.kind = "amounts" /\ h.order = o THEN 1 ELSE 0)
         /\ Queued(Logs(o)) \in Nat /\ Queued(Logs(o))' \in Nat
         /\ Queued(Logs(o))' = Queued(Logs(o))
              - (IF Confirms(h) /\ h.order = o THEN 1 ELSE 0)
<1>1. /\ Bookings(o)' = Bookings(o) /\ Logs(o)' = Logs(o)
  BY DEF Bookings, Logs, IncrementOrderAmounts, LogTransaction
<1>2. /\ Queued(Bookings(o)) = Among(queue, Bookings(o))
      /\ Queued(Logs(o)) = Among(queue, Logs(o))
      /\ Queued(Bookings(o))' = Among(queue', Bookings(o))
      /\ Queued(Logs(o))' = Among(queue', Logs(o))
  BY <1>1 DEF Queued, Among
<1>3. /\ h \in Bookings(o) <=> h.kind = "amounts" /\ h.order = o
      /\ h \in Logs(o) <=> Confirms(h) /\ h.order = o
  BY HermesTaken, HermesKinds
<1>4. \A T : /\ Among(queue, T) \in Nat /\ Among(queue', T) \in Nat
             /\ Among(queue', T) = Among(queue, T) - (IF h \in T THEN 1 ELSE 0)
  BY HermesTaken
<1>5. /\ Among(queue, Bookings(o)) \in Nat /\ Among(queue', Bookings(o)) \in Nat
      /\ Among(queue', Bookings(o)) = Among(queue, Bookings(o))
           - (IF h.kind = "amounts" /\ h.order = o THEN 1 ELSE 0)
  BY <1>3, <1>4
<1>6. /\ Among(queue, Logs(o)) \in Nat /\ Among(queue', Logs(o)) \in Nat
      /\ Among(queue', Logs(o)) = Among(queue, Logs(o))
           - (IF Confirms(h) /\ h.order = o THEN 1 ELSE 0)
  BY <1>3, <1>4
<1> QED
  BY <1>2, <1>5, <1>6

\* What Hermes leaves alone.
LEMMA PersistKeeps ==
  ASSUME OneShotInv,
         UNCHANGED <<commands, janusVars, buffettVars, actorVars, executorVars,
                     forgotten>>
  PROVE  /\ Numbered' /\ OrderedOnce' /\ ReportedOnce' /\ ConfirmedLanded'
         /\ OnTheWay' = OnTheWay
         /\ \A o : Told(o)' = Told(o)
<1>1. Numbered' /\ OrderedOnce'
  BY OrdersKept DEF janusVars, buffettVars, actorVars, executorVars
<1>2. ReportedOnce' /\ OnTheWay' = OnTheWay
  BY ReportsKept DEF actorVars, executorVars
<1>3. ConfirmedLanded'
  BY DEF OneShotInv, ConfirmedLanded, executorVars
<1>4. \A o : Told(o)' = Told(o)
  BY <1>2 DEF Told, executorVars
<1> QED
  BY <1>1, <1>2, <1>3, <1>4

LEMMA PersistTyped ==
  ASSUME OneShotInv,
         UNCHANGED <<columns, commands, janusVars, buffettVars, actorVars,
                     executorVars, forgotten>>,
         queue # << >>, queue' = Tail(queue),
         row' \in [Order -> [status : Status, booked : Nat]],
         txs' \in [DOMAIN txs' -> [order : Order, status : {"CONFIRMED", "FAILED"}]],
         DOMAIN txs' \subseteq Signature,
         refused' \in [Order -> Nat]
  PROVE  Typed'
<1>1. /\ queue' \in Seq(HermesMsg)
      /\ \A i \in DOMAIN queue' : queue'[i].order \in Order
  BY HermesTaken
<1> QED
  BY <1>1 DEF OneShotInv, Typed, TypeOK, janusVars, buffettVars, actorVars, executorVars

LEMMA LoggedKept ==
  ASSUME OneShotInv, txs' = txs, \A o : Told(o)' = Told(o),
         Messages(queue') \subseteq Messages(queue), SigOnce(queue')
  PROVE  LoggedOnce'
<1>1. ASSUME NEW s \in DOMAIN txs, txs[s].status = "CONFIRMED"
      PROVE  (s \in Told(txs[s].order))'
  <2>1. PICK o : o = txs[s].order
    OBVIOUS
  <2>2. s \in Told(o)
    BY <1>1, <2>1 DEF OneShotInv, LoggedOnce
  <2>3. s \in Told(o)' /\ o = txs'[s].order
    BY <2>1, <2>2
  <2> QED
    BY <2>3
<1>2. ASSUME NEW c \in Messages(queue'), Confirms(c)
      PROVE  (c.sig \in Told(c.order))' /\ c.sig \notin DOMAIN txs
  <2>1. PICK o : o = c.order
    OBVIOUS
  <2>2. c.sig \in Told(o) /\ c.sig \notin DOMAIN txs
    BY <1>2, <2>1 DEF OneShotInv, LoggedOnce
  <2>3. c.sig \in Told(o)'
    BY <2>2
  <2> QED
    BY <2>1, <2>2, <2>3
<1>3. ASSUME NEW c \in Messages(queue'), c.kind = "tx", c.status = "FAILED"
      PROVE  c.sig = NoSignature
  BY <1>3 DEF OneShotInv, LoggedOnce
<1> QED
  BY <1>1, <1>2, <1>3 DEF OneShotInv, LoggedOnce

LEMMA HandleStatusStep ==
  ASSUME OneShotInv, HandleStatus,
         UNCHANGED <<commands, janusVars, buffettVars, actorVars, executorVars,
                     forgotten>>
  PROVE  OneShotInv'
<1>1. PICK h : /\ h = Head(queue) /\ h.kind = "status"
               /\ row' = [row EXCEPT ![h.order].status = h.status]
  BY DEF HandleStatus, TakeCommand, Cmd
<1>2. /\ queue # << >> /\ queue' = Tail(queue) /\ UNCHANGED <<columns, txs, refused>>
  BY DEF HandleStatus, TakeCommand
<1>3. /\ h \in HermesMsg /\ queue' \in Seq(HermesMsg)
      /\ Messages(queue') \subseteq Messages(queue) /\ SigOnce(queue')
      /\ \A T : /\ Among(queue, T) \in Nat /\ Among(queue', T) \in Nat
                /\ Among(queue', T) =
                     Among(queue, T) - (IF h \in T THEN 1 ELSE 0)
  BY <1>1, <1>2, HermesTaken
<1>4. h.order \in Order /\ h.status \in Status
  BY <1>1, <1>3, HermesKinds
<1>5. /\ row' \in [Order -> [status : Status, booked : Nat]]
      /\ \A o \in Order : row'[o].booked = row[o].booked
  <2>1. row \in [Order -> [status : Status, booked : Nat]]
    BY Types
  <2>2. ASSUME NEW o \in Order
        PROVE  /\ row'[o] \in [status : Status, booked : Nat]
               /\ row'[o].booked = row[o].booked
    BY <1>1, <1>4, <2>1
  <2>3. row' = [o \in Order |-> row'[o]]
    BY <1>1, <2>1
  <2> QED
    BY <2>2, <2>3
<1>6. \A o : h \notin Bookings(o) /\ h \notin Logs(o)
  BY <1>1, <1>3, HermesKinds DEF Confirms
<1>7. \A o : /\ Among(queue', Bookings(o)) = Among(queue, Bookings(o))
             /\ Among(queue', Logs(o)) = Among(queue, Logs(o))
  <2>1. \A T : h \notin T => Among(queue', T) = Among(queue, T)
    BY <1>3
  <2> QED
    BY <1>6, <2>1
<1>8. /\ Numbered' /\ OrderedOnce' /\ ReportedOnce' /\ ConfirmedLanded'
      /\ OnTheWay' = OnTheWay
  BY PersistKeeps
<1>9. Tables'
  BY <1>2, <1>3, <1>5, <1>7, <1>8, TablesTold DEF executorVars
<1>10. Typed'
  BY <1>2, <1>5, Types, PersistTyped
<1> QED
  BY <1>8, <1>9, <1>10 DEF OneShotInv, Tables

\* The command that books a trade leaves the channel as its row grows.
LEMMA HandleAmountsStep ==
  ASSUME OneShotInv, HandleAmounts,
         UNCHANGED <<commands, janusVars, buffettVars, actorVars, executorVars,
                     forgotten>>
  PROVE  OneShotInv'
<1>1. PICK h : /\ h = Head(queue) /\ h.kind = "amounts"
               /\ row' = [row EXCEPT ![h.order] =
                            [status |-> "COMPLETED", booked |-> @.booked + 1]]
  BY DEF HandleAmounts, TakeCommand, Cmd
<1>2. /\ queue # << >> /\ queue' = Tail(queue) /\ UNCHANGED <<columns, txs, refused>>
  BY DEF HandleAmounts, TakeCommand
<1>3. /\ h \in HermesMsg /\ queue' \in Seq(HermesMsg)
      /\ Messages(queue') \subseteq Messages(queue) /\ SigOnce(queue')
  BY <1>1, <1>2, HermesTaken
<1>4. h.order \in Order /\ ~Confirms(h)
  BY <1>1, <1>3, HermesKinds DEF Confirms
<1>5. /\ row' \in [Order -> [status : Status, booked : Nat]]
      /\ \A o \in Order : row'[o].booked = row[o].booked
                            + (IF o = h.order THEN 1 ELSE 0)
  <2>1. row \in [Order -> [status : Status, booked : Nat]]
    BY Types
  <2>2. ASSUME NEW o \in Order
        PROVE  /\ row'[o] \in [status : Status, booked : Nat]
               /\ row'[o].booked = row[o].booked + (IF o = h.order THEN 1 ELSE 0)
    BY <1>1, <1>4, <2>1 DEF Status
  <2>3. row' = [o \in Order |-> row'[o]]
    BY <1>1, <2>1
  <2> QED
    BY <2>2, <2>3
<1>6. /\ Numbered' /\ OrderedOnce' /\ ReportedOnce' /\ ConfirmedLanded'
      /\ \A o : Told(o)' = Told(o)
  BY PersistKeeps
<1>7. ASSUME NEW o \in Order
      PROVE  Booked(o)' = Booked(o) /\ Confirmed(o)' = Confirmed(o)
  <2>1. Logged(o)' = Logged(o)
    BY <1>2 DEF Logged
  <2>2. /\ Queued(Bookings(o)) \in Nat /\ Queued(Bookings(o))' \in Nat
        /\ Queued(Bookings(o))' = Queued(Bookings(o)) - (IF h.order = o THEN 1 ELSE 0)
        /\ Queued(Logs(o))' = Queued(Logs(o))
    BY <1>1, <1>2, <1>4, HermesCounts
  <2>3. row[o].booked \in Nat
    BY Counts
  <2> QED
    BY <1>5, <2>1, <2>2, <2>3 DEF Booked, Confirmed
<1>8. AmountsMatchTransactions' /\ BookedOnce'
  BY <1>2, <1>6, <1>7 DEF OneShotInv, AmountsMatchTransactions, BookedOnce
<1>9. LoggedOnce'
  BY <1>2, <1>3, <1>6, LoggedKept
<1>10. Typed'
  BY <1>2, <1>5, Types, PersistTyped
<1> QED
  BY <1>6, <1>8, <1>9, <1>10 DEF OneShotInv

\* A command that is lost is counted.
LEMMA RefuseStep ==
  ASSUME OneShotInv, Refuse,
         UNCHANGED <<commands, janusVars, buffettVars, actorVars, executorVars,
                     forgotten>>
  PROVE  OneShotInv'
<1>1. PICK h : /\ h = Head(queue)
               /\ refused' = [refused EXCEPT ![h.order] = @ + 1]
  BY DEF Refuse, Cmd
<1>2. /\ queue # << >> /\ queue' = Tail(queue) /\ UNCHANGED <<columns, row, txs>>
  BY DEF Refuse
<1>3. /\ h \in HermesMsg /\ queue' \in Seq(HermesMsg)
      /\ Messages(queue') \subseteq Messages(queue) /\ SigOnce(queue')
  BY <1>1, <1>2, HermesTaken
<1>4. h.order \in Order
  BY <1>3, HermesKinds
<1>5. /\ refused' \in [Order -> Nat]
      /\ \A o \in Order : refused'[o] = refused[o] + (IF h.order = o THEN 1 ELSE 0)
  <2>1. refused \in [Order -> Nat]
    BY Types
  <2> QED
    BY <1>1, <1>4, <2>1
<1>6. /\ Numbered' /\ OrderedOnce' /\ ReportedOnce' /\ ConfirmedLanded'
      /\ \A o : Told(o)' = Told(o)
  BY PersistKeeps
<1>7. ASSUME NEW o \in Order
      PROVE  /\ Booked(o) \in Nat /\ Booked(o)' \in Nat
             /\ Confirmed(o) \in Nat /\ Confirmed(o)' \in Nat
             /\ Booked(o)' <= Booked(o) /\ Confirmed(o)' <= Confirmed(o)
             /\ \/ Booked(o)' = Booked(o) /\ Confirmed(o)' = Confirmed(o)
                \/ /\ h.order = o
                   /\ Booked(o) <= Booked(o)' + 1
                   /\ Confirmed(o) <= Confirmed(o)' + 1
  <2>1. Logged(o)' = Logged(o)
    BY <1>2 DEF Logged
  <2>2. /\ Queued(Bookings(o)) \in Nat /\ Queued(Bookings(o))' \in Nat
        /\ Queued(Bookings(o))' = Queued(Bookings(o))
             - (IF h.kind = "amounts" /\ h.order = o THEN 1 ELSE 0)
        /\ Queued(Logs(o)) \in Nat /\ Queued(Logs(o))' \in Nat
        /\ Queued(Logs(o))' = Queued(Logs(o))
             - (IF Confirms(h) /\ h.order = o THEN 1 ELSE 0)
    BY <1>1, <1>2, HermesCounts
  <2>3. row[o].booked \in Nat /\ Cardinality(Logged(o)) \in Nat
    BY Counts
  <2>4. /\ Booked(o) = row[o].booked + Queued(Bookings(o))
        /\ Booked(o)' = row[o].booked + Queued(Bookings(o))'
        /\ Confirmed(o) = Cardinality(Logged(o)) + Queued(Logs(o))
        /\ Confirmed(o)' = Cardinality(Logged(o)) + Queued(Logs(o))'
    BY <1>2, <2>1 DEF Booked, Confirmed
  <2> QED
    BY <2>2, <2>3, <2>4
<1>8. AmountsMatchTransactions'
  <2> SUFFICES ASSUME NEW o \in Order
               PROVE  /\ Booked(o)' <= Confirmed(o)' + refused'[o]
                      /\ Confirmed(o)' <= Booked(o)' + refused'[o]
    BY DEF AmountsMatchTransactions
  <2>1. /\ Booked(o) <= Confirmed(o) + refused[o]
        /\ Confirmed(o) <= Booked(o) + refused[o]
        /\ refused[o] \in Nat
    BY Counts DEF OneShotInv, AmountsMatchTransactions
  <2>2. CASE Booked(o)' = Booked(o) /\ Confirmed(o)' = Confirmed(o)
    BY <1>5, <1>7, <2>1, <2>2
  <2>3. CASE /\ h.order = o
             /\ Booked(o) <= Booked(o)' + 1
             /\ Confirmed(o) <= Confirmed(o)' + 1
    <3>1. refused'[o] = refused[o] + 1
      BY <1>5, <2>3
    <3> QED
      BY <1>7, <2>1, <2>3, <3>1
  <2> QED
    BY <1>7, <2>2, <2>3
<1>9. BookedOnce'
  <2> SUFFICES ASSUME NEW o \in Order PROVE Booked(o)' <= Cardinality(Told(o)')
    BY DEF BookedOnce
  <2>1. Booked(o) <= Cardinality(Told(o)) /\ Cardinality(Told(o)) \in Nat
    BY ToldFinite DEF OneShotInv, BookedOnce
  <2>2. Cardinality(Told(o)') = Cardinality(Told(o))
    BY <1>6
  <2> QED
    BY <1>7, <2>1, <2>2
<1>10. LoggedOnce'
  BY <1>2, <1>3, <1>6, LoggedKept
<1>11. Typed'
  BY <1>2, <1>5, Types, PersistTyped
<1> QED
  BY <1>6, <1>8, <1>9, <1>10, <1>11 DEF OneShotInv

\* A confirmation that was read is logged under a name of its own; a failure
\* under none.
LEMMA HandleTransactionStep ==
  ASSUME OneShotInv, HandleTransaction,
         UNCHANGED <<commands, janusVars, buffettVars, actorVars, executorVars,
                     forgotten>>
  PROVE  OneShotInv'
<1>1. PICK h, s : /\ h = Head(queue) /\ h.kind = "tx" /\ s = h.sig
                  /\ txs' = Upsert(s, h.order, h.status)
  BY DEF HandleTransaction, TakeCommand, Cmd
<1>2. /\ queue # << >> /\ queue' = Tail(queue) /\ UNCHANGED <<columns, row, refused>>
  BY DEF HandleTransaction, TakeCommand
<1>3. /\ h \in HermesMsg /\ h \in Messages(queue)
      /\ Messages(queue') \subseteq Messages(queue) /\ SigOnce(queue')
      /\ Confirms(h) => \A c \in Messages(queue') : Confirms(c) => c.sig # h.sig
  BY <1>1, <1>2, HermesTaken
<1>4. /\ h.order \in Order /\ s \in Signature
      /\ h.status \in {"CONFIRMED", "FAILED"}
      /\ Confirms(h) <=> h.status = "CONFIRMED"
  BY <1>1, <1>3, HermesKinds DEF Confirms
<1>5. /\ h.status = "CONFIRMED" => s \in Told(h.order) /\ s \notin DOMAIN txs
      /\ h.status = "FAILED" => s = NoSignature
  BY <1>1, <1>3, <1>4 DEF OneShotInv, LoggedOnce
<1>6. \A o : Told(o) \subseteq Actor /\ NoSignature \notin Told(o)
  BY Types, ToldFinite
<1>7. /\ DOMAIN txs' = DOMAIN txs \cup {s}
      /\ \A t \in DOMAIN txs : t # s => txs'[t] = txs[t]
      /\ txs'[s].status = h.status
      /\ s \notin DOMAIN txs => txs'[s].order = h.order
      /\ txs'[s] \in [order : Order, status : {"CONFIRMED", "FAILED"}]
  <2>1. \A t \in DOMAIN txs : txs[t].order \in Order
    BY Types
  <2> QED
    BY <1>1, <1>4, <2>1 DEF Upsert
<1>8. /\ txs' \in [DOMAIN txs' -> [order : Order, status : {"CONFIRMED", "FAILED"}]]
      /\ DOMAIN txs' \subseteq Signature
  <2>1. \A t \in DOMAIN txs : txs[t] \in [order : Order, status : {"CONFIRMED", "FAILED"}]
    BY Types
  <2>2. \A t \in DOMAIN txs' : txs'[t] \in [order : Order, status : {"CONFIRMED", "FAILED"}]
    BY <1>7, <2>1
  <2>3. txs' = [t \in DOMAIN txs' |-> txs'[t]]
    BY <1>1 DEF Upsert
  <2> QED
    BY <1>4, <1>7, <2>2, <2>3, Types
<1>9. /\ Numbered' /\ OrderedOnce' /\ ReportedOnce' /\ ConfirmedLanded'
      /\ \A o : Told(o)' = Told(o)
  BY PersistKeeps
<1>10. ASSUME NEW t \in DOMAIN txs, txs[t].status = "CONFIRMED"
       PROVE  t # s
  <2>1. t # NoSignature
    BY <1>6, <1>10 DEF OneShotInv, LoggedOnce
  <2> QED
    BY <1>4, <1>5, <2>1
<1>11. ASSUME NEW o \in Order
       PROVE  Logged(o)' = IF Confirms(h) /\ h.order = o THEN Logged(o) \cup {s}
                                                         ELSE Logged(o)
  <2> DEFINE r == [order |-> o, status |-> "CONFIRMED"]
  <2>1. Logged(o) = {t \in DOMAIN txs : txs[t] = r}
        /\ Logged(o)' = {t \in DOMAIN txs' : txs'[t] = r}
    BY DEF Logged
  <2>2. r.order = o /\ r.status = "CONFIRMED"
    OBVIOUS
  <2>3. txs'[s] = r <=> txs'[s].order = o /\ txs'[s].status = "CONFIRMED"
    BY <1>7
  <2> HIDE DEF r
  <2>4. s \notin Logged(o)
    BY <1>10, <2>1, <2>2
  <2>5. \A t : t # s => (t \in Logged(o)' <=> t \in Logged(o))
    BY <1>7, <2>1
  <2>6. s \in Logged(o)' <=> Confirms(h) /\ h.order = o
    BY <1>4, <1>5, <1>7, <2>1, <2>3
  <2> QED
    BY <2>4, <2>5, <2>6
<1>12. ASSUME NEW o \in Order
       PROVE  Booked(o)' = Booked(o) /\ Confirmed(o)' = Confirmed(o)
  <2>1. /\ Queued(Bookings(o)) \in Nat /\ Queued(Bookings(o))' = Queued(Bookings(o))
        /\ Queued(Logs(o)) \in Nat /\ Queued(Logs(o))' \in Nat
        /\ Queued(Logs(o))' = Queued(Logs(o))
             - (IF Confirms(h) /\ h.order = o THEN 1 ELSE 0)
    BY <1>1, <1>2, HermesCounts
  <2>2. /\ IsFiniteSet(Logged(o)) /\ Cardinality(Logged(o)) \in Nat
    BY Counts
  <2>3. Confirms(h) => s \notin Logged(o)
    BY <1>4, <1>5 DEF Logged
  <2>4. Booked(o)' = Booked(o)
    BY <1>2, <2>1 DEF Booked
  <2>5. /\ Confirmed(o) = Cardinality(Logged(o)) + Queued(Logs(o))
        /\ Confirmed(o)' = Cardinality(Logged(o)') + Queued(Logs(o))'
    BY DEF Confirmed
  <2>6. CASE Confirms(h) /\ h.order = o
    <3>1. Cardinality(Logged(o) \cup {s}) = Cardinality(Logged(o)) + 1
      BY <2>2, <2>3, <2>6, FS_AddElement
    <3>2. Cardinality(Logged(o)') = Cardinality(Logged(o)) + 1
      BY <1>11, <2>6, <3>1
    <3> QED
      BY <2>1, <2>2, <2>4, <2>5, <2>6, <3>2
  <2>7. CASE ~(Confirms(h) /\ h.order = o)
    <3>1. Cardinality(Logged(o)') = Cardinality(Logged(o))
      BY <1>11, <2>7
    <3> QED
      BY <2>1, <2>2, <2>4, <2>5, <2>7, <3>1
  <2> QED
    BY <2>6, <2>7
<1>13. AmountsMatchTransactions' /\ BookedOnce'
  BY <1>2, <1>9, <1>12 DEF OneShotInv, AmountsMatchTransactions, BookedOnce
<1>14. LoggedOnce'
  <2>1. ASSUME NEW t \in DOMAIN txs', txs'[t].status = "CONFIRMED"
        PROVE  (t \in Told(txs[t].order))'
    <3>1. PICK o : o = txs'[t].order
      OBVIOUS
    <3>2. t \in Told(o)
      <4>1. CASE t = s
        BY <1>5, <1>7, <2>1, <3>1, <4>1
      <4>2. CASE t # s
        BY <1>7, <2>1, <3>1, <4>2 DEF OneShotInv, LoggedOnce
      <4> QED
        BY <4>1, <4>2
    <3>3. t \in Told(o)'
      BY <1>9, <3>2
    <3> QED
      BY <3>1, <3>3
  <2>2. ASSUME NEW t \in DOMAIN txs', txs'[t].status = "FAILED"
        PROVE  t = NoSignature
    BY <1>5, <1>7, <2>2 DEF OneShotInv, LoggedOnce
  <2>3. ASSUME NEW c \in Messages(queue'), Confirms(c)
        PROVE  (c.sig \in Told(c.order))' /\ c.sig \notin DOMAIN txs'
    <3>1. PICK o : o = c.order
      OBVIOUS
    <3>2. c.sig \in Told(o) /\ c.sig \notin DOMAIN txs
      BY <1>3, <2>3, <3>1 DEF OneShotInv, LoggedOnce
    <3>3. c.sig \in Told(o)'
      BY <1>9, <3>2
    <3>4. c.sig # s
      BY <1>1, <1>3, <1>4, <1>5, <1>6, <2>3, <3>2
    <3> QED
      BY <1>7, <3>1, <3>2, <3>3, <3>4
  <2>4. ASSUME NEW c \in Messages(queue'), c.kind = "tx", c.status = "FAILED"
        PROVE  c.sig = NoSignature
    BY <1>3, <2>4 DEF OneShotInv, LoggedOnce
  <2> QED
    BY <1>3, <2>1, <2>2, <2>3, <2>4 DEF LoggedOnce
<1>15. Typed'
  BY <1>2, <1>8, Types, PersistTyped
<1> QED
  BY <1>9, <1>13, <1>14, <1>15 DEF OneShotInv

-----------------------------------------------------------------------------
(* The theorems.                                                           *)

LEMMA InitInv == Init => OneShotInv
<1> SUFFICES ASSUME Init PROVE OneShotInv
  OBVIOUS
<1> USE DEF Init, HermesInit
<1>1. /\ Messages(<< >>) = {} /\ Reports(<< >>) = {}
      /\ EachOnce(<< >>) /\ ForwardOnce(<< >>) /\ SigOnce(<< >>)
  BY NoMessages
<1>2. \A T : Among(<< >>, T) = 0
  BY AmongNone
<1>3. Typed
  BY OneShotAssumption, EmptySeq
  DEF Typed, TypeOK, Status, Phase, Fate
<1>4. ASSUME NEW o PROVE Coming(o) = 0
  <2>1. Coming(o) = Among(<< >>, {[kind |-> "create", order |-> o]})
    BY DEF Coming, Among
  <2> QED
    BY <1>2, <2>1
<1>5. Numbered
  BY <1>4, OneShotAssumption DEF Numbered, Actor
<1>6. OrderedOnce
  BY <1>1 DEF OrderedOnce
<1>7. ReportedOnce
  BY <1>1 DEF ReportedOnce, Reported
<1>8. ConfirmedLanded
  BY DEF ConfirmedLanded
<1>9. ASSUME NEW o \in Order PROVE Booked(o) = 0 /\ Confirmed(o) = 0
  <2>1. \A T : Queued(T) = 0
    BY <1>2 DEF Queued, Among
  <2>2. Logged(o) = {}
    BY DEF Logged
  <2>3. Cardinality({}) = 0
    BY FS_EmptySet
  <2>4. row[o].booked = 0
    OBVIOUS
  <2> QED
    BY <2>1, <2>2, <2>3, <2>4 DEF Booked, Confirmed
<1>10. BookedOnce
  <2> SUFFICES ASSUME NEW o \in Order PROVE Booked(o) <= Cardinality(Told(o))
    BY DEF BookedOnce
  <2>1. PICK n : n = Cardinality(Told(o))
    OBVIOUS
  <2>2. n \in Nat /\ Booked(o) = 0
    BY <1>9, <2>1, ToldFinite
  <2> QED
    BY <2>1, <2>2
<1>11. LoggedOnce
  <2>1. DOMAIN txs = {} /\ Messages(queue) = {} /\ SigOnce(queue)
    BY <1>1
  <2> QED
    BY <2>1 DEF LoggedOnce
<1>12. AmountsMatchTransactions
  <2> SUFFICES ASSUME NEW o \in Order
               PROVE  /\ Booked(o) <= Confirmed(o) + refused[o]
                      /\ Confirmed(o) <= Booked(o) + refused[o]
    BY DEF AmountsMatchTransactions
  <2>1. refused[o] = 0
    OBVIOUS
  <2>2. Booked(o) = 0 /\ Confirmed(o) = 0
    BY <1>9
  <2> HIDE DEF Init, HermesInit
  <2> QED
    BY <2>1, <2>2
<1> QED
  BY <1>3, <1>5, <1>6, <1>7, <1>8, <1>10, <1>11, <1>12 DEF OneShotInv

LEMMA StutterStep ==
  ASSUME OneShotInv, UNCHANGED vars
  PROVE  OneShotInv'
<1>1. UNCHANGED <<hermesVars, commands, janusVars, buffettVars, actorVars,
                  executorVars, forgotten>>
  BY DEF vars
<1>2. Numbered' /\ OrderedOnce'
  BY <1>1, OrdersKept DEF janusVars, buffettVars, actorVars, executorVars
<1>3. Typed'
  BY <1>1 DEF OneShotInv, Typed, TypeOK, hermesVars, janusVars, buffettVars,
              actorVars, executorVars
<1> QED
  BY <1>1, <1>2, <1>3, QuietStep DEF actorVars, executorVars

LEMMA NextInv == OneShotInv /\ [Next]_vars => OneShotInv'
<1> SUFFICES ASSUME OneShotInv, [Next]_vars PROVE OneShotInv'
  OBVIOUS
<1>1. ASSUME NEW o \in Order, DeliverCreation(o) \/ DeliverRemoval(o)
      PROVE  OneShotInv'
  BY <1>1, DeliverStep
<1>2. CASE Command
  BY <1>2, HandleCreateStep, LeaveStep, HandleRemoveStep, HandleForwardStep
  DEF Command
<1>3. CASE RouteResult
  BY <1>3, RouteStep
<1>4. ASSUME NEW a \in Actor, ActorStep(a) PROVE OneShotInv'
  BY <1>4, PhaseStep, ActivateStep, OnConfirmedStep, OnUnreadStep, OnFailedStep
  DEF ActorStep
<1>5. ASSUME NEW a \in Actor, Land(a) \/ Confirm(a) \/ Fail(a) \/ Unplanned(a)
      PROVE  OneShotInv'
  BY <1>5, LandStep, ReportStep
<1>6. CASE Persist
  BY <1>6, HandleStatusStep, HandleTransactionStep, HandleAmountsStep, RefuseStep
  DEF Persist, HermesNext
<1>7. CASE UNCHANGED vars
  BY <1>7, StutterStep
<1> QED
  BY <1>1, <1>2, <1>3, <1>4, <1>5, <1>6, <1>7 DEF Next

\* However often the queue delivers a creation, however late Guillotine and the
\* chain answer, and whichever of Hermes' queries fail: an actor orders one
\* trade, its report is read by one actor of its order at most, and a
\* confirmation that was read is booked once and logged once under its
\* signature, or counted as refused.
THEOREM OneShotInvariant == Spec => []OneShotInv
<1>1. Init => OneShotInv
  BY InitInv
<1>2. OneShotInv /\ [Next]_vars => OneShotInv'
  BY NextInv
<1> QED
  BY <1>1, <1>2, PTL DEF Spec

\* position_order and order_tx, which Hermes writes one after the other
\* (LogTransaction, then IncrementOrderAmounts), differ by no more than what is
\* queued and what the database refused.
THEOREM TablesConsistent == Spec => []Consistent
<1>1. OneShotInv => Consistent
  BY DEF OneShotInv, Typed, Consistent
<1> QED
  BY <1>1, OneShotInvariant, PTL

\* What the tables say was traded was traded: a confirmed signature is one the
\* chain has executed, and an order books no more trades than landed for it,
\* whatever the queue delivered again.
THEOREM RecordsAreTrue == Spec => []RecordsTrue
<1>1. ASSUME OneShotInv PROVE RecordsTrue
  <2>1. ASSUME NEW o PROVE Told(o) \subseteq {a \in landed : a[1] = o}
    BY <1>1 DEF OneShotInv, ConfirmedLanded, Told
  <2>2. ASSUME NEW s \in DOMAIN txs, txs[s].status = "CONFIRMED"
        PROVE  s \in landed
    BY <1>1, <2>1, <2>2 DEF OneShotInv, LoggedOnce
  <2>3. ASSUME NEW o \in Order
        PROVE  row[o].booked <= Cardinality({a \in landed : a[1] = o})
    <3> DEFINE L == {a \in landed : a[1] = o}
    <3>1. \A a \in L : a \in Actor /\ a[1] = o
      BY <1>1, Types
    <3> HIDE DEF L
    <3>2. IsFiniteSet(L) /\ Cardinality(L) \in Nat
      BY <3>1, ActorsFinite
    <3>3. Told(o) \in SUBSET L
      BY <2>1 DEF L
    <3>4. Cardinality(Told(o)) <= Cardinality(L)
      BY <3>2, <3>3, FS_Subset
    <3>5. Cardinality(Told(o)) \in Nat
      BY ToldFinite
    <3>6. /\ Booked(o) <= Cardinality(Told(o))
          /\ row[o].booked \in Nat /\ Queued(Bookings(o)) \in Nat
          /\ Booked(o) = row[o].booked + Queued(Bookings(o))
      BY <1>1, Counts DEF OneShotInv, BookedOnce, Booked
    <3> QED
      BY <3>2, <3>4, <3>5, <3>6 DEF L
  <2> QED
    BY <2>2, <2>3 DEF RecordsTrue
<1>2. OneShotInv => RecordsTrue
  BY <1>1
<1> QED
  BY <1>2, OneShotInvariant, PTL
=============================================================================
