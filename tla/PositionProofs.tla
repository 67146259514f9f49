--------------------------- MODULE PositionProofs ---------------------------
(***************************************************************************)
(* The selling position, for any orders, limits, transactions and numbers  *)
(* of deliveries: what its channels carry agrees with what its trade, its  *)
(* rows and the chain know, and each delivery of a creation brings its     *)
(* order's maximum once, through all the trades the position has.          *)
(***************************************************************************)
EXTENDS Position, CountersellProofs

-----------------------------------------------------------------------------
(* Channels.                                                               *)

\* How often a channel holds a message.
LEMMA OccursType ==
  ASSUME NEW S, NEW s \in Seq(S), NEW e
  PROVE  /\ IsFiniteSet({i \in DOMAIN s : s[i] = e})
         /\ Occurs(s, e) \in Nat
<1>1. {i \in DOMAIN s : s[i] = e} = {i \in DOMAIN s : s[i] \in {e}}
  OBVIOUS
<1> QED
  BY <1>1, AmongType DEF Occurs, Among

LEMMA OccursAmong ==
  ASSUME NEW s, NEW e
  PROVE  Occurs(s, e) = Among(s, {e})
<1>1. {i \in DOMAIN s : s[i] = e} = {i \in DOMAIN s : s[i] \in {e}}
  OBVIOUS
<1> QED
  BY <1>1 DEF Occurs, Among

LEMMA OccursNone ==
  ASSUME NEW e
  PROVE  Occurs(<< >>, e) = 0
BY AmongNone, OccursAmong

LEMMA OccursAppend ==
  ASSUME NEW S, NEW s \in Seq(S), NEW x \in S, NEW e
  PROVE  Occurs(Append(s, x), e) = Occurs(s, e) + (IF x = e THEN 1 ELSE 0)
<1>1. Among(Append(s, x), {e}) = Among(s, {e}) + (IF x \in {e} THEN 1 ELSE 0)
  BY AmongAppend
<1> QED
  BY <1>1, OccursAmong

LEMMA OccursTail ==
  ASSUME NEW S, NEW s \in Seq(S), s # << >>, NEW e
  PROVE  /\ Occurs(Tail(s), e) = Occurs(s, e) - (IF Head(s) = e THEN 1 ELSE 0)
         /\ Head(s) = e => Occurs(s, e) >= 1
<1>1. /\ Among(Tail(s), {e}) = Among(s, {e}) - (IF Head(s) \in {e} THEN 1 ELSE 0)
      /\ Head(s) \in {e} => Among(s, {e}) >= 1
  BY AmongTail
<1> QED
  BY <1>1, OccursAmong

-----------------------------------------------------------------------------
(* The results that a channel holds.                                       *)

ResultOf(e) == IF e.kind = "result" THEN {e.warrant} ELSE {}
ConfirmedOf(e) == IF e.kind = "result" /\ e.confirmed THEN {e.warrant} ELSE {}

LEMMA ResultsNone ==
  Unhandled(<< >>) = {} /\ ConfirmedIn(<< >>) = {} /\ OneResult(<< >>)
BY DEF Unhandled, ConfirmedIn, OneResult

LEMMA ResultsAppend ==
  ASSUME NEW S, NEW s \in Seq(S), NEW e \in S
  PROVE  /\ Unhandled(Append(s, e)) = Unhandled(s) \cup ResultOf(e)
         /\ ConfirmedIn(Append(s, e)) = ConfirmedIn(s) \cup ConfirmedOf(e)
         /\ OneResult(s) /\ ResultOf(e) \cap Unhandled(s) = {}
              => OneResult(Append(s, e))
<1> DEFINE a == Append(s, e)
           n == Len(s) + 1
<1>1. /\ DOMAIN s = 1 .. Len(s)
      /\ DOMAIN a = (1 .. Len(s)) \cup {n} /\ n \notin 1 .. Len(s)
      /\ \A i \in 1 .. Len(s) : a[i] = s[i]
      /\ a[n] = e
  BY Appended
<1> HIDE DEF a, n
<1>2. Unhandled(a) = Unhandled(s) \cup ResultOf(e)
  <2>1. ASSUME NEW w \in Unhandled(a) PROVE w \in Unhandled(s) \cup ResultOf(e)
    <3>1. PICK i \in DOMAIN a : a[i].kind = "result" /\ w = a[i].warrant
      BY DEF Unhandled
    <3> QED
      BY <1>1, <3>1 DEF Unhandled, ResultOf
  <2>2. ASSUME NEW w \in Unhandled(s) PROVE w \in Unhandled(a)
    <3>1. PICK i \in DOMAIN s : s[i].kind = "result" /\ w = s[i].warrant
      BY DEF Unhandled
    <3> QED
      BY <1>1, <3>1 DEF Unhandled
  <2>3. ResultOf(e) \subseteq Unhandled(a)
    BY <1>1 DEF Unhandled, ResultOf
  <2> QED
    BY <2>1, <2>2, <2>3
<1>3. ConfirmedIn(a) = ConfirmedIn(s) \cup ConfirmedOf(e)
  <2>1. ASSUME NEW w \in ConfirmedIn(a) PROVE w \in ConfirmedIn(s) \cup ConfirmedOf(e)
    <3>1. PICK i \in DOMAIN a : /\ a[i].kind = "result" /\ a[i].confirmed
                                /\ w = a[i].warrant
      BY DEF ConfirmedIn
    <3> QED
      BY <1>1, <3>1 DEF ConfirmedIn, ConfirmedOf
  <2>2. ASSUME NEW w \in ConfirmedIn(s) PROVE w \in ConfirmedIn(a)
    <3>1. PICK i \in DOMAIN s : /\ s[i].kind = "result" /\ s[i].confirmed
                                /\ w = s[i].warrant
      BY DEF ConfirmedIn
    <3> QED
      BY <1>1, <3>1 DEF ConfirmedIn
  <2>3. ConfirmedOf(e) \subseteq ConfirmedIn(a)
    BY <1>1 DEF ConfirmedIn, ConfirmedOf
  <2> QED
    BY <2>1, <2>2, <2>3
<1>4. ASSUME OneResult(s), ResultOf(e) \cap Unhandled(s) = {}
      PROVE  OneResult(a)
  <2> SUFFICES ASSUME NEW i \in DOMAIN a, NEW j \in DOMAIN a,
                      a[i].kind = "result", a[j].kind = "result",
                      a[i].warrant = a[j].warrant
               PROVE  i = j
    BY DEF OneResult
  <2>1. ASSUME NEW k \in 1 .. Len(s), s[k].kind = "result", e.kind = "result"
        PROVE  s[k].warrant # e.warrant
    BY <1>1, <1>4, <2>1 DEF Unhandled, ResultOf
  <2>2. CASE i \in 1 .. Len(s) /\ j \in 1 .. Len(s)
    BY <1>1, <1>4, <2>2 DEF OneResult
  <2>3. CASE i = n \/ j = n
    BY <1>1, <2>1, <2>3
  <2> QED
    BY <1>1, <2>2, <2>3
<1> QED
  BY <1>2, <1>3, <1>4 DEF a

LEMMA ResultsTail ==
  ASSUME NEW S, NEW s \in Seq(S), s # << >>, OneResult(s)
  PROVE  /\ Unhandled(s) = Unhandled(Tail(s)) \cup ResultOf(Head(s))
         /\ ConfirmedIn(s) = ConfirmedIn(Tail(s)) \cup ConfirmedOf(Head(s))
         /\ ResultOf(Head(s)) \cap Unhandled(Tail(s)) = {}
         /\ ConfirmedIn(Tail(s)) \subseteq Unhandled(Tail(s))
         /\ OneResult(Tail(s))
<1> DEFINE t == Tail(s)
           h == Head(s)
<1>1. /\ DOMAIN s = 1 .. Len(s) /\ DOMAIN t = 1 .. (Len(s) - 1)
      /\ Len(s) \in Nat /\ Len(s) >= 1 /\ h = s[1]
      /\ \A i \in 1 .. (Len(s) - 1) : i + 1 \in 1 .. Len(s) /\ t[i] = s[i + 1]
      /\ \A j \in 1 .. Len(s) : j # 1 => j - 1 \in 1 .. (Len(s) - 1)
                                         /\ t[j - 1] = s[j]
  BY Shifted
<1>2. 1 \in DOMAIN s
  BY <1>1
<1> HIDE DEF t, h
<1>3. Unhandled(s) = Unhandled(t) \cup ResultOf(h)
  <2>1. ASSUME NEW w \in Unhandled(s) PROVE w \in Unhandled(t) \cup ResultOf(h)
    <3>1. PICK i \in DOMAIN s : s[i].kind = "result" /\ w = s[i].warrant
      BY DEF Unhandled
    <3>2. CASE i = 1
      BY <1>1, <3>1, <3>2 DEF ResultOf
    <3>3. CASE i # 1
      <4>1. i - 1 \in DOMAIN t /\ t[i - 1].kind = "result" /\ w = t[i - 1].warrant
        BY <1>1, <3>1, <3>3
      <4> QED
        BY <4>1 DEF Unhandled
    <3> QED
      BY <3>2, <3>3
  <2>2. ASSUME NEW w \in Unhandled(t) PROVE w \in Unhandled(s)
    <3>1. PICK i \in DOMAIN t : t[i].kind = "result" /\ w = t[i].warrant
      BY DEF Unhandled
    <3> QED
      BY <1>1, <3>1 DEF Unhandled
  <2>3. ResultOf(h) \subseteq Unhandled(s)
    BY <1>1, <1>2 DEF Unhandled, ResultOf
  <2> QED
    BY <2>1, <2>2, <2>3
<1>4. ConfirmedIn(s) = ConfirmedIn(t) \cup ConfirmedOf(h)
  <2>1. ASSUME NEW w \in ConfirmedIn(s) PROVE w \in ConfirmedIn(t) \cup ConfirmedOf(h)
    <3>1. PICK i \in DOMAIN s : /\ s[i].kind = "result" /\ s[i].confirmed
                                /\ w = s[i].warrant
      BY DEF ConfirmedIn
    <3> QED
      BY <1>1, <3>1 DEF ConfirmedIn, ConfirmedOf
  <2>2. ASSUME NEW w \in ConfirmedIn(t) PROVE w \in ConfirmedIn(s)
    <3>1. PICK i \in DOMAIN t : /\ t[i].kind = "result" /\ t[i].confirmed
                                /\ w = t[i].warrant
      BY DEF ConfirmedIn
    <3> QED
      BY SMTT(20), <1>1, <3>1 DEF ConfirmedIn
  <2>3. ConfirmedOf(h) \subseteq ConfirmedIn(s)
    BY <1>1, <1>2 DEF ConfirmedIn, ConfirmedOf
  <2> QED
    BY <2>1, <2>2, <2>3
<1>5. ResultOf(h) \cap Unhandled(t) = {}
  <2> SUFFICES ASSUME NEW w \in ResultOf(h), w \in Unhandled(t) PROVE FALSE
    OBVIOUS
  <2>1. PICK i \in DOMAIN t : t[i].kind = "result" /\ w = t[i].warrant
    BY DEF Unhandled
  <2>2. h.kind = "result" /\ w = h.warrant
    BY DEF ResultOf
  <2>3. i + 1 \in DOMAIN s /\ i + 1 # 1 /\ s[i + 1] = t[i]
    BY <1>1
  <2> QED
    BY <1>1, <1>2, <2>1, <2>2, <2>3 DEF OneResult
<1>6. OneResult(t)
  <2> SUFFICES ASSUME NEW i \in DOMAIN t, NEW j \in DOMAIN t,
                      t[i].kind = "result", t[j].kind = "result",
                      t[i].warrant = t[j].warrant
               PROVE  i = j
    BY DEF OneResult
  <2>1. i + 1 \in DOMAIN s /\ j + 1 \in DOMAIN s /\ i \in Nat /\ j \in Nat
    BY <1>1
  <2>2. i + 1 = j + 1
    BY <1>1, <2>1 DEF OneResult
  <2> QED
    BY <2>1, <2>2
<1>7. ConfirmedIn(t) \subseteq Unhandled(t)
  BY DEF ConfirmedIn, Unhandled
<1> QED
  BY <1>3, <1>4, <1>5, <1>6, <1>7 DEF t, h

-----------------------------------------------------------------------------
(* Sums.                                                                   *)

LEMMA ShareLess ==
  ASSUME NEW S, IsFiniteSet(Units(S)), NEW T \in SUBSET S, NEW o
  PROVE  /\ Total(ClaimsOf(T, o)) \in Nat /\ Total(ClaimsOf(S, o)) \in Nat
         /\ Total(ClaimsOf(T, o)) <= Total(ClaimsOf(S, o))
<1>1. ClaimsOf(S, o) \in SUBSET S /\ ClaimsOf(T, o) \in SUBSET ClaimsOf(S, o)
  BY DEF ClaimsOf
<1>2. IsFiniteSet(Units(ClaimsOf(S, o)))
  BY <1>1, PartTotal
<1>3. /\ IsFiniteSet(Units(ClaimsOf(T, o)))
      /\ Total(ClaimsOf(T, o)) <= Total(ClaimsOf(S, o))
  BY <1>1, <1>2, PartTotal
<1> QED
  BY <1>2, <1>3, TotalType

LEMMA ShareWithout ==
  ASSUME NEW S \in SUBSET Claim(OrderId), IsFiniteSet(Units(S)), NEW r \in S,
         NEW T \in SUBSET (S \ {r}), NEW o
  PROVE  Total(ClaimsOf(T, o)) + (IF r.order = o THEN r.amount ELSE 0)
           <= Total(ClaimsOf(S, o))
<1>1. IsFiniteSet(Units(S \ {r}))
  BY CloseClaim
<1>2. /\ Total(ClaimsOf(T, o)) \in Nat /\ Total(ClaimsOf(S \ {r}, o)) \in Nat
      /\ Total(ClaimsOf(T, o)) <= Total(ClaimsOf(S \ {r}, o))
  BY <1>1, ShareLess
<1>3. Total(ClaimsOf(S \ {r}, o)) =
        Total(ClaimsOf(S, o)) - (IF r.order = o THEN r.amount ELSE 0)
  BY CloseClaimOf
<1>4. Total(ClaimsOf(S, o)) \in Nat /\ r.amount \in Nat
  BY ShareLess DEF Claim
<1> QED
  BY <1>2, <1>3, <1>4

LEMMA ShareWith ==
  ASSUME NEW S \in SUBSET Claim(OrderId), IsFiniteSet(Units(S)),
         NEW r \in Claim(OrderId), NEW T \in SUBSET (S \cup {r}), NEW o
  PROVE  /\ Total(ClaimsOf(T, o)) \in Nat
         /\ Total(ClaimsOf(T, o)) <=
              Total(ClaimsOf(S, o)) + (IF r.order = o THEN r.amount ELSE 0)
<1>1. r.amount \in Nat /\ Total(ClaimsOf(S, o)) \in Nat
  BY ShareLess DEF Claim
<1>2. CASE r \in S
  <2>1. T \in SUBSET S
    BY <1>2
  <2> QED
    BY <1>1, <2>1, ShareLess
<1>3. CASE r \notin S
  <2>1. IsFiniteSet(Units(S \cup {r}))
    BY <1>3, AddClaim
  <2>2. /\ Total(ClaimsOf(T, o)) \in Nat
        /\ Total(ClaimsOf(T, o)) <= Total(ClaimsOf(S \cup {r}, o))
    BY <2>1, ShareLess
  <2>3. Total(ClaimsOf(S \cup {r}, o)) =
          Total(ClaimsOf(S, o)) + (IF r.order = o THEN r.amount ELSE 0)
    BY <1>3, AddClaimOf
  <2> QED
    BY <1>1, <2>2, <2>3
<1> QED
  BY <1>2, <1>3

\* What is free at an order's place is a column of units.
LEMMA Column ==
  ASSUME NEW i, NEW a \in Nat, NEW b \in Nat, a <= b
  PROVE  /\ IsFiniteSet({i} \X ((a + 1) .. b))
         /\ Cardinality({i} \X ((a + 1) .. b)) = b - a
<1>1. IsFiniteSet({i}) /\ Cardinality({i}) = 1
  BY FS_Singleton
<1>2. /\ IsFiniteSet((a + 1) .. b)
      /\ Cardinality((a + 1) .. b) = b - a
  <2>1. a + 1 \in Int /\ b \in Int
    OBVIOUS
  <2>2. /\ IsFiniteSet((a + 1) .. b)
        /\ Cardinality((a + 1) .. b) = IF a + 1 > b THEN 0 ELSE b - (a + 1) + 1
    BY <2>1, FS_Interval
  <2> QED
    BY <2>2
<1> DEFINE J == (a + 1) .. b
<1> HIDE DEF J
<1>3. /\ IsFiniteSet({i} \X J)
      /\ Cardinality({i} \X J) = Cardinality({i}) * Cardinality(J)
  BY <1>1, <1>2, FS_Product DEF J
<1>4. Cardinality(J) = b - a
  BY <1>2 DEF J
<1>5. Cardinality({i} \X J) = b - a
  BY <1>1, <1>3, <1>4
<1> QED
  BY <1>3, <1>5 DEF J

LEMMA FreeFinite ==
  ASSUME TradeTypeOK, NEW o \in OrderId
  PROVE  /\ IsFiniteSet(live) /\ Cardinality(live) \in Nat
         /\ IsFiniteSet(Free(o)) /\ Cardinality(Free(o)) \in Nat
         /\ IsFiniteSet(Places(o)) /\ Cardinality(Places(o)) \in Nat
<1>1. Len(entries) \in Nat /\ live \in SUBSET (1 .. Len(entries))
  BY LenProperties DEF TradeTypeOK
<1>2. IsFiniteSet(live)
  <2>1. IsFiniteSet(1 .. Len(entries))
    BY <1>1, FS_Interval
  <2> QED
    BY <1>1, <2>1, FS_Subset
<1>3. IsFiniteSet(1 .. MaxToSell[o])
  BY FS_Interval, CountersellAssumption
<1>4. IsFiniteSet(live \X (1 .. MaxToSell[o]))
  BY <1>2, <1>3, FS_Product
<1>5. Free(o) \in SUBSET (live \X (1 .. MaxToSell[o])) /\ Places(o) \in SUBSET live
  BY DEF Free, Places
<1>6. IsFiniteSet(Free(o)) /\ IsFiniteSet(Places(o))
  BY <1>2, <1>4, <1>5, FS_Subset
<1> QED
  BY <1>2, <1>6, FS_CardinalityType

\* A finite set that grows by another at most, and one that loses a part.
LEMMA NoMore ==
  ASSUME NEW A, IsFiniteSet(A), NEW X, IsFiniteSet(X), NEW F \in SUBSET (A \cup X)
  PROVE  /\ IsFiniteSet(F) /\ Cardinality(F) \in Nat
         /\ Cardinality(F) <= Cardinality(A) + Cardinality(X)
<1>1. /\ IsFiniteSet(A \cup X)
      /\ Cardinality(A \cup X) = Cardinality(A) + Cardinality(X) - Cardinality(A \cap X)
  BY FS_Union
<1>2. IsFiniteSet(A \cap X)
  BY FS_Intersection
<1>3. /\ Cardinality(A) \in Nat /\ Cardinality(X) \in Nat
      /\ Cardinality(A \cap X) \in Nat /\ Cardinality(A \cup X) \in Nat
  BY <1>1, <1>2, FS_CardinalityType
<1>4. IsFiniteSet(F) /\ Cardinality(F) <= Cardinality(A \cup X)
  BY <1>1, FS_Subset
<1> QED
  BY <1>1, <1>3, <1>4, FS_CardinalityType

LEMMA LessBy ==
  ASSUME NEW A, IsFiniteSet(A), NEW X \in SUBSET A, NEW F \in SUBSET (A \ X)
  PROVE  /\ IsFiniteSet(F) /\ Cardinality(F) \in Nat
         /\ Cardinality(F) + Cardinality(X) <= Cardinality(A)
<1>1. /\ IsFiniteSet(A \ X) /\ A \cap X = X
      /\ Cardinality(A \ X) = Cardinality(A) - Cardinality(A \cap X)
  BY FS_Difference
<1>2. IsFiniteSet(X) /\ Cardinality(X) \in Nat /\ Cardinality(A) \in Nat
  BY FS_Subset, FS_CardinalityType
<1>3. /\ IsFiniteSet(F) /\ Cardinality(F) <= Cardinality(A \ X)
      /\ Cardinality(F) \in Nat
  BY <1>1, FS_Subset, FS_CardinalityType
<1> QED
  BY <1>1, <1>2, <1>3

\* The accounts of an order: it may get a maximum of m more for each creation
\* that arrives, or is delivered.
LEMMA Accounts ==
  ASSUME NEW m \in Nat, NEW a \in Nat, NEW b \in Nat, NEW k \in Nat,
         NEW c \in Nat, NEW d \in Nat, NEW c2 \in Nat, NEW d2 \in Nat,
         a + c * m <= d * m,
         b <= a + k * m,
         c2 + k + d <= c + d2
  PROVE  b + c2 * m <= d2 * m
<1>1. (c2 + k + d) * m <= (c + d2) * m
  <2>1. \A x, y \in Nat : x <= y => x * m <= y * m
    OBVIOUS
  <2> QED
    BY <2>1
<1>2. /\ (c2 + k + d) * m = c2 * m + k * m + d * m
      /\ (c + d2) * m = c * m + d2 * m
  OBVIOUS
<1>3. /\ c2 * m \in Nat /\ k * m \in Nat /\ d * m \in Nat
      /\ c * m \in Nat /\ d2 * m \in Nat
  OBVIOUS
<1> QED
  BY <1>1, <1>2, <1>3

-----------------------------------------------------------------------------
(* What the invariant says of the pieces.                                  *)

LEMMA CommandKinds ==
  /\ \A e \in CommandMsg :
       /\ e.kind \in {"create", "remove", "forward", "complete"}
       /\ e.kind = "create" => /\ e.order \in OrderId
                               /\ e = [kind |-> "create", order |-> e.order]
       /\ e.kind = "remove" => e.order \in OrderId
       /\ e.kind = "complete" => e = [kind |-> "complete"]
  /\ \A o \in OrderId : /\ [kind |-> "create", order |-> o] \in CommandMsg
                        /\ [kind |-> "remove", order |-> o] \in CommandMsg
  /\ \A w \in Claim(OrderId) : [kind |-> "forward", warrant |-> w] \in CommandMsg
  /\ [kind |-> "complete"] \in CommandMsg
  /\ \A o : [kind |-> "create", order |-> o].kind = "create"
  /\ \A o, p : [kind |-> "create", order |-> o] = [kind |-> "create", order |-> p]
                 => o = p
  /\ [kind |-> "complete"].kind = "complete"
BY DEF CommandMsg

LEMMA MailKinds ==
  /\ \A e \in MailMsg :
       /\ e.kind \in {"logs", "add", "remove", "result"}
       /\ e.kind = "logs" => e.tx \in Tx
       /\ e.kind = "add" => /\ e.order \in OrderId
                            /\ e = [kind |-> "add", order |-> e.order]
       /\ e.kind = "remove" => e.order \in OrderId
       /\ e.kind = "result" => /\ e \in ResultMsg
                               /\ e.warrant \in Claim(OrderId)
                               /\ e.confirmed \in BOOLEAN
  /\ \A e \in ResultMsg : /\ e \in MailMsg /\ e.kind = "result"
                          /\ e.warrant \in Claim(OrderId)
                          /\ e.confirmed \in BOOLEAN
  /\ \A o \in OrderId : /\ [kind |-> "add", order |-> o] \in MailMsg
                        /\ [kind |-> "remove", order |-> o] \in MailMsg
  /\ \A t \in Tx : [kind |-> "logs", tx |-> t] \in MailMsg
  /\ \A o : [kind |-> "add", order |-> o].kind = "add"
  /\ \A o, p : [kind |-> "add", order |-> o] = [kind |-> "add", order |-> p] => o = p
BY DEF MailMsg, ResultMsg

LEMMA Constants ==
  /\ Holdings \in Nat /\ Word \in Nat /\ Holdings < Word
  /\ MaxToSell \in [OrderId -> Nat]
  /\ \A o \in OrderId : MaxToSell[o] \in Nat /\ MaxToSell[o] < Word
  /\ MaxOrders \in Nat /\ MaxOrders >= 1
BY CountersellAssumption

LEMMA Facts ==
  ASSUME PositionInv
  PROVE  /\ entries \in Seq(OrderState) /\ live \subseteq 1 .. Len(entries)
         /\ warrants \in SUBSET Claim(OrderId) /\ IsFiniteSet(Units(warrants))
         /\ Unread \in SUBSET warrants /\ Unsold \in SUBSET warrants
         /\ Unread \in SUBSET Claim(OrderId) /\ Unsold \in SUBSET Claim(OrderId)
         /\ IsFiniteSet(Units(Unread)) /\ IsFiniteSet(Units(Unsold))
         /\ \A o \in OrderId :
              /\ Total(ClaimsOf(Unread, o)) \in Nat
              /\ Total(ClaimsOf(Unsold, o)) \in Nat
              /\ IsFiniteSet(Free(o)) /\ Cardinality(Free(o)) \in Nat
              /\ IsFiniteSet(Places(o)) /\ Cardinality(Places(o)) \in Nat
              /\ Occurs(commands, [kind |-> "create", order |-> o]) \in Nat
              /\ Occurs(mailbox, [kind |-> "add", order |-> o]) \in Nat
              /\ orphans[o] \in Nat
              /\ Coming(o) \in Nat
              /\ MaxToSell[o] \in Nat
              /\ delivered[o] \in Nat /\ confirmedBy[o] \in Nat /\ dbSold[o] \in Nat
         /\ IsFiniteSet(live) /\ Cardinality(live) \in Nat
         /\ \A i \in 1 .. Len(entries) :
              /\ entries[i] \in OrderState /\ entries[i].id \in OrderId
              /\ entries[i].sold \in Nat /\ entries[i].pending \in Nat
         /\ \A i \in live : i \in 1 .. Len(entries)
<1>1. TradeTypeOK /\ PositionTypeOK /\ IsFiniteSet(Units(warrants))
  BY DEF PositionInv, PositionTypeOK, Numbered
<1>2. /\ entries \in Seq(OrderState) /\ live \subseteq 1 .. Len(entries)
      /\ warrants \in SUBSET Claim(OrderId)
  BY <1>1 DEF TradeTypeOK
<1>3. Unread \in SUBSET warrants /\ Unsold \in SUBSET warrants
  <2>1. Unhandled(results) \cup Unhandled(mailbox) \subseteq warrants
    BY DEF PositionInv, AnsweredOnce
  <2>2. ConfirmedIn(results) \subseteq Unhandled(results)
    BY DEF ConfirmedIn, Unhandled
  <2>3. ConfirmedIn(mailbox) \subseteq Unhandled(mailbox)
    BY DEF ConfirmedIn, Unhandled
  <2> QED
    BY <2>1, <2>2, <2>3 DEF Unread, Unsold
<1>4. IsFiniteSet(Units(Unread)) /\ IsFiniteSet(Units(Unsold))
  BY <1>1, <1>3, PartTotal
<1>5. ASSUME NEW o \in OrderId
      PROVE  /\ Total(ClaimsOf(Unread, o)) \in Nat
             /\ Total(ClaimsOf(Unsold, o)) \in Nat
  BY <1>4, ShareLess
<1>6. ASSUME NEW o \in OrderId
      PROVE  /\ IsFiniteSet(Free(o)) /\ Cardinality(Free(o)) \in Nat
             /\ IsFiniteSet(Places(o)) /\ Cardinality(Places(o)) \in Nat
             /\ IsFiniteSet(live) /\ Cardinality(live) \in Nat
  BY <1>1, FreeFinite
<1>7. ASSUME NEW o \in OrderId
      PROVE  /\ Occurs(commands, [kind |-> "create", order |-> o]) \in Nat
             /\ Occurs(mailbox, [kind |-> "add", order |-> o]) \in Nat
             /\ orphans[o] \in Nat
             /\ Coming(o) \in Nat
  <2>1. commands \in Seq(CommandMsg) /\ mailbox \in Seq(MailMsg)
    BY <1>1 DEF PositionTypeOK
  <2>2. /\ Occurs(commands, [kind |-> "create", order |-> o]) \in Nat
        /\ Occurs(mailbox, [kind |-> "add", order |-> o]) \in Nat
    BY <2>1, OccursType
  <2>3. orphans[o] \in Nat
    BY <1>1 DEF PositionTypeOK
  <2> QED
    BY <2>2, <2>3 DEF Coming
<1>8. ASSUME NEW o \in OrderId
      PROVE  /\ MaxToSell[o] \in Nat
             /\ delivered[o] \in Nat /\ confirmedBy[o] \in Nat /\ dbSold[o] \in Nat
  BY <1>1, Constants DEF PositionTypeOK, TradeTypeOK
<1>9. IsFiniteSet(live) /\ Cardinality(live) \in Nat
  <2>1. Len(entries) \in Nat /\ live \in SUBSET (1 .. Len(entries))
    BY <1>2, LenProperties
  <2>2. IsFiniteSet(1 .. Len(entries))
    BY <2>1, FS_Interval
  <2> QED
    BY <2>1, <2>2, FS_Subset, FS_CardinalityType
<1>10. ASSUME NEW i \in 1 .. Len(entries)
       PROVE  /\ entries[i] \in OrderState /\ entries[i].id \in OrderId
              /\ entries[i].sold \in Nat /\ entries[i].pending \in Nat
  <2>1. entries[i] \in OrderState
    BY <1>2, ElementOfSeq
  <2> QED
    BY <2>1 DEF OrderState
<1>11. Unread \in SUBSET Claim(OrderId) /\ Unsold \in SUBSET Claim(OrderId)
  BY <1>2, <1>3
<1> QED
  BY <1>1, <1>2, <1>3, <1>4, <1>5, <1>6, <1>7, <1>8, <1>9, <1>10, <1>11

-----------------------------------------------------------------------------
(* Steps that leave the trade, the chain and the warrants alone.           *)

\* What such a step may still do: move a creation on, or lose it, mark an
\* order DELETED, and end the route of a trade that no longer runs.
Quiet ==
    /\ UNCHANGED <<tradeVars, dbSold, reportVars, warrants, issued, historyVars>>
    /\ Unread' = Unread
    /\ status' \in [OrderId -> Status]
    /\ \A o \in OrderId : status'[o] = status[o] \/ status'[o] = "DELETED"
    /\ actor' = actor \/ (actor # "running" /\ actor' # "running")
    /\ delivered' \in [OrderId -> Nat]
    /\ \A o \in OrderId : /\ Coming(o)' \in Nat
                          /\ Coming(o)' + delivered[o] <= Coming(o) + delivered'[o]

LEMMA QuietKeeps ==
  ASSUME PositionInv, Quiet
  PROVE  TradeTypeOK' /\ Numbered' /\ Recorded' /\ Budgeted' /\ Counted' /\ EntriesFit' /\ Held'
<1>1. /\ UNCHANGED <<entries, live, totalSold, totalPending, failures, complete,
                     dbSold, confirmed, confirmedBy, warrants, issued, earlier, stray,
                     orphaned>>
      /\ Unread' = Unread /\ Unsold' = Unsold
  BY DEF Quiet, tradeVars, reportVars, historyVars, Unsold
<1>2. TradeTypeOK'
  BY <1>1 DEF Quiet, PositionInv, PositionTypeOK, TradeTypeOK
<1>3. Numbered'
  <2>1. StrayAccounted'
    BY <1>1 DEF Quiet, PositionInv, Numbered, StrayAccounted
  <2> QED
    BY <1>1, <2>1 DEF PositionInv, Numbered
<1>4. \A o : Astray(o)' = Astray(o)
  BY <1>1 DEF Astray
<1>5. Recorded'
  BY <1>1 DEF Quiet, PositionInv, Recorded
<1>6. ASSUME NEW o \in OrderId
      PROVE  Free(o)' = Free(o) /\ Places(o)' = Places(o) /\ Absent(o)' = Absent(o)
  BY <1>1 DEF Free, Places, Absent
<1>7. Budgeted'
  <2> SUFFICES ASSUME NEW o \in OrderId
               PROVE  confirmedBy[o] + Total(ClaimsOf(Unsold, o)) + Cardinality(Free(o))
                          + Coming(o)' * MaxToSell[o]
                        <= delivered'[o] * MaxToSell[o]
    BY <1>1, <1>6 DEF Budgeted
  <2> DEFINE a == confirmedBy[o] + Total(ClaimsOf(Unsold, o)) + Cardinality(Free(o))
  <2>1. a \in Nat /\ MaxToSell[o] \in Nat /\ Coming(o) \in Nat /\ delivered[o] \in Nat
    <3>1. /\ confirmedBy[o] \in Nat /\ Total(ClaimsOf(Unsold, o)) \in Nat
          /\ Cardinality(Free(o)) \in Nat /\ MaxToSell[o] \in Nat
          /\ Coming(o) \in Nat /\ delivered[o] \in Nat
      BY Facts
    <3> QED
      BY <3>1
  <2>2. a + Coming(o) * MaxToSell[o] <= delivered[o] * MaxToSell[o]
    BY DEF PositionInv, Budgeted
  <2>3. /\ Coming(o)' \in Nat /\ delivered'[o] \in Nat
        /\ Coming(o)' + 0 + delivered[o] <= Coming(o) + delivered'[o]
    BY <2>1 DEF Quiet
  <2> HIDE DEF a
  <2>4. a <= a + 0 * MaxToSell[o]
    BY <2>1
  <2>5. a + Coming(o)' * MaxToSell[o] <= delivered'[o] * MaxToSell[o]
    BY <2>1, <2>2, <2>3, <2>4, Accounts
  <2> QED
    BY <2>5 DEF a
<1>8. Counted'
  <2> SUFFICES ASSUME NEW o \in OrderId
               PROVE  Coming(o)' + Cardinality(Places(o))
                        + (IF status'[o] = "COMPLETED" THEN 1 ELSE 0)
                      <= delivered'[o]
    BY <1>1, <1>6 DEF Counted, PositionInv
  <2>1. /\ Cardinality(Places(o)) \in Nat /\ Coming(o) \in Nat /\ delivered[o] \in Nat
        /\ Coming(o)' \in Nat /\ delivered'[o] \in Nat
        /\ Coming(o)' + delivered[o] <= Coming(o) + delivered'[o]
    BY Facts DEF Quiet
  <2>2. Coming(o) + Cardinality(Places(o))
          + (IF status[o] = "COMPLETED" THEN 1 ELSE 0) <= delivered[o]
    BY DEF PositionInv, Counted
  <2>3. status'[o] = "COMPLETED" => status[o] = "COMPLETED"
    BY DEF Quiet
  <2> QED
    BY <2>1, <2>2, <2>3
<1>9. EntriesFit'
  BY <1>1 DEF PositionInv, EntriesFit
<1>10. Held'
  <2>1. ASSUME NEW o \in OrderId, status'[o] = "ACTIVE"
        PROVE  \/ actor' = "running" /\ ~Absent(o)'
               \/ Astray(o)'
               \/ MaxToSell[o] = 0
    <3>1. status[o] = "ACTIVE"
      BY <2>1 DEF Quiet
    <3>2. \/ actor = "running" /\ ~Absent(o)
          \/ Astray(o)
          \/ MaxToSell[o] = 0
      BY <3>1 DEF PositionInv, Held
    <3>3. actor = "running" => actor' = "running"
      BY DEF Quiet
    <3> QED
      BY <1>4, <1>6, <3>2, <3>3
  <2>2. ASSUME NEW i \in live, entries[i].sold >= MaxToSell[entries[i].id]
        PROVE  Astray(entries[i].id) \/ MaxToSell[entries[i].id] = 0
    BY <2>2 DEF PositionInv, Held
  <2> QED
    BY <1>1, <1>4, <2>1, <2>2 DEF Held
<1> QED
  BY <1>2, <1>3, <1>5, <1>7, <1>8, <1>9, <1>10

-----------------------------------------------------------------------------
(* Messages that are sent and taken.                                       *)

LEMMA CommandSent ==
  ASSUME PositionInv, NEW c \in CommandMsg, commands' = Append(commands, c)
  PROVE  /\ commands' \in Seq(CommandMsg)
         /\ \A e : Occurs(commands', e) =
                     Occurs(commands, e) + (IF c = e THEN 1 ELSE 0)
BY Appended, OccursAppend DEF PositionInv, PositionTypeOK

LEMMA CommandTaken ==
  ASSUME PositionInv, NEW kind, Take(kind)
  PROVE  /\ Head(commands) \in CommandMsg /\ Head(commands).kind = kind
         /\ commands' \in Seq(CommandMsg)
         /\ \A e : /\ Occurs(commands, e) \in Nat
                   /\ Occurs(commands', e) \in Nat
                   /\ Occurs(commands', e) =
                        Occurs(commands, e) - (IF Head(commands) = e THEN 1 ELSE 0)
<1>1. /\ commands \in Seq(CommandMsg) /\ commands # << >>
      /\ commands' = Tail(commands) /\ Head(commands).kind = kind
  BY DEF Take, PositionInv, PositionTypeOK
<1>2. Head(commands) \in CommandMsg /\ commands' \in Seq(CommandMsg)
  BY <1>1, Shifted
<1> QED
  BY <1>1, <1>2, OccursTail, OccursType

LEMMA Posted ==
  ASSUME PositionInv, NEW e \in MailMsg, e.kind # "result", Post(e)
  PROVE  /\ mailbox' \in Seq(MailMsg)
         /\ actor # "running" => mailbox' = << >>
         /\ \A o \in OrderId :
              /\ Occurs(mailbox', [kind |-> "add", order |-> o]) \in Nat
              /\ Occurs(mailbox', [kind |-> "add", order |-> o])
                   <= Occurs(mailbox, [kind |-> "add", order |-> o])
                        + (IF e = [kind |-> "add", order |-> o] THEN 1 ELSE 0)
         /\ Unhandled(mailbox') = Unhandled(mailbox)
         /\ ConfirmedIn(mailbox') = ConfirmedIn(mailbox)
         /\ OneResult(mailbox')
<1>1. /\ mailbox \in Seq(MailMsg) /\ OneResult(mailbox)
      /\ actor # "running" => mailbox = << >>
  BY DEF PositionInv, PositionTypeOK, AnsweredOnce, InStep
<1>2. CASE actor = "running"
  <2>1. mailbox' = Append(mailbox, e)
    BY <1>2 DEF Post
  <2>2. ResultOf(e) = {} /\ ConfirmedOf(e) = {}
    BY DEF ResultOf, ConfirmedOf
  <2>3. /\ mailbox' \in Seq(MailMsg)
        /\ \A f : Occurs(mailbox', f) = Occurs(mailbox, f) + (IF e = f THEN 1 ELSE 0)
        /\ Unhandled(mailbox') = Unhandled(mailbox)
        /\ ConfirmedIn(mailbox') = ConfirmedIn(mailbox)
        /\ OneResult(mailbox')
    <3>1. mailbox' \in Seq(MailMsg)
      BY <1>1, <2>1, Appended
    <3>2. \A f : Occurs(mailbox', f) = Occurs(mailbox, f) + (IF e = f THEN 1 ELSE 0)
      BY <1>1, <2>1, OccursAppend
    <3>3. /\ Unhandled(mailbox') = Unhandled(mailbox) \cup {}
          /\ ConfirmedIn(mailbox') = ConfirmedIn(mailbox) \cup {}
          /\ OneResult(mailbox')
      <4>1. /\ Unhandled(Append(mailbox, e)) = Unhandled(mailbox) \cup ResultOf(e)
            /\ ConfirmedIn(Append(mailbox, e)) = ConfirmedIn(mailbox) \cup ConfirmedOf(e)
            /\ OneResult(mailbox) /\ ResultOf(e) \cap Unhandled(mailbox) = {}
                 => OneResult(Append(mailbox, e))
        BY <1>1, ResultsAppend
      <4> QED
        BY <1>1, <2>1, <2>2, <4>1
    <3> QED
      BY <3>1, <3>2, <3>3
  <2>4. ASSUME NEW o \in OrderId
        PROVE  /\ Occurs(mailbox', [kind |-> "add", order |-> o]) \in Nat
               /\ Occurs(mailbox', [kind |-> "add", order |-> o])
                    <= Occurs(mailbox, [kind |-> "add", order |-> o])
                         + (IF e = [kind |-> "add", order |-> o] THEN 1 ELSE 0)
    <3>1. Occurs(mailbox, [kind |-> "add", order |-> o]) \in Nat
      BY Facts
    <3> QED
      BY <2>3, <3>1
  <2> QED
    BY <1>2, <2>3, <2>4
<1>3. CASE actor # "running"
  <2>1. mailbox' = mailbox /\ mailbox = << >>
    BY <1>1, <1>3 DEF Post
  <2>2. \A o \in OrderId : Occurs(mailbox, [kind |-> "add", order |-> o]) \in Nat
    BY Facts
  <2> QED
    BY <1>1, <2>1, <2>2
<1> QED
  BY <1>2, <1>3

\* The message the actor reads.
LEMMA MailTaken ==
  ASSUME PositionInv, mailbox # << >>
  PROVE  /\ Message \in MailMsg
         /\ Tail(mailbox) \in Seq(MailMsg)
         /\ \A e : /\ Occurs(mailbox, e) \in Nat
                   /\ Occurs(Tail(mailbox), e) \in Nat
                   /\ Occurs(Tail(mailbox), e) =
                        Occurs(mailbox, e) - (IF Message = e THEN 1 ELSE 0)
         /\ Unhandled(mailbox) = Unhandled(Tail(mailbox)) \cup ResultOf(Message)
         /\ ConfirmedIn(mailbox) = ConfirmedIn(Tail(mailbox)) \cup ConfirmedOf(Message)
         /\ ResultOf(Message) \cap Unhandled(Tail(mailbox)) = {}
         /\ ConfirmedIn(Tail(mailbox)) \subseteq Unhandled(Tail(mailbox))
         /\ OneResult(Tail(mailbox))
         /\ ConfirmedIn(results) \subseteq Unhandled(results)
         /\ ResultOf(Message) \cap Unhandled(results) = {}
<1>1. mailbox \in Seq(MailMsg) /\ OneResult(mailbox)
  BY DEF PositionInv, PositionTypeOK, AnsweredOnce
<1>2. Message \in MailMsg /\ Tail(mailbox) \in Seq(MailMsg)
  BY <1>1, Shifted DEF Message
<1>3. \A e : /\ Occurs(mailbox, e) \in Nat
             /\ Occurs(Tail(mailbox), e) \in Nat
             /\ Occurs(Tail(mailbox), e) =
                  Occurs(mailbox, e) - (IF Message = e THEN 1 ELSE 0)
  BY <1>1, <1>2, OccursTail, OccursType DEF Message
<1>4. /\ Unhandled(mailbox) = Unhandled(Tail(mailbox)) \cup ResultOf(Message)
      /\ ConfirmedIn(mailbox) = ConfirmedIn(Tail(mailbox)) \cup ConfirmedOf(Message)
      /\ ResultOf(Message) \cap Unhandled(Tail(mailbox)) = {}
      /\ ConfirmedIn(Tail(mailbox)) \subseteq Unhandled(Tail(mailbox))
      /\ OneResult(Tail(mailbox))
  BY <1>1, ResultsTail DEF Message
<1>5. ConfirmedIn(results) \subseteq Unhandled(results)
  BY DEF ConfirmedIn, Unhandled
<1>6. ResultOf(Message) \cap Unhandled(results) = {}
  BY <1>4 DEF PositionInv, AnsweredOnce
<1> QED
  BY <1>2, <1>3, <1>4, <1>5, <1>6

-----------------------------------------------------------------------------
(* Messages from outside.                                                  *)

LEMMA DeliverStep ==
  ASSUME PositionInv, NEW o \in OrderId, DeliverCreation(o) \/ DeliverRemoval(o)
  PROVE  PositionInv'
<1>1. /\ UNCHANGED <<vars, results, actor, mailbox, orphans, routed, historyVars>>
      /\ \E c \in CommandMsg :
           /\ commands' = Append(commands, c)
           /\ \/ /\ c = [kind |-> "create", order |-> o]
                 /\ delivered' = [delivered EXCEPT ![o] = @ + 1]
              \/ c.kind = "remove" /\ delivered' = delivered
  BY CommandKinds DEF DeliverCreation, DeliverRemoval, Command
<1>0. removed' \in [OrderId -> Nat]
  <2>1. removed \in [OrderId -> Nat]
    BY DEF PositionInv, PositionTypeOK
  <2>2. removed' = removed \/ removed' = [removed EXCEPT ![o] = @ + 1]
    BY DEF DeliverCreation, DeliverRemoval
  <2> QED
    BY <2>1, <2>2
<1>2. PICK c \in CommandMsg :
        /\ commands' = Append(commands, c)
        /\ \/ /\ c = [kind |-> "create", order |-> o]
              /\ delivered' = [delivered EXCEPT ![o] = @ + 1]
           \/ c.kind = "remove" /\ delivered' = delivered
  BY <1>1
<1>3. /\ commands' \in Seq(CommandMsg)
      /\ \A e : Occurs(commands', e) =
                  Occurs(commands, e) + (IF c = e THEN 1 ELSE 0)
  BY <1>2, CommandSent
<1>4. /\ delivered \in [OrderId -> Nat] /\ delivered' \in [OrderId -> Nat]
      /\ \A p \in OrderId : delivered[p] \in Nat
      /\ \A p \in OrderId : delivered'[p] \in Nat /\ delivered'[p] >= delivered[p]
  <2>1. delivered \in [OrderId -> Nat]
    BY DEF PositionInv, PositionTypeOK
  <2> QED
    BY <1>2, <2>1
<1>5. ASSUME NEW p \in OrderId
      PROVE  /\ Coming(p)' \in Nat
             /\ Coming(p)' + delivered[p] <= Coming(p) + delivered'[p]
  <2>1. /\ Occurs(commands, [kind |-> "create", order |-> p]) \in Nat
        /\ Occurs(mailbox, [kind |-> "add", order |-> p]) \in Nat
        /\ delivered[p] \in Nat /\ orphans[p] \in Nat
    BY Facts
  <2>2. CASE c = [kind |-> "create", order |-> p]
    <3>1. p = o /\ delivered' = [delivered EXCEPT ![o] = @ + 1]
      BY <1>2, <2>2, CommandKinds
    <3>2. delivered'[p] = delivered[p] + 1
      BY <1>4, <3>1
    <3>3. Occurs(commands', [kind |-> "create", order |-> p]) =
            Occurs(commands, [kind |-> "create", order |-> p]) + 1
      BY <1>3, <2>2
    <3>4. mailbox' = mailbox /\ orphans' = orphans
      BY <1>1
    <3>5. /\ Coming(p) = Occurs(commands, [kind |-> "create", order |-> p])
                           + Occurs(mailbox, [kind |-> "add", order |-> p]) + orphans[p]
          /\ Coming(p)' = Occurs(commands', [kind |-> "create", order |-> p])
                            + Occurs(mailbox, [kind |-> "add", order |-> p]) + orphans[p]
      BY <3>4 DEF Coming
    <3>6. Coming(p)' = Coming(p) + 1 /\ Coming(p) \in Nat
      BY <2>1, <3>3, <3>5
    <3> QED
      BY <2>1, <3>2, <3>6
  <2>3. CASE c # [kind |-> "create", order |-> p]
    <3>1. Occurs(commands', [kind |-> "create", order |-> p]) =
            Occurs(commands, [kind |-> "create", order |-> p])
      BY <1>3, <2>1, <2>3
    <3>2. delivered'[p] \in Nat /\ delivered'[p] >= delivered[p]
      BY <1>4
    <3> QED
      BY <1>1, <2>1, <3>1, <3>2 DEF Coming
  <2> QED
    BY <2>2, <2>3
<1>6. Quiet
  BY <1>1, <1>4, <1>5
  DEF Quiet, vars, tradeVars, dbVars, reportVars, historyVars, Unread,
      PositionInv, PositionTypeOK, TradeTypeOK
<1>7. InStep'
  <2>1. c # [kind |-> "complete"]
    BY <1>2, CommandKinds
  <2>2. Occurs(commands, [kind |-> "complete"]) \in Nat
    BY DEF PositionInv, InStep
  <2> QED
    BY <1>1, <1>3, <2>1, <2>2 DEF PositionInv, InStep, vars, tradeVars
<1>8. AnsweredOnce'
  BY <1>1 DEF PositionInv, AnsweredOnce, vars
<1>9. PositionTypeOK'
  BY <1>0, <1>1, <1>3, <1>4, <1>6, QuietKeeps
  DEF PositionInv, PositionTypeOK, historyVars
<1> QED
  BY <1>6, <1>7, <1>8, <1>9, QuietKeeps DEF PositionInv

LEMMA RouteLogsStep ==
  ASSUME PositionInv, NEW t \in Tx, RouteLogs(t)
  PROVE  PositionInv'
<1> DEFINE e == [kind |-> "logs", tx |-> t]
<1>1. /\ UNCHANGED <<vars, commands, results, actor, orphans, delivered, removed, historyVars>>
      /\ Post(e) /\ routed' = [routed EXCEPT ![t] = @ + 1]
  BY DEF RouteLogs
<1>2. e \in MailMsg /\ e.kind = "logs"
  BY MailKinds
<1> HIDE DEF e
<1>3. /\ mailbox' \in Seq(MailMsg)
      /\ actor # "running" => mailbox' = << >>
      /\ Unhandled(mailbox') = Unhandled(mailbox)
      /\ ConfirmedIn(mailbox') = ConfirmedIn(mailbox)
      /\ OneResult(mailbox')
      /\ \A o \in OrderId :
           /\ Occurs(mailbox', [kind |-> "add", order |-> o]) \in Nat
           /\ Occurs(mailbox', [kind |-> "add", order |-> o])
                <= Occurs(mailbox, [kind |-> "add", order |-> o])
  <2>1. \A o \in OrderId : e # [kind |-> "add", order |-> o]
    BY <1>2, MailKinds
  <2>2. \A o \in OrderId : Occurs(mailbox, [kind |-> "add", order |-> o]) \in Nat
    BY Facts
  <2> QED
    BY <1>1, <1>2, <2>1, <2>2, Posted
<1>4. ASSUME NEW o \in OrderId
      PROVE  /\ Coming(o)' \in Nat
             /\ Coming(o)' + delivered[o] <= Coming(o) + delivered'[o]
  <2>1. /\ Occurs(commands, [kind |-> "create", order |-> o]) \in Nat
        /\ Occurs(mailbox, [kind |-> "add", order |-> o]) \in Nat
        /\ delivered[o] \in Nat /\ orphans[o] \in Nat
    BY Facts
  <2>2. /\ Occurs(mailbox', [kind |-> "add", order |-> o]) \in Nat
        /\ Occurs(mailbox', [kind |-> "add", order |-> o])
             <= Occurs(mailbox, [kind |-> "add", order |-> o])
    BY <1>3
  <2> QED
    BY <1>1, <2>1, <2>2 DEF Coming
<1>5. Quiet
  BY <1>1, <1>3, <1>4
  DEF Quiet, vars, tradeVars, dbVars, reportVars, historyVars, Unread,
      PositionInv, PositionTypeOK, TradeTypeOK
<1>6. InStep' /\ AnsweredOnce'
  BY <1>1, <1>3
  DEF PositionInv, InStep, AnsweredOnce, vars, tradeVars
<1>7. PositionTypeOK'
  BY <1>1, <1>3, <1>5, QuietKeeps
  DEF PositionInv, PositionTypeOK, historyVars
<1> QED
  BY <1>5, <1>6, <1>7, QuietKeeps DEF PositionInv

\* What leaves one count reaches another, or nothing.
LEMMA HandOver ==
  ASSUME NEW x \in Nat, NEW y \in Nat, NEW n \in Nat, NEW d \in Nat,
         NEW xx \in Nat, NEW yy \in Nat, NEW nn \in Nat,
         xx = x - d, yy + nn <= y + n + d
  PROVE  xx + yy + nn \in Nat /\ xx + yy + nn <= x + y + n
OBVIOUS

\* A share that moves from what is free to what is unsold keeps the budget.
LEMMA MoveShare ==
  ASSUME NEW c \in Nat, NEW u \in Nat, NEW f \in Nat, NEW ff \in Nat,
         NEW g \in Nat, NEW b \in Nat, NEW h \in Nat, NEW uu,
         uu = u + h, ff + h <= f, c + u + f + g <= b
  PROVE  c + uu + ff + g <= b
OBVIOUS

\* What a handler of Buffett leaves to be shown after it took a command: a
\* creation has gone on to the mailbox or to an orphan, or is lost.
LEMMA TakenOn ==
  ASSUME PositionInv, NEW kind, Take(kind),
         UNCHANGED <<tradeVars, dbSold, reportVars, warrants, issued, historyVars>>,
         UNCHANGED <<results, delivered, removed, routed>>,
         orphans' \in [OrderId -> Nat],
         status' \in [OrderId -> Status],
         \A o \in OrderId : status'[o] = status[o] \/ status'[o] = "DELETED",
         mailbox' \in Seq(MailMsg),
         Unhandled(mailbox') = Unhandled(mailbox),
         ConfirmedIn(mailbox') = ConfirmedIn(mailbox),
         OneResult(mailbox'),
         actor' # "running" => mailbox' = << >>,
         IF kind = "complete"
         THEN actor = "stopped" /\ actor' = "absent" /\ mailbox' = mailbox
         ELSE actor' = actor,
         \A o \in OrderId :
           /\ Occurs(mailbox', [kind |-> "add", order |-> o]) \in Nat
           /\ Occurs(mailbox', [kind |-> "add", order |-> o]) + orphans'[o]
                <= Occurs(mailbox, [kind |-> "add", order |-> o]) + orphans[o]
                     + (IF Head(commands) = [kind |-> "create", order |-> o]
                        THEN 1 ELSE 0)
  PROVE  PositionInv'
<1>1. /\ Head(commands) \in CommandMsg /\ Head(commands).kind = kind
      /\ commands' \in Seq(CommandMsg)
      /\ \A e : /\ Occurs(commands, e) \in Nat
                /\ Occurs(commands', e) \in Nat
                /\ Occurs(commands', e) =
                     Occurs(commands, e) - (IF Head(commands) = e THEN 1 ELSE 0)
  BY CommandTaken
<1>2. ASSUME NEW o \in OrderId
      PROVE  /\ Coming(o)' \in Nat
             /\ Coming(o)' + delivered[o] <= Coming(o) + delivered'[o]
  <2> DEFINE x == Occurs(commands, [kind |-> "create", order |-> o])
             y == Occurs(mailbox, [kind |-> "add", order |-> o])
             xx == Occurs(commands', [kind |-> "create", order |-> o])
             yy == Occurs(mailbox', [kind |-> "add", order |-> o])
             n == orphans[o]
             nn == orphans'[o]
             d == IF Head(commands) = [kind |-> "create", order |-> o] THEN 1 ELSE 0
  <2>1. /\ x \in Nat /\ xx \in Nat /\ y \in Nat /\ yy \in Nat /\ delivered[o] \in Nat
        /\ n \in Nat /\ nn \in Nat /\ delivered' = delivered
    BY <1>1, Facts
  <2>2. xx = x - d /\ yy + nn <= y + n + d /\ d \in Nat
    BY <1>1
  <2>3. Coming(o) = x + y + n /\ Coming(o)' = xx + yy + nn
    BY DEF Coming
  <2> HIDE DEF x, y, xx, yy, n, nn, d
  <2>4. xx + yy + nn \in Nat /\ xx + yy + nn <= x + y + n
    BY <2>1, <2>2, HandOver
  <2> QED
    BY <2>1, <2>3, <2>4
<1>3. actor' = actor \/ (actor # "running" /\ actor' # "running")
  OBVIOUS
<1>4. Unread' = Unread
  BY DEF Unread
<1>5. delivered' \in [OrderId -> Nat]
  BY DEF PositionInv, PositionTypeOK
<1>6. Quiet
  BY <1>2, <1>3, <1>4, <1>5 DEF Quiet
<1>7. InStep'
  <2>1. complete' = complete /\ (actor = "running" => ~complete)
        /\ Occurs(commands, [kind |-> "complete"]) =
             (IF actor = "stopped" THEN 1 ELSE 0)
    BY DEF tradeVars, PositionInv, InStep
  <2>2. CASE kind = "complete"
    <3>1. Head(commands) = [kind |-> "complete"]
      BY <1>1, <2>2, CommandKinds
    <3>2. Occurs(commands', [kind |-> "complete"]) = 0
      BY <1>1, <2>1, <2>2, <3>1
    <3> QED
      BY <2>1, <2>2, <3>2 DEF InStep
  <2>3. CASE kind # "complete"
    <3>1. Head(commands) # [kind |-> "complete"]
      BY <1>1, <2>3, CommandKinds
    <3>2. Occurs(commands', [kind |-> "complete"]) = Occurs(commands, [kind |-> "complete"])
      BY <1>1, <3>1
    <3> QED
      BY <2>1, <2>3, <3>2 DEF InStep
  <2> QED
    BY <2>2, <2>3
<1>8. AnsweredOnce'
  BY DEF PositionInv, AnsweredOnce
<1>9. PositionTypeOK'
  <2>1. TradeTypeOK'
    BY <1>6, QuietKeeps
  <2>2. actor' \in {"absent", "running", "stopped", "failed"}
    BY DEF PositionInv, PositionTypeOK
  <2> QED
    BY <1>1, <1>5, <2>1, <2>2 DEF PositionInv, PositionTypeOK, historyVars
<1> QED
  BY <1>6, <1>7, <1>8, <1>9, QuietKeeps DEF PositionInv

LEMMA TakenQuiet ==
  ASSUME PositionInv, NEW kind, Take(kind),
         UNCHANGED <<tradeVars, dbSold, reportVars, warrants, issued, historyVars>>,
         UNCHANGED <<results, orphans, delivered, removed, routed>>,
         status' \in [OrderId -> Status],
         \A o \in OrderId : status'[o] = status[o] \/ status'[o] = "DELETED",
         mailbox' \in Seq(MailMsg),
         Unhandled(mailbox') = Unhandled(mailbox),
         ConfirmedIn(mailbox') = ConfirmedIn(mailbox),
         OneResult(mailbox'),
         actor' # "running" => mailbox' = << >>,
         IF kind = "complete"
         THEN actor = "stopped" /\ actor' = "absent" /\ mailbox' = mailbox
         ELSE actor' = actor,
         \A o \in OrderId :
           /\ Occurs(mailbox', [kind |-> "add", order |-> o]) \in Nat
           /\ Occurs(mailbox', [kind |-> "add", order |-> o])
                <= Occurs(mailbox, [kind |-> "add", order |-> o])
                     + (IF Head(commands) = [kind |-> "create", order |-> o]
                        THEN 1 ELSE 0)
  PROVE  PositionInv'
<1>1. orphans' \in [OrderId -> Nat]
  BY DEF PositionInv, PositionTypeOK
<1>2. ASSUME NEW o \in OrderId
      PROVE  /\ Occurs(mailbox', [kind |-> "add", order |-> o]) \in Nat
             /\ Occurs(mailbox', [kind |-> "add", order |-> o]) + orphans'[o]
                  <= Occurs(mailbox, [kind |-> "add", order |-> o]) + orphans[o]
                       + (IF Head(commands) = [kind |-> "create", order |-> o]
                          THEN 1 ELSE 0)
  <2>1. /\ Occurs(mailbox, [kind |-> "add", order |-> o]) \in Nat
        /\ orphans[o] \in Nat /\ orphans' = orphans
    BY Facts
  <2> QED
    BY <2>1
<1> QED
  BY <1>1, <1>2, TakenOn

\* A command that is taken while the mailbox stays as it is.
LEMMA MailboxSame ==
  ASSUME PositionInv, mailbox' = mailbox
  PROVE  /\ mailbox' \in Seq(MailMsg)
         /\ Unhandled(mailbox') = Unhandled(mailbox)
         /\ ConfirmedIn(mailbox') = ConfirmedIn(mailbox)
         /\ OneResult(mailbox')
         /\ actor # "running" => mailbox' = << >>
         /\ \A o \in OrderId :
              /\ Occurs(mailbox', [kind |-> "add", order |-> o]) \in Nat
              /\ Occurs(mailbox', [kind |-> "add", order |-> o])
                   <= Occurs(mailbox, [kind |-> "add", order |-> o])
<1>1. \A o \in OrderId : Occurs(mailbox, [kind |-> "add", order |-> o]) \in Nat
  BY Facts
<1> QED
  BY <1>1 DEF PositionInv, PositionTypeOK, AnsweredOnce, InStep

LEMMA HandleAddStep ==
  ASSUME PositionInv, HandleAdd
  PROVE  PositionInv'
<1> DEFINE m == [kind |-> "add", order |-> Subject]
<1>1. /\ Take("create") /\ Post(m)
      /\ UNCHANGED <<vars, results, actor, orphans, inputVars, historyVars>>
  BY DEF HandleAdd
<1>2. /\ Head(commands) \in CommandMsg /\ Head(commands).kind = "create"
      /\ Subject \in OrderId /\ Head(commands) = [kind |-> "create", order |-> Subject]
  BY <1>1, CommandTaken, CommandKinds DEF Subject
<1>3. m \in MailMsg /\ m.kind = "add"
      /\ \A o \in OrderId : m = [kind |-> "add", order |-> o] =>
           Head(commands) = [kind |-> "create", order |-> o]
  BY <1>2, MailKinds
<1> HIDE DEF m
<1>4. /\ mailbox' \in Seq(MailMsg)
      /\ actor # "running" => mailbox' = << >>
      /\ Unhandled(mailbox') = Unhandled(mailbox)
      /\ ConfirmedIn(mailbox') = ConfirmedIn(mailbox)
      /\ OneResult(mailbox')
      /\ \A o \in OrderId :
           /\ Occurs(mailbox', [kind |-> "add", order |-> o]) \in Nat
           /\ Occurs(mailbox', [kind |-> "add", order |-> o])
                <= Occurs(mailbox, [kind |-> "add", order |-> o])
                     + (IF m = [kind |-> "add", order |-> o] THEN 1 ELSE 0)
  BY <1>1, <1>3, Posted
<1>5. ASSUME NEW o \in OrderId
      PROVE  /\ Occurs(mailbox', [kind |-> "add", order |-> o]) \in Nat
             /\ Occurs(mailbox', [kind |-> "add", order |-> o])
                  <= Occurs(mailbox, [kind |-> "add", order |-> o])
                       + (IF Head(commands) = [kind |-> "create", order |-> o]
                          THEN 1 ELSE 0)
  <2>1. Occurs(mailbox, [kind |-> "add", order |-> o]) \in Nat
    BY Facts
  <2> QED
    BY <1>3, <1>4, <2>1
<1>6. status' \in [OrderId -> Status] /\ status' = status
  BY <1>1 DEF vars, dbVars, PositionInv, PositionTypeOK, TradeTypeOK
<1>7. /\ UNCHANGED <<tradeVars, dbSold, reportVars, warrants, issued, historyVars>>
      /\ UNCHANGED <<results, orphans, delivered, removed, routed>> /\ actor' = actor
  BY <1>1 DEF vars, dbVars, inputVars
<1> QED
  BY <1>1, <1>4, <1>5, <1>6, <1>7, TakenQuiet

\* A creation that is given up leaves an orphan, which may still come.
LEMMA HandleNewAbortedStep ==
  ASSUME PositionInv, HandleNewAborted
  PROVE  PositionInv'
<1>1. /\ Take("create") /\ mailbox' = mailbox /\ actor' = actor
      /\ orphans' = [orphans EXCEPT ![Subject] = @ + 1]
      /\ UNCHANGED <<tradeVars, dbSold, reportVars, warrants, issued, historyVars>>
      /\ UNCHANGED <<results, delivered, removed, routed>> /\ status' = status
  BY DEF HandleNewAborted, vars, dbVars, inputVars
<1>2. Subject \in OrderId /\ Head(commands) = [kind |-> "create", order |-> Subject]
  BY <1>1, CommandTaken, CommandKinds DEF Subject
<1>3. orphans \in [OrderId -> Nat] /\ orphans' \in [OrderId -> Nat]
      /\ status' \in [OrderId -> Status]
  <2>1. orphans \in [OrderId -> Nat] /\ status \in [OrderId -> Status]
    BY DEF PositionInv, PositionTypeOK, TradeTypeOK
  <2> QED
    BY <1>1, <1>2, <2>1
<1>4. /\ mailbox' \in Seq(MailMsg)
      /\ actor # "running" => mailbox' = << >>
      /\ Unhandled(mailbox') = Unhandled(mailbox)
      /\ ConfirmedIn(mailbox') = ConfirmedIn(mailbox)
      /\ OneResult(mailbox')
  BY <1>1, MailboxSame
<1>5. ASSUME NEW o \in OrderId
      PROVE  /\ Occurs(mailbox', [kind |-> "add", order |-> o]) \in Nat
             /\ Occurs(mailbox', [kind |-> "add", order |-> o]) + orphans'[o]
                  <= Occurs(mailbox, [kind |-> "add", order |-> o]) + orphans[o]
                       + (IF Head(commands) = [kind |-> "create", order |-> o]
                          THEN 1 ELSE 0)
  <2>1. Occurs(mailbox, [kind |-> "add", order |-> o]) \in Nat /\ orphans[o] \in Nat
    BY Facts
  <2>2. orphans'[o] = IF o = Subject THEN orphans[o] + 1 ELSE orphans[o]
    BY <1>1, <1>3
  <2> QED
    BY <1>1, <1>2, <2>1, <2>2
<1> QED
  BY <1>1, <1>3, <1>4, <1>5, TakenOn

\* An orphan that cannot register its token ends.
LEMMA OrphanFailsStep ==
  ASSUME PositionInv, NEW o \in OrderId, OrphanFails(o)
  PROVE  PositionInv'
<1>1. /\ orphans[o] > 0 /\ orphans' = [orphans EXCEPT ![o] = @ - 1]
      /\ UNCHANGED <<vars, commands, results, actor, mailbox, inputVars, historyVars>>
  BY DEF OrphanFails
<1>2. orphans \in [OrderId -> Nat]
  BY DEF PositionInv, PositionTypeOK
<1>3. orphans' \in [OrderId -> Nat]
  BY <1>1, <1>2
<1>4. ASSUME NEW p \in OrderId
      PROVE  /\ Coming(p)' \in Nat
             /\ Coming(p)' + delivered[p] <= Coming(p) + delivered'[p]
  <2>1. /\ Occurs(commands, [kind |-> "create", order |-> p]) \in Nat
        /\ Occurs(mailbox, [kind |-> "add", order |-> p]) \in Nat
        /\ delivered[p] \in Nat /\ orphans[p] \in Nat
    BY Facts
  <2>2. orphans'[p] \in Nat /\ orphans'[p] <= orphans[p]
    BY <1>1, <1>2, <2>1
  <2> QED
    BY <1>1, <2>1, <2>2 DEF Coming, inputVars
<1>5. Quiet
  BY <1>1, <1>4
  DEF Quiet, vars, dbVars, inputVars, Unread, PositionInv, PositionTypeOK, TradeTypeOK
<1>6. InStep' /\ AnsweredOnce'
  BY <1>1 DEF PositionInv, InStep, AnsweredOnce, vars, tradeVars
<1>7. PositionTypeOK'
  BY <1>1, <1>3, <1>5, QuietKeeps
  DEF PositionInv, PositionTypeOK, inputVars, historyVars
<1> QED
  BY <1>5, <1>6, <1>7, QuietKeeps DEF PositionInv

\* One that can marks its order ACTIVE, whatever has become of the order.
LEMMA OrphanActivatesStep ==
  ASSUME PositionInv, NEW o \in OrderId, OrphanActivates(o)
  PROVE  PositionInv'
<1>1. /\ orphans[o] > 0 /\ orphans' = [orphans EXCEPT ![o] = @ - 1]
      /\ status' = [status EXCEPT ![o] = "ACTIVE"] /\ orphaned' = orphaned \cup {o}
      /\ UNCHANGED <<entries, live, totalSold, totalPending, failures, complete,
                     dbSold, confirmed, confirmedBy, warrants, issued, commands,
                     results, actor, mailbox, delivered, removed, routed, earlier,
                     stray>>
  BY DEF OrphanActivates, tradeVars, reportVars, inputVars
<1>2. /\ orphans \in [OrderId -> Nat] /\ status \in [OrderId -> Status]
      /\ orphaned \subseteq OrderId
  BY DEF PositionInv, PositionTypeOK, TradeTypeOK
<1>3. /\ orphans' \in [OrderId -> Nat] /\ status' \in [OrderId -> Status]
      /\ orphaned' \subseteq OrderId
  BY <1>1, <1>2 DEF Status
<1>4. PositionTypeOK'
  BY <1>1, <1>3 DEF PositionInv, PositionTypeOK, TradeTypeOK
<1>5. InStep' /\ AnsweredOnce'
  BY <1>1 DEF PositionInv, InStep, AnsweredOnce
<1>6. Numbered'
  BY <1>1 DEF PositionInv, Numbered, StrayAccounted
<1>7. /\ Unread' = Unread /\ Unsold' = Unsold
      /\ \A p : Free(p)' = Free(p) /\ Places(p)' = Places(p) /\ Absent(p)' = Absent(p)
  BY <1>1 DEF Unread, Unsold, Free, Places, Absent
<1>8. ASSUME NEW p \in OrderId
      PROVE  /\ status'[p] = "COMPLETED" => status[p] = "COMPLETED"
             /\ status'[p] = "ACTIVE" => status[p] = "ACTIVE" \/ Astray(p)'
             /\ Astray(p) => Astray(p)'
  BY <1>1, <1>2, <1>7 DEF Astray
<1>9. Recorded'
  BY <1>1, <1>7, <1>8 DEF PositionInv, Recorded
<1>10. ASSUME NEW p \in OrderId
       PROVE  /\ Coming(p)' \in Nat /\ Coming(p) \in Nat /\ delivered[p] \in Nat
              /\ Coming(p)' <= Coming(p)
  <2>1. /\ Occurs(commands, [kind |-> "create", order |-> p]) \in Nat
        /\ Occurs(mailbox, [kind |-> "add", order |-> p]) \in Nat
        /\ delivered[p] \in Nat /\ orphans[p] \in Nat
    BY Facts
  <2>2. orphans'[p] \in Nat /\ orphans'[p] <= orphans[p]
    BY <1>1, <1>2, <2>1
  <2> QED
    BY <1>1, <2>1, <2>2 DEF Coming
<1>11. Budgeted'
  <2> SUFFICES ASSUME NEW p \in OrderId
               PROVE  confirmedBy[p] + Total(ClaimsOf(Unsold, p)) + Cardinality(Free(p))
                          + Coming(p)' * MaxToSell[p]
                        <= delivered[p] * MaxToSell[p]
    BY <1>1, <1>7 DEF Budgeted
  <2> DEFINE a == confirmedBy[p] + Total(ClaimsOf(Unsold, p)) + Cardinality(Free(p))
  <2>1. a \in Nat /\ MaxToSell[p] \in Nat
    <3>1. /\ confirmedBy[p] \in Nat /\ Total(ClaimsOf(Unsold, p)) \in Nat
          /\ Cardinality(Free(p)) \in Nat /\ MaxToSell[p] \in Nat
      BY Facts
    <3> QED
      BY <3>1
  <2>2. a + Coming(p) * MaxToSell[p] <= delivered[p] * MaxToSell[p]
    BY DEF PositionInv, Budgeted
  <2> HIDE DEF a
  <2>3. a <= a + 0 * MaxToSell[p]
    BY <2>1
  <2>4. Coming(p)' + 0 + delivered[p] <= Coming(p) + delivered[p]
    BY <1>10
  <2>5. a + Coming(p)' * MaxToSell[p] <= delivered[p] * MaxToSell[p]
    BY <1>10, <2>1, <2>2, <2>3, <2>4, Accounts
  <2> QED
    BY <2>5 DEF a
<1>12. Counted'
  <2> SUFFICES ASSUME NEW p \in OrderId
               PROVE  Coming(p)' + Cardinality(Places(p))
                        + (IF status'[p] = "COMPLETED" THEN 1 ELSE 0)
                      <= delivered[p]
    BY <1>1, <1>7 DEF Counted, PositionInv
  <2>1. Cardinality(Places(p)) \in Nat
    BY Facts
  <2>2. Coming(p) + Cardinality(Places(p))
          + (IF status[p] = "COMPLETED" THEN 1 ELSE 0) <= delivered[p]
    BY DEF PositionInv, Counted
  <2> QED
    BY <1>8, <1>10, <2>1, <2>2
<1>13. EntriesFit'
  BY <1>1 DEF PositionInv, EntriesFit
<1>14. Held'
  <2>1. ASSUME NEW p \in OrderId, status'[p] = "ACTIVE"
        PROVE  \/ actor = "running" /\ ~Absent(p)
               \/ Astray(p)'
               \/ MaxToSell[p] = 0
    BY <1>8, <2>1 DEF PositionInv, Held
  <2>2. ASSUME NEW i \in live, NEW p \in OrderId, entries[i].id = p,
               entries[i].sold >= MaxToSell[p]
        PROVE  Astray(p)' \/ MaxToSell[p] = 0
    BY <1>8, <2>2 DEF PositionInv, Held
  <2>3. ASSUME NEW i \in live, entries[i].sold >= MaxToSell[entries[i].id]
        PROVE  Astray(entries[i].id)' \/ MaxToSell[entries[i].id] = 0
    <3>1. PICK p \in OrderId : entries[i].id = p
      BY Facts
    <3>2. Astray(p)' \/ MaxToSell[p] = 0
      BY <2>2, <2>3, <3>1
    <3>3. entries'[i].id = p
      BY <1>1, <3>1
    <3> QED
      BY <3>1, <3>2, <3>3
  <2> QED
    BY <1>1, <1>7, <2>1, <2>3 DEF Held
<1> QED
  BY <1>4, <1>5, <1>6, <1>9, <1>11, <1>12, <1>13, <1>14 DEF PositionInv

LEMMA HandleRemoveStep ==
  ASSUME PositionInv, HandleRemove
  PROVE  PositionInv'
<1> DEFINE m == [kind |-> "remove", order |-> Subject]
<1>1. /\ Take("remove")
      /\ UNCHANGED <<tradeVars, dbSold, reportVars, warrants, issued, historyVars>>
      /\ UNCHANGED <<results, orphans, delivered, removed, routed>> /\ actor' = actor
      /\ \/ status' = [status EXCEPT ![Subject] = "DELETED"] /\ mailbox' = mailbox
         \/ Post(m) /\ status' = status
  BY DEF HandleRemove, inputVars
<1>2. /\ Head(commands).kind = "remove" /\ Subject \in OrderId
  BY <1>1, CommandTaken, CommandKinds DEF Subject
<1>3. m \in MailMsg /\ m.kind = "remove"
      /\ \A o \in OrderId : m # [kind |-> "add", order |-> o]
  BY <1>2, MailKinds
<1> HIDE DEF m
<1>4. /\ mailbox' \in Seq(MailMsg)
      /\ actor # "running" => mailbox' = << >>
      /\ Unhandled(mailbox') = Unhandled(mailbox)
      /\ ConfirmedIn(mailbox') = ConfirmedIn(mailbox)
      /\ OneResult(mailbox')
      /\ \A o \in OrderId :
           /\ Occurs(mailbox', [kind |-> "add", order |-> o]) \in Nat
           /\ Occurs(mailbox', [kind |-> "add", order |-> o])
                <= Occurs(mailbox, [kind |-> "add", order |-> o])
  <2>1. CASE Post(m)
    <3>1. ASSUME NEW o \in OrderId
          PROVE  /\ Occurs(mailbox', [kind |-> "add", order |-> o]) \in Nat
                 /\ Occurs(mailbox', [kind |-> "add", order |-> o])
                      <= Occurs(mailbox, [kind |-> "add", order |-> o])
      <4>1. Occurs(mailbox, [kind |-> "add", order |-> o]) \in Nat
        BY Facts
      <4> QED
        BY <1>3, <2>1, <4>1, Posted
    <3> QED
      BY <1>3, <2>1, <3>1, Posted
  <2>2. CASE mailbox' = mailbox
    BY <2>2, MailboxSame
  <2> QED
    BY <1>1, <2>1, <2>2
<1>5. ASSUME NEW o \in OrderId
      PROVE  Occurs(mailbox, [kind |-> "add", order |-> o]) \in Nat
  BY Facts
<1>6. /\ status' \in [OrderId -> Status]
      /\ \A o \in OrderId : status'[o] = status[o] \/ status'[o] = "DELETED"
  BY <1>1, <1>2 DEF PositionInv, PositionTypeOK, TradeTypeOK, Status
<1>7. ASSUME NEW o \in OrderId
      PROVE  /\ Occurs(mailbox', [kind |-> "add", order |-> o]) \in Nat
             /\ Occurs(mailbox', [kind |-> "add", order |-> o])
                  <= Occurs(mailbox, [kind |-> "add", order |-> o])
                       + (IF Head(commands) = [kind |-> "create", order |-> o]
                          THEN 1 ELSE 0)
  BY <1>4, <1>5
<1> QED
  BY <1>1, <1>4, <1>6, <1>7, TakenQuiet

LEMMA HandleForwardStep ==
  ASSUME PositionInv, HandleForward
  PROVE  PositionInv'
<1>1. /\ Take("forward") /\ mailbox' = mailbox /\ actor' = actor
      /\ UNCHANGED <<tradeVars, dbSold, reportVars, warrants, issued, historyVars>>
      /\ UNCHANGED <<results, orphans, delivered, removed, routed>> /\ status' = status
  BY DEF HandleForward, vars, dbVars, inputVars
<1>2. status' \in [OrderId -> Status]
  BY <1>1 DEF PositionInv, PositionTypeOK, TradeTypeOK
<1>3. /\ mailbox' \in Seq(MailMsg)
      /\ actor # "running" => mailbox' = << >>
      /\ Unhandled(mailbox') = Unhandled(mailbox)
      /\ ConfirmedIn(mailbox') = ConfirmedIn(mailbox)
      /\ OneResult(mailbox')
  BY <1>1, MailboxSame
<1>4. ASSUME NEW o \in OrderId
      PROVE  /\ Occurs(mailbox', [kind |-> "add", order |-> o]) \in Nat
             /\ Occurs(mailbox', [kind |-> "add", order |-> o])
                  <= Occurs(mailbox, [kind |-> "add", order |-> o])
                       + (IF Head(commands) = [kind |-> "create", order |-> o]
                          THEN 1 ELSE 0)
  BY <1>1, MailboxSame
<1> QED
  BY <1>1, <1>2, <1>3, <1>4, TakenQuiet

LEMMA HandleCompleteStep ==
  ASSUME PositionInv, HandleComplete
  PROVE  PositionInv'
<1>1. /\ Take("complete") /\ mailbox' = mailbox /\ actor' = "absent"
      /\ UNCHANGED <<tradeVars, dbSold, reportVars, warrants, issued, historyVars>>
      /\ UNCHANGED <<results, orphans, delivered, removed, routed>> /\ status' = status
  BY DEF HandleComplete, vars, dbVars, inputVars
<1>2. status' \in [OrderId -> Status]
  BY <1>1 DEF PositionInv, PositionTypeOK, TradeTypeOK
<1>3. actor = "stopped"
  <2>1. Head(commands) = [kind |-> "complete"]
    BY <1>1, CommandTaken, CommandKinds
  <2>2. Occurs(commands, [kind |-> "complete"]) # 0
    <3>1. commands \in Seq(CommandMsg) /\ commands # << >>
      BY <1>1 DEF Take, PositionInv, PositionTypeOK
    <3> QED
      BY <2>1, <3>1, OccursTail
  <2> QED
    BY <2>2 DEF PositionInv, InStep
<1>4. /\ mailbox' \in Seq(MailMsg)
      /\ actor # "running" => mailbox' = << >>
      /\ Unhandled(mailbox') = Unhandled(mailbox)
      /\ ConfirmedIn(mailbox') = ConfirmedIn(mailbox)
      /\ OneResult(mailbox')
  BY <1>1, MailboxSame
<1>5. ASSUME NEW o \in OrderId
      PROVE  /\ Occurs(mailbox', [kind |-> "add", order |-> o]) \in Nat
             /\ Occurs(mailbox', [kind |-> "add", order |-> o])
                  <= Occurs(mailbox, [kind |-> "add", order |-> o])
                       + (IF Head(commands) = [kind |-> "create", order |-> o]
                          THEN 1 ELSE 0)
  BY <1>1, MailboxSame
<1> QED
  BY <1>1, <1>2, <1>3, <1>4, <1>5, TakenQuiet

LEMMA SkipLogsStep ==
  ASSUME PositionInv, SkipLogs
  PROVE  PositionInv'
<1>1. /\ actor = "running" /\ mailbox # << >> /\ Message.kind = "logs"
      /\ mailbox' = Tail(mailbox)
      /\ UNCHANGED <<vars, commands, results, actor, orphans, inputVars, historyVars>>
  BY DEF SkipLogs, Read, Message
<1>2. /\ Tail(mailbox) \in Seq(MailMsg)
      /\ \A e : /\ Occurs(mailbox, e) \in Nat
                /\ Occurs(Tail(mailbox), e) \in Nat
                /\ Occurs(Tail(mailbox), e) =
                     Occurs(mailbox, e) - (IF Message = e THEN 1 ELSE 0)
      /\ Unhandled(mailbox) = Unhandled(Tail(mailbox)) \cup ResultOf(Message)
      /\ ConfirmedIn(mailbox) = ConfirmedIn(Tail(mailbox)) \cup ConfirmedOf(Message)
      /\ OneResult(Tail(mailbox))
  BY <1>1, MailTaken
<1>3. ResultOf(Message) = {} /\ ConfirmedOf(Message) = {}
  BY <1>1 DEF ResultOf, ConfirmedOf
<1>4. Unread' = Unread
  BY <1>1, <1>2, <1>3 DEF Unread
<1>5. ASSUME NEW o \in OrderId
      PROVE  /\ Coming(o)' \in Nat
             /\ Coming(o)' + delivered[o] <= Coming(o) + delivered'[o]
  <2>1. /\ Occurs(commands, [kind |-> "create", order |-> o]) \in Nat
        /\ Occurs(mailbox, [kind |-> "add", order |-> o]) \in Nat
        /\ delivered[o] \in Nat /\ orphans[o] \in Nat
    BY Facts
  <2>2. /\ Occurs(mailbox', [kind |-> "add", order |-> o]) \in Nat
        /\ Occurs(mailbox', [kind |-> "add", order |-> o])
             <= Occurs(mailbox, [kind |-> "add", order |-> o])
    BY <1>1, <1>2, <2>1
  <2> QED
    BY <1>1, <2>1, <2>2 DEF Coming, inputVars
<1>6. Quiet
  BY <1>1, <1>4, <1>5
  DEF Quiet, vars, tradeVars, dbVars, reportVars, inputVars, historyVars,
      PositionInv, PositionTypeOK, TradeTypeOK
<1>7. InStep'
  BY <1>1 DEF PositionInv, InStep, vars, tradeVars
<1>8. AnsweredOnce'
  <2>1. Unhandled(mailbox') = Unhandled(mailbox)
    BY <1>1, <1>2, <1>3
  <2> QED
    BY <1>1, <1>2, <2>1 DEF PositionInv, AnsweredOnce, vars
<1>9. PositionTypeOK'
  BY <1>1, <1>2, <1>6, QuietKeeps
  DEF PositionInv, PositionTypeOK, inputVars, historyVars
<1> QED
  BY <1>6, <1>7, <1>8, <1>9, QuietKeeps DEF PositionInv

-----------------------------------------------------------------------------
(* Results.                                                                *)

\* The executor answers a warrant once.
LEMMA Answered ==
  ASSUME PositionInv, NEW r \in warrants, NEW c \in BOOLEAN, Answer(r, c)
  PROVE  /\ results' \in Seq(ResultMsg)
         /\ AnsweredOnce'
         /\ Unread' = Unread \cup (IF c THEN {r} ELSE {})
         /\ r \notin Unread
         /\ UNCHANGED <<tradeVars, dbVars, warrants, issued, commands, actor,
                        mailbox, orphans, inputVars, historyVars>>
<1> DEFINE e == [kind |-> "result", warrant |-> r, confirmed |-> c]
<1>1. /\ r \notin Unhandled(results) /\ r \notin Unhandled(mailbox)
      /\ results' = Append(results, e)
      /\ UNCHANGED <<tradeVars, dbVars, warrants, issued, commands, actor,
                     mailbox, orphans, inputVars, historyVars>>
  BY DEF Answer
<1>2. results \in Seq(ResultMsg) /\ OneResult(results)
  BY DEF PositionInv, PositionTypeOK, AnsweredOnce
<1>3. r \in Claim(OrderId)
  BY Facts
<1>4. e \in ResultMsg
  BY <1>3 DEF ResultMsg
<1>5. ResultOf(e) = {r} /\ ConfirmedOf(e) = (IF c THEN {r} ELSE {})
  BY DEF ResultOf, ConfirmedOf
<1> HIDE DEF e
<1>6. /\ Unhandled(Append(results, e)) = Unhandled(results) \cup ResultOf(e)
      /\ ConfirmedIn(Append(results, e)) = ConfirmedIn(results) \cup ConfirmedOf(e)
      /\ OneResult(results) /\ ResultOf(e) \cap Unhandled(results) = {}
           => OneResult(Append(results, e))
  BY <1>2, <1>4, ResultsAppend
<1>7. results' \in Seq(ResultMsg)
  BY <1>1, <1>2, <1>4, Appended
<1>8. AnsweredOnce'
  BY <1>1, <1>2, <1>5, <1>6 DEF PositionInv, AnsweredOnce
<1>9. Unread' = Unread \cup (IF c THEN {r} ELSE {})
  BY <1>1, <1>5, <1>6 DEF Unread
<1>10. r \notin Unread
  <2>1. /\ ConfirmedIn(results) \subseteq Unhandled(results)
        /\ ConfirmedIn(mailbox) \subseteq Unhandled(mailbox)
    BY DEF ConfirmedIn, Unhandled
  <2> QED
    BY <1>1, <2>1 DEF Unread
<1> QED
  BY <1>1, <1>7, <1>8, <1>9, <1>10

LEMMA RejectStep ==
  ASSUME PositionInv, NEW r \in warrants, Reject(r)
  PROVE  PositionInv'
<1>1. Answer(r, FALSE) /\ UNCHANGED reportVars
  BY DEF Reject, ReportFailed
<1>2. /\ results' \in Seq(ResultMsg)
      /\ AnsweredOnce'
      /\ Unread' = Unread
      /\ UNCHANGED <<tradeVars, dbVars, warrants, issued, commands, actor,
                     mailbox, orphans, inputVars, historyVars>>
  BY <1>1, Answered
<1>3. ASSUME NEW o \in OrderId
      PROVE  /\ Coming(o)' \in Nat
             /\ Coming(o)' + delivered[o] <= Coming(o) + delivered'[o]
  <2>1. Coming(o) \in Nat /\ delivered[o] \in Nat
    BY Facts
  <2>2. Coming(o)' = Coming(o)
    BY <1>2 DEF Coming
  <2> QED
    BY <1>2, <2>1, <2>2 DEF inputVars
<1>4. Quiet
  BY <1>1, <1>2, <1>3
  DEF Quiet, dbVars, inputVars, PositionInv, PositionTypeOK, TradeTypeOK
<1>5. InStep'
  BY <1>2 DEF PositionInv, InStep, tradeVars
<1>6. PositionTypeOK'
  BY <1>2, <1>4, QuietKeeps
  DEF PositionInv, PositionTypeOK, inputVars, historyVars
<1> QED
  BY <1>2, <1>4, <1>5, <1>6, QuietKeeps DEF PositionInv

\* The result that is routed next.
LEMMA ResultTaken ==
  ASSUME PositionInv, results # << >>
  PROVE  LET e == Head(results)
         IN  /\ e \in ResultMsg /\ e.kind = "result"
             /\ e.warrant \in warrants
             /\ ResultOf(e) = {e.warrant}
             /\ Tail(results) \in Seq(ResultMsg)
             /\ OneResult(Tail(results))
             /\ Unhandled(results) = Unhandled(Tail(results)) \cup {e.warrant}
             /\ ConfirmedIn(results) = ConfirmedIn(Tail(results)) \cup ConfirmedOf(e)
             /\ e.warrant \notin Unhandled(Tail(results))
             /\ e.warrant \notin Unhandled(mailbox)
<1>1. results \in Seq(ResultMsg) /\ OneResult(results)
  BY DEF PositionInv, PositionTypeOK, AnsweredOnce
<1>2. Head(results) \in ResultMsg /\ Tail(results) \in Seq(ResultMsg)
  BY <1>1, Shifted
<1>3. Head(results).kind = "result"
  BY <1>2, MailKinds
<1>4. ResultOf(Head(results)) = {Head(results).warrant}
  BY <1>3 DEF ResultOf
<1>5. /\ Unhandled(results) = Unhandled(Tail(results)) \cup ResultOf(Head(results))
      /\ ConfirmedIn(results) = ConfirmedIn(Tail(results)) \cup ConfirmedOf(Head(results))
      /\ ResultOf(Head(results)) \cap Unhandled(Tail(results)) = {}
      /\ OneResult(Tail(results))
  BY <1>1, ResultsTail
<1> QED
  BY <1>2, <1>3, <1>4, <1>5 DEF PositionInv, AnsweredOnce

LEMMA RouteRunning ==
  ASSUME PositionInv, RouteResult, actor = "running"
  PROVE  PositionInv'
<1> DEFINE e == Head(results)
<1>1. /\ results # << >> /\ results' = Tail(results)
      /\ mailbox' = Append(mailbox, e)
      /\ UNCHANGED <<vars, commands, actor, orphans, inputVars, historyVars>>
  BY DEF RouteResult, Post, vars
<1>2. /\ e \in ResultMsg /\ e.kind = "result"
      /\ e.warrant \in warrants
      /\ ResultOf(e) = {e.warrant}
      /\ Tail(results) \in Seq(ResultMsg)
      /\ OneResult(Tail(results))
      /\ Unhandled(results) = Unhandled(Tail(results)) \cup {e.warrant}
      /\ ConfirmedIn(results) = ConfirmedIn(Tail(results)) \cup ConfirmedOf(e)
      /\ e.warrant \notin Unhandled(Tail(results))
      /\ e.warrant \notin Unhandled(mailbox)
  BY <1>1, ResultTaken
<1> HIDE DEF e
<1>3. e \in MailMsg /\ mailbox \in Seq(MailMsg) /\ OneResult(mailbox)
  BY <1>2, MailKinds DEF PositionInv, PositionTypeOK, AnsweredOnce
<1>4. /\ Unhandled(Append(mailbox, e)) = Unhandled(mailbox) \cup ResultOf(e)
      /\ ConfirmedIn(Append(mailbox, e)) = ConfirmedIn(mailbox) \cup ConfirmedOf(e)
      /\ OneResult(mailbox) /\ ResultOf(e) \cap Unhandled(mailbox) = {}
           => OneResult(Append(mailbox, e))
  BY <1>3, ResultsAppend
<1>5. Unread' = Unread
  BY <1>1, <1>2, <1>4 DEF Unread
<1>6. AnsweredOnce'
  BY <1>1, <1>2, <1>3, <1>4 DEF PositionInv, AnsweredOnce, vars
<1>7. ASSUME NEW o \in OrderId
      PROVE  Coming(o)' = Coming(o) /\ Coming(o) \in Nat /\ delivered[o] \in Nat
  <2>1. e # [kind |-> "add", order |-> o]
    BY <1>2
  <2>2. Occurs(Append(mailbox, e), [kind |-> "add", order |-> o]) =
          Occurs(mailbox, [kind |-> "add", order |-> o]) + 0
    BY <1>3, <2>1, OccursAppend
  <2>3. /\ Occurs(mailbox, [kind |-> "add", order |-> o]) \in Nat
        /\ Coming(o) \in Nat /\ delivered[o] \in Nat
    BY Facts
  <2> QED
    BY <1>1, <2>2, <2>3 DEF Coming
<1>8. Quiet
  BY <1>1, <1>5, <1>7
  DEF Quiet, vars, tradeVars, dbVars, reportVars, inputVars, historyVars,
      PositionInv, PositionTypeOK, TradeTypeOK
<1>9. InStep'
  BY <1>1 DEF PositionInv, InStep, vars, tradeVars
<1>10. PositionTypeOK'
  <2>1. mailbox' \in Seq(MailMsg)
    BY <1>1, <1>3, Appended
  <2>2. TradeTypeOK'
    BY <1>8, QuietKeeps
  <2> QED
    BY <1>1, <1>2, <2>1, <2>2
    DEF PositionInv, PositionTypeOK, inputVars, historyVars
<1> QED
  BY <1>6, <1>8, <1>9, <1>10, QuietKeeps DEF PositionInv

\* A share of the results that are on their way, when some of them are gone.
LEMMA ShareKept ==
  ASSUME PositionInv, Unread' \in SUBSET Unread, NEW o
  PROVE  /\ Total(ClaimsOf(Unread, o)) \in Nat
         /\ Total(ClaimsOf(Unread', o)) \in Nat
         /\ Total(ClaimsOf(Unread', o)) <= Total(ClaimsOf(Unread, o))
BY Facts, ShareLess

LEMMA UnsoldKept ==
  ASSUME PositionInv, Unsold' \in SUBSET Unsold, NEW o
  PROVE  /\ Total(ClaimsOf(Unsold, o)) \in Nat
         /\ Total(ClaimsOf(Unsold', o)) \in Nat
         /\ Total(ClaimsOf(Unsold', o)) <= Total(ClaimsOf(Unsold, o))
BY Facts, ShareLess

LEMMA RouteNowhere ==
  ASSUME PositionInv, RouteResult, actor # "running"
  PROVE  PositionInv'
<1> DEFINE e == Head(results)
<1>1. /\ results # << >> /\ results' = Tail(results)
      /\ mailbox' = mailbox /\ mailbox = << >>
      /\ warrants' = warrants \ {e.warrant}
      /\ UNCHANGED <<tradeVars, dbVars, reportVars, issued, commands, actor,
                     orphans, inputVars, historyVars>>
  BY DEF RouteResult, Post, PositionInv, InStep
<1>2. /\ e \in ResultMsg /\ e.kind = "result"
      /\ e.warrant \in warrants
      /\ Tail(results) \in Seq(ResultMsg)
      /\ OneResult(Tail(results))
      /\ Unhandled(results) = Unhandled(Tail(results)) \cup {e.warrant}
      /\ ConfirmedIn(results) = ConfirmedIn(Tail(results)) \cup ConfirmedOf(e)
      /\ e.warrant \notin Unhandled(Tail(results))
  BY <1>1, ResultTaken
<1>3. ConfirmedOf(e) \subseteq {e.warrant}
  BY <1>2 DEF ConfirmedOf
<1> HIDE DEF e
<1>4. Unhandled(mailbox) = {} /\ ConfirmedIn(mailbox) = {} /\ OneResult(mailbox)
  BY <1>1, ResultsNone
<1>5. Unread' \in SUBSET Unread /\ Unsold' \in SUBSET Unsold
  BY <1>1, <1>2, <1>3, <1>4 DEF Unread, Unsold
<1>6. AnsweredOnce'
  <2>1. Unhandled(results) \subseteq warrants
    BY DEF PositionInv, AnsweredOnce
  <2> QED
    BY <1>1, <1>2, <1>4, <2>1 DEF AnsweredOnce
<1>7. InStep'
  BY <1>1 DEF PositionInv, InStep, tradeVars
<1>8. PositionTypeOK'
  BY <1>1, <1>2
  DEF PositionInv, PositionTypeOK, TradeTypeOK, tradeVars, dbVars, reportVars,
      inputVars, historyVars
<1>9. Numbered'
  <2>1. warrants' \in SUBSET warrants
    BY <1>1
  <2>2. IsFiniteSet(Units(warrants'))
    BY <2>1, Facts, PartTotal
  <2>3. StrayAccounted'
    BY <1>1 DEF StrayAccounted
  <2> QED
    BY <1>1, <2>1, <2>2, <2>3 DEF PositionInv, Numbered, tradeVars, historyVars
<1>10. ASSUME NEW o \in OrderId, Astray(o) PROVE Astray(o)'
  <2>1. dbSold[o] \in Nat /\ confirmedBy[o] \in Nat
    BY Facts
  <2> QED
    BY <1>1, <1>5, <1>10, <2>1, ShareKept DEF Astray, dbVars, reportVars, historyVars
<1>11. Recorded'
  <2>1. ASSUME NEW o \in OrderId
        PROVE  /\ confirmedBy[o] <= confirmed
               /\ dbSold[o] + Total(ClaimsOf(Unread', o)) <= confirmedBy[o]
               /\ status[o] = "COMPLETED" => confirmedBy[o] >= MaxToSell[o]
    <3>1. dbSold[o] \in Nat /\ confirmedBy[o] \in Nat
      BY Facts
    <3> QED
      BY <1>5, <3>1, ShareKept DEF PositionInv, Recorded
  <2>2. ASSUME NEW i \in 1 .. Len(entries)
        PROVE  entries[i].sold + Total(ClaimsOf(Unread', entries[i].id))
                 <= confirmedBy[entries[i].id]
    <3>1. entries[i].id \in OrderId /\ entries[i].sold \in Nat
      BY Facts
    <3>2. confirmedBy[entries[i].id] \in Nat
      BY <3>1, Facts
    <3>3. entries[i].sold + Total(ClaimsOf(Unread, entries[i].id))
            <= confirmedBy[entries[i].id]
      BY DEF PositionInv, Recorded
    <3> QED
      BY <1>5, <3>1, <3>2, <3>3, ShareKept
  <2>3. confirmed <= Holdings
    BY DEF PositionInv, Recorded
  <2> QED
    BY <1>1, <2>1, <2>2, <2>3 DEF Recorded, tradeVars, dbVars, reportVars
<1>12. ASSUME NEW o \in OrderId
       PROVE  /\ Free(o)' = Free(o) /\ Places(o)' = Places(o)
              /\ Absent(o)' = Absent(o) /\ Coming(o)' = Coming(o)
  BY <1>1 DEF Free, Places, Absent, Coming, tradeVars
<1>13. Budgeted'
  <2> SUFFICES ASSUME NEW o \in OrderId
               PROVE  confirmedBy[o] + Total(ClaimsOf(Unsold', o)) + Cardinality(Free(o))
                          + Coming(o) * MaxToSell[o]
                        <= delivered[o] * MaxToSell[o]
    BY <1>1, <1>12 DEF Budgeted, reportVars, inputVars
  <2>1. /\ confirmedBy[o] \in Nat /\ Cardinality(Free(o)) \in Nat
        /\ MaxToSell[o] \in Nat /\ Coming(o) \in Nat /\ delivered[o] \in Nat
    BY Facts
  <2>2. /\ Total(ClaimsOf(Unsold, o)) \in Nat /\ Total(ClaimsOf(Unsold', o)) \in Nat
        /\ Total(ClaimsOf(Unsold', o)) <= Total(ClaimsOf(Unsold, o))
    BY <1>5, UnsoldKept
  <2>3. Coming(o) * MaxToSell[o] \in Nat /\ delivered[o] * MaxToSell[o] \in Nat
    BY <2>1
  <2>4. confirmedBy[o] + Total(ClaimsOf(Unsold, o)) + Cardinality(Free(o))
          + Coming(o) * MaxToSell[o] <= delivered[o] * MaxToSell[o]
    BY DEF PositionInv, Budgeted
  <2> QED
    BY <2>1, <2>2, <2>3, <2>4
<1>14. Counted' /\ EntriesFit'
  BY <1>1, <1>12
  DEF PositionInv, Counted, EntriesFit, tradeVars, dbVars, inputVars
<1>15. Held'
  <2>1. ASSUME NEW o \in OrderId, status[o] = "ACTIVE"
        PROVE  Astray(o)' \/ MaxToSell[o] = 0
    BY <1>1, <1>10, <2>1 DEF PositionInv, Held
  <2>2. ASSUME NEW i \in live, NEW o \in OrderId, entries[i].id = o,
               entries[i].sold >= MaxToSell[o]
        PROVE  Astray(o)' \/ MaxToSell[o] = 0
    <3>1. entries[i].id \in OrderId
      BY Facts
    <3>2. Astray(o) \/ MaxToSell[o] = 0
      BY <2>2 DEF PositionInv, Held
    <3> QED
      BY <1>10, <3>1, <3>2
  <2>3. entries' = entries /\ live' = live /\ status' = status
    BY <1>1 DEF tradeVars, dbVars
  <2>4. ASSUME NEW i \in live, entries[i].sold >= MaxToSell[entries[i].id]
        PROVE  Astray(entries[i].id)' \/ MaxToSell[entries[i].id] = 0
    <3>1. PICK o \in OrderId : entries[i].id = o
      BY Facts
    <3>2. Astray(o)' \/ MaxToSell[o] = 0
      BY <2>2, <2>4, <3>1
    <3>3. entries'[i].id = o
      BY <2>3, <3>1
    <3> QED
      BY <3>1, <3>2, <3>3
  <2> QED
    BY <2>1, <2>3, <2>4 DEF Held
<1> QED
  BY <1>6, <1>7, <1>8, <1>9, <1>11, <1>13, <1>14, <1>15 DEF PositionInv

-----------------------------------------------------------------------------
(* A new trade in the place of one that is gone.                           *)

LEMMA BeginStep ==
  ASSUME PositionInv, Take("create"), actor = "absent", Begin(Subject),
         \/ /\ actor' = "running"
            /\ status' = [status EXCEPT ![Subject] = "ACTIVE"]
         \/ actor' = "failed" /\ status' = status,
         UNCHANGED <<warrants, issued, dbSold, reportVars, results, mailbox,
                     orphans, inputVars>>
  PROVE  PositionInv'
<1>1. PICK s \in OrderId :
        /\ s = Subject /\ Head(commands) = [kind |-> "create", order |-> s]
        /\ commands' \in Seq(CommandMsg)
        /\ \A e : /\ Occurs(commands, e) \in Nat
                  /\ Occurs(commands', e) \in Nat
                  /\ Occurs(commands', e) =
                       Occurs(commands, e) - (IF Head(commands) = e THEN 1 ELSE 0)
  <2>1. /\ Head(commands) \in CommandMsg /\ Head(commands).kind = "create"
        /\ commands' \in Seq(CommandMsg)
        /\ \A e : /\ Occurs(commands, e) \in Nat
                  /\ Occurs(commands', e) \in Nat
                  /\ Occurs(commands', e) =
                       Occurs(commands, e) - (IF Head(commands) = e THEN 1 ELSE 0)
    BY CommandTaken
  <2> QED
    BY <2>1, CommandKinds DEF Subject
<1>2. /\ entries' = <<[id |-> s, sold |-> 0, pending |-> 0]>>
      /\ live' = {1} /\ totalSold' = 0 /\ totalPending' = 0
      /\ failures' = 0 /\ complete' = FALSE /\ earlier' = issued /\ stray' = 0
      /\ orphaned' = orphaned
  BY <1>1 DEF Begin, NewOrder
<1>3. /\ UNCHANGED <<warrants, issued, dbSold, confirmed, confirmedBy, results, mailbox,
                     orphans, delivered, removed, routed>>
      /\ Unread' = Unread /\ Unsold' = Unsold
  BY DEF reportVars, inputVars, Unread, Unsold
<1>4. /\ Len(entries') = 1 /\ 1 \in 1 .. Len(entries') /\ entries'[1].id = s
      /\ entries'[1].sold = 0 /\ entries'[1].pending = 0
      /\ entries' \in Seq(OrderState)
      /\ \A i \in 1 .. Len(entries') : i = 1
  BY <1>1, <1>2 DEF OrderState
<1>5. /\ status' \in [OrderId -> Status]
      /\ \A p \in OrderId : p # s => status'[p] = status[p]
      /\ status'[s] = status[s] \/ (actor' = "running" /\ status'[s] = "ACTIVE")
  BY <1>1 DEF PositionInv, PositionTypeOK, TradeTypeOK, Status
<1>6. PositionTypeOK'
  <2>1. TradeTypeOK'
    BY <1>2, <1>3, <1>4, <1>5 DEF PositionInv, PositionTypeOK, TradeTypeOK
  <2>2. issued \in Nat
    BY DEF PositionInv, PositionTypeOK, TradeTypeOK
  <2> QED
    BY <1>1, <1>2, <1>3, <2>1, <2>2 DEF PositionInv, PositionTypeOK
<1>7. InStep'
  <2>1. Head(commands) # [kind |-> "complete"]
    BY <1>1
  <2>2. Occurs(commands', [kind |-> "complete"]) = 0
    BY <1>1, <2>1 DEF PositionInv, InStep
  <2> QED
    BY <1>2, <1>3, <2>2 DEF PositionInv, InStep
<1>8. AnsweredOnce'
  BY <1>3 DEF PositionInv, AnsweredOnce
<1>9. Numbered'
  <2>1. {w \in warrants : w.n > issued} = {}
    <3>1. \A w \in warrants : w.n \in Nat /\ w.n <= issued /\ issued \in Nat
      BY DEF PositionInv, PositionTypeOK, TradeTypeOK, Numbered, Claim
    <3> QED
      BY <3>1
  <2>2. StrayAccounted'
    BY <1>2, <1>3, <2>1, TotalType DEF StrayAccounted
  <2>3. issued \in Nat
    BY DEF PositionInv, PositionTypeOK, TradeTypeOK
  <2> QED
    BY <1>2, <1>3, <2>2, <2>3, Constants DEF PositionInv, Numbered
<1>10. ASSUME NEW p \in OrderId
       PROVE  /\ p # s => Free(p)' = {} /\ Places(p)' = {} /\ Coming(p)' = Coming(p)
              /\ Free(s)' \in SUBSET ({1} \X ((0 + 1) .. MaxToSell[s]))
              /\ Places(s)' = {1}
              /\ Coming(s)' = Coming(s) - 1
              /\ ~Absent(s)'
  <2>1. p # s => Free(p)' = {} /\ Places(p)' = {}
    BY <1>2, <1>4 DEF Free, Places
  <2>2. p # s => Coming(p)' = Coming(p)
    <3>1. ASSUME p # s PROVE Head(commands) # [kind |-> "create", order |-> p]
      BY <1>1, <3>1, CommandKinds
    <3> QED
      BY <1>1, <1>3, <3>1 DEF Coming
  <2>3. Free(s)' \in SUBSET ({1} \X ((0 + 1) .. MaxToSell[s]))
    BY <1>2 DEF Free
  <2>4. Places(s)' = {1} /\ ~Absent(s)'
    BY <1>2, <1>4 DEF Places, Absent
  <2>5. Coming(s)' = Coming(s) - 1
    <3> DEFINE x == Occurs(commands, [kind |-> "create", order |-> s])
               y == Occurs(mailbox, [kind |-> "add", order |-> s])
    <3>1. x \in Nat /\ y \in Nat /\ orphans[s] \in Nat
      BY <1>1, Facts
    <3>2. Occurs(commands', [kind |-> "create", order |-> s]) = x - 1
      BY <1>1
    <3>3. Coming(s) = x + y + orphans[s] /\ Coming(s)' = (x - 1) + y + orphans[s]
      BY <1>3, <3>2 DEF Coming
    <3> HIDE DEF x, y
    <3> QED
      BY <3>1, <3>3
  <2> QED
    BY <2>1, <2>2, <2>3, <2>4, <2>5
<1>11. \A p : Astray(p)' = Astray(p)
  BY <1>2, <1>3 DEF Astray
<1>12. Recorded'
  <2>1. ASSUME NEW p \in OrderId
        PROVE  /\ confirmedBy[p] <= confirmed
               /\ dbSold[p] + Total(ClaimsOf(Unread, p)) <= confirmedBy[p]
               /\ status'[p] = "COMPLETED" => confirmedBy[p] >= MaxToSell[p]
    BY <1>5 DEF PositionInv, Recorded
  <2>2. 0 + Total(ClaimsOf(Unread, s)) <= confirmedBy[s]
    <3>1. /\ dbSold[s] \in Nat /\ confirmedBy[s] \in Nat
          /\ Total(ClaimsOf(Unread, s)) \in Nat
      BY <1>1, Facts
    <3> QED
      BY <1>1, <2>1, <3>1
  <2>3. confirmed <= Holdings
    BY DEF PositionInv, Recorded
  <2> QED
    BY <1>3, <1>4, <2>1, <2>2, <2>3 DEF Recorded
<1>13. Budgeted'
  <2> SUFFICES ASSUME NEW p \in OrderId
               PROVE  confirmedBy[p] + Total(ClaimsOf(Unsold, p)) + Cardinality(Free(p)')
                          + Coming(p)' * MaxToSell[p]
                        <= delivered[p] * MaxToSell[p]
    BY <1>3 DEF Budgeted
  <2> DEFINE a == confirmedBy[p] + Total(ClaimsOf(Unsold, p)) + Cardinality(Free(p))
             b == confirmedBy[p] + Total(ClaimsOf(Unsold, p)) + Cardinality(Free(p)')
  <2>1. /\ confirmedBy[p] \in Nat /\ Total(ClaimsOf(Unsold, p)) \in Nat
        /\ Cardinality(Free(p)) \in Nat /\ MaxToSell[p] \in Nat
        /\ Coming(p) \in Nat /\ delivered[p] \in Nat
    BY Facts
  <2>2. /\ Cardinality(Free(p)') \in Nat
        /\ Cardinality(Free(p)') <= (IF p = s THEN MaxToSell[p] ELSE 0)
    <3>1. CASE p # s
      BY <1>10, <3>1, FS_EmptySet
    <3>2. CASE p = s
      <4>1. /\ IsFiniteSet({1} \X ((0 + 1) .. MaxToSell[s]))
            /\ Cardinality({1} \X ((0 + 1) .. MaxToSell[s])) = MaxToSell[s] - 0
        <5>1. MaxToSell[s] \in Nat /\ 0 \in Nat /\ 0 <= MaxToSell[s]
          BY <2>1, <3>2
        <5> QED
          BY <5>1, Column
      <4>2. Free(s)' \in SUBSET ({1} \X ((0 + 1) .. MaxToSell[s]))
        BY <1>10, <3>2
      <4>3. /\ IsFiniteSet(Free(s)')
            /\ Cardinality(Free(s)') <= Cardinality({1} \X ((0 + 1) .. MaxToSell[s]))
        BY <4>1, <4>2, FS_Subset
      <4>4. Cardinality(Free(s)') \in Nat
        BY <4>3, FS_CardinalityType
      <4> QED
        BY <2>1, <3>2, <4>1, <4>3, <4>4
    <3> QED
      BY <3>1, <3>2
  <2> DEFINE k == IF p = s THEN 1 ELSE 0
  <2>3. k \in Nat /\ a \in Nat /\ b \in Nat
    BY <2>1, <2>2
  <2>4. b <= a + k * MaxToSell[p]
    <3>1. k * MaxToSell[p] = (IF p = s THEN MaxToSell[p] ELSE 0)
      BY <2>1
    <3> QED
      BY <2>1, <2>2, <3>1
  <2>5. a + Coming(p) * MaxToSell[p] <= delivered[p] * MaxToSell[p]
    BY DEF PositionInv, Budgeted
  <2>6. Coming(p)' \in Nat /\ Coming(p)' + k + delivered[p] <= Coming(p) + delivered[p]
    <3>1. CASE p = s
      <4>1. Coming(s)' = Coming(s) - 1 /\ Coming(s) >= 1
        <5>1. Coming(s)' = Coming(s) - 1
          BY <1>10
        <5>2. Coming(s)' \in Nat
          <6>1. /\ Occurs(commands', [kind |-> "create", order |-> s]) \in Nat
                /\ Occurs(mailbox, [kind |-> "add", order |-> s]) \in Nat
                /\ orphans[s] \in Nat
            BY <1>1, Facts
          <6> QED
            BY <1>3, <6>1 DEF Coming
        <5> QED
          BY <2>1, <3>1, <5>1, <5>2
      <4> QED
        BY <2>1, <3>1, <4>1
    <3>2. CASE p # s
      BY <1>10, <2>1, <3>2
    <3> QED
      BY <3>1, <3>2
  <2> HIDE DEF a, b, k
  <2>7. b + Coming(p)' * MaxToSell[p] <= delivered[p] * MaxToSell[p]
    BY <2>1, <2>3, <2>4, <2>5, <2>6, Accounts
  <2> QED
    BY <2>7 DEF b
<1>14. Counted'
  <2>1. Cardinality(live') = 1
    BY <1>2, FS_Singleton
  <2>2. ASSUME NEW p \in OrderId
        PROVE  Coming(p)' + Cardinality(Places(p)')
                 + (IF status'[p] = "COMPLETED" THEN 1 ELSE 0) <= delivered[p]
    <3>1. /\ Coming(p) \in Nat /\ delivered[p] \in Nat
          /\ Cardinality(Places(p)) \in Nat
      BY Facts
    <3>2. Coming(p) + Cardinality(Places(p))
            + (IF status[p] = "COMPLETED" THEN 1 ELSE 0) <= delivered[p]
      BY DEF PositionInv, Counted
    <3>3. CASE p = s
      <4>1. Cardinality(Places(p)') = 1 /\ Coming(p)' = Coming(p) - 1
        BY <1>10, <3>3, FS_Singleton
      <4>2. status'[p] = "COMPLETED" => status[p] = "COMPLETED"
        BY <1>5, <3>3
      <4> QED
        BY <3>1, <3>2, <4>1, <4>2
    <3>4. CASE p # s
      <4>1. Cardinality(Places(p)') = 0 /\ Coming(p)' = Coming(p)
        BY <1>10, <3>4, FS_EmptySet
      <4>2. status'[p] = status[p]
        BY <1>5, <3>4
      <4> QED
        BY <3>1, <3>2, <4>1, <4>2
    <3> QED
      BY <3>3, <3>4
  <2> QED
    BY <1>3, <2>1, <2>2, Constants DEF Counted
<1>15. EntriesFit'
  BY <1>2, <1>4, Constants DEF EntriesFit
<1>16. Held'
  <2>1. ASSUME NEW p \in OrderId, status'[p] = "ACTIVE"
        PROVE  \/ actor' = "running" /\ ~Absent(p)'
               \/ Astray(p)'
               \/ MaxToSell[p] = 0
    <3>1. CASE status[p] = "ACTIVE"
      BY <1>11, <3>1 DEF PositionInv, Held
    <3>2. CASE status[p] # "ACTIVE"
      <4>1. p = s /\ actor' = "running"
        BY <1>5, <2>1, <3>2
      <4> QED
        BY <1>10, <4>1
    <3> QED
      BY <3>1, <3>2
  <2>2. MaxToSell[s] \in Nat /\ (0 >= MaxToSell[s] => MaxToSell[s] = 0)
    BY <1>1, Constants
  <2> QED
    BY <1>2, <1>4, <2>1, <2>2 DEF Held
<1> QED
  BY <1>6, <1>7, <1>8, <1>9, <1>12, <1>13, <1>14, <1>15, <1>16 DEF PositionInv

LEMMA HandleNewStep ==
  ASSUME PositionInv, HandleNew \/ HandleNewFails
  PROVE  PositionInv'
BY BeginStep DEF HandleNew, HandleNewFails, dbVars

\* A warrant that is executed and not reported has taken what it takes.
LEMMA ExecutedFits ==
  ASSUME PositionInv, PositionChainInv, NEW r \in executed
  PROVE  confirmed + r.amount <= Holdings
<1>1. executed \in SUBSET Claim(OrderId) /\ IsFiniteSet(Units(executed))
  <2>1. executed \in SUBSET warrants
    BY DEF PositionChainInv, Open
  <2> QED
    BY <2>1, Facts, PartTotal
<1>2. IsFiniteSet(Units(executed \ {r})) /\ Total(executed \ {r}) = Total(executed) - r.amount
  BY <1>1, CloseClaim
<1>3. Total(executed) \in Nat /\ Total(executed \ {r}) \in Nat /\ r.amount \in Nat
  BY <1>1, <1>2, TotalType DEF Claim
<1>4. /\ landed = confirmed + Total(executed) + surplus /\ landed <= Holdings
      /\ surplus \in Nat /\ confirmed \in Nat
  BY DEF PositionChainInv, ChainInv, ChainTypeOK, Accounted, PositionInv,
         PositionTypeOK, TradeTypeOK
<1> QED
  BY <1>2, <1>3, <1>4, Constants

LEMMA AcceptStep ==
  ASSUME PositionInv, PositionChainInv, NEW r \in warrants, Accept(r)
  PROVE  PositionInv'
<1>1. /\ confirmed + r.amount <= Holdings
      /\ confirmed' = confirmed + r.amount
      /\ confirmedBy' = [confirmedBy EXCEPT ![r.order] = @ + r.amount]
      /\ Answer(r, TRUE)
  BY ExecutedFits DEF Accept, ReportConfirmed
<1>2. /\ results' \in Seq(ResultMsg)
      /\ AnsweredOnce'
      /\ Unread' = Unread \cup {r}
      /\ r \notin Unread
      /\ UNCHANGED <<tradeVars, dbVars, warrants, issued, commands, actor,
                     mailbox, orphans, inputVars, historyVars>>
  BY <1>1, Answered
<1>3. /\ UNCHANGED <<entries, live, totalSold, totalPending, failures, complete,
                     status, dbSold, warrants, issued, commands, actor, mailbox,
                     orphans, delivered, removed, routed, earlier, stray, orphaned>>
  BY <1>2 DEF tradeVars, dbVars, inputVars, historyVars
<1>4. r \in Claim(OrderId) /\ r.order \in OrderId /\ r.amount \in Nat
  <2>1. r \in Claim(OrderId)
    BY Facts
  <2> QED
    BY <2>1 DEF Claim
<1>5. Unsold' = Unsold \ {r} /\ r \in Unsold
  BY <1>2, <1>3 DEF Unsold
<1>6. confirmed \in Nat /\ confirmedBy \in [OrderId -> Nat]
  BY DEF PositionInv, PositionTypeOK, TradeTypeOK
<1>7. ASSUME NEW p \in OrderId
      PROVE  /\ confirmedBy'[p] = confirmedBy[p] + (IF r.order = p THEN r.amount ELSE 0)
             /\ Total(ClaimsOf(Unread', p)) =
                  Total(ClaimsOf(Unread, p)) + (IF r.order = p THEN r.amount ELSE 0)
             /\ Total(ClaimsOf(Unsold', p)) =
                  Total(ClaimsOf(Unsold, p)) - (IF r.order = p THEN r.amount ELSE 0)
  <2>1. confirmedBy'[p] = confirmedBy[p] + (IF r.order = p THEN r.amount ELSE 0)
    BY <1>1, <1>4, <1>6
  <2>2. /\ Unread \in SUBSET Claim(OrderId) /\ IsFiniteSet(Units(Unread))
        /\ Unsold \in SUBSET Claim(OrderId) /\ IsFiniteSet(Units(Unsold))
    BY Facts
  <2>3. Total(ClaimsOf(Unread \cup {r}, p)) =
          Total(ClaimsOf(Unread, p)) + (IF r.order = p THEN r.amount ELSE 0)
    BY <1>2, <1>4, <2>2, AddClaimOf
  <2>4. Total(ClaimsOf(Unsold \ {r}, p)) =
          Total(ClaimsOf(Unsold, p)) - (IF r.order = p THEN r.amount ELSE 0)
    BY <1>5, <2>2, CloseClaimOf
  <2> QED
    BY <1>2, <1>5, <2>1, <2>3, <2>4
<1>8. ASSUME NEW p \in OrderId PROVE Astray(p)' <=> Astray(p)
  <2>1. /\ dbSold[p] \in Nat /\ confirmedBy[p] \in Nat
        /\ Total(ClaimsOf(Unread, p)) \in Nat
    BY Facts
  <2> QED
    BY <1>3, <1>4, <1>7, <2>1 DEF Astray
<1>9. PositionTypeOK'
  <2>1. confirmed' \in Nat /\ confirmedBy' \in [OrderId -> Nat]
    BY <1>1, <1>4, <1>6
  <2> QED
    BY <1>2, <1>3, <2>1 DEF PositionInv, PositionTypeOK, TradeTypeOK
<1>10. InStep'
  BY <1>3 DEF PositionInv, InStep
<1>11. Numbered'
  BY <1>3 DEF PositionInv, Numbered, StrayAccounted
<1>12. Recorded'
  <2>1. ASSUME NEW p \in OrderId
        PROVE  /\ confirmedBy'[p] <= confirmed'
               /\ dbSold[p] + Total(ClaimsOf(Unread', p)) <= confirmedBy'[p]
               /\ status[p] = "COMPLETED" => confirmedBy'[p] >= MaxToSell[p]
    <3>1. /\ confirmedBy[p] <= confirmed
          /\ dbSold[p] + Total(ClaimsOf(Unread, p)) <= confirmedBy[p]
          /\ status[p] = "COMPLETED" => confirmedBy[p] >= MaxToSell[p]
      BY DEF PositionInv, Recorded
    <3>2. /\ dbSold[p] \in Nat /\ confirmedBy[p] \in Nat /\ MaxToSell[p] \in Nat
          /\ Total(ClaimsOf(Unread, p)) \in Nat
      BY Facts
    <3> QED
      BY <1>1, <1>4, <1>6, <1>7, <3>1, <3>2
  <2>2. ASSUME NEW i \in 1 .. Len(entries), NEW p \in OrderId, entries[i].id = p
        PROVE  entries[i].sold + Total(ClaimsOf(Unread', p)) <= confirmedBy'[p]
    <3>1. entries[i].sold + Total(ClaimsOf(Unread, p)) <= confirmedBy[p]
      BY <2>2 DEF PositionInv, Recorded
    <3>2. /\ entries[i].sold \in Nat /\ confirmedBy[p] \in Nat
          /\ Total(ClaimsOf(Unread, p)) \in Nat
      BY Facts
    <3> QED
      BY <1>4, <1>7, <3>1, <3>2
  <2>3. \A i \in 1 .. Len(entries) : entries[i].id \in OrderId
    BY Facts
  <2> QED
    BY <1>1, <1>3, <2>1, <2>2, <2>3 DEF Recorded
<1>13. ASSUME NEW p \in OrderId
       PROVE  /\ Free(p)' = Free(p) /\ Places(p)' = Places(p)
              /\ Absent(p)' = Absent(p) /\ Coming(p)' = Coming(p)
  BY <1>3 DEF Free, Places, Absent, Coming
<1>14. Budgeted'
  <2> SUFFICES ASSUME NEW p \in OrderId
               PROVE  confirmedBy'[p] + Total(ClaimsOf(Unsold', p)) + Cardinality(Free(p))
                          + Coming(p) * MaxToSell[p]
                        <= delivered[p] * MaxToSell[p]
    BY <1>3, <1>13 DEF Budgeted
  <2>1. /\ confirmedBy[p] \in Nat /\ Total(ClaimsOf(Unsold, p)) \in Nat
        /\ Cardinality(Free(p)) \in Nat
    BY Facts
  <2>2. confirmedBy'[p] + Total(ClaimsOf(Unsold', p)) =
          confirmedBy[p] + Total(ClaimsOf(Unsold, p))
    BY <1>4, <1>7, <2>1
  <2>3. confirmedBy[p] + Total(ClaimsOf(Unsold, p)) + Cardinality(Free(p))
          + Coming(p) * MaxToSell[p] <= delivered[p] * MaxToSell[p]
    BY DEF PositionInv, Budgeted
  <2> QED
    BY <2>2, <2>3
<1>15. Counted' /\ EntriesFit'
  BY <1>3, <1>13 DEF PositionInv, Counted, EntriesFit
<1>16. Held'
  <2>1. ASSUME NEW p \in OrderId, status[p] = "ACTIVE"
        PROVE  \/ actor = "running" /\ ~Absent(p)'
               \/ Astray(p)'
               \/ MaxToSell[p] = 0
    BY <1>8, <1>13, <2>1 DEF PositionInv, Held
  <2>2. ASSUME NEW i \in live, entries[i].sold >= MaxToSell[entries[i].id]
        PROVE  Astray(entries[i].id)' \/ MaxToSell[entries[i].id] = 0
    <3>1. PICK p \in OrderId : entries[i].id = p
      BY Facts
    <3>2. Astray(p) \/ MaxToSell[p] = 0
      BY <2>2, <3>1 DEF PositionInv, Held
    <3>3. entries'[i].id = p
      BY <1>3, <3>1
    <3> QED
      BY <1>8, <3>1, <3>2, <3>3
  <2> QED
    BY <1>3, <2>1, <2>2 DEF Held
<1> QED
  BY <1>2, <1>9, <1>10, <1>11, <1>12, <1>14, <1>15, <1>16 DEF PositionInv

-----------------------------------------------------------------------------
(* Counters that wrap.                                                     *)

LEMMA Division ==
  ASSUME NEW w \in Nat \ {0}, NEW x \in Int
  PROVE  \E q \in Int : x = w * q + (x % w) /\ x % w \in 0 .. (w - 1)
<1>1. x - w * (x \div w) = x % w /\ x \div w \in Int
  OBVIOUS
<1>2. x % w \in 0 .. (w - 1)
  OBVIOUS
<1> DEFINE q == x \div w
           r == x % w
<1>3. r \in Int /\ w * q \in Int
  BY <1>1, <1>2
<1>4. x - w * q = r /\ q \in Int
  BY <1>1
<1> HIDE DEF q, r
<1>5. x = w * q + r
  BY <1>3, <1>4
<1> QED
  BY <1>2, <1>4, <1>5 DEF r

LEMMA Remainder ==
  ASSUME NEW w \in Nat \ {0}, NEW q \in Int, NEW r \in 0 .. (w - 1),
         NEW p \in Int, NEW s \in 0 .. (w - 1), w * q + r = w * p + s
  PROVE  r = s
<1>1. w * (q - p) = s - r
  OBVIOUS
<1>2. q - p >= 1 => w * (q - p) >= w
  OBVIOUS
<1>3. q - p <= -1 => w * (q - p) <= -w
  OBVIOUS
<1>4. q - p = 0 => w * (q - p) = 0
  OBVIOUS
<1> QED
  BY <1>1, <1>2, <1>3, <1>4

LEMMA Congruent ==
  ASSUME NEW w \in Nat \ {0}, NEW x \in Int, NEW y \in Int, NEW k \in Int,
         x = y + w * k
  PROVE  x % w = y % w
<1>1. PICK q \in Int : x = w * q + (x % w) /\ x % w \in 0 .. (w - 1)
  BY Division
<1>2. PICK p \in Int : y = w * p + (y % w) /\ y % w \in 0 .. (w - 1)
  BY Division
<1> DEFINE r == x % w
           s == y % w
<1> HIDE DEF r, s
<1>3. r \in 0 .. (w - 1) /\ s \in 0 .. (w - 1) /\ x = w * q + r /\ y = w * p + s
  BY <1>1, <1>2 DEF r, s
<1>4. w * (p + k) = w * p + w * k
  OBVIOUS
<1>5. w * q \in Int /\ w * p \in Int /\ w * k \in Int /\ r \in Int /\ s \in Int
  BY <1>3
<1>6. w * q + r = w * (p + k) + s
  BY <1>3, <1>4, <1>5
<1>7. p + k \in Int
  OBVIOUS
<1>8. r = s
  BY <1>3, <1>6, <1>7, Remainder
<1> QED
  BY <1>8 DEF r, s

LEMMA CongruentSum ==
  ASSUME NEW w \in Nat \ {0}, NEW x \in Int, NEW y \in Int, NEW a \in Int,
         x % w = y % w
  PROVE  (x + a) % w = (y + a) % w
<1>1. PICK q \in Int : x = w * q + (x % w) /\ x % w \in 0 .. (w - 1)
  BY Division
<1>2. PICK p \in Int : y = w * p + (y % w) /\ y % w \in 0 .. (w - 1)
  BY Division
<1> DEFINE r == x % w
<1> HIDE DEF r
<1>3. r \in Int /\ x = w * q + r /\ y = w * p + r
  BY <1>1, <1>2 DEF r
<1>4. w * (q - p) = w * q - w * p /\ w * q \in Int /\ w * p \in Int
  OBVIOUS
<1>5. x + a = (y + a) + w * (q - p)
  BY <1>3, <1>4
<1> DEFINE u == x + a
           v == y + a
           k == q - p
<1>6. u \in Int /\ v \in Int /\ k \in Int /\ u = v + w * k
  BY <1>5
<1> HIDE DEF u, v, k
<1>7. u % w = v % w
  <2>1. \A e, f, g \in Int : e = f + w * g => e % w = f % w
    BY Congruent
  <2> QED
    BY <1>6, <2>1, Zenon
<1> QED
  BY <1>7 DEF u, v

LEMMA CongruentWord ==
  ASSUME NEW w \in Nat \ {0}, NEW x \in Int
  PROVE  (x + w) % w = x % w /\ (x - w) % w = x % w
<1> DEFINE u == x + w
           v == x - w
<1>1. /\ u \in Int /\ v \in Int /\ 1 \in Int /\ -1 \in Int
      /\ u = x + w * 1 /\ v = x + w * (-1)
  OBVIOUS
<1> HIDE DEF u, v
<1>2. u % w = x % w /\ v % w = x % w
  BY ZenonT(40), <1>1, Congruent
<1> QED
  BY <1>2 DEF u, v

LEMMA Wraps ==
  ASSUME NEW t \in Nat, t < Word, NEW a \in Nat, a <= Holdings,
         NEW s \in Nat, NEW y \in Nat, (t + s) % Word = y % Word
  PROVE  /\ AddW(t, a) \in Nat /\ AddW(t, a) < Word
         /\ (AddW(t, a) + s) % Word = (y + a) % Word
         /\ SubW(t, a) \in Nat /\ SubW(t, a) < Word
         /\ (SubW(t, a) + s) % Word = (y - a) % Word
         /\ (SubW(t, a) + (s + a)) % Word = y % Word
<1>1. Word \in Nat \ {0} /\ a < Word
  BY Constants
<1>2. /\ AddW(t, a) = t + a \/ AddW(t, a) = t + a - Word
      /\ AddW(t, a) \in Nat /\ AddW(t, a) < Word
  BY <1>1 DEF AddW
<1>3. /\ SubW(t, a) = t - a \/ SubW(t, a) = t - a + Word
      /\ SubW(t, a) \in Nat /\ SubW(t, a) < Word
  BY <1>1 DEF SubW
<1> DEFINE u == (t + s) + a
           v == (t + s) + (-a)
           u2 == AddW(t, a) + s
           v2 == SubW(t, a) + s
           v3 == SubW(t, a) + (s + a)
<1>4. t + s \in Int /\ a \in Int /\ -a \in Int /\ y \in Int /\ y + (-a) = y - a
  OBVIOUS
<1>5. u % Word = (y + a) % Word /\ v % Word = (y + (-a)) % Word
  BY ZenonT(40), <1>1, <1>4, CongruentSum
<1>6. /\ u \in Int /\ v \in Int
      /\ u2 = u \/ u2 = u - Word
      /\ v2 = v \/ v2 = v + Word
      /\ v3 = t + s \/ v3 = t + s + Word
  BY <1>1, <1>2, <1>3
<1> HIDE DEF u, v, u2, v2, v3
<1>7. u2 % Word = u % Word
  BY <1>1, <1>6, CongruentWord
<1>8. v2 % Word = v % Word
  BY <1>1, <1>6, CongruentWord
<1>9. v3 % Word = (t + s) % Word
  BY <1>1, <1>4, <1>6, CongruentWord
<1> QED
  BY <1>2, <1>3, <1>4, <1>5, <1>7, <1>8, <1>9 DEF u2, v2, v3

-----------------------------------------------------------------------------
(* A warrant is issued.                                                    *)

\* What a warrant may be for: its order has that much room, and the wallet.
LEMMA Affordable ==
  ASSUME PositionInv, NEW i \in live, NEW ideal \in Quote, Amount(i, ideal) > 0
  PROVE  LET a == Amount(i, ideal)
         IN  /\ a \in Nat \ {0} /\ a <= Holdings
             /\ entries[i].sold + entries[i].pending + a <= MaxToSell[entries[i].id]
<1> DEFINE e == entries[i]
           n == Monus(Holdings, AddW(totalSold, totalPending))
<1>1. /\ e.sold \in Nat /\ e.pending \in Nat /\ e.id \in OrderId
      /\ MaxToSell[e.id] \in Nat /\ Holdings \in Nat /\ ideal \in Nat /\ Word \in Nat
  <2>1. i \in 1 .. Len(entries)
    BY Facts
  <2> QED
    BY <2>1, Facts, Constants, CountersellAssumption
<1>2. e.sold + e.pending < Word
  BY DEF PositionInv, EntriesFit
<1>3. Room(e) = Monus(MaxToSell[e.id], e.sold + e.pending)
  BY <1>2 DEF Room, AddW
<1>4. Room(e) \in Nat /\ (Room(e) > 0 => e.sold + e.pending + Room(e) = MaxToSell[e.id])
  BY <1>1, <1>3 DEF Monus
<1>5. AddW(totalSold, totalPending) \in Int
  BY <1>1 DEF AddW, PositionInv, PositionTypeOK, TradeTypeOK
<1>6. AddW(totalSold, totalPending) >= 0
  <2>1. totalSold \in Nat /\ totalPending \in Nat
    BY DEF PositionInv, PositionTypeOK, TradeTypeOK
  <2> QED
    BY <1>1, <2>1 DEF AddW
<1>7. n \in Nat /\ n <= Holdings
  BY <1>1, <1>5, <1>6 DEF Monus
<1>8. Amount(i, ideal) = Least(Least(ideal, Room(e)), n)
  BY DEF Amount
<1> HIDE DEF e, n
<1>9. /\ Amount(i, ideal) \in Nat /\ Amount(i, ideal) <= Room(e)
      /\ Amount(i, ideal) <= n
  BY <1>1, <1>4, <1>7, <1>8 DEF Least
<1> QED
  BY <1>1, <1>4, <1>7, <1>9 DEF e

LEMMA UpdatedEntry ==
  ASSUME NEW s \in Seq(OrderState), NEW i \in 1 .. Len(s), NEW x \in OrderState
  PROVE  /\ [s EXCEPT ![i] = x] \in Seq(OrderState)
         /\ Len([s EXCEPT ![i] = x]) = Len(s)
         /\ \A j \in 1 .. Len(s) :
              [s EXCEPT ![i] = x][j] = (IF j = i THEN x ELSE s[j])
BY ExceptSeq

LEMMA PendingSet ==
  ASSUME NEW e \in OrderState, NEW p \in Nat
  PROVE  LET x == [e EXCEPT !.pending = p]
         IN  x \in OrderState /\ x.id = e.id /\ x.sold = e.sold /\ x.pending = p
BY DEF OrderState

LEMMA Pended ==
  ASSUME NEW s \in Seq(OrderState), NEW i \in 1 .. Len(s), NEW a \in Nat,
         NEW t, t = [s EXCEPT ![i].pending = @ + a]
  PROVE  /\ t \in Seq(OrderState) /\ Len(t) = Len(s)
         /\ \A j \in 1 .. Len(s) :
              /\ t[j].id = s[j].id
              /\ t[j].sold = s[j].sold
              /\ t[j].pending = s[j].pending + (IF j = i THEN a ELSE 0)
<1> DEFINE x == [s[i] EXCEPT !.pending = @ + a]
<1>1. /\ x \in OrderState /\ x.id = s[i].id /\ x.sold = s[i].sold
      /\ x.pending = s[i].pending + a
      /\ \A j \in 1 .. Len(s) : s[j] \in OrderState /\ s[j].pending \in Nat
  <2>1. \A j \in 1 .. Len(s) : s[j] \in OrderState
    BY ElementOfSeq
  <2>2. s[i] \in OrderState
    BY <2>1
  <2>3. /\ x \in OrderState /\ x.id = s[i].id /\ x.sold = s[i].sold
        /\ x.pending = s[i].pending + a
    <3>1. s[i].pending + a \in Nat
      BY <2>2 DEF OrderState
    <3> QED
      BY <2>2, <3>1, PendingSet
  <2>4. \A e \in OrderState : e.pending \in Nat
    BY DEF OrderState
  <2> QED
    BY <2>1, <2>3, <2>4
<1>2. t = [s EXCEPT ![i] = x]
  OBVIOUS
<1> HIDE DEF x
<1>3. /\ [s EXCEPT ![i] = x] \in Seq(OrderState)
      /\ Len([s EXCEPT ![i] = x]) = Len(s)
      /\ \A j \in 1 .. Len(s) :
           [s EXCEPT ![i] = x][j] = (IF j = i THEN x ELSE s[j])
  BY <1>1, UpdatedEntry
<1>4. ASSUME NEW j \in 1 .. Len(s)
      PROVE  /\ t[j].id = s[j].id
             /\ t[j].sold = s[j].sold
             /\ t[j].pending = s[j].pending + (IF j = i THEN a ELSE 0)
  <2>1. t[j] = (IF j = i THEN x ELSE s[j]) /\ s[j].pending \in Nat
    BY <1>1, <1>2, <1>3
  <2> QED
    BY <1>1, <2>1
<1> QED
  BY <1>2, <1>3, <1>4

LEMMA ReadLogsStep ==
  ASSUME PositionInv, ReadLogs
  PROVE  PositionInv'
<1>1. /\ actor = "running" /\ mailbox # << >> /\ Message.kind = "logs"
      /\ mailbox' = Tail(mailbox)
      /\ UNCHANGED <<results, actor, orphans, delivered, removed, routed, earlier,
                     stray, orphaned>>
  BY DEF ReadLogs, Read, Message, inputVars, historyVars
<1>2. PICK ideal \in Quote :
        IssueWarrant(NetOf[Message.tx], McapOf[Message.tx], ideal)
  BY DEF ReadLogs
<1>3. PICK i \in live :
        LET w == [n |-> issued + 1, order |-> entries[i].id,
                  amount |-> Amount(i, ideal)]
        IN  Book(i, w) /\ warrants' = warrants \cup {w}
  BY <1>2 DEF IssueWarrant
<1>4. /\ issued' = issued + 1
      /\ UNCHANGED <<status, dbSold, confirmed, confirmedBy>>
  BY <1>2 DEF IssueWarrant, dbVars, reportVars
<1>5. PICK a \in Nat \ {0} : a = Amount(i, ideal)
  BY <1>3, Affordable DEF Book
<1>6. PICK s \in OrderId : s = entries[i].id
  BY Facts
<1>7. PICK w \in Claim(OrderId) :
        /\ w = [n |-> issued + 1, order |-> s, amount |-> a]
        /\ w.n = issued + 1 /\ w.order = s /\ w.amount = a
        /\ entries' = [entries EXCEPT ![i].pending = @ + a]
        /\ totalPending' = AddW(totalPending, a)
        /\ UNCHANGED <<live, totalSold, failures, complete>>
        /\ warrants' = warrants \cup {w}
  <2>1. [n |-> issued + 1, order |-> s, amount |-> a] \in Claim(OrderId)
    BY <1>5, <1>6 DEF Claim, PositionInv, PositionTypeOK, TradeTypeOK
  <2> QED
    BY <1>3, <1>5, <1>6, <2>1 DEF Book
<1>8. /\ a <= Holdings
      /\ entries[i].sold + entries[i].pending + a <= MaxToSell[s]
  BY <1>3, <1>5, <1>6, Affordable DEF Book
<1>9. /\ issued \in Nat /\ warrants \in SUBSET Claim(OrderId)
      /\ \A v \in warrants : v.n \in Nat /\ v.n <= issued
      /\ IsFiniteSet(Units(warrants)) /\ w \notin warrants
  <2>1. /\ issued \in Nat /\ warrants \in SUBSET Claim(OrderId)
        /\ \A v \in warrants : v.n <= issued
        /\ IsFiniteSet(Units(warrants))
    BY DEF PositionInv, PositionTypeOK, TradeTypeOK, Numbered
  <2>2. \A v \in warrants : v.n \in Nat
    BY <2>1 DEF Claim
  <2> QED
    BY <1>7, <2>1, <2>2
<1>10. /\ i \in 1 .. Len(entries)
       /\ entries \in Seq(OrderState) /\ live \subseteq 1 .. Len(entries)
       /\ \A j \in 1 .. Len(entries) :
            /\ entries[j].id \in OrderId
            /\ entries[j].sold \in Nat /\ entries[j].pending \in Nat
  BY Facts
<1>11. /\ entries' \in Seq(OrderState) /\ Len(entries') = Len(entries)
       /\ \A j \in 1 .. Len(entries) :
            /\ entries'[j].id = entries[j].id
            /\ entries'[j].sold = entries[j].sold
            /\ entries'[j].pending = entries[j].pending + (IF j = i THEN a ELSE 0)
  <2>1. i \in 1 .. Len(entries) /\ entries \in Seq(OrderState) /\ a \in Nat
    BY <1>10
  <2>2. entries' = [entries EXCEPT ![i].pending = @ + a]
    BY <1>7
  <2>3. \A t : t = [entries EXCEPT ![i].pending = @ + a] =>
          /\ t \in Seq(OrderState) /\ Len(t) = Len(entries)
          /\ \A j \in 1 .. Len(entries) :
               /\ t[j].id = entries[j].id
               /\ t[j].sold = entries[j].sold
               /\ t[j].pending = entries[j].pending + (IF j = i THEN a ELSE 0)
    BY <2>1, Pended
  <2> QED
    BY <2>2, <2>3
<1>12. Unread' = Unread
  <2>1. /\ ConfirmedIn(mailbox) = ConfirmedIn(Tail(mailbox)) \cup ConfirmedOf(Message)
        /\ ConfirmedOf(Message) = {}
    BY <1>1, MailTaken DEF ConfirmedOf
  <2> QED
    BY <1>1, <2>1 DEF Unread
<1>13. Unsold' = Unsold \cup {w} /\ w \notin Unsold /\ w \notin Unread
  <2>1. Unread \in SUBSET warrants
    BY Facts
  <2> QED
    BY <1>7, <1>9, <1>12, <2>1 DEF Unsold
<1>14. PICK v \in Claim(OrderId) : commands' = Append(commands, [kind |-> "forward", warrant |-> v])
  <2>1. \E v \in warrants' \ warrants : commands' = Append(commands, [kind |-> "forward", warrant |-> v])
    BY DEF ReadLogs
  <2> QED
    BY <1>7, <2>1
<1>15. /\ commands' \in Seq(CommandMsg)
       /\ \A e : Occurs(commands', e) = Occurs(commands, e)
                   + (IF [kind |-> "forward", warrant |-> v] = e THEN 1 ELSE 0)
  <2>1. [kind |-> "forward", warrant |-> v] \in CommandMsg
    BY CommandKinds
  <2> QED
    BY <1>14, <2>1, CommandSent
<1>16. ASSUME NEW p \in OrderId
       PROVE  /\ Coming(p)' = Coming(p)
              /\ Places(p)' = Places(p) /\ Absent(p)' = Absent(p)
              /\ Astray(p)' = Astray(p)
  <2>1. /\ Occurs(mailbox, [kind |-> "add", order |-> p]) \in Nat
        /\ Occurs(commands, [kind |-> "create", order |-> p]) \in Nat
    BY Facts
  <2>2. Occurs(mailbox', [kind |-> "add", order |-> p])
          = Occurs(mailbox, [kind |-> "add", order |-> p])
    <3>1. Message # [kind |-> "add", order |-> p]
      BY <1>1
    <3>2. Occurs(Tail(mailbox), [kind |-> "add", order |-> p])
            = Occurs(mailbox, [kind |-> "add", order |-> p]) - 0
      BY <1>1, <3>1, MailTaken
    <3> QED
      BY <1>1, <2>1, <3>2
  <2>3. Occurs(commands', [kind |-> "create", order |-> p])
          = Occurs(commands, [kind |-> "create", order |-> p])
    <3>1. [kind |-> "forward", warrant |-> v] # [kind |-> "create", order |-> p]
      OBVIOUS
    <3> QED
      BY <1>15, <2>1, <3>1
  <2>4. Coming(p)' = Coming(p)
    BY <1>1, <2>2, <2>3 DEF Coming
  <2>5. Places(p)' = Places(p) /\ Absent(p)' = Absent(p)
    BY <1>7, <1>10, <1>11 DEF Places, Absent
  <2>6. Astray(p)' = Astray(p)
    BY <1>1, <1>4, <1>12 DEF Astray
  <2> QED
    BY <2>4, <2>5, <2>6
<1>17. totalPending \in Nat /\ totalPending < Word /\ stray \in Nat /\ earlier \in Nat
       /\ earlier <= issued
  BY DEF PositionInv, PositionTypeOK, TradeTypeOK, Numbered
<1>18. Numbered'
  <2> DEFINE own == {x \in warrants : x.n > earlier}
  <2>1. {x \in warrants' : x.n > earlier} = own \cup {w}
    BY <1>7, <1>9, <1>17
  <2>2. own \in SUBSET warrants /\ w \notin own
    BY <1>9
  <2>3. IsFiniteSet(Units(own)) /\ Total(own) \in Nat
    BY <1>9, <2>2, PartTotal, TotalType
  <2>4. Total(own \cup {w}) = Total(own) + a
    BY <1>7, <2>2, <2>3, AddClaim
  <2>5. (totalPending + stray) % Word = Total(own) % Word
    BY <1>1 DEF PositionInv, Numbered, StrayAccounted
  <2> HIDE DEF own
  <2>6. /\ totalPending' \in Nat /\ totalPending' < Word
        /\ (totalPending' + stray) % Word = (Total(own) + a) % Word
    BY <1>7, <1>8, <1>17, <2>3, <2>5, Wraps
  <2>7. StrayAccounted'
    BY <1>1, <2>1, <2>4, <2>6 DEF StrayAccounted
  <2>8. IsFiniteSet(Units(warrants'))
    BY <1>7, <1>9, AddClaim
  <2>9. \A x \in warrants' : x.n <= issued' /\ x.amount <= Holdings
    BY <1>4, <1>7, <1>8, <1>9 DEF PositionInv, Numbered
  <2> QED
    BY <1>1, <1>4, <1>9, <1>17, <2>6, <2>7, <2>8, <2>9 DEF Numbered
<1>19. PositionTypeOK'
  <2>1. TradeTypeOK'
    <3>1. totalPending' \in Nat
      <4>1. totalPending \in Nat /\ Word \in Nat /\ a \in Nat
        BY <1>17, Constants
      <4> QED
        BY <1>7, <4>1 DEF AddW
    <3>2. warrants' \in SUBSET Claim(OrderId) /\ issued' \in Nat
      BY <1>4, <1>7, <1>9
    <3> QED
      BY <1>4, <1>7, <1>10, <1>11, <3>1, <3>2 DEF PositionInv, PositionTypeOK, TradeTypeOK
  <2>2. mailbox' \in Seq(MailMsg)
    BY <1>1, MailTaken
  <2> QED
    BY <1>1, <1>15, <2>1, <2>2 DEF PositionInv, PositionTypeOK
<1>20. InStep'
  <2>1. [kind |-> "forward", warrant |-> v] # [kind |-> "complete"]
    OBVIOUS
  <2>2. Occurs(commands', [kind |-> "complete"]) = Occurs(commands, [kind |-> "complete"]) + 0
    BY <1>15, <2>1
  <2>3. Occurs(commands, [kind |-> "complete"]) = 0
    BY <1>1 DEF PositionInv, InStep
  <2> QED
    BY <1>1, <1>7, <2>2, <2>3 DEF PositionInv, InStep
<1>21. AnsweredOnce'
  <2>1. /\ Unhandled(Tail(mailbox)) \subseteq Unhandled(mailbox)
        /\ OneResult(Tail(mailbox))
    BY <1>1, MailTaken
  <2> QED
    BY <1>1, <1>7, <2>1 DEF PositionInv, AnsweredOnce
<1>22. Recorded'
  BY <1>4, <1>10, <1>11, <1>12 DEF PositionInv, Recorded
<1>23. ASSUME NEW p \in OrderId
       PROVE  /\ Cardinality(Free(p)') \in Nat
              /\ Cardinality(Free(p)') + (IF p = s THEN a ELSE 0) <= Cardinality(Free(p))
  <2>1. IsFiniteSet(Free(p)) /\ Cardinality(Free(p)) \in Nat /\ MaxToSell[p] \in Nat
    BY Facts
  <2>2. CASE p # s
    <3>1. Free(p)' = Free(p)
      BY <1>6, <1>7, <1>10, <1>11, <2>2 DEF Free
    <3> QED
      BY <2>1, <2>2, <3>1
  <2>3. CASE p = s
    <3> DEFINE b == entries[i].sold + entries[i].pending
               X == {i} \X ((b + 1) .. (b + a))
    <3>1. b \in Nat /\ b + a \in Nat /\ b <= b + a /\ b + a <= MaxToSell[s]
      BY <1>8, <1>10
    <3>2. Cardinality(X) = a
      <4> HIDE DEF b
      <4>1. Cardinality(X) = (b + a) - b
        BY <3>1, Column
      <4> QED
        BY <3>1, <4>1
    <3>3. X \in SUBSET Free(p)
      BY <1>6, <2>1, <2>3, <3>1 DEF Free
    <3>4. ASSUME NEW u \in Free(p)' PROVE u \in Free(p) \ X
      <4>1. /\ u \in live \X (1 .. MaxToSell[p])
            /\ entries'[u[1]].id = p
            /\ entries'[u[1]].sold + entries'[u[1]].pending < u[2]
        BY <1>7, <3>4 DEF Free
      <4>2. PICK j \in live, k \in 1 .. MaxToSell[p] : u = <<j, k>>
        BY <4>1
      <4>3. /\ j \in 1 .. Len(entries) /\ k \in Nat
            /\ entries'[j].id = p
            /\ entries'[j].sold + entries'[j].pending < k
        BY <1>10, <2>1, <4>1, <4>2
      <4>4. /\ entries[j].sold \in Nat /\ entries[j].pending \in Nat
            /\ entries[j].id = p
            /\ entries[j].sold + (entries[j].pending + (IF j = i THEN a ELSE 0)) < k
        BY <1>10, <1>11, <4>3
      <4>5. entries[j].sold + entries[j].pending < k
        BY <4>3, <4>4
      <4>6. u \in Free(p)
        BY <4>2, <4>4, <4>5 DEF Free
      <4>7. j = i => b + a < k
        BY <3>1, <4>3, <4>4
      <4>8. u \notin X
        BY <3>1, <4>2, <4>3, <4>7
      <4> QED
        BY <4>6, <4>8
    <3>5. Free(p)' \in SUBSET (Free(p) \ X)
      BY <3>4
    <3> HIDE DEF X
    <3>6. /\ Cardinality(Free(p)') \in Nat
          /\ Cardinality(Free(p)') + Cardinality(X) <= Cardinality(Free(p))
      BY <2>1, <3>3, <3>5, LessBy
    <3> QED
      BY <2>3, <3>2, <3>6
  <2> QED
    BY <2>2, <2>3
<1>24. Budgeted'
  <2> SUFFICES ASSUME NEW p \in OrderId
               PROVE  confirmedBy[p] + Total(ClaimsOf(Unsold', p)) + Cardinality(Free(p)')
                          + Coming(p) * MaxToSell[p]
                        <= delivered[p] * MaxToSell[p]
    BY <1>1, <1>4, <1>16 DEF Budgeted
  <2>1. /\ confirmedBy[p] \in Nat /\ Total(ClaimsOf(Unsold, p)) \in Nat
        /\ Cardinality(Free(p)) \in Nat /\ MaxToSell[p] \in Nat
        /\ Coming(p) \in Nat /\ delivered[p] \in Nat
        /\ Unsold \in SUBSET Claim(OrderId) /\ IsFiniteSet(Units(Unsold))
    BY Facts
  <2>2. Total(ClaimsOf(Unsold', p)) =
          Total(ClaimsOf(Unsold, p)) + (IF s = p THEN a ELSE 0)
    <3>1. /\ w \in Claim(OrderId) /\ w \notin Unsold /\ Unsold' = Unsold \cup {w}
          /\ w.order = s /\ w.amount = a
      BY <1>7, <1>13
    <3>2. Total(ClaimsOf(Unsold \cup {w}, p)) =
            Total(ClaimsOf(Unsold, p)) + (IF w.order = p THEN w.amount ELSE 0)
      BY <2>1, <3>1, AddClaimOf
    <3> QED
      BY <3>1, <3>2
  <2>3. /\ Cardinality(Free(p)') \in Nat
        /\ Cardinality(Free(p)') + (IF p = s THEN a ELSE 0) <= Cardinality(Free(p))
    BY <1>23
  <2>4. confirmedBy[p] + Total(ClaimsOf(Unsold, p)) + Cardinality(Free(p))
          + Coming(p) * MaxToSell[p] <= delivered[p] * MaxToSell[p]
    BY DEF PositionInv, Budgeted
  <2>5. Coming(p) * MaxToSell[p] \in Nat /\ delivered[p] * MaxToSell[p] \in Nat
    BY <2>1
  <2> DEFINE coming == Coming(p) * MaxToSell[p]
             offered == delivered[p] * MaxToSell[p]
             unsold == Total(ClaimsOf(Unsold, p))
             unsold2 == Total(ClaimsOf(Unsold', p))
             free == Cardinality(Free(p))
             free2 == Cardinality(Free(p)')
             share == IF s = p THEN a ELSE 0
  <2>6. /\ confirmedBy[p] \in Nat /\ unsold \in Nat /\ free \in Nat /\ free2 \in Nat
        /\ coming \in Nat /\ offered \in Nat /\ share \in Nat
        /\ unsold2 = unsold + share /\ free2 + share <= free
        /\ confirmedBy[p] + unsold + free + coming <= offered
    BY <2>1, <2>2, <2>3, <2>4, <2>5
  <2> HIDE DEF coming, offered, unsold, unsold2, free, free2, share
  <2>7. confirmedBy[p] + unsold2 + free2 + coming <= offered
    BY <2>6, MoveShare
  <2> QED
    BY <2>7 DEF coming, offered, unsold2, free2
<1>25. Counted'
  BY <1>1, <1>4, <1>7, <1>16 DEF PositionInv, Counted
<1>26. EntriesFit'
  <2>1. ASSUME NEW j \in live
        PROVE  entries'[j].sold + entries'[j].pending < Word
    <3>1. entries[j].sold + entries[j].pending < Word /\ j \in 1 .. Len(entries)
      BY <1>10 DEF PositionInv, EntriesFit
    <3>2. MaxToSell[s] \in Nat /\ MaxToSell[s] < Word /\ Word \in Nat
      BY Constants
    <3>3. CASE j = i
      BY <1>8, <1>10, <1>11, <3>2, <3>3
    <3>4. CASE j # i
      BY <1>10, <1>11, <3>1, <3>4
    <3> QED
      BY <3>3, <3>4
  <2> QED
    BY <1>7, <2>1 DEF EntriesFit
<1>27. Held'
  <2>1. ASSUME NEW p \in OrderId, status[p] = "ACTIVE"
        PROVE  \/ actor = "running" /\ ~Absent(p)'
               \/ Astray(p)'
               \/ MaxToSell[p] = 0
    BY <1>16, <2>1 DEF PositionInv, Held
  <2>2. ASSUME NEW j \in live, entries'[j].sold >= MaxToSell[entries'[j].id]
        PROVE  Astray(entries[j].id)' \/ MaxToSell[entries'[j].id] = 0
    <3>1. PICK p \in OrderId : entries[j].id = p /\ entries'[j].id = p
      BY <1>10, <1>11
    <3>2. Astray(p) \/ MaxToSell[p] = 0
      BY <1>10, <1>11, <2>2, <3>1 DEF PositionInv, Held
    <3> QED
      BY <1>16, <3>1, <3>2
  <2> QED
    BY <1>1, <1>4, <1>7, <2>1, <2>2 DEF Held
<1> QED
  BY <1>18, <1>19, <1>20, <1>21, <1>22, <1>24, <1>25, <1>26, <1>27 DEF PositionInv

-----------------------------------------------------------------------------
(* The actor reads a message that is not a transaction.                    *)

\* The sale that a message tells of, and the tokens it gives back, of an order.
Told(o) == IF /\ Message.kind = "result" /\ Message.confirmed
              /\ Message.warrant.order = o
           THEN Message.warrant.amount ELSE 0

Freed(o) == IF /\ Message.kind = "result" /\ ~Message.confirmed
               /\ Message.warrant.order = o
            THEN Message.warrant.amount ELSE 0

LEMMA ReadEffect ==
  ASSUME PositionInv, actor = "running", mailbox # << >>, complete' \in BOOLEAN,
         Settled, Afterwards, UNCHANGED <<results, orphans, inputVars>>
  PROVE  /\ commands' \in Seq(CommandMsg) /\ mailbox' \in Seq(MailMsg)
         /\ actor' = (IF complete' THEN "stopped" ELSE "running")
         /\ InStep' /\ AnsweredOnce'
         /\ warrants' \in SUBSET warrants
         /\ ~complete' => warrants' = warrants \ ResultOf(Message)
         /\ Unread' \in SUBSET (Unread \ ConfirmedOf(Message))
         /\ Unsold' \in SUBSET (Unsold \ (ResultOf(Message) \ ConfirmedOf(Message)))
         /\ \A o \in OrderId :
              /\ Coming(o)' \in Nat
              /\ Coming(o)' + (IF Message = [kind |-> "add", order |-> o] THEN 1 ELSE 0)
                   <= Coming(o)
<1>1. /\ Message \in MailMsg
      /\ Tail(mailbox) \in Seq(MailMsg)
      /\ \A e : /\ Occurs(mailbox, e) \in Nat
                /\ Occurs(Tail(mailbox), e) \in Nat
                /\ Occurs(Tail(mailbox), e) =
                     Occurs(mailbox, e) - (IF Message = e THEN 1 ELSE 0)
      /\ Unhandled(mailbox) = Unhandled(Tail(mailbox)) \cup ResultOf(Message)
      /\ ConfirmedIn(mailbox) = ConfirmedIn(Tail(mailbox)) \cup ConfirmedOf(Message)
      /\ ResultOf(Message) \cap Unhandled(Tail(mailbox)) = {}
      /\ ConfirmedIn(Tail(mailbox)) \subseteq Unhandled(Tail(mailbox))
      /\ OneResult(Tail(mailbox))
      /\ ConfirmedIn(results) \subseteq Unhandled(results)
      /\ ResultOf(Message) \cap Unhandled(results) = {}
  BY MailTaken
<1>2. /\ OneResult(results)
      /\ Unhandled(results) \cap Unhandled(mailbox) = {}
      /\ Unhandled(results) \cup Unhandled(mailbox) \subseteq warrants
  BY DEF PositionInv, AnsweredOnce
<1>3. ConfirmedOf(Message) \subseteq ResultOf(Message)
  BY DEF ConfirmedOf, ResultOf
<1>4. /\ commands \in Seq(CommandMsg) /\ mailbox \in Seq(MailMsg)
      /\ Occurs(commands, [kind |-> "complete"]) = 0
  BY DEF PositionInv, PositionTypeOK, InStep
<1>5. /\ \A o \in OrderId : /\ Occurs(commands, [kind |-> "create", order |-> o]) \in Nat
                            /\ Occurs(mailbox, [kind |-> "add", order |-> o]) \in Nat
                            /\ orphans[o] \in Nat
      /\ results' = results /\ orphans' = orphans
  BY Facts
<1>6. ASSUME NEW o \in OrderId, Message = [kind |-> "add", order |-> o]
      PROVE  Occurs(mailbox, [kind |-> "add", order |-> o]) >= 1
  BY <1>4, <1>6, OccursTail DEF Message
<1>7. CASE complete'
  <2>1. /\ warrants' = warrants \ Unhandled(mailbox)
        /\ actor' = "stopped" /\ mailbox' = << >>
        /\ commands' = Append(commands, [kind |-> "complete"])
    BY <1>7 DEF Settled, Afterwards
  <2>2. Unhandled(<< >>) = {} /\ ConfirmedIn(<< >>) = {} /\ OneResult(<< >>)
    BY ResultsNone
  <2>3. /\ commands' \in Seq(CommandMsg)
        /\ \A e : Occurs(commands', e) =
                    Occurs(commands, e) + (IF [kind |-> "complete"] = e THEN 1 ELSE 0)
    BY <2>1, CommandKinds, CommandSent
  <2>4. InStep'
    <3>1. Occurs(commands', [kind |-> "complete"]) = 1
      BY <1>4, <2>3
    <3> QED
      BY <2>1, <3>1 DEF InStep
  <2>5. AnsweredOnce'
    BY <1>2, <1>5, <2>1, <2>2 DEF AnsweredOnce
  <2>6. Unread' \in SUBSET (Unread \ ConfirmedOf(Message))
    BY <1>1, <1>3, <1>5, <2>1, <2>2 DEF Unread
  <2>7. Unsold' \in SUBSET (Unsold \ (ResultOf(Message) \ ConfirmedOf(Message)))
    BY <1>1, <1>3, <1>5, <2>1, <2>2 DEF Unread, Unsold
  <2>8. ASSUME NEW o \in OrderId
        PROVE  /\ Coming(o)' \in Nat
               /\ Coming(o)' + (IF Message = [kind |-> "add", order |-> o] THEN 1 ELSE 0)
                    <= Coming(o)
    <3>1. Occurs(<< >>, [kind |-> "add", order |-> o]) = 0
      BY OccursNone
    <3>2. Occurs(commands', [kind |-> "create", order |-> o]) =
            Occurs(commands, [kind |-> "create", order |-> o]) + 0
      <4>1. [kind |-> "complete"] # [kind |-> "create", order |-> o]
        BY CommandKinds
      <4> QED
        BY <2>3, <4>1
    <3>3. Coming(o)' = Occurs(commands, [kind |-> "create", order |-> o]) + orphans[o]
      BY <1>5, <2>1, <3>1, <3>2 DEF Coming
    <3> QED
      BY <1>5, <1>6, <3>3 DEF Coming
  <2>9. mailbox' \in Seq(MailMsg)
    BY <2>1
  <2> QED
    BY <1>7, <2>1, <2>3, <2>4, <2>5, <2>6, <2>7, <2>8, <2>9
<1>8. CASE ~complete'
  <2>1. /\ warrants' = warrants \ Unhandled(<<Message>>)
        /\ actor' = "running" /\ mailbox' = Tail(mailbox)
        /\ commands' = commands
    BY <1>8 DEF Settled, Afterwards
  <2>2. Unhandled(<<Message>>) = ResultOf(Message)
    <3> DEFINE n == << >>
    <3>1. <<Message>> = Append(n, Message) /\ n \in Seq(MailMsg) /\ Unhandled(n) = {}
      BY <1>1, ResultsNone
    <3> HIDE DEF n
    <3>2. Message \in MailMsg
      BY <1>1
    <3>3. \A s \in Seq(MailMsg), e \in MailMsg :
            Unhandled(Append(s, e)) = Unhandled(s) \cup ResultOf(e)
      BY ResultsAppend
    <3> QED
      BY <3>1, <3>2, <3>3
  <2>3. InStep'
    BY <1>4, <1>8, <2>1 DEF InStep
  <2>4. AnsweredOnce'
    BY <1>1, <1>2, <1>5, <2>1, <2>2 DEF AnsweredOnce
  <2>5. Unread' \in SUBSET (Unread \ ConfirmedOf(Message))
    BY <1>1, <1>3, <1>5, <2>1 DEF Unread
  <2>6. Unsold' \in SUBSET (Unsold \ (ResultOf(Message) \ ConfirmedOf(Message)))
    BY <1>1, <1>3, <1>5, <2>1, <2>2 DEF Unread, Unsold
  <2>7. ASSUME NEW o \in OrderId
        PROVE  /\ Coming(o)' \in Nat
               /\ Coming(o)' + (IF Message = [kind |-> "add", order |-> o] THEN 1 ELSE 0)
                    <= Coming(o)
    <3> DEFINE y == Occurs(mailbox, [kind |-> "add", order |-> o])
               z == Occurs(Tail(mailbox), [kind |-> "add", order |-> o])
               d == IF Message = [kind |-> "add", order |-> o] THEN 1 ELSE 0
               x == Occurs(commands, [kind |-> "create", order |-> o])
    <3>1. x \in Nat /\ y \in Nat /\ z \in Nat /\ d \in Nat /\ z = y - d
      BY <1>1, <1>5
    <3>2. Coming(o)' = x + z + orphans[o] /\ Coming(o) = x + y + orphans[o]
      BY <1>5, <2>1 DEF Coming
    <3> HIDE DEF x, y, z, d
    <3>3. Coming(o)' \in Nat /\ Coming(o)' + d <= Coming(o)
      <4>1. orphans[o] \in Nat
        BY <1>5
      <4>2. /\ x + z + orphans[o] \in Nat
            /\ x + z + orphans[o] + d <= x + y + orphans[o]
        BY <3>1, <4>1
      <4> QED
        BY <3>2, <4>2
    <3> QED
      BY <3>3 DEF d
  <2> QED
    BY <1>1, <1>4, <1>8, <2>1, <2>2, <2>3, <2>4, <2>5, <2>6, <2>7
<1> QED
  BY <1>7, <1>8

\* What such a message takes off the shares of an order.
LEMMA ReadShares ==
  ASSUME PositionInv, mailbox # << >>,
         Unread' \in SUBSET (Unread \ ConfirmedOf(Message)),
         Unsold' \in SUBSET (Unsold \ (ResultOf(Message) \ ConfirmedOf(Message))),
         NEW o \in OrderId
  PROVE  /\ Told(o) \in Nat /\ Freed(o) \in Nat
         /\ Total(ClaimsOf(Unread', o)) \in Nat
         /\ Total(ClaimsOf(Unread', o)) + Told(o) <= Total(ClaimsOf(Unread, o))
         /\ Total(ClaimsOf(Unsold', o)) \in Nat
         /\ Total(ClaimsOf(Unsold', o)) + Freed(o) <= Total(ClaimsOf(Unsold, o))
<1>1. /\ Message \in MailMsg
      /\ ConfirmedIn(mailbox) = ConfirmedIn(Tail(mailbox)) \cup ConfirmedOf(Message)
      /\ Unhandled(mailbox) = Unhandled(Tail(mailbox)) \cup ResultOf(Message)
      /\ ResultOf(Message) \cap Unhandled(Tail(mailbox)) = {}
      /\ ConfirmedIn(Tail(mailbox)) \subseteq Unhandled(Tail(mailbox))
      /\ ConfirmedIn(results) \subseteq Unhandled(results)
      /\ ResultOf(Message) \cap Unhandled(results) = {}
  BY MailTaken
<1>2. /\ Unread \in SUBSET Claim(OrderId) /\ IsFiniteSet(Units(Unread))
      /\ Unsold \in SUBSET Claim(OrderId) /\ IsFiniteSet(Units(Unsold))
      /\ Total(ClaimsOf(Unread, o)) \in Nat /\ Total(ClaimsOf(Unsold, o)) \in Nat
  BY Facts
<1>3. Unread' \in SUBSET Unread /\ Unsold' \in SUBSET Unsold
  OBVIOUS
<1>4. /\ Total(ClaimsOf(Unread', o)) \in Nat
      /\ Total(ClaimsOf(Unread', o)) <= Total(ClaimsOf(Unread, o))
      /\ Total(ClaimsOf(Unsold', o)) \in Nat
      /\ Total(ClaimsOf(Unsold', o)) <= Total(ClaimsOf(Unsold, o))
  BY <1>2, <1>3, ShareLess
<1>5. CASE Message.kind # "result"
  <2>1. Told(o) = 0 /\ Freed(o) = 0
    BY <1>5 DEF Told, Freed
  <2> QED
    BY <1>4, <2>1
<1>6. CASE Message.kind = "result"
  <2> DEFINE r == Message.warrant
  <2>1. r \in Claim(OrderId) /\ r.amount \in Nat
    <3>1. r \in Claim(OrderId)
      BY <1>1, <1>6, MailKinds
    <3> QED
      BY <3>1 DEF Claim
  <2>2. CASE Message.confirmed
    <3>1. ResultOf(Message) = {r} /\ ConfirmedOf(Message) = {r}
      BY <1>6, <2>2 DEF ResultOf, ConfirmedOf
    <3>2. /\ Told(o) = (IF r.order = o THEN r.amount ELSE 0)
          /\ Freed(o) = 0
      BY <1>6, <2>2 DEF Told, Freed
    <3>3. r \in Unread /\ Unread' \in SUBSET (Unread \ {r})
      BY <1>1, <3>1 DEF Unread
    <3> HIDE DEF r
    <3>4. Total(ClaimsOf(Unread', o)) + (IF r.order = o THEN r.amount ELSE 0)
            <= Total(ClaimsOf(Unread, o))
      BY <1>2, <3>3, ShareWithout
    <3> QED
      BY <1>4, <2>1, <3>2, <3>4
  <2>3. CASE ~Message.confirmed
    <3>1. ResultOf(Message) = {r} /\ ConfirmedOf(Message) = {}
      BY <1>6, <2>3 DEF ResultOf, ConfirmedOf
    <3>2. /\ Freed(o) = (IF r.order = o THEN r.amount ELSE 0)
          /\ Told(o) = 0
      BY <1>6, <2>3 DEF Told, Freed
    <3>3. r \in Unsold /\ Unsold' \in SUBSET (Unsold \ {r})
      <4>1. Unhandled(mailbox) \subseteq warrants
        BY DEF PositionInv, AnsweredOnce
      <4> QED
        BY <1>1, <3>1, <4>1 DEF Unsold, Unread
    <3> HIDE DEF r
    <3>4. Total(ClaimsOf(Unsold', o)) + (IF r.order = o THEN r.amount ELSE 0)
            <= Total(ClaimsOf(Unsold, o))
      BY <1>2, <3>3, ShareWithout
    <3> QED
      BY <1>4, <2>1, <3>2, <3>4
  <2> QED
    BY <2>2, <2>3
<1> QED
  BY <1>5, <1>6

\* What is recorded of an order, when it is told of no more than was read.
LEMMA ReadRecorded ==
  ASSUME PositionInv, mailbox # << >>,
         Unread' \in SUBSET (Unread \ ConfirmedOf(Message)),
         Unsold' \in SUBSET (Unsold \ (ResultOf(Message) \ ConfirmedOf(Message))),
         confirmedBy' = confirmedBy, orphaned' = orphaned,
         NEW o \in OrderId, dbSold'[o] \in Nat, dbSold'[o] <= dbSold[o] + Told(o)
  PROVE  /\ dbSold'[o] + Total(ClaimsOf(Unread', o)) <= confirmedBy[o]
         /\ Astray(o) => Astray(o)'
         /\ Told(o) > 0 /\ dbSold'[o] = dbSold[o] => Astray(o)'
<1>1. /\ Told(o) \in Nat
      /\ Total(ClaimsOf(Unread', o)) \in Nat
      /\ Total(ClaimsOf(Unread', o)) + Told(o) <= Total(ClaimsOf(Unread, o))
  BY ReadShares
<1>2. /\ dbSold[o] \in Nat /\ confirmedBy[o] \in Nat
      /\ Total(ClaimsOf(Unread, o)) \in Nat
  BY Facts
<1>3. dbSold[o] + Total(ClaimsOf(Unread, o)) <= confirmedBy[o]
  BY DEF PositionInv, Recorded
<1>4. Astray(o) <=> \/ dbSold[o] + Total(ClaimsOf(Unread, o)) < confirmedBy[o]
                    \/ o \in orphaned
  BY DEF Astray
<1>5. Astray(o)' <=> \/ dbSold'[o] + Total(ClaimsOf(Unread', o)) < confirmedBy[o]
                     \/ o \in orphaned
  BY DEF Astray
<1>6. dbSold'[o] + Total(ClaimsOf(Unread', o)) <= confirmedBy[o]
  BY <1>1, <1>2, <1>3
<1>7. Astray(o) => Astray(o)'
  BY <1>1, <1>2, <1>4, <1>5
<1>8. Told(o) > 0 /\ dbSold'[o] = dbSold[o] => Astray(o)'
  BY <1>1, <1>2, <1>3, <1>5
<1> QED
  BY <1>6, <1>7, <1>8

\* The accounts of one order after the step.
LEMMA Balance ==
  ASSUME PositionInv, NEW o \in OrderId, NEW k \in {0, 1}, NEW g \in Nat,
         NEW u \in Nat, u + g <= Total(ClaimsOf(Unsold, o)),
         NEW f \in Nat, f <= Cardinality(Free(o)) + g + k * MaxToSell[o],
         NEW c \in Nat, c + k <= Coming(o)
  PROVE  confirmedBy[o] + u + f + c * MaxToSell[o] <= delivered[o] * MaxToSell[o]
<1> DEFINE a == confirmedBy[o] + Total(ClaimsOf(Unsold, o)) + Cardinality(Free(o))
           b == confirmedBy[o] + u + f
<1>1. /\ confirmedBy[o] \in Nat /\ Total(ClaimsOf(Unsold, o)) \in Nat
      /\ Cardinality(Free(o)) \in Nat /\ MaxToSell[o] \in Nat
      /\ Coming(o) \in Nat /\ delivered[o] \in Nat
  BY Facts
<1>2. a \in Nat /\ b \in Nat /\ k \in Nat
  BY <1>1
<1>3. k * MaxToSell[o] \in Nat
  BY <1>1, <1>2
<1>4. b <= a + k * MaxToSell[o]
  BY <1>1, <1>3
<1>5. a + Coming(o) * MaxToSell[o] <= delivered[o] * MaxToSell[o]
  BY DEF PositionInv, Budgeted
<1>6. c + k + delivered[o] <= Coming(o) + delivered[o]
  BY <1>1, <1>2
<1> HIDE DEF a, b
<1>7. b + c * MaxToSell[o] <= delivered[o] * MaxToSell[o]
  BY <1>1, <1>2, <1>4, <1>5, <1>6, Accounts
<1> QED
  BY <1>7 DEF b

LEMMA Tally ==
  ASSUME PositionInv, NEW o \in OrderId, NEW k \in {0, 1}, NEW d \in {0, 1},
         NEW b \in {0, 1}, b = (IF status[o] = "COMPLETED" THEN 1 ELSE 0),
         NEW p \in Nat, p + d <= Cardinality(Places(o)) + b + k,
         NEW c \in Nat, c + k <= Coming(o)
  PROVE  c + p + d <= delivered[o]
<1>1. /\ Coming(o) \in Nat /\ delivered[o] \in Nat
      /\ Cardinality(Places(o)) \in Nat
  BY Facts
<1>2. Coming(o) + Cardinality(Places(o)) + b <= delivered[o]
  BY DEF PositionInv, Counted
<1> QED
  BY <1>1, <1>2

LEMMA ReadKeeps ==
  ASSUME PositionInv, actor = "running", mailbox # << >>, complete' \in BOOLEAN,
         Settled, Afterwards,
         UNCHANGED <<results, orphans, inputVars, reportVars, issued, earlier,
                     orphaned>>,
         entries' \in Seq(OrderState), live' \subseteq 1 .. Len(entries'),
         totalSold' \in Nat, totalPending' \in Nat, totalPending' < Word,
         failures' \in Nat, status' \in [OrderId -> Status],
         dbSold' \in [OrderId -> Nat], stray' \in Nat,
         StrayAccounted',
         \A o \in OrderId : dbSold'[o] <= dbSold[o] + Told(o),
         \A o \in OrderId : status'[o] = "COMPLETED" => confirmedBy[o] >= MaxToSell[o],
         \A i \in 1 .. Len(entries') :
           entries'[i].sold + Total(ClaimsOf(Unread', entries'[i].id))
             <= confirmedBy[entries'[i].id],
         \A o \in OrderId :
           /\ Cardinality(Free(o)') \in Nat
           /\ Cardinality(Free(o)') <= Cardinality(Free(o)) + Freed(o)
                + (IF Message = [kind |-> "add", order |-> o] THEN MaxToSell[o] ELSE 0),
         Cardinality(live') <= MaxOrders,
         \A o \in OrderId :
           /\ Cardinality(Places(o)') \in Nat
           /\ Cardinality(Places(o)') + (IF status'[o] = "COMPLETED" THEN 1 ELSE 0)
                <= Cardinality(Places(o)) + (IF status[o] = "COMPLETED" THEN 1 ELSE 0)
                     + (IF Message = [kind |-> "add", order |-> o] THEN 1 ELSE 0),
         EntriesFit', Held'
  PROVE  PositionInv'
<1>1. /\ commands' \in Seq(CommandMsg) /\ mailbox' \in Seq(MailMsg)
      /\ actor' = (IF complete' THEN "stopped" ELSE "running")
      /\ InStep' /\ AnsweredOnce'
      /\ warrants' \in SUBSET warrants
      /\ Unread' \in SUBSET (Unread \ ConfirmedOf(Message))
      /\ Unsold' \in SUBSET (Unsold \ (ResultOf(Message) \ ConfirmedOf(Message)))
      /\ \A o \in OrderId :
           /\ Coming(o)' \in Nat
           /\ Coming(o)' + (IF Message = [kind |-> "add", order |-> o] THEN 1 ELSE 0)
                <= Coming(o)
  BY ReadEffect
<1>2. /\ confirmed' = confirmed /\ confirmedBy' = confirmedBy /\ issued' = issued
      /\ earlier' = earlier /\ results' = results
      /\ delivered' = delivered /\ removed' = removed /\ routed' = routed
      /\ orphans' = orphans /\ orphaned' = orphaned
  BY DEF reportVars, inputVars
<1>3. warrants \in SUBSET Claim(OrderId) /\ IsFiniteSet(Units(warrants))
  BY Facts
<1>4. PositionTypeOK'
  <2>1. TradeTypeOK'
    BY <1>1, <1>2, <1>3 DEF PositionInv, PositionTypeOK, TradeTypeOK
  <2>2. actor' \in {"absent", "running", "stopped", "failed"}
    BY <1>1
  <2> QED
    BY <1>1, <1>2, <2>1, <2>2 DEF PositionInv, PositionTypeOK
<1>5. Numbered'
  <2>1. IsFiniteSet(Units(warrants'))
    BY <1>1, <1>3, PartTotal
  <2> QED
    BY <1>1, <1>2, <2>1 DEF PositionInv, Numbered
<1>6. Recorded'
  <2>1. ASSUME NEW o \in OrderId
        PROVE  /\ confirmedBy[o] <= confirmed
               /\ dbSold'[o] + Total(ClaimsOf(Unread', o)) <= confirmedBy[o]
    <3>1. dbSold'[o] \in Nat /\ dbSold'[o] <= dbSold[o] + Told(o)
      OBVIOUS
    <3>2. dbSold'[o] + Total(ClaimsOf(Unread', o)) <= confirmedBy[o]
      BY <1>1, <1>2, <3>1, ReadRecorded
    <3> QED
      BY <3>2 DEF PositionInv, Recorded
  <2>2. confirmed <= Holdings
    BY DEF PositionInv, Recorded
  <2> QED
    BY <1>2, <2>1, <2>2 DEF Recorded
<1>7. Budgeted'
  <2> SUFFICES ASSUME NEW o \in OrderId
               PROVE  confirmedBy[o] + Total(ClaimsOf(Unsold', o)) + Cardinality(Free(o)')
                          + Coming(o)' * MaxToSell[o]
                        <= delivered[o] * MaxToSell[o]
    BY <1>2 DEF Budgeted
  <2>1. /\ Freed(o) \in Nat /\ Total(ClaimsOf(Unsold', o)) \in Nat
        /\ Total(ClaimsOf(Unsold', o)) + Freed(o) <= Total(ClaimsOf(Unsold, o))
    BY <1>1, ReadShares
  <2>2. PICK k \in {0, 1} :
          k = (IF Message = [kind |-> "add", order |-> o] THEN 1 ELSE 0)
    OBVIOUS
  <2>3. MaxToSell[o] \in Nat
    BY Constants
  <2>4. k * MaxToSell[o] =
          (IF Message = [kind |-> "add", order |-> o] THEN MaxToSell[o] ELSE 0)
    BY <2>2, <2>3
  <2>5. Cardinality(Free(o)') \in Nat
        /\ Cardinality(Free(o)') <= Cardinality(Free(o)) + Freed(o) + k * MaxToSell[o]
    BY <2>4
  <2>6. Coming(o)' \in Nat /\ Coming(o)' + k <= Coming(o)
    BY <1>1, <2>2
  <2> QED
    BY <2>1, <2>5, <2>6, Balance
<1>8. Counted'
  <2>1. ASSUME NEW o \in OrderId
        PROVE  Coming(o)' + Cardinality(Places(o)')
                 + (IF status'[o] = "COMPLETED" THEN 1 ELSE 0) <= delivered[o]
    <3>1. PICK k \in {0, 1} :
            k = (IF Message = [kind |-> "add", order |-> o] THEN 1 ELSE 0)
      OBVIOUS
    <3>2. PICK c \in {0, 1} : c = (IF status[o] = "COMPLETED" THEN 1 ELSE 0)
      OBVIOUS
    <3>3. PICK d \in {0, 1} : d = (IF status'[o] = "COMPLETED" THEN 1 ELSE 0)
      OBVIOUS
    <3>4. Cardinality(Places(o)') \in Nat
          /\ Cardinality(Places(o)') + d <= Cardinality(Places(o)) + c + k
      BY <3>1, <3>2, <3>3
    <3>5. Coming(o)' \in Nat /\ Coming(o)' + k <= Coming(o)
      BY <1>1, <3>1
    <3> QED
      BY <3>2, <3>3, <3>4, <3>5, Tally
  <2> QED
    BY <1>2, <2>1 DEF Counted
<1> QED
  BY <1>1, <1>4, <1>5, <1>6, <1>7, <1>8 DEF PositionInv

\* A trade that has no new entry, and no more room at any of its own.
LEMMA FewerPlaces ==
  ASSUME PositionInv, live' \in SUBSET live,
         \A i \in live' :
           /\ entries'[i].id = entries[i].id
           /\ entries'[i].sold \in Nat /\ entries'[i].pending \in Nat
           /\ entries'[i].sold + entries'[i].pending
                >= entries[i].sold + entries[i].pending
  PROVE  /\ Cardinality(live') <= MaxOrders
         /\ \A o \in OrderId :
              /\ Cardinality(Free(o)') \in Nat
              /\ Cardinality(Free(o)') <= Cardinality(Free(o))
              /\ Places(o)' = {i \in live' : entries[i].id = o}
              /\ Cardinality(Places(o)') \in Nat
              /\ Cardinality(Places(o)') <= Cardinality(Places(o))
<1>1. Cardinality(live') <= MaxOrders
  <2>1. IsFiniteSet(live) /\ Cardinality(live) \in Nat /\ Cardinality(live) <= MaxOrders
    BY Facts DEF PositionInv, Counted
  <2>2. IsFiniteSet(live') /\ Cardinality(live') <= Cardinality(live)
    BY <2>1, FS_Subset
  <2>3. Cardinality(live') \in Nat
    BY <2>2, FS_CardinalityType
  <2> QED
    BY <2>1, <2>2, <2>3, Constants
<1>2. ASSUME NEW o \in OrderId
      PROVE  /\ Cardinality(Free(o)') \in Nat
             /\ Cardinality(Free(o)') <= Cardinality(Free(o))
  <2>1. IsFiniteSet(Free(o)) /\ MaxToSell[o] \in Nat
    BY Facts
  <2>2. ASSUME NEW u \in Free(o)' PROVE u \in Free(o)
    <3>1. /\ u \in live' \X (1 .. MaxToSell[o])
          /\ entries'[u[1]].id = o
          /\ entries'[u[1]].sold + entries'[u[1]].pending < u[2]
      BY <2>2 DEF Free
    <3>2. PICK j \in live', k \in 1 .. MaxToSell[o] : u = <<j, k>>
      BY <3>1
    <3>3. /\ entries'[j].id = o /\ k \in Nat
          /\ entries'[j].sold + entries'[j].pending < k
      BY <2>1, <3>1, <3>2
    <3>4. /\ entries[j].id = o /\ j \in live
          /\ entries[j].sold \in Nat /\ entries[j].pending \in Nat
      BY <3>3, Facts
    <3>5. entries[j].sold + entries[j].pending < k
      BY <3>3, <3>4
    <3> QED
      BY <3>2, <3>4, <3>5 DEF Free
  <2>3. Free(o)' \in SUBSET Free(o)
    BY <2>2
  <2>4. IsFiniteSet(Free(o)') /\ Cardinality(Free(o)') <= Cardinality(Free(o))
    BY <2>1, <2>3, FS_Subset
  <2> QED
    BY <2>4, FS_CardinalityType
<1>3. ASSUME NEW o \in OrderId
      PROVE  /\ Places(o)' = {i \in live' : entries[i].id = o}
             /\ Cardinality(Places(o)') \in Nat
             /\ Cardinality(Places(o)') <= Cardinality(Places(o))
  <2>1. Places(o)' = {i \in live' : entries[i].id = o}
    BY DEF Places
  <2>2. Places(o)' \in SUBSET Places(o)
    BY <2>1 DEF Places
  <2>3. IsFiniteSet(Places(o))
    BY Facts
  <2>4. IsFiniteSet(Places(o)') /\ Cardinality(Places(o)') <= Cardinality(Places(o))
    BY <2>2, <2>3, FS_Subset
  <2> QED
    BY <2>1, <2>4, FS_CardinalityType
<1> QED
  BY <1>1, <1>2, <1>3

\* The rows of a trade that goes on, or ends, while its sales stay as they are.
LEMMA SameSales ==
  ASSUME PositionInv, mailbox # << >>,
         Unread' \in SUBSET (Unread \ ConfirmedOf(Message)),
         Unsold' \in SUBSET (Unsold \ (ResultOf(Message) \ ConfirmedOf(Message))),
         NEW i \in 1 .. Len(entries)
  PROVE  entries[i].sold + Total(ClaimsOf(Unread', entries[i].id))
           + Told(entries[i].id) <= confirmedBy[entries[i].id]
<1>1. PICK o \in OrderId : o = entries[i].id
  BY Facts
<1>2. /\ Told(o) \in Nat /\ Total(ClaimsOf(Unread', o)) \in Nat
      /\ Total(ClaimsOf(Unread', o)) + Told(o) <= Total(ClaimsOf(Unread, o))
  BY ReadShares
<1>3. /\ entries[i].sold \in Nat /\ confirmedBy[o] \in Nat
      /\ Total(ClaimsOf(Unread, o)) \in Nat
  BY Facts
<1>4. entries[i].sold + Total(ClaimsOf(Unread, o)) <= confirmedBy[o]
  BY <1>1 DEF PositionInv, Recorded
<1> QED
  BY <1>1, <1>2, <1>3, <1>4

LEMMA NothingTold ==
  ASSUME Message.kind # "result"
  PROVE  /\ \A o : Told(o) = 0 /\ Freed(o) = 0
         /\ ResultOf(Message) = {}
         /\ Unhandled(<<Message>>) = {}
<1>1. Unhandled(<<Message>>) = {}
  BY DEF Unhandled
<1> QED
  BY <1>1 DEF Told, Freed, ResultOf

\* The pending counter and the trade's own warrants, when neither changes.
LEMMA StraySame ==
  ASSUME PositionInv, actor = "running",
         UNCHANGED <<totalPending, stray, earlier, orphaned>>,
         actor' = (IF complete' THEN "stopped" ELSE "running"),
         ~complete' => warrants' = warrants
  PROVE  StrayAccounted'
<1>1. CASE complete'
  BY <1>1 DEF StrayAccounted
<1>2. CASE ~complete'
  BY <1>2 DEF StrayAccounted, PositionInv, Numbered
<1> QED
  BY <1>1, <1>2

LEMMA ReadRemoveStep ==
  ASSUME PositionInv, ReadRemove
  PROVE  PositionInv'
<1>1. /\ actor = "running" /\ mailbox # << >> /\ Message.kind = "remove"
      /\ RemoveOrder(Message.order) /\ Settled /\ Afterwards
      /\ UNCHANGED <<reportVars, issued, results, orphans, inputVars, earlier, stray, orphaned>>
  BY DEF ReadRemove, Read, Message, historyVars
<1>2. PICK m \in OrderId : m = Message.order
  BY <1>1, MailTaken, MailKinds
<1>3. /\ \A o : Told(o) = 0 /\ Freed(o) = 0
      /\ ResultOf(Message) = {}
      /\ \A o : Message # [kind |-> "add", order |-> o]
  BY <1>1, NothingTold
<1>4. ~complete /\ confirmedBy' = confirmedBy
  BY <1>1 DEF PositionInv, InStep, reportVars
<1>5. /\ UNCHANGED <<entries, totalSold, totalPending, failures, dbSold>>
      /\ \/ UNCHANGED <<live, complete, status>>
         \/ /\ live' = {i \in live : entries[i].id # m}
            /\ status' = [status EXCEPT ![m] = "CANCELLED"]
            /\ complete' = (live' = {})
  BY <1>1, <1>2, <1>4 DEF RemoveOrder, tradeVars, dbVars
<1>6. /\ entries \in Seq(OrderState) /\ live \subseteq 1 .. Len(entries)
      /\ totalSold \in Nat /\ totalPending \in Nat /\ failures \in Nat
      /\ status \in [OrderId -> Status] /\ dbSold \in [OrderId -> Nat]
      /\ totalPending < Word /\ stray \in Nat /\ complete \in BOOLEAN
  BY DEF PositionInv, PositionTypeOK, TradeTypeOK, Numbered
<1>7. /\ live' \in SUBSET live /\ complete' \in BOOLEAN
      /\ status' \in [OrderId -> Status]
      /\ \A o \in OrderId : status'[o] = status[o] \/ status'[o] = "CANCELLED"
  <2>1. live' \in SUBSET live /\ complete' \in BOOLEAN
    BY <1>5, <1>6
  <2> QED
    BY <1>5, <1>6, <2>1 DEF Status
<1>8. /\ actor' = (IF complete' THEN "stopped" ELSE "running")
      /\ ~complete' => warrants' = warrants \ ResultOf(Message)
      /\ Unread' \in SUBSET (Unread \ ConfirmedOf(Message))
      /\ Unsold' \in SUBSET (Unsold \ (ResultOf(Message) \ ConfirmedOf(Message)))
  BY <1>1, <1>7, ReadEffect
<1>9. StrayAccounted'
  BY <1>1, <1>3, <1>5, <1>8, StraySame
<1>10. /\ Cardinality(live') <= MaxOrders
       /\ \A o \in OrderId :
            /\ Cardinality(Free(o)') \in Nat
            /\ Cardinality(Free(o)') <= Cardinality(Free(o))
            /\ Places(o)' = {i \in live' : entries[i].id = o}
            /\ Cardinality(Places(o)') \in Nat
            /\ Cardinality(Places(o)') <= Cardinality(Places(o))
  <2>1. \A i \in live' :
           /\ entries'[i].id = entries[i].id
           /\ entries'[i].sold \in Nat /\ entries'[i].pending \in Nat
           /\ entries'[i].sold + entries'[i].pending
                >= entries[i].sold + entries[i].pending
    <3>1. ASSUME NEW i \in live'
          PROVE  entries[i].sold \in Nat /\ entries[i].pending \in Nat
      BY <1>7, Facts
    <3> QED
      BY <1>5, <3>1
  <2> QED
    BY <1>7, <2>1, FewerPlaces
<1>11. ASSUME NEW o \in OrderId
       PROVE  /\ Cardinality(Free(o)') \in Nat
              /\ Cardinality(Free(o)') <= Cardinality(Free(o)) + Freed(o)
                   + (IF Message = [kind |-> "add", order |-> o] THEN MaxToSell[o] ELSE 0)
              /\ Cardinality(Places(o)') \in Nat
              /\ Cardinality(Places(o)') + (IF status'[o] = "COMPLETED" THEN 1 ELSE 0)
                   <= Cardinality(Places(o)) + (IF status[o] = "COMPLETED" THEN 1 ELSE 0)
                        + (IF Message = [kind |-> "add", order |-> o] THEN 1 ELSE 0)
  <2>1. /\ Cardinality(Free(o)) \in Nat /\ Cardinality(Places(o)) \in Nat
        /\ Message # [kind |-> "add", order |-> o] /\ Freed(o) = 0
    BY <1>3, Facts
  <2>2. status'[o] = "COMPLETED" => status[o] = "COMPLETED"
    BY <1>7
  <2>3. /\ Cardinality(Free(o)') \in Nat
        /\ Cardinality(Free(o)') <= Cardinality(Free(o))
        /\ Cardinality(Places(o)') \in Nat
        /\ Cardinality(Places(o)') <= Cardinality(Places(o))
    BY <1>10
  <2> QED
    BY <2>1, <2>2, <2>3
<1>12. ASSUME NEW i \in 1 .. Len(entries)
       PROVE  entries[i].sold + Total(ClaimsOf(Unread', entries[i].id))
                <= confirmedBy[entries[i].id]
  <2>1. entries[i].sold + Total(ClaimsOf(Unread', entries[i].id))
          + Told(entries[i].id) <= confirmedBy[entries[i].id]
    BY <1>1, <1>8, SameSales
  <2>2. entries[i].id \in OrderId /\ entries[i].sold \in Nat
    BY Facts
  <2>3. Total(ClaimsOf(Unread', entries[i].id)) \in Nat
    BY <1>1, <1>8, <2>2, ReadShares
  <2> QED
    BY <1>3, <2>1, <2>2, <2>3
<1>13. ASSUME NEW o \in OrderId
       PROVE  /\ dbSold'[o] \in Nat /\ dbSold'[o] <= dbSold[o] + Told(o)
              /\ Astray(o) => Astray(o)'
              /\ status'[o] = "COMPLETED" => confirmedBy[o] >= MaxToSell[o]
  <2>1. dbSold'[o] \in Nat /\ dbSold'[o] <= dbSold[o] + Told(o)
    <3>1. dbSold[o] \in Nat
      BY Facts
    <3> QED
      BY <1>3, <1>5, <3>1
  <2>2. Astray(o) => Astray(o)'
    BY <1>1, <1>4, <1>8, <2>1, ReadRecorded
  <2>3. status'[o] = "COMPLETED" => confirmedBy[o] >= MaxToSell[o]
    BY <1>7 DEF PositionInv, Recorded
  <2> QED
    BY <2>1, <2>2, <2>3
<1>14. EntriesFit'
  BY <1>5, <1>7 DEF PositionInv, EntriesFit
<1>15. Held'
  <2>1. ASSUME NEW o \in OrderId, status'[o] = "ACTIVE"
        PROVE  \/ actor' = "running" /\ ~Absent(o)'
               \/ Astray(o)'
               \/ MaxToSell[o] = 0
    <3>1. status[o] = "ACTIVE"
      BY <1>7, <2>1
    <3>2. CASE ~Absent(o)
      <4>1. PICK j \in live : entries[j].id = o
        BY <3>2 DEF Absent
      <4>2. j \in live'
        <5>1. CASE live' = live
          BY <5>1
        <5>2. CASE /\ live' = {i \in live : entries[i].id # m}
                   /\ status' = [status EXCEPT ![m] = "CANCELLED"]
          <6>1. o # m
            BY <1>6, <2>1, <5>2
          <6> QED
            BY <4>1, <5>2, <6>1
        <5> QED
          BY <1>5, <5>1, <5>2
      <4>3. ~complete'
        BY <1>4, <1>5, <4>2
      <4>4. ~Absent(o)'
        BY <1>5, <4>1, <4>2 DEF Absent
      <4> QED
        BY <1>8, <4>3, <4>4
    <3>3. CASE Astray(o) \/ MaxToSell[o] = 0
      BY <1>13, <3>3
    <3> QED
      BY <3>1, <3>2, <3>3 DEF PositionInv, Held
  <2>2. ASSUME NEW j \in live', entries[j].sold >= MaxToSell[entries[j].id]
        PROVE  Astray(entries[j].id)' \/ MaxToSell[entries[j].id] = 0
    <3>1. PICK p \in OrderId : entries[j].id = p /\ entries'[j].id = p
      BY <1>5, <1>7, Facts
    <3>2. Astray(p) \/ MaxToSell[p] = 0
      BY <1>7, <2>2, <3>1 DEF PositionInv, Held
    <3> QED
      BY <1>13, <3>1, <3>2
  <2> QED
    BY <1>5, <2>1, <2>2 DEF Held
<1> QED
  <2>1. /\ UNCHANGED <<results, orphans, inputVars, reportVars, issued, earlier, orphaned>>
        /\ entries' \in Seq(OrderState) /\ live' \subseteq 1 .. Len(entries')
        /\ totalSold' \in Nat /\ totalPending' \in Nat /\ totalPending' < Word
        /\ failures' \in Nat /\ dbSold' \in [OrderId -> Nat] /\ stray' \in Nat
    BY <1>1, <1>5, <1>6, <1>7
  <2>2. \A i \in 1 .. Len(entries') :
           entries'[i].sold + Total(ClaimsOf(Unread', entries'[i].id))
             <= confirmedBy[entries'[i].id]
    BY <1>5, <1>12
  <2> QED
    BY <1>1, <1>7, <1>9, <1>10, <1>11, <1>13, <1>14, <1>15, <2>1, <2>2, ReadKeeps

LEMMA ReadAddStep ==
  ASSUME PositionInv, ReadAdd
  PROVE  PositionInv'
<1>1. /\ actor = "running" /\ mailbox # << >> /\ Message.kind = "add"
      /\ AddOrder(Message.order) /\ Afterwards
      /\ UNCHANGED <<reportVars, warrants, issued, results, orphans, inputVars, earlier, stray, orphaned>>
  BY DEF ReadAdd, Read, Message, historyVars
<1>2. PICK m \in OrderId : m = Message.order /\ Message = [kind |-> "add", order |-> m]
  BY <1>1, MailTaken, MailKinds
<1>3. /\ \A o : Told(o) = 0 /\ Freed(o) = 0
      /\ ResultOf(Message) = {} /\ Unhandled(<<Message>>) = {}
      /\ \A o \in OrderId : Message = [kind |-> "add", order |-> o] <=> o = m
  BY <1>1, <1>2, NothingTold, MailKinds
<1>4. ~complete /\ confirmedBy' = confirmedBy
  BY <1>1 DEF PositionInv, InStep, reportVars
<1>5. /\ entries \in Seq(OrderState) /\ live \subseteq 1 .. Len(entries)
      /\ totalSold \in Nat /\ totalPending \in Nat /\ failures \in Nat
      /\ status \in [OrderId -> Status] /\ dbSold \in [OrderId -> Nat]
      /\ totalPending < Word /\ stray \in Nat /\ complete \in BOOLEAN
      /\ Len(entries) \in Nat /\ IsFiniteSet(live) /\ Cardinality(live) \in Nat
      /\ Cardinality(live) <= MaxOrders
  BY Facts, LenProperties
  DEF PositionInv, PositionTypeOK, TradeTypeOK, Numbered, Counted
<1> DEFINE n == Len(entries) + 1
<1>6. PICK k : k = n
  OBVIOUS
<1>7. /\ UNCHANGED <<totalSold, totalPending, failures, complete, dbSold>>
      /\ \/ UNCHANGED <<entries, live, status>>
         \/ /\ Cardinality(live) < MaxOrders
            /\ entries' = Append(entries, NewOrder(m))
            /\ live' = live \cup {k}
            /\ status' = [status EXCEPT ![m] = "ACTIVE"]
  BY <1>1, <1>2, <1>5, <1>6, Constants DEF AddOrder, tradeVars, dbVars
<1> HIDE DEF n
<1>8. Settled /\ complete' \in BOOLEAN /\ ~complete'
  BY <1>1, <1>3, <1>4, <1>5, <1>7 DEF Settled
<1>9. /\ actor' = "running"
      /\ Unread' \in SUBSET (Unread \ ConfirmedOf(Message))
      /\ Unsold' \in SUBSET (Unsold \ (ResultOf(Message) \ ConfirmedOf(Message)))
  BY <1>1, <1>8, ReadEffect
<1>10. StrayAccounted'
  BY <1>1, <1>7, <1>8, <1>9, StraySame
<1>11. ASSUME NEW o \in OrderId
       PROVE  /\ dbSold'[o] \in Nat /\ dbSold'[o] <= dbSold[o] + Told(o)
              /\ Astray(o) => Astray(o)'
              /\ status'[o] = "COMPLETED" => status[o] = "COMPLETED"
              /\ status'[o] = "COMPLETED" => confirmedBy[o] >= MaxToSell[o]
  <2>1. dbSold'[o] \in Nat /\ dbSold'[o] <= dbSold[o] + Told(o)
    <3>1. dbSold[o] \in Nat
      BY Facts
    <3> QED
      BY <1>3, <1>7, <3>1
  <2>2. Astray(o) => Astray(o)'
    BY <1>1, <1>4, <1>9, <2>1, ReadRecorded
  <2>3. status'[o] = "COMPLETED" => status[o] = "COMPLETED"
    BY <1>5, <1>7
  <2>4. status[o] = "COMPLETED" => confirmedBy[o] >= MaxToSell[o]
    BY DEF PositionInv, Recorded
  <2> QED
    BY <2>1, <2>2, <2>3, <2>4
<1>12. ASSUME NEW i \in 1 .. Len(entries)
       PROVE  /\ entries[i] \in OrderState /\ entries[i].id \in OrderId
              /\ entries[i].sold \in Nat /\ entries[i].pending \in Nat
              /\ entries[i].sold + Total(ClaimsOf(Unread', entries[i].id))
                   <= confirmedBy[entries[i].id]
  <2>1. entries[i].sold + Total(ClaimsOf(Unread', entries[i].id))
          + Told(entries[i].id) <= confirmedBy[entries[i].id]
    BY <1>1, <1>9, SameSales
  <2>2. /\ entries[i] \in OrderState /\ entries[i].id \in OrderId
        /\ entries[i].sold \in Nat /\ entries[i].pending \in Nat
    BY Facts
  <2>3. Total(ClaimsOf(Unread', entries[i].id)) \in Nat
    BY <1>1, <1>9, <2>2, ReadShares
  <2> QED
    BY <1>3, <2>1, <2>2, <2>3
<1>13. /\ UNCHANGED <<results, orphans, inputVars, reportVars, issued, earlier, orphaned>>
       /\ totalSold' \in Nat /\ totalPending' \in Nat /\ totalPending' < Word
       /\ failures' \in Nat /\ dbSold' \in [OrderId -> Nat] /\ stray' \in Nat
  BY <1>1, <1>5, <1>7
<1>14. ASSUME NEW o \in OrderId
       PROVE  /\ IsFiniteSet(Free(o)) /\ Cardinality(Free(o)) \in Nat
              /\ IsFiniteSet(Places(o)) /\ Cardinality(Places(o)) \in Nat
              /\ Freed(o) = 0 /\ MaxToSell[o] \in Nat
  BY <1>3, Facts
<1>15. CASE UNCHANGED <<entries, live, status>>
  <2>1. ASSUME NEW o \in OrderId
        PROVE  /\ Free(o)' = Free(o) /\ Places(o)' = Places(o) /\ Absent(o)' = Absent(o)
    BY <1>15 DEF Free, Places, Absent
  <2>2. ASSUME NEW o \in OrderId
        PROVE  /\ Cardinality(Free(o)') \in Nat
               /\ Cardinality(Free(o)') <= Cardinality(Free(o)) + Freed(o)
                    + (IF Message = [kind |-> "add", order |-> o] THEN MaxToSell[o] ELSE 0)
               /\ Cardinality(Places(o)') \in Nat
               /\ Cardinality(Places(o)') + (IF status'[o] = "COMPLETED" THEN 1 ELSE 0)
                    <= Cardinality(Places(o)) + (IF status[o] = "COMPLETED" THEN 1 ELSE 0)
                         + (IF Message = [kind |-> "add", order |-> o] THEN 1 ELSE 0)
    BY <1>14, <1>15, <2>1
  <2>3. EntriesFit'
    BY <1>15 DEF PositionInv, EntriesFit
  <2>4. Held'
    <3>1. ASSUME NEW o \in OrderId, status'[o] = "ACTIVE"
          PROVE  \/ actor' = "running" /\ ~Absent(o)'
                 \/ Astray(o)'
                 \/ MaxToSell[o] = 0
      BY <1>9, <1>11, <1>15, <2>1, <3>1 DEF PositionInv, Held
    <3>2. ASSUME NEW j \in live', entries'[j].sold >= MaxToSell[entries'[j].id]
          PROVE  Astray(entries[j].id)' \/ MaxToSell[entries'[j].id] = 0
      <4>1. PICK p \in OrderId : entries[j].id = p /\ entries'[j].id = p
        BY <1>15, Facts
      <4>2. Astray(p) \/ MaxToSell[p] = 0
        BY <1>15, <3>2, <4>1 DEF PositionInv, Held
      <4> QED
        BY <1>11, <4>1, <4>2
    <3> QED
      BY <3>1, <3>2 DEF Held
  <2>5. /\ entries' \in Seq(OrderState) /\ live' \subseteq 1 .. Len(entries')
        /\ status' \in [OrderId -> Status] /\ Cardinality(live') <= MaxOrders
        /\ \A i \in 1 .. Len(entries') :
             entries'[i].sold + Total(ClaimsOf(Unread', entries'[i].id))
               <= confirmedBy[entries'[i].id]
    BY <1>5, <1>12, <1>15
  <2> QED
    BY <1>1, <1>8, <1>10, <1>11, <1>13, <2>2, <2>3, <2>4, <2>5, ReadKeeps
<1>16. CASE /\ Cardinality(live) < MaxOrders
            /\ entries' = Append(entries, NewOrder(m))
            /\ live' = live \cup {k}
            /\ status' = [status EXCEPT ![m] = "ACTIVE"]
  <2>1. NewOrder(m) \in OrderState
    BY DEF NewOrder, OrderState
  <2>2. /\ entries' \in Seq(OrderState) /\ Len(entries') = Len(entries) + 1
        /\ k = Len(entries) + 1 /\ k \notin 1 .. Len(entries)
        /\ DOMAIN entries' = (1 .. Len(entries)) \cup {k}
        /\ \A i \in 1 .. Len(entries) : entries'[i] = entries[i]
        /\ entries'[k] = NewOrder(m)
    BY <1>5, <1>6, <1>16, <2>1, Appended DEF n
  <2>3. 1 .. Len(entries') = (1 .. Len(entries)) \cup {k} /\ k \notin live
    BY <1>5, <2>2
  <2>4. entries'[k].id = m /\ entries'[k].sold = 0 /\ entries'[k].pending = 0
    BY <2>2 DEF NewOrder
  <2>5. /\ Cardinality(live') <= MaxOrders
        /\ live' \subseteq 1 .. Len(entries') /\ status' \in [OrderId -> Status]
    <3>1. Cardinality(live \cup {k}) = Cardinality(live) + 1
      BY <1>5, <2>3, FS_AddElement
    <3>2. MaxOrders \in Nat
      BY Constants
    <3>3. Cardinality(live') <= MaxOrders
      BY <1>5, <1>16, <3>1, <3>2
    <3> QED
      BY <1>5, <1>16, <2>3, <3>3 DEF Status
  <2>6. ASSUME NEW o \in OrderId
        PROVE  /\ Cardinality(Free(o)') \in Nat
               /\ Cardinality(Free(o)') <= Cardinality(Free(o)) + Freed(o)
                    + (IF Message = [kind |-> "add", order |-> o] THEN MaxToSell[o] ELSE 0)
    <3>1. CASE o = m
      <4>1. 0 \in Nat /\ MaxToSell[o] \in Nat /\ 0 <= MaxToSell[o]
        BY <1>14
      <4>2. /\ IsFiniteSet({k} \X ((0 + 1) .. MaxToSell[o]))
            /\ Cardinality({k} \X ((0 + 1) .. MaxToSell[o])) = MaxToSell[o] - 0
        BY <4>1, Column
      <4>3. ASSUME NEW u \in Free(o)', u \notin Free(o)
            PROVE  u \in {k} \X ((0 + 1) .. MaxToSell[o])
        <5>1. /\ u \in live' \X (1 .. MaxToSell[o])
              /\ entries'[u[1]].id = o
              /\ entries'[u[1]].sold + entries'[u[1]].pending < u[2]
          BY <4>3 DEF Free
        <5>2. PICK j \in live', q \in 1 .. MaxToSell[o] : u = <<j, q>>
          BY <5>1
        <5>3. j \in live => u \in Free(o)
          BY <1>5, <2>2, <5>1, <5>2 DEF Free
        <5>4. j = k
          BY <1>16, <4>3, <5>3
        <5> QED
          BY <5>2, <5>4
      <4>4. /\ Cardinality(Free(o)') \in Nat
            /\ Cardinality(Free(o)') <= Cardinality(Free(o))
                 + Cardinality({k} \X ((0 + 1) .. MaxToSell[o]))
        <5>1. Free(o)' \in SUBSET (Free(o) \cup ({k} \X ((0 + 1) .. MaxToSell[o])))
          BY <4>3
        <5> QED
          BY <1>14, <4>2, <5>1, NoMore
      <4> QED
        BY <1>2, <1>14, <3>1, <4>1, <4>2, <4>4
    <3>2. CASE o # m
      <4>1. Free(o)' \in SUBSET Free(o)
        BY ZenonT(40), <1>5, <1>16, <2>2, <2>4, <3>2 DEF Free
      <4>2. IsFiniteSet(Free(o)') /\ Cardinality(Free(o)') <= Cardinality(Free(o))
        BY <1>14, <4>1, FS_Subset
      <4>3. Cardinality(Free(o)') \in Nat
        BY <4>2, FS_CardinalityType
      <4>4. Message # [kind |-> "add", order |-> o]
        BY <1>3, <3>2
      <4> QED
        BY <1>14, <4>2, <4>3, <4>4
    <3> QED
      BY <3>1, <3>2
  <2>7. ASSUME NEW o \in OrderId
        PROVE  /\ Cardinality(Places(o)') \in Nat
               /\ Cardinality(Places(o)') + (IF status'[o] = "COMPLETED" THEN 1 ELSE 0)
                    <= Cardinality(Places(o)) + (IF status[o] = "COMPLETED" THEN 1 ELSE 0)
                         + (IF Message = [kind |-> "add", order |-> o] THEN 1 ELSE 0)
    <3>1. CASE o = m
      <4>1. Places(o)' = Places(o) \cup {k} /\ k \notin Places(o)
        BY <1>5, <1>16, <2>2, <2>3, <2>4, <3>1 DEF Places
      <4>2. Cardinality(Places(o) \cup {k}) = Cardinality(Places(o)) + 1
        BY <1>14, <4>1, FS_AddElement
      <4>3. status'[o] = "ACTIVE"
        BY <1>5, <1>16, <3>1
      <4> QED
        BY <1>2, <1>14, <3>1, <4>1, <4>2, <4>3
    <3>2. CASE o # m
      <4>1. Places(o)' = Places(o)
        BY <1>5, <1>16, <2>2, <2>3, <2>4, <3>2 DEF Places
      <4>2. status'[o] = status[o] /\ Message # [kind |-> "add", order |-> o]
        BY <1>3, <1>5, <1>16, <3>2
      <4> QED
        BY <1>14, <4>1, <4>2
    <3> QED
      BY <3>1, <3>2
  <2>8. EntriesFit'
    <3>1. 0 + 0 < Word
      BY Constants
    <3> QED
      BY <1>5, <1>16, <2>2, <2>4, <3>1 DEF PositionInv, EntriesFit
  <2>9. ASSUME NEW i \in 1 .. Len(entries')
        PROVE  entries'[i].sold + Total(ClaimsOf(Unread', entries'[i].id))
                 <= confirmedBy[entries'[i].id]
    <3>1. CASE i \in 1 .. Len(entries)
      BY <1>12, <2>2, <3>1
    <3>2. CASE i = k
      <4>1. dbSold'[m] + Total(ClaimsOf(Unread', m)) <= confirmedBy[m]
        BY <1>1, <1>4, <1>9, <1>11, ReadRecorded
      <4>2. /\ Total(ClaimsOf(Unread', m)) \in Nat /\ dbSold'[m] \in Nat
            /\ confirmedBy[m] \in Nat
        BY <1>1, <1>9, <1>11, ReadShares, Facts
      <4> QED
        BY <2>4, <3>2, <4>1, <4>2
    <3> QED
      BY <2>3, <3>1, <3>2
  <2>10. Held'
    <3>1. ASSUME NEW o \in OrderId, status'[o] = "ACTIVE"
          PROVE  \/ actor' = "running" /\ ~Absent(o)'
                 \/ Astray(o)'
                 \/ MaxToSell[o] = 0
      <4>1. CASE o = m
        <5>1. ~Absent(o)'
          BY <1>16, <2>4, <4>1 DEF Absent
        <5> QED
          BY <1>9, <5>1
      <4>2. CASE o # m
        <5>1. status[o] = "ACTIVE"
          BY <1>5, <1>16, <3>1, <4>2
        <5>2. ~Absent(o) => ~Absent(o)'
          BY <1>5, <1>16, <2>2 DEF Absent
        <5> QED
          BY <1>9, <1>11, <5>1, <5>2 DEF PositionInv, Held
      <4> QED
        BY <4>1, <4>2
    <3>2. ASSUME NEW j \in live', NEW p \in OrderId, entries'[j].id = p,
                 entries'[j].sold >= MaxToSell[p]
          PROVE  Astray(p)' \/ MaxToSell[p] = 0
      <4>1. CASE j = k
        <5>1. MaxToSell[p] \in Nat /\ 0 >= MaxToSell[p]
          BY <1>14, <2>4, <3>2, <4>1
        <5> QED
          BY <5>1
      <4>2. CASE j \in live
        <5>1. entries[j].id = p /\ entries[j].sold >= MaxToSell[p]
          BY <1>5, <2>2, <3>2, <4>2
        <5>2. Astray(p) \/ MaxToSell[p] = 0
          BY <4>2, <5>1 DEF PositionInv, Held
        <5> QED
          BY <1>11, <5>2
      <4> QED
        BY <1>16, <4>1, <4>2
    <3>3. \A j \in live' : entries'[j].id \in OrderId
      BY <1>5, <1>12, <1>16, <2>2, <2>4
    <3>4. ASSUME NEW j \in live', entries'[j].sold >= MaxToSell[entries'[j].id]
          PROVE  Astray(entries[j].id)' \/ MaxToSell[entries'[j].id] = 0
      <4>1. PICK p \in OrderId : entries'[j].id = p
        BY <3>3
      <4>2. Astray(p)' \/ MaxToSell[p] = 0
        BY <3>2, <3>4, <4>1
      <4> QED
        BY <4>1, <4>2
    <3> QED
      BY <3>1, <3>4 DEF Held
  <2> QED
    BY <1>1, <1>8, <1>10, <1>11, <1>13, <2>2, <2>5, <2>6, <2>7, <2>8, <2>9, <2>10, ReadKeeps
<1> QED
  BY <1>7, <1>15, <1>16

-----------------------------------------------------------------------------
(* The actor reads a result.                                               *)

LEMMA ResultRead ==
  ASSUME PositionInv, mailbox # << >>, Message.kind = "result"
  PROVE  /\ Message.warrant \in warrants /\ Message.warrant \in Claim(OrderId)
         /\ Message.warrant.order \in OrderId
         /\ Message.warrant.amount \in Nat \ {0}
         /\ Message.warrant.amount <= Holdings
         /\ Message.warrant.n \in Nat
         /\ ResultOf(Message) = {Message.warrant}
         /\ \A o : Message # [kind |-> "add", order |-> o]
<1>1. /\ Message \in MailMsg
      /\ Unhandled(mailbox) = Unhandled(Tail(mailbox)) \cup ResultOf(Message)
  BY MailTaken
<1>2. ResultOf(Message) = {Message.warrant}
  BY DEF ResultOf
<1>3. Unhandled(mailbox) \subseteq warrants
  BY DEF PositionInv, AnsweredOnce
<1>4. Message.warrant \in warrants
  BY <1>1, <1>2, <1>3
<1>5. Message.warrant \in Claim(OrderId)
  BY <1>4, Facts
<1>6. Message.warrant.amount <= Holdings
  BY <1>4 DEF PositionInv, Numbered
<1> QED
  BY <1>2, <1>4, <1>5, <1>6 DEF Claim

\* The counter t and the stray tokens s add up to y, modulo the word.
Matches(t, s, y) == (t + s) % Word = y % Word

LEMMA Unwraps ==
  ASSUME NEW t \in Nat, t < Word, NEW a \in Nat, a <= Holdings,
         NEW s \in Nat, NEW y \in Nat, Matches(t, s, y)
  PROVE  /\ SubW(t, a) \in Nat /\ SubW(t, a) < Word
         /\ Matches(SubW(t, a), s, y - a)
         /\ Matches(SubW(t, a), s + a, y)
<1>1. (t + s) % Word = y % Word
  BY DEF Matches
<1>2. /\ SubW(t, a) \in Nat /\ SubW(t, a) < Word
      /\ (SubW(t, a) + s) % Word = (y - a) % Word
  BY <1>1, Wraps
<1>3. (SubW(t, a) + (s + a)) % Word = y % Word
  BY <1>1, Wraps
<1> QED
  BY <1>2, <1>3 DEF Matches

\* The pending counter loses the amount, whoever's warrant it was.
LEMMA ResultCounted ==
  ASSUME PositionInv, actor = "running", mailbox # << >>, Message.kind = "result",
         totalPending' = SubW(totalPending, Message.warrant.amount), CountStray,
         actor' = (IF complete' THEN "stopped" ELSE "running"),
         ~complete' => warrants' = warrants \ ResultOf(Message)
  PROVE  /\ totalPending' \in Nat /\ totalPending' < Word
         /\ stray' \in Nat /\ earlier' = earlier
         /\ StrayAccounted'
<1> DEFINE own == {w \in warrants : w.n > earlier}
<1>1. PICK r \in warrants :
        /\ r = Message.warrant /\ r \in Claim(OrderId)
        /\ r.amount \in Nat /\ r.amount <= Holdings /\ r.n \in Nat
        /\ ResultOf(Message) = {r}
  BY ResultRead
<1>2. /\ totalPending \in Nat /\ totalPending < Word /\ stray \in Nat /\ earlier \in Nat
      /\ (totalPending + stray) % Word = Total(own) % Word
  BY DEF PositionInv, PositionTypeOK, TradeTypeOK, Numbered, StrayAccounted
<1>3. /\ own \in SUBSET warrants /\ own \in SUBSET Claim(OrderId)
      /\ IsFiniteSet(Units(own)) /\ Total(own) \in Nat
  <2>1. own \in SUBSET warrants /\ own \in SUBSET Claim(OrderId)
    BY Facts
  <2>2. IsFiniteSet(Units(own))
    BY <2>1, Facts, PartTotal
  <2> QED
    BY <2>1, <2>2, TotalType
<1>4. /\ stray' = (IF r.n > earlier THEN stray ELSE stray + r.amount)
      /\ earlier' = earlier
  BY <1>1 DEF CountStray
<1>5. totalPending' = SubW(totalPending, r.amount)
  BY <1>1
<1>6. ~complete' => {w \in warrants' : w.n > earlier'} =
                      (IF r.n > earlier THEN own \ {r} ELSE own)
  BY <1>1, <1>4
<1>7. r.n > earlier => Total(own \ {r}) = Total(own) - r.amount
  <2>1. r.n > earlier => r \in own
    OBVIOUS
  <2> HIDE DEF own
  <2> QED
    BY <1>3, <2>1, CloseClaim
<1> HIDE DEF own
<1>8. /\ totalPending' \in Nat /\ totalPending' < Word
      /\ (totalPending' + stray) % Word = (Total(own) - r.amount) % Word
      /\ (totalPending' + (stray + r.amount)) % Word = Total(own) % Word
  <2>1. PICK y \in Nat : y = Total(own)
    BY <1>3
  <2>2. PICK a \in Nat : a = r.amount /\ a <= Holdings
    BY <1>1
  <2>3. PICK t \in Nat, s \in Nat : t = totalPending /\ s = stray /\ t < Word
    BY <1>2
  <2>4. Matches(t, s, y)
    BY <1>2, <2>1, <2>3 DEF Matches
  <2>5. /\ SubW(t, a) \in Nat /\ SubW(t, a) < Word
        /\ Matches(SubW(t, a), s, y - a)
        /\ Matches(SubW(t, a), s + a, y)
    BY <2>2, <2>3, <2>4, Unwraps
  <2> QED
    BY <1>5, <2>1, <2>2, <2>3, <2>5 DEF Matches
<1>9. StrayAccounted'
  <2>1. CASE complete'
    BY <2>1 DEF StrayAccounted
  <2>2. CASE ~complete'
    BY <1>4, <1>6, <1>7, <1>8, <2>2 DEF StrayAccounted
  <2> QED
    BY <2>1, <2>2
<1>10. stray' \in Nat
  BY <1>1, <1>2, <1>4
<1> QED
  BY <1>4, <1>8, <1>9, <1>10

\* The entries t after one of s at most was told of a failure, or of a sale.
FreedAt(s, t, k, a) ==
    \A j \in 1 .. Len(s) :
      /\ t[j].id = s[j].id /\ t[j].sold = s[j].sold
      /\ t[j].pending \in Nat /\ t[j].pending <= s[j].pending
      /\ t[j].pending + (IF j = k THEN a ELSE 0) >= s[j].pending

SoldAt(s, t, k, a) ==
    \A j \in 1 .. Len(s) :
      /\ t[j].id = s[j].id
      /\ t[j].sold = s[j].sold + (IF j = k THEN a ELSE 0)
      /\ t[j].sold \in Nat /\ t[j].pending \in Nat
      /\ t[j].sold + t[j].pending >= s[j].sold + s[j].pending
      /\ \/ t[j].sold + t[j].pending = s[j].sold + s[j].pending
         \/ t[j].sold + t[j].pending = t[j].sold

LEMMA Released ==
  ASSUME NEW s \in Seq(OrderState), NEW i \in 1 .. Len(s), NEW a \in Nat,
         NEW t, t = [s EXCEPT ![i].pending = Monus(@, a)]
  PROVE  t \in Seq(OrderState) /\ Len(t) = Len(s) /\ FreedAt(s, t, i, a)
<1> DEFINE x == [s[i] EXCEPT !.pending = Monus(@, a)]
<1>1. \A j \in 1 .. Len(s) : s[j] \in OrderState /\ s[j].pending \in Nat
  <2>1. \A j \in 1 .. Len(s) : s[j] \in OrderState
    BY ElementOfSeq
  <2>2. \A e \in OrderState : e.pending \in Nat
    BY DEF OrderState
  <2> QED
    BY <2>1, <2>2
<1>2. /\ x \in OrderState /\ x.id = s[i].id /\ x.sold = s[i].sold
      /\ x.pending \in Nat /\ x.pending <= s[i].pending
      /\ x.pending + a >= s[i].pending
  <2>1. s[i] \in OrderState /\ s[i].pending \in Nat
    BY <1>1
  <2>2. Monus(s[i].pending, a) \in Nat /\ Monus(s[i].pending, a) <= s[i].pending
        /\ Monus(s[i].pending, a) + a >= s[i].pending
    BY <2>1 DEF Monus
  <2>3. x.pending = Monus(s[i].pending, a) /\ x.id = s[i].id /\ x.sold = s[i].sold
    BY <2>1 DEF OrderState
  <2>4. x \in OrderState
    BY <2>1, <2>2 DEF OrderState
  <2> QED
    BY <2>2, <2>3, <2>4
<1>3. t = [s EXCEPT ![i] = x]
  OBVIOUS
<1> HIDE DEF x
<1>4. /\ [s EXCEPT ![i] = x] \in Seq(OrderState)
      /\ Len([s EXCEPT ![i] = x]) = Len(s)
      /\ \A j \in 1 .. Len(s) :
           [s EXCEPT ![i] = x][j] = (IF j = i THEN x ELSE s[j])
  BY <1>2, UpdatedEntry
<1>5. ASSUME NEW j \in 1 .. Len(s)
      PROVE  /\ t[j].id = s[j].id /\ t[j].sold = s[j].sold
             /\ t[j].pending \in Nat /\ t[j].pending <= s[j].pending
             /\ t[j].pending + (IF j = i THEN a ELSE 0) >= s[j].pending
  <2>1. t[j] = (IF j = i THEN x ELSE s[j]) /\ s[j].pending \in Nat
    BY <1>1, <1>3, <1>4
  <2>2. CASE j = i
    <3>1. t[j] = x
      BY <2>1, <2>2
    <3> QED
      BY <1>2, <2>2, <3>1
  <2>3. CASE j # i
    <3>1. t[j] = s[j]
      BY <2>1, <2>3
    <3> QED
      BY <2>1, <2>3, <3>1
  <2> QED
    BY <2>2, <2>3
<1> QED
  BY <1>3, <1>4, <1>5 DEF FreedAt

\* The entries as Sell leaves them.
Sold(s, i, a) == [s EXCEPT ![i].pending = Monus(@, a), ![i].sold = @ + a]

LEMMA SoldMore ==
  ASSUME NEW s \in Seq(OrderState), NEW i \in 1 .. Len(s), NEW a \in Nat,
         NEW t, t = Sold(s, i, a)
  PROVE  t \in Seq(OrderState) /\ Len(t) = Len(s) /\ SoldAt(s, t, i, a)
<1> DEFINE x == [s[i] EXCEPT !.pending = Monus(@, a), !.sold = @ + a]
<1>1. \A j \in 1 .. Len(s) : /\ s[j] \in OrderState
                             /\ s[j].pending \in Nat /\ s[j].sold \in Nat
  <2>1. \A j \in 1 .. Len(s) : s[j] \in OrderState
    BY ElementOfSeq
  <2>2. \A e \in OrderState : e.pending \in Nat /\ e.sold \in Nat
    BY DEF OrderState
  <2> QED
    BY <2>1, <2>2
<1>2. /\ x \in OrderState /\ x.id = s[i].id /\ x.sold = s[i].sold + a
      /\ x.sold \in Nat /\ x.pending \in Nat
      /\ x.sold + x.pending >= s[i].sold + s[i].pending
      /\ \/ x.sold + x.pending = s[i].sold + s[i].pending
         \/ x.sold + x.pending = x.sold
  <2>1. s[i] \in OrderState /\ s[i].pending \in Nat /\ s[i].sold \in Nat
    BY <1>1
  <2>2. \/ Monus(s[i].pending, a) = s[i].pending - a /\ a <= s[i].pending
        \/ Monus(s[i].pending, a) = 0 /\ a > s[i].pending
    BY <2>1 DEF Monus
  <2>3. x.pending = Monus(s[i].pending, a) /\ x.id = s[i].id /\ x.sold = s[i].sold + a
    BY <2>1 DEF OrderState
  <2>4. x \in OrderState
    <3>1. Monus(s[i].pending, a) \in Nat /\ s[i].sold + a \in Nat
      BY <2>1, <2>2
    <3>2. \A p, q \in Nat : [s[i] EXCEPT !.pending = p, !.sold = q] \in OrderState
      BY <2>1 DEF OrderState
    <3> QED
      BY <3>1, <3>2
  <2> HIDE DEF x
  <2> QED
    BY SMTT(20), <2>1, <2>2, <2>3, <2>4
<1>3. t = [s EXCEPT ![i] = x]
  BY DEF Sold
<1> HIDE DEF x
<1>4. /\ [s EXCEPT ![i] = x] \in Seq(OrderState)
      /\ Len([s EXCEPT ![i] = x]) = Len(s)
      /\ \A j \in 1 .. Len(s) :
           [s EXCEPT ![i] = x][j] = (IF j = i THEN x ELSE s[j])
  BY <1>2, UpdatedEntry
<1>5. ASSUME NEW j \in 1 .. Len(s)
      PROVE  /\ t[j].id = s[j].id
             /\ t[j].sold = s[j].sold + (IF j = i THEN a ELSE 0)
             /\ t[j].sold \in Nat /\ t[j].pending \in Nat
             /\ t[j].sold + t[j].pending >= s[j].sold + s[j].pending
             /\ \/ t[j].sold + t[j].pending = s[j].sold + s[j].pending
                \/ t[j].sold + t[j].pending = t[j].sold
  <2>1. t[j] = (IF j = i THEN x ELSE s[j]) /\ s[j].pending \in Nat /\ s[j].sold \in Nat
    BY <1>1, <1>3, <1>4
  <2>2. CASE j = i
    <3>1. t[j] = x
      BY <2>1, <2>2
    <3> QED
      BY <1>2, <2>2, <3>1
  <2>3. CASE j # i
    <3>1. t[j] = s[j]
      BY <2>1, <2>3
    <3> QED
      BY <2>1, <2>3, <3>1
  <2> QED
    BY <2>2, <2>3
<1> QED
  BY <1>3, <1>4, <1>5 DEF SoldAt

\* A result releases tokens of one entry at most.
LEMMA FailedEntries ==
  ASSUME PositionInv, NEW p \in OrderId, NEW a \in Nat,
         \/ \E i \in live :
              /\ Found(i, p)
              /\ entries' = [entries EXCEPT ![i].pending = Monus(@, a)]
         \/ Absent(p) /\ entries' = entries
  PROVE  \E k : /\ k \in live => entries[k].id = p
                /\ entries' \in Seq(OrderState) /\ Len(entries') = Len(entries)
                /\ FreedAt(entries, entries', k, a)
<1>1. entries \in Seq(OrderState) /\ live \subseteq 1 .. Len(entries)
  BY Facts
<1>2. \A j \in 1 .. Len(entries) : entries[j].pending \in Nat
  BY Facts
<1>3. CASE \E i \in live :
             /\ Found(i, p)
             /\ entries' = [entries EXCEPT ![i].pending = Monus(@, a)]
  <2>1. PICK i \in live :
          /\ Found(i, p)
          /\ entries' = [entries EXCEPT ![i].pending = Monus(@, a)]
    BY <1>3
  <2>2. entries[i].id = p /\ i \in 1 .. Len(entries)
    BY <1>1, <2>1 DEF Found
  <2>3. \A t : t = [entries EXCEPT ![i].pending = Monus(@, a)] =>
          t \in Seq(OrderState) /\ Len(t) = Len(entries) /\ FreedAt(entries, t, i, a)
    BY <1>1, <2>2, Released
  <2> WITNESS i
  <2> QED
    BY <2>1, <2>2, <2>3
<1>4. CASE Absent(p) /\ entries' = entries
  <2>1. FreedAt(entries, entries', 0, a)
    BY <1>2, <1>4 DEF FreedAt
  <2> WITNESS 0
  <2> QED
    BY <1>1, <1>4, <2>1
<1> QED
  BY <1>3, <1>4

\* The room that the release makes is what the warrant had taken.
LEMMA MoreRoom ==
  ASSUME PositionInv, live' \in SUBSET live, NEW p \in OrderId, NEW a \in Nat, NEW k,
         k \in live => entries[k].id = p, FreedAt(entries, entries', k, a),
         NEW o \in OrderId
  PROVE  /\ Cardinality(Free(o)') \in Nat
         /\ Cardinality(Free(o)') <= Cardinality(Free(o)) + (IF p = o THEN a ELSE 0)
<1>1. IsFiniteSet(Free(o)) /\ Cardinality(Free(o)) \in Nat /\ MaxToSell[o] \in Nat
  BY Facts
<1>0. \A j \in 1 .. Len(entries) :
        /\ entries'[j].id = entries[j].id /\ entries'[j].sold = entries[j].sold
        /\ entries'[j].pending \in Nat
        /\ entries'[j].pending <= entries[j].pending
        /\ entries'[j].pending + (IF j = k THEN a ELSE 0) >= entries[j].pending
  BY DEF FreedAt
<1>2. ASSUME NEW u \in Free(o)'
      PROVE  \E j \in live', m \in 1 .. MaxToSell[o] :
               /\ u = <<j, m>> /\ j \in live /\ j \in 1 .. Len(entries)
               /\ entries[j].id = o
               /\ entries[j].sold + entries'[j].pending < m
  <2>1. /\ u \in live' \X (1 .. MaxToSell[o])
        /\ entries'[u[1]].id = o
        /\ entries'[u[1]].sold + entries'[u[1]].pending < u[2]
    BY DEF Free
  <2>2. PICK j \in live', m \in 1 .. MaxToSell[o] : u = <<j, m>>
    BY <2>1
  <2>3. j \in live /\ j \in 1 .. Len(entries)
    BY Facts
  <2> QED
    BY <1>0, <2>1, <2>2, <2>3
<1>3. ASSUME NEW j \in live, NEW m \in 1 .. MaxToSell[o], entries[j].id = o,
             entries[j].sold + entries[j].pending < m
      PROVE  <<j, m>> \in Free(o)
  BY <1>3 DEF Free
<1>4. \A j \in live : entries[j].sold \in Nat /\ entries[j].pending \in Nat
                      /\ j \in 1 .. Len(entries)
  BY Facts
<1>5. CASE k \in live /\ p = o
  <2>1. PICK b, c \in Nat : /\ b = entries[k].sold + entries[k].pending
                            /\ c = entries[k].sold + entries'[k].pending
                            /\ c <= b /\ b <= c + a
    <3>1. /\ entries[k].sold \in Nat /\ entries[k].pending \in Nat
          /\ entries'[k].pending \in Nat
          /\ entries'[k].pending <= entries[k].pending
          /\ entries'[k].pending + a >= entries[k].pending
      BY <1>0, <1>4, <1>5
    <3>2. /\ entries[k].sold + entries[k].pending \in Nat
          /\ entries[k].sold + entries'[k].pending \in Nat
          /\ entries[k].sold + entries'[k].pending <= entries[k].sold + entries[k].pending
          /\ entries[k].sold + entries[k].pending
               <= entries[k].sold + entries'[k].pending + a
      BY <3>1
    <3> QED
      BY <3>2
  <2> DEFINE X == {k} \X ((c + 1) .. b)
  <2>2. IsFiniteSet(X) /\ Cardinality(X) = b - c
    BY ZenonT(40), <2>1, Column
  <2>3. ASSUME NEW u \in Free(o)' PROVE u \in Free(o) \cup X
    <3>1. PICK j \in live', m \in 1 .. MaxToSell[o] :
               /\ u = <<j, m>> /\ j \in live /\ j \in 1 .. Len(entries)
               /\ entries[j].id = o
               /\ entries[j].sold + entries'[j].pending < m
      BY <1>2
    <3>2. CASE entries[j].sold + entries[j].pending < m
      BY <1>3, <3>1, <3>2
    <3>3. CASE ~(entries[j].sold + entries[j].pending < m)
      <4>1. entries[j].sold \in Nat /\ entries[j].pending \in Nat
            /\ entries'[j].pending \in Nat /\ m \in Nat
        BY <1>0, <1>1, <1>4, <3>1
      <4>2. j = k
        <5>1. j # k => entries'[j].pending >= entries[j].pending
          BY <1>0, <3>1, <4>1
        <5> QED
          BY <3>1, <3>3, <4>1, <5>1
      <4>3. m \in (c + 1) .. b
        BY <2>1, <3>1, <3>3, <4>1, <4>2
      <4> QED
        BY <3>1, <4>2, <4>3
    <3> QED
      BY <3>2, <3>3
  <2> HIDE DEF X
  <2>4. Free(o)' \in SUBSET (Free(o) \cup X)
    BY <2>3
  <2>5. /\ Cardinality(Free(o)') \in Nat
        /\ Cardinality(Free(o)') <= Cardinality(Free(o)) + Cardinality(X)
    BY <1>1, <2>2, <2>4, NoMore
  <2> QED
    BY <1>1, <1>5, <2>1, <2>2, <2>5
<1>6. CASE ~(k \in live /\ p = o)
  <2>1. ASSUME NEW u \in Free(o)' PROVE u \in Free(o)
    <3>1. PICK j \in live', m \in 1 .. MaxToSell[o] :
               /\ u = <<j, m>> /\ j \in live /\ j \in 1 .. Len(entries)
               /\ entries[j].id = o
               /\ entries[j].sold + entries'[j].pending < m
      BY <1>2
    <3>2. j # k
      BY <1>6, <3>1
    <3>3. entries[j].sold \in Nat /\ entries[j].pending \in Nat
          /\ entries'[j].pending \in Nat /\ m \in Nat
      BY <1>0, <1>1, <1>4, <3>1
    <3>4. entries'[j].pending >= entries[j].pending
      BY <1>0, <3>1, <3>2, <3>3
    <3>5. entries[j].sold + entries[j].pending < m
      BY <3>1, <3>3, <3>4
    <3> QED
      BY <1>3, <3>1, <3>5
  <2>2. Free(o)' \in SUBSET Free(o)
    BY <2>1
  <2>3. IsFiniteSet(Free(o)') /\ Cardinality(Free(o)') <= Cardinality(Free(o))
    BY <1>1, <2>2, FS_Subset
  <2>4. Cardinality(Free(o)') \in Nat
    BY <2>3, FS_CardinalityType
  <2> QED
    BY <1>1, <2>3, <2>4
<1> QED
  BY <1>5, <1>6

\* The places of a trade that has no new entry.
LEMMA FewerLive ==
  ASSUME PositionInv, live' \in SUBSET live,
         \A i \in live' : entries'[i].id = entries[i].id
  PROVE  /\ Cardinality(live') <= MaxOrders
         /\ \A o \in OrderId :
              /\ Places(o)' = {i \in live' : entries[i].id = o}
              /\ Places(o)' \in SUBSET Places(o)
              /\ Cardinality(Places(o)') \in Nat
              /\ Cardinality(Places(o)') <= Cardinality(Places(o))
<1>1. Cardinality(live') <= MaxOrders
  <2>1. IsFiniteSet(live) /\ Cardinality(live) \in Nat /\ Cardinality(live) <= MaxOrders
    BY Facts DEF PositionInv, Counted
  <2>2. IsFiniteSet(live') /\ Cardinality(live') <= Cardinality(live)
    BY <2>1, FS_Subset
  <2>3. Cardinality(live') \in Nat
    BY <2>2, FS_CardinalityType
  <2> QED
    BY <2>1, <2>2, <2>3, Constants
<1>2. ASSUME NEW o \in OrderId
      PROVE  /\ Places(o)' = {i \in live' : entries[i].id = o}
             /\ Places(o)' \in SUBSET Places(o)
             /\ Cardinality(Places(o)') \in Nat
             /\ Cardinality(Places(o)') <= Cardinality(Places(o))
  <2>1. Places(o)' = {i \in live' : entries[i].id = o}
    BY DEF Places
  <2>2. Places(o)' \in SUBSET Places(o)
    BY <2>1 DEF Places
  <2>3. IsFiniteSet(Places(o))
    BY Facts
  <2>4. IsFiniteSet(Places(o)') /\ Cardinality(Places(o)') <= Cardinality(Places(o))
    BY <2>2, <2>3, FS_Subset
  <2> QED
    BY <2>1, <2>2, <2>4, FS_CardinalityType
<1> QED
  BY <1>1, <1>2

LEMMA ReadFailedStep ==
  ASSUME PositionInv, ReadFailed
  PROVE  PositionInv'
<1>1. /\ actor = "running" /\ mailbox # << >> /\ Message.kind = "result"
      /\ ~Message.confirmed /\ OnFailed(Message.warrant)
      /\ Settled /\ CountStray /\ Afterwards
      /\ UNCHANGED <<reportVars, issued, results, orphans, inputVars>>
      /\ UNCHANGED <<earlier, orphaned>>
  BY DEF ReadFailed, Read, Message, CountStray
<1>2. PICK p \in OrderId, a \in Nat :
        /\ p = Message.warrant.order /\ a = Message.warrant.amount
        /\ \A o : Message # [kind |-> "add", order |-> o]
  BY <1>1, ResultRead
<1>3. \A o : Told(o) = 0 /\ Freed(o) = (IF p = o THEN a ELSE 0)
  BY <1>1, <1>2 DEF Told, Freed
<1>4. ~complete /\ confirmedBy' = confirmedBy
  BY <1>1 DEF PositionInv, InStep, reportVars
<1>5. /\ failures' = failures + 1
      /\ totalPending' = SubW(totalPending, Message.warrant.amount)
      /\ UNCHANGED <<totalSold, dbSold>>
      /\ \/ \E i \in live :
              /\ Found(i, p)
              /\ entries' = [entries EXCEPT ![i].pending = Monus(@, a)]
         \/ Absent(p) /\ entries' = entries
      /\ \/ /\ live' = {} /\ complete' = TRUE
            /\ status' = Marked(status, live, "CANCELLED")
         \/ UNCHANGED <<live, complete, status>>
  BY <1>1, <1>2 DEF OnFailed, GiveUp
<1>6. /\ live \subseteq 1 .. Len(entries)
      /\ totalSold \in Nat /\ totalPending \in Nat /\ failures \in Nat
      /\ status \in [OrderId -> Status] /\ dbSold \in [OrderId -> Nat]
      /\ complete \in BOOLEAN
  BY DEF PositionInv, PositionTypeOK, TradeTypeOK
<1>7. /\ live' \in SUBSET live /\ complete' \in BOOLEAN
      /\ status' \in [OrderId -> Status]
      /\ \A o \in OrderId : status'[o] = status[o] \/ status'[o] = "CANCELLED"
  <2>1. live' \in SUBSET live /\ complete' \in BOOLEAN
    BY <1>5, <1>6
  <2>2. CASE status' = Marked(status, live, "CANCELLED")
    BY <1>6, <2>1, <2>2 DEF Status, Marked
  <2>3. CASE status' = status
    BY <1>6, <2>1, <2>3
  <2> QED
    BY <1>5, <2>1, <2>2, <2>3
<1>8. /\ actor' = (IF complete' THEN "stopped" ELSE "running")
      /\ ~complete' => warrants' = warrants \ ResultOf(Message)
      /\ Unread' \in SUBSET (Unread \ ConfirmedOf(Message))
      /\ Unsold' \in SUBSET (Unsold \ (ResultOf(Message) \ ConfirmedOf(Message)))
  BY <1>1, <1>7, ReadEffect
<1>9. /\ totalPending' \in Nat /\ totalPending' < Word
      /\ stray' \in Nat /\ earlier' = earlier
      /\ StrayAccounted'
  BY <1>1, <1>5, <1>8, ResultCounted
<1>0. PICK k :
        /\ k \in live => entries[k].id = p
        /\ entries' \in Seq(OrderState) /\ Len(entries') = Len(entries)
        /\ FreedAt(entries, entries', k, a)
  BY <1>2, <1>5, FailedEntries
<1>10. /\ entries' \in Seq(OrderState) /\ Len(entries') = Len(entries)
       /\ \A j \in 1 .. Len(entries) :
            /\ entries'[j].id = entries[j].id
            /\ entries'[j].sold = entries[j].sold
            /\ entries'[j].pending \in Nat
            /\ entries'[j].pending <= entries[j].pending
  BY <1>0 DEF FreedAt
<1>11. ASSUME NEW o \in OrderId
       PROVE  /\ Cardinality(Free(o)') \in Nat
              /\ Cardinality(Free(o)') <= Cardinality(Free(o)) + Freed(o)
                   + (IF Message = [kind |-> "add", order |-> o] THEN MaxToSell[o] ELSE 0)
              /\ Cardinality(Places(o)') \in Nat
              /\ Cardinality(Places(o)') + (IF status'[o] = "COMPLETED" THEN 1 ELSE 0)
                   <= Cardinality(Places(o)) + (IF status[o] = "COMPLETED" THEN 1 ELSE 0)
                        + (IF Message = [kind |-> "add", order |-> o] THEN 1 ELSE 0)
  <2>1. /\ Cardinality(Free(o)) \in Nat /\ Cardinality(Places(o)) \in Nat
        /\ Message # [kind |-> "add", order |-> o]
        /\ Freed(o) = (IF p = o THEN a ELSE 0) /\ Freed(o) \in Nat
    BY <1>2, <1>3, Facts
  <2>2. status'[o] = "COMPLETED" => status[o] = "COMPLETED"
    BY <1>7
  <2>3. /\ Cardinality(Free(o)') \in Nat
        /\ Cardinality(Free(o)') <= Cardinality(Free(o)) + (IF p = o THEN a ELSE 0)
    BY <1>0, <1>7, MoreRoom
  <2>4. /\ Cardinality(Places(o)') \in Nat
        /\ Cardinality(Places(o)') <= Cardinality(Places(o))
    BY <1>6, <1>7, <1>10, FewerLive
  <2> QED
    BY <2>1, <2>2, <2>3, <2>4
<1>12. Cardinality(live') <= MaxOrders
  BY <1>6, <1>7, <1>10, FewerLive
<1>13. ASSUME NEW i \in 1 .. Len(entries')
       PROVE  entries'[i].sold + Total(ClaimsOf(Unread', entries'[i].id))
                <= confirmedBy[entries'[i].id]
  <2>1. i \in 1 .. Len(entries)
    BY <1>10
  <2>2. entries[i].sold + Total(ClaimsOf(Unread', entries[i].id))
          + Told(entries[i].id) <= confirmedBy[entries[i].id]
    BY <1>1, <1>8, <2>1, SameSales
  <2>3. entries[i].id \in OrderId /\ entries[i].sold \in Nat
    BY <2>1, Facts
  <2>4. Total(ClaimsOf(Unread', entries[i].id)) \in Nat
    BY <1>1, <1>8, <2>3, ReadShares
  <2>5. entries[i].sold + Total(ClaimsOf(Unread', entries[i].id))
          <= confirmedBy[entries[i].id]
    BY <1>3, <2>2, <2>3, <2>4
  <2> QED
    BY <1>10, <2>1, <2>5
<1>14. ASSUME NEW o \in OrderId
       PROVE  /\ dbSold'[o] \in Nat /\ dbSold'[o] <= dbSold[o] + Told(o)
              /\ Astray(o) => Astray(o)'
              /\ status'[o] = "COMPLETED" => confirmedBy[o] >= MaxToSell[o]
  <2>1. dbSold'[o] \in Nat /\ dbSold'[o] <= dbSold[o] + Told(o)
    <3>1. dbSold[o] \in Nat
      BY Facts
    <3> QED
      BY <1>3, <1>5, <3>1
  <2>2. Astray(o) => Astray(o)'
    BY <1>1, <1>4, <1>8, <2>1, ReadRecorded
  <2>3. status'[o] = "COMPLETED" => confirmedBy[o] >= MaxToSell[o]
    BY <1>7 DEF PositionInv, Recorded
  <2> QED
    BY <2>1, <2>2, <2>3
<1>15. EntriesFit'
  <2>1. ASSUME NEW i \in live' PROVE entries'[i].sold + entries'[i].pending < Word
    <3>1. /\ i \in 1 .. Len(entries) /\ i \in live
          /\ entries[i].sold \in Nat /\ entries[i].pending \in Nat
      BY <1>7, Facts
    <3>2. entries[i].sold + entries[i].pending < Word /\ Word \in Nat
      BY <3>1, Constants DEF PositionInv, EntriesFit
    <3>3. /\ entries'[i].sold = entries[i].sold
          /\ entries'[i].pending \in Nat /\ entries'[i].pending <= entries[i].pending
      BY <1>10, <3>1
    <3> QED
      BY <3>1, <3>2, <3>3
  <2> QED
    BY <2>1 DEF EntriesFit
<1>16. Held'
  <2>1. ASSUME NEW o \in OrderId, status'[o] = "ACTIVE"
        PROVE  \/ actor' = "running" /\ ~Absent(o)'
               \/ Astray(o)'
               \/ MaxToSell[o] = 0
    <3>1. status[o] = "ACTIVE"
      BY <1>7, <2>1
    <3>2. CASE ~Absent(o)
      <4>1. PICK j \in live : entries[j].id = o
        BY <3>2 DEF Absent
      <4>2. status' # Marked(status, live, "CANCELLED")
        BY <2>1, <4>1 DEF Marked
      <4>3. ~complete' /\ j \in live'
        BY <1>4, <1>5, <4>2
      <4>4. j \in 1 .. Len(entries)
        BY <1>6
      <4>5. entries'[j].id = o
        BY <1>10, <4>1, <4>4
      <4>6. ~Absent(o)'
        BY <4>3, <4>5 DEF Absent
      <4> QED
        BY <1>8, <4>3, <4>6
    <3>3. CASE Astray(o) \/ MaxToSell[o] = 0
      BY <1>14, <3>3
    <3> QED
      BY <3>1, <3>2, <3>3 DEF PositionInv, Held
  <2>2. ASSUME NEW j \in live', entries'[j].sold >= MaxToSell[entries'[j].id]
        PROVE  Astray(entries[j].id)' \/ MaxToSell[entries'[j].id] = 0
    <3>1. j \in live /\ j \in 1 .. Len(entries)
      BY <1>6, <1>7
    <3>2. PICK q \in OrderId : entries[j].id = q /\ entries'[j].id = q
      BY <1>10, <3>1, Facts
    <3>3. entries[j].sold >= MaxToSell[q]
      BY <1>10, <2>2, <3>1, <3>2
    <3>4. Astray(q) \/ MaxToSell[q] = 0
      BY <3>1, <3>2, <3>3 DEF PositionInv, Held
    <3> QED
      BY <1>14, <3>2, <3>4
  <2> QED
    BY <2>1, <2>2 DEF Held
<1> QED
  <2>1. /\ UNCHANGED <<results, orphans, inputVars, reportVars, issued, earlier, orphaned>>
        /\ live' \subseteq 1 .. Len(entries')
        /\ totalSold' \in Nat /\ failures' \in Nat /\ dbSold' \in [OrderId -> Nat]
    BY <1>1, <1>5, <1>6, <1>7, <1>9, <1>10
  <2> QED
    BY <1>1, <1>7, <1>9, <1>10, <1>11, <1>12, <1>13, <1>14, <1>15, <1>16, <2>1, ReadKeeps

\* A sale is booked at one entry at most; afterwards the rows are checked, but
\* for a transaction that could not be fetched.
LEMMA ConfirmedCases ==
  ASSUME PositionInv, NEW r, NEW p \in OrderId, NEW a \in Nat,
         r.order = p, r.amount = a, NEW fetched \in BOOLEAN, OnConfirmed(r, fetched)
  PROVE  \E k :
           /\ k \in 1 .. Len(entries) => k \in live /\ entries[k].id = p
           /\ entries' \in Seq(OrderState) /\ Len(entries') = Len(entries)
           /\ SoldAt(entries, entries', k, a)
           /\ dbSold' \in [OrderId -> Nat]
           /\ \A o \in OrderId : dbSold'[o] <= dbSold[o] + (IF p = o THEN a ELSE 0)
           /\ \/ k \in live /\ UNCHANGED <<live, complete, status, dbSold>>
              \/ \E st \in [OrderId -> Status] :
                   /\ CheckCompletion(st)
                   /\ \A o \in OrderId :
                        IF o = p /\ k \in live /\ entries'[k].sold >= MaxToSell[p]
                        THEN st[o] = "COMPLETED" ELSE st[o] = status[o]
<1>1. /\ entries \in Seq(OrderState) /\ live \subseteq 1 .. Len(entries)
      /\ status \in [OrderId -> Status] /\ dbSold \in [OrderId -> Nat]
  BY DEF PositionInv, PositionTypeOK, TradeTypeOK
<1>2. \A j \in 1 .. Len(entries) : entries[j].pending \in Nat /\ entries[j].sold \in Nat
  BY Facts
<1>3. /\ [dbSold EXCEPT ![p] = @ + a] \in [OrderId -> Nat]
      /\ \A o \in OrderId :
           /\ [dbSold EXCEPT ![p] = @ + a][o] = dbSold[o] + (IF p = o THEN a ELSE 0)
           /\ dbSold[o] \in Nat
  BY <1>1
<1>4. ASSUME NEW i \in live, Found(i, p),
             entries' = [entries EXCEPT ![i].pending = Monus(@, a), ![i].sold = @ + a]
      PROVE  /\ i \in 1 .. Len(entries) /\ entries[i].id = p
             /\ entries' \in Seq(OrderState) /\ Len(entries') = Len(entries)
             /\ SoldAt(entries, entries', i, a)
             /\ entries'[i].sold = entries[i].sold + a
  <2>1. i \in 1 .. Len(entries) /\ entries[i].id = p
    BY <1>1, <1>4 DEF Found
  <2>2. entries' = Sold(entries, i, a)
    BY <1>4 DEF Sold
  <2>3. /\ entries' \in Seq(OrderState) /\ Len(entries') = Len(entries)
        /\ SoldAt(entries, entries', i, a)
    BY <1>1, <2>1, <2>2, SoldMore
  <2>4. SoldAt(entries, entries', i, a) => entries'[i].sold = entries[i].sold + a
    BY <2>1 DEF SoldAt
  <2> QED
    BY <2>1, <2>3, <2>4
<1>5. CASE \E i \in live :
             /\ Found(i, p) /\ fetched /\ RecordSale(r, i)
             /\ CheckCompletion(
                  IF ReachesMax(r, i)
                  THEN [status EXCEPT ![p] = "COMPLETED"] ELSE status)
  <2>1. PICK i \in live :
             /\ Found(i, p) /\ RecordSale(r, i)
             /\ CheckCompletion(
                  IF ReachesMax(r, i)
                  THEN [status EXCEPT ![p] = "COMPLETED"] ELSE status)
    BY <1>5
  <2>2. /\ dbSold' = [dbSold EXCEPT ![p] = @ + a]
        /\ entries' = [entries EXCEPT ![i].pending = Monus(@, a), ![i].sold = @ + a]
    BY <2>1 DEF RecordSale, Sell
  <2>3. ReachesMax(r, i) <=> entries[i].sold + a >= MaxToSell[p]
    BY DEF ReachesMax
  <2>4. PICK st \in [OrderId -> Status] :
          /\ st = (IF ReachesMax(r, i)
                   THEN [status EXCEPT ![p] = "COMPLETED"] ELSE status)
          /\ CheckCompletion(st)
    <3>1. (IF ReachesMax(r, i) THEN [status EXCEPT ![p] = "COMPLETED"] ELSE status)
            \in [OrderId -> Status]
      BY <1>1 DEF Status
    <3> QED
      BY <2>1, <3>1
  <2>5. entries'[i].sold = entries[i].sold + a
    BY <1>4, <2>1, <2>2
  <2>6. \A o \in OrderId :
          IF o = p /\ i \in live /\ entries'[i].sold >= MaxToSell[p]
          THEN st[o] = "COMPLETED" ELSE st[o] = status[o]
    BY <1>1, <2>3, <2>4, <2>5
  <2>7. /\ dbSold' \in [OrderId -> Nat]
        /\ \A o \in OrderId : dbSold'[o] <= dbSold[o] + (IF p = o THEN a ELSE 0)
    <3>1. ASSUME NEW o \in OrderId
          PROVE  dbSold'[o] <= dbSold[o] + (IF p = o THEN a ELSE 0)
      <4>1. /\ dbSold'[o] = dbSold[o] + (IF p = o THEN a ELSE 0)
            /\ dbSold[o] \in Nat
        BY <1>3, <2>2
      <4> QED
        BY <4>1
    <3> QED
      BY <1>3, <2>2, <3>1
  <2> WITNESS i
  <2> QED
    BY <1>4, <2>1, <2>2, <2>4, <2>6, <2>7
<1>6. CASE \E i \in live :
             /\ Found(i, p) /\ ~fetched /\ Sell(r, i)
             /\ UNCHANGED <<live, complete, dbVars>>
  <2>1. PICK i \in live :
             /\ Found(i, p) /\ Sell(r, i)
             /\ UNCHANGED <<live, complete, dbVars>>
    BY <1>6
  <2>2. /\ entries' = [entries EXCEPT ![i].pending = Monus(@, a), ![i].sold = @ + a]
        /\ UNCHANGED <<live, complete, status, dbSold>>
    BY <2>1 DEF Sell, dbVars
  <2>3. /\ dbSold' \in [OrderId -> Nat]
        /\ \A o \in OrderId : dbSold'[o] <= dbSold[o] + (IF p = o THEN a ELSE 0)
    BY <1>3, <1>1, <2>2
  <2> WITNESS i
  <2> QED
    BY <1>4, <2>1, <2>2, <2>3
<1>7. CASE Absent(p) /\ UNCHANGED <<entries, dbSold>> /\ CheckCompletion(status)
  <2>1. 0 \notin 1 .. Len(entries) /\ 0 \notin live
    BY <1>1
  <2>2. /\ dbSold' \in [OrderId -> Nat]
        /\ \A o \in OrderId : dbSold'[o] <= dbSold[o] + (IF p = o THEN a ELSE 0)
    BY <1>3, <1>1, <1>7
  <2>3. SoldAt(entries, entries', 0, a)
    BY <1>2, <1>7 DEF SoldAt
  <2> WITNESS 0
  <2> QED
    BY <1>1, <1>7, <2>1, <2>2, <2>3
<1> QED
  BY <1>5, <1>6, <1>7 DEF OnConfirmed

\* The rows and the Vec after the check.
LEMMA Checked ==
  ASSUME PositionInv, NEW st \in [OrderId -> Status], CheckCompletion(st)
  PROVE  /\ live' = {i \in live : entries'[i].sold < MaxToSell[entries[i].id]}
         /\ complete' \in BOOLEAN
         /\ status' \in [OrderId -> Status]
         /\ \A o \in OrderId : status'[o] = st[o] \/ status'[o] = "CANCELLED"
         /\ \A i \in live' : status'[entries[i].id] # "CANCELLED" => ~complete'
<1>1. PICK R : /\ R = {i \in live : entries'[i].sold < MaxToSell[entries[i].id]}
               /\ live' = R
               /\ complete' = (R = {} \/ totalSold' >= Holdings)
               /\ status' = IF totalSold' >= Holdings
                            THEN Marked(st, R, "CANCELLED") ELSE st
  BY DEF CheckCompletion
<1>2. live \subseteq 1 .. Len(entries)
  BY Facts
<1>3. \A i \in R : entries[i].id \in OrderId
  BY <1>1, Facts
<1>4. CASE totalSold' >= Holdings
  <2>1. status' = Marked(st, R, "CANCELLED")
    BY <1>1, <1>4
  <2>2. \A i \in R : status'[entries[i].id] = "CANCELLED"
    BY <1>3, <2>1 DEF Marked
  <2>3. /\ status' \in [OrderId -> Status]
        /\ \A o \in OrderId : status'[o] = st[o] \/ status'[o] = "CANCELLED"
    BY <2>1 DEF Marked, Status
  <2> QED
    BY <1>1, <2>2, <2>3
<1>5. CASE ~(totalSold' >= Holdings)
  BY <1>1, <1>5
<1> QED
  BY <1>4, <1>5

LEMMA ReadConfirmedStep ==
  ASSUME PositionInv, NEW fetched \in BOOLEAN, ReadConfirmed(fetched)
  PROVE  PositionInv'
<1>1. /\ actor = "running" /\ mailbox # << >> /\ Message.kind = "result"
      /\ Message.confirmed /\ OnConfirmed(Message.warrant, fetched)
      /\ Settled /\ CountStray /\ Afterwards
      /\ UNCHANGED <<reportVars, issued, results, orphans, inputVars>>
      /\ UNCHANGED <<earlier, orphaned>>
  BY DEF ReadConfirmed, Read, Message, CountStray
<1>2. PICK r : r = Message.warrant
  OBVIOUS
<1>3. PICK p \in OrderId, a \in Nat \ {0} :
        /\ p = r.order /\ a = r.amount
        /\ \A o : Message # [kind |-> "add", order |-> o]
  BY <1>1, <1>2, ResultRead
<1>4. \A o : Freed(o) = 0 /\ Told(o) = (IF p = o THEN a ELSE 0)
  BY <1>1, <1>2, <1>3 DEF Told, Freed
<1>5. ~complete /\ confirmedBy' = confirmedBy
  BY <1>1 DEF PositionInv, InStep, reportVars
<1>6. /\ failures' = 0
      /\ totalPending' = SubW(totalPending, Message.warrant.amount)
      /\ totalSold' = AddW(totalSold, a)
  BY <1>1, <1>2, <1>3 DEF OnConfirmed
<1>7. /\ live \subseteq 1 .. Len(entries) /\ complete \in BOOLEAN
      /\ totalSold \in Nat /\ status \in [OrderId -> Status]
  BY DEF PositionInv, PositionTypeOK, TradeTypeOK
<1>0. PICK k :
        /\ k \in 1 .. Len(entries) => k \in live /\ entries[k].id = p
        /\ entries' \in Seq(OrderState) /\ Len(entries') = Len(entries)
        /\ SoldAt(entries, entries', k, a)
        /\ dbSold' \in [OrderId -> Nat]
        /\ \A o \in OrderId : dbSold'[o] <= dbSold[o] + (IF p = o THEN a ELSE 0)
        /\ \/ k \in live /\ UNCHANGED <<live, complete, status, dbSold>>
           \/ \E st \in [OrderId -> Status] :
                /\ CheckCompletion(st)
                /\ \A o \in OrderId :
                     IF o = p /\ k \in live /\ entries'[k].sold >= MaxToSell[p]
                     THEN st[o] = "COMPLETED" ELSE st[o] = status[o]
  <2>1. OnConfirmed(r, fetched) /\ a \in Nat /\ r.order = p /\ r.amount = a
    BY <1>1, <1>2, <1>3
  <2> QED
    BY <2>1, ConfirmedCases, SMTT(30)
<1>8. /\ k \in 1 .. Len(entries) => k \in live /\ entries[k].id = p
      /\ entries' \in Seq(OrderState) /\ Len(entries') = Len(entries)
      /\ \A j \in 1 .. Len(entries) :
           /\ entries'[j].id = entries[j].id
           /\ entries'[j].sold = entries[j].sold + (IF j = k THEN a ELSE 0)
           /\ entries'[j].sold \in Nat /\ entries'[j].pending \in Nat
           /\ entries'[j].sold + entries'[j].pending
                >= entries[j].sold + entries[j].pending
           /\ \/ entries'[j].sold + entries'[j].pending
                   = entries[j].sold + entries[j].pending
              \/ entries'[j].sold + entries'[j].pending = entries'[j].sold
      /\ dbSold' \in [OrderId -> Nat]
      /\ \A o \in OrderId : dbSold'[o] <= dbSold[o] + (IF p = o THEN a ELSE 0)
  BY <1>0 DEF SoldAt
<1> DEFINE Unfetched == k \in live /\ UNCHANGED <<live, complete, status, dbSold>>
           Row(o) == \/ status'[o] = "CANCELLED"
                     \/ IF o = p /\ k \in live /\ entries'[k].sold >= MaxToSell[p]
                        THEN status'[o] = "COMPLETED" ELSE status'[o] = status[o]
           Fetched == /\ live' = {i \in live : entries'[i].sold < MaxToSell[entries[i].id]}
                      /\ \A o \in OrderId : Row(o)
                      /\ \A i \in live' : status'[entries[i].id] # "CANCELLED" => ~complete'
<1>9. /\ live' \in SUBSET live /\ complete' \in BOOLEAN
      /\ status' \in [OrderId -> Status]
      /\ Unfetched \/ Fetched
  <2>1. CASE Unfetched
    BY <1>7, <2>1
  <2>2. CASE \E st \in [OrderId -> Status] :
                /\ CheckCompletion(st)
                /\ \A o \in OrderId :
                     IF o = p /\ k \in live /\ entries'[k].sold >= MaxToSell[p]
                     THEN st[o] = "COMPLETED" ELSE st[o] = status[o]
    <3>1. PICK st \in [OrderId -> Status] :
                /\ CheckCompletion(st)
                /\ \A o \in OrderId :
                     IF o = p /\ k \in live /\ entries'[k].sold >= MaxToSell[p]
                     THEN st[o] = "COMPLETED" ELSE st[o] = status[o]
      BY <2>2
    <3>2. /\ live' = {i \in live : entries'[i].sold < MaxToSell[entries[i].id]}
          /\ complete' \in BOOLEAN
          /\ status' \in [OrderId -> Status]
          /\ \A o \in OrderId : status'[o] = st[o] \/ status'[o] = "CANCELLED"
          /\ \A i \in live' : status'[entries[i].id] # "CANCELLED" => ~complete'
      BY <3>1, Checked
    <3> QED
      BY <3>1, <3>2
  <2> QED
    BY <1>0, <2>1, <2>2
<1>10. /\ actor' = (IF complete' THEN "stopped" ELSE "running")
       /\ ~complete' => warrants' = warrants \ ResultOf(Message)
       /\ Unread' \in SUBSET (Unread \ ConfirmedOf(Message))
       /\ Unsold' \in SUBSET (Unsold \ (ResultOf(Message) \ ConfirmedOf(Message)))
  BY <1>1, <1>9, ReadEffect
<1>11. /\ totalPending' \in Nat /\ totalPending' < Word
       /\ stray' \in Nat /\ earlier' = earlier
       /\ StrayAccounted'
  BY <1>1, <1>6, <1>10, ResultCounted
<1>12. ASSUME NEW i \in 1 .. Len(entries)
       PROVE  /\ entries[i].id \in OrderId
              /\ entries[i].sold \in Nat /\ entries[i].pending \in Nat
              /\ confirmedBy[entries[i].id] \in Nat
              /\ entries'[i].sold <= confirmedBy[entries[i].id]
              /\ entries'[i].sold + Total(ClaimsOf(Unread', entries[i].id))
                   <= confirmedBy[entries[i].id]
  <2>1. entries[i].sold + Total(ClaimsOf(Unread', entries[i].id))
          + Told(entries[i].id) <= confirmedBy[entries[i].id]
    BY <1>1, <1>10, SameSales
  <2>2. /\ entries[i].id \in OrderId
        /\ entries[i].sold \in Nat /\ entries[i].pending \in Nat
    BY Facts
  <2>3. Total(ClaimsOf(Unread', entries[i].id)) \in Nat
        /\ confirmedBy[entries[i].id] \in Nat
    BY <1>1, <1>10, <2>2, ReadShares, Facts
  <2>4. /\ entries'[i].sold = entries[i].sold + (IF i = k THEN a ELSE 0)
        /\ i = k => entries[i].id = p
    BY <1>8
  <2>5. Told(entries[i].id) = (IF p = entries[i].id THEN a ELSE 0)
    BY <1>4
  <2> QED
    BY <1>3, <2>1, <2>2, <2>3, <2>4, <2>5
<1> SUFFICES /\ \A o \in OrderId : status'[o] = "COMPLETED" => confirmedBy[o] >= MaxToSell[o]
             /\ \A o \in OrderId :
                  /\ Cardinality(Free(o)') \in Nat
                  /\ Cardinality(Free(o)') <= Cardinality(Free(o)) + Freed(o)
                       + (IF Message = [kind |-> "add", order |-> o] THEN MaxToSell[o] ELSE 0)
             /\ Cardinality(live') <= MaxOrders
             /\ \A o \in OrderId :
                  /\ Cardinality(Places(o)') \in Nat
                  /\ Cardinality(Places(o)') + (IF status'[o] = "COMPLETED" THEN 1 ELSE 0)
                       <= Cardinality(Places(o)) + (IF status[o] = "COMPLETED" THEN 1 ELSE 0)
                            + (IF Message = [kind |-> "add", order |-> o] THEN 1 ELSE 0)
             /\ EntriesFit' /\ Held'
  <2>1. /\ UNCHANGED <<results, orphans, inputVars, reportVars, issued, earlier, orphaned>>
        /\ entries' \in Seq(OrderState) /\ live' \subseteq 1 .. Len(entries')
        /\ failures' \in Nat /\ dbSold' \in [OrderId -> Nat]
    BY <1>1, <1>6, <1>7, <1>8, <1>9, <1>11
  <2>2. totalSold' \in Nat
    <3>1. Word \in Nat
      BY Constants
    <3> QED
      BY SMTT(20), <1>3, <1>6, <1>7, <3>1 DEF AddW
  <2>3. \A o \in OrderId : dbSold'[o] <= dbSold[o] + Told(o)
    BY <1>4, <1>8
  <2>4. \A i \in 1 .. Len(entries') :
           entries'[i].sold + Total(ClaimsOf(Unread', entries'[i].id))
             <= confirmedBy[entries'[i].id]
    BY <1>8, <1>12
  <2> QED
    BY <1>1, <1>9, <1>11, <2>1, <2>2, <2>3, <2>4, ReadKeeps
<1>13. ASSUME NEW o \in OrderId
       PROVE  /\ Astray(o) => Astray(o)'
              /\ Told(o) > 0 /\ dbSold'[o] = dbSold[o] => Astray(o)'
  <2>1. dbSold'[o] \in Nat /\ dbSold'[o] <= dbSold[o] + Told(o)
    BY <1>4, <1>8
  <2> QED
    BY <1>1, <1>5, <1>10, <2>1, ReadRecorded
<1>14. ASSUME NEW o \in OrderId, status'[o] = "COMPLETED", status[o] # "COMPLETED"
       PROVE  /\ confirmedBy[o] >= MaxToSell[o]
              /\ k \in Places(o) /\ k \notin live'
  <2>1. ~Unfetched
    BY <1>14
  <2>2. Row(o)
    BY <1>9, <2>1
  <2>3. o = p /\ k \in live /\ entries'[k].sold >= MaxToSell[p]
    BY <1>14, <2>2
  <2>4. k \in 1 .. Len(entries) /\ entries[k].id = p
    BY <1>7, <1>8, <2>3
  <2>5. /\ MaxToSell[p] \in Nat /\ confirmedBy[p] \in Nat
        /\ entries'[k].sold \in Nat /\ entries'[k].sold <= confirmedBy[p]
    BY <1>8, <1>12, <2>4, Constants
  <2>6. k \notin live'
    BY <1>9, <2>1, <2>3, <2>4, <2>5
  <2> QED
    BY <2>3, <2>4, <2>5, <2>6 DEF Places
<1>15. /\ \A i \in live' :
            /\ entries'[i].id = entries[i].id
            /\ entries'[i].sold \in Nat /\ entries'[i].pending \in Nat
            /\ entries'[i].sold + entries'[i].pending
                 >= entries[i].sold + entries[i].pending
       /\ \A i \in live' : i \in live /\ i \in 1 .. Len(entries)
  BY <1>7, <1>8, <1>9
<1>16. /\ Cardinality(live') <= MaxOrders
       /\ \A o \in OrderId :
            /\ Cardinality(Free(o)') \in Nat
            /\ Cardinality(Free(o)') <= Cardinality(Free(o))
            /\ Places(o)' = {i \in live' : entries[i].id = o}
            /\ Cardinality(Places(o)') \in Nat
            /\ Cardinality(Places(o)') <= Cardinality(Places(o))
  BY <1>9, <1>15, FewerPlaces
<1>17. ASSUME NEW o \in OrderId
       PROVE  /\ Cardinality(Free(o)') \in Nat
              /\ Cardinality(Free(o)') <= Cardinality(Free(o)) + Freed(o)
                   + (IF Message = [kind |-> "add", order |-> o] THEN MaxToSell[o] ELSE 0)
              /\ Cardinality(Places(o)') \in Nat
              /\ Cardinality(Places(o)') + (IF status'[o] = "COMPLETED" THEN 1 ELSE 0)
                   <= Cardinality(Places(o)) + (IF status[o] = "COMPLETED" THEN 1 ELSE 0)
                        + (IF Message = [kind |-> "add", order |-> o] THEN 1 ELSE 0)
  <2>1. /\ Cardinality(Free(o)) \in Nat
        /\ IsFiniteSet(Places(o)) /\ Cardinality(Places(o)) \in Nat
        /\ Message # [kind |-> "add", order |-> o] /\ Freed(o) = 0
    BY <1>3, <1>4, Facts
  <2>2. /\ Cardinality(Free(o)') \in Nat
        /\ Cardinality(Free(o)') <= Cardinality(Free(o))
        /\ Places(o)' = {i \in live' : entries[i].id = o}
        /\ Cardinality(Places(o)') \in Nat
        /\ Cardinality(Places(o)') <= Cardinality(Places(o))
    BY <1>16
  <2>3. CASE status'[o] = "COMPLETED" /\ status[o] # "COMPLETED"
    <3>1. {k} \in SUBSET Places(o) /\ Places(o)' \in SUBSET (Places(o) \ {k})
      BY <1>14, <1>15, <2>2, <2>3 DEF Places
    <3>2. Cardinality(Places(o)') + Cardinality({k}) <= Cardinality(Places(o))
      BY <2>1, <3>1, LessBy
    <3>3. Cardinality({k}) = 1
      BY FS_Singleton
    <3> QED
      BY <2>1, <2>2, <2>3, <3>2, <3>3
  <2>4. CASE ~(status'[o] = "COMPLETED" /\ status[o] # "COMPLETED")
    BY <2>1, <2>2, <2>4
  <2> QED
    BY <2>3, <2>4
<1>18. ASSUME NEW o \in OrderId, status'[o] = "COMPLETED"
       PROVE  confirmedBy[o] >= MaxToSell[o]
  <2>1. CASE status[o] = "COMPLETED"
    BY <2>1 DEF PositionInv, Recorded
  <2>2. CASE status[o] # "COMPLETED"
    BY <1>14, <1>18, <2>2
  <2> QED
    BY <2>1, <2>2
<1>19. EntriesFit'
  <2>1. ASSUME NEW i \in live' PROVE entries'[i].sold + entries'[i].pending < Word
    <3>1. /\ i \in live /\ i \in 1 .. Len(entries)
          /\ entries'[i].sold \in Nat
          /\ \/ entries'[i].sold + entries'[i].pending
                  = entries[i].sold + entries[i].pending
             \/ entries'[i].sold + entries'[i].pending = entries'[i].sold
      BY <1>8, <1>15
    <3>2. entries[i].sold + entries[i].pending < Word
      BY <3>1 DEF PositionInv, EntriesFit
    <3>3. entries'[i].sold < Word
      <4>1. /\ entries[i].id \in OrderId /\ confirmedBy[entries[i].id] \in Nat
            /\ entries'[i].sold <= confirmedBy[entries[i].id]
        BY <1>12, <3>1
      <4>2. confirmed \in Nat /\ confirmed <= Holdings /\ confirmedBy[entries[i].id] <= confirmed
        BY <4>1 DEF PositionInv, Recorded, PositionTypeOK, TradeTypeOK
      <4> QED
        BY <3>1, <4>1, <4>2, Constants
    <3> QED
      BY <3>1, <3>2, <3>3
  <2> QED
    BY <2>1 DEF EntriesFit
<1>20. ASSUME NEW j \in live, NEW o \in OrderId, entries[j].id = o,
              entries'[j].sold >= MaxToSell[o], j # k
       PROVE  Astray(o)' \/ MaxToSell[o] = 0
  <2>1. j \in 1 .. Len(entries)
    BY <1>7
  <2>2. entries'[j].sold = entries[j].sold
    <3>1. entries[j].sold \in Nat
      BY <2>1, Facts
    <3> QED
      BY <1>8, <1>20, <2>1, <3>1
  <2>3. Astray(o) \/ MaxToSell[o] = 0
    BY <1>20, <2>2 DEF PositionInv, Held
  <2> QED
    BY <1>13, <2>3
<1>21. ASSUME NEW o \in OrderId, status'[o] = "ACTIVE"
       PROVE  \/ actor' = "running" /\ ~Absent(o)'
              \/ Astray(o)'
              \/ MaxToSell[o] = 0
  <2>1. status[o] = "ACTIVE"
    BY <1>9, <1>21
  <2>2. CASE Astray(o) \/ MaxToSell[o] = 0
    BY <1>13, <2>2
  <2>3. CASE ~Absent(o)
    <3>1. PICK j \in live : entries[j].id = o /\ j \in 1 .. Len(entries)
      BY <1>7, <2>3 DEF Absent
    <3>2. entries'[j].id = o
      BY <1>8, <3>1
    <3>3. CASE j \in live' /\ ~complete'
      <4>1. ~Absent(o)'
        BY <3>2, <3>3 DEF Absent
      <4> QED
        BY <1>10, <3>3, <4>1
    <3>4. CASE Unfetched
      BY <1>5, <3>3, <3>4
    <3>5. CASE Fetched /\ j \in live'
      BY <1>21, <3>1, <3>3, <3>5
    <3>6. CASE Fetched /\ j \notin live'
      <4>1. entries'[j].sold >= MaxToSell[o]
        <5>1. entries'[j].sold \in Nat /\ MaxToSell[o] \in Nat
          BY <1>8, <3>1, Constants
        <5> QED
          BY <3>1, <3>6, <5>1
      <4>2. j # k
        BY <1>8, <1>21, <3>1, <3>6, <4>1
      <4> QED
        BY <1>20, <3>1, <4>1, <4>2
    <3> QED
      BY <1>9, <3>4, <3>5, <3>6
  <2> QED
    BY <2>1, <2>2, <2>3 DEF PositionInv, Held
<1>22. ASSUME NEW j \in live', NEW o \in OrderId, entries[j].id = o,
              entries'[j].sold >= MaxToSell[o]
       PROVE  Astray(o)' \/ MaxToSell[o] = 0
  <2>1. Unfetched
    <3>1. entries'[j].sold \in Nat /\ MaxToSell[o] \in Nat
      BY <1>15, Constants
    <3>2. ~Fetched
      BY <1>22, <3>1
    <3> QED
      BY <1>9, <3>2
  <2>2. CASE j = k
    <3>1. o = p
      BY <1>8, <1>15, <1>22, <2>2
    <3>2. Told(o) > 0 /\ dbSold'[o] = dbSold[o]
      BY <1>3, <1>4, <2>1, <3>1
    <3> QED
      BY <1>13, <3>2
  <2>3. CASE j # k
    BY <1>15, <1>20, <1>22, <2>3
  <2> QED
    BY <2>2, <2>3
<1>23. Held'
  <2>1. ASSUME NEW j \in live', entries'[j].sold >= MaxToSell[entries'[j].id]
        PROVE  Astray(entries[j].id)' \/ MaxToSell[entries'[j].id] = 0
    <3>1. PICK o \in OrderId : entries[j].id = o /\ entries'[j].id = o
      BY <1>12, <1>15
    <3>2. Astray(o)' \/ MaxToSell[o] = 0
      BY <1>22, <2>1, <3>1
    <3> QED
      BY <3>1, <3>2
  <2> QED
    BY <1>21, <2>1 DEF Held
<1> QED
  BY <1>16, <1>17, <1>18, <1>19, <1>23

-----------------------------------------------------------------------------
(* The invariant holds, for any constants.                                 *)

LEMMA InitInv ==
  PositionInit => PositionInv
<1> SUFFICES ASSUME PositionInit PROVE PositionInv
  OBVIOUS
<1>1. /\ entries = << >> /\ live = {} /\ totalSold = 0 /\ totalPending = 0
      /\ failures = 0 /\ complete = FALSE
      /\ warrants = {} /\ issued = 0
      /\ status = [o \in OrderId |-> "CREATED"] /\ dbSold = [o \in OrderId |-> 0]
      /\ confirmed = 0 /\ confirmedBy = [o \in OrderId |-> 0]
      /\ commands = << >> /\ results = << >> /\ actor = "absent" /\ mailbox = << >>
      /\ delivered = [o \in OrderId |-> 0] /\ removed = [o \in OrderId |-> 0]
      /\ orphans = [o \in OrderId |-> 0] /\ orphaned = {}
      /\ routed = [t \in Tx |-> 0] /\ earlier = 0 /\ stray = 0
  BY DEF PositionInit, Idle, ChainInit
<1>2. PositionTypeOK
  <2>1. \A S : << >> \in Seq(S)
    BY EmptySeq
  <2>2. /\ live \subseteq 1 .. Len(entries) /\ warrants \in SUBSET Claim(OrderId)
        /\ status \in [OrderId -> Status] /\ dbSold \in [OrderId -> Nat]
        /\ confirmedBy \in [OrderId -> Nat]
        /\ delivered \in [OrderId -> Nat] /\ routed \in [Tx -> Nat]
        /\ removed \in [OrderId -> Nat] /\ orphans \in [OrderId -> Nat]
    BY <1>1 DEF Status
  <2>3. TradeTypeOK
    BY <1>1, <2>1, <2>2 DEF TradeTypeOK
  <2> QED
    BY <1>1, <2>1, <2>2, <2>3 DEF PositionTypeOK
<1>3. /\ Unhandled(results) = {} /\ Unhandled(mailbox) = {}
      /\ OneResult(results) /\ OneResult(mailbox)
      /\ Unread = {} /\ Unsold = {}
  BY <1>1, ResultsNone DEF Unread, Unsold
<1>4. /\ IsFiniteSet(Units({})) /\ Total({}) = 0
      /\ \A o : ClaimsOf({}, o) = {}
  BY TotalType DEF ClaimsOf
<1>5. InStep
  BY <1>1, OccursNone DEF InStep
<1>6. AnsweredOnce
  BY <1>1, <1>3 DEF AnsweredOnce
<1>7. Numbered
  <2>1. 0 < Word /\ StrayAccounted
    BY <1>1, Constants DEF StrayAccounted
  <2> QED
    BY <1>1, <1>4, <2>1 DEF Numbered
<1>8. Recorded
  <2>1. 1 .. Len(entries) = {}
    BY <1>1
  <2>2. \A o \in OrderId : /\ confirmedBy[o] = 0 /\ dbSold[o] = 0
                            /\ status[o] = "CREATED"
                            /\ Total(ClaimsOf(Unread, o)) = 0
    BY <1>1, <1>3, <1>4
  <2> QED
    BY <1>1, <2>1, <2>2, Constants DEF Recorded
<1>9. ASSUME NEW o \in OrderId
      PROVE  /\ Free(o) = {} /\ Places(o) = {} /\ Coming(o) = 0
             /\ Cardinality({}) = 0 /\ MaxToSell[o] \in Nat
  BY <1>1, OccursNone, FS_EmptySet, Constants DEF Free, Places, Coming
<1>10. Budgeted
  <2>1. ASSUME NEW o \in OrderId
        PROVE  confirmedBy[o] + Total(ClaimsOf(Unsold, o)) + Cardinality(Free(o))
                   + Coming(o) * MaxToSell[o]
                 <= delivered[o] * MaxToSell[o]
    <3>1. /\ confirmedBy[o] = 0 /\ Total(ClaimsOf(Unsold, o)) = 0
          /\ Cardinality(Free(o)) = 0 /\ Coming(o) = 0 /\ delivered[o] = 0
          /\ MaxToSell[o] \in Nat
      BY <1>1, <1>3, <1>4, <1>9
    <3> QED
      BY <3>1
  <2> QED
    BY <2>1 DEF Budgeted
<1>11. Counted
  <2>1. \A o \in OrderId : /\ Coming(o) = 0 /\ Cardinality(Places(o)) = 0
                            /\ status[o] = "CREATED" /\ delivered[o] = 0
    BY <1>1, <1>9
  <2>2. Cardinality(live) <= MaxOrders
    BY <1>1, FS_EmptySet, Constants
  <2> QED
    BY <2>1, <2>2 DEF Counted
<1>12. EntriesFit /\ Held
  BY <1>1 DEF EntriesFit, Held
<1> QED
  BY <1>2, <1>5, <1>6, <1>7, <1>8, <1>10, <1>11, <1>12 DEF PositionInv

LEMMA StutterStep ==
  ASSUME PositionInv, UNCHANGED positionVars
  PROVE  PositionInv'
<1>1. /\ UNCHANGED <<entries, live, totalSold, totalPending, failures, complete>>
      /\ UNCHANGED <<status, dbSold, confirmed, confirmedBy, warrants, issued>>
      /\ UNCHANGED <<commands, results, actor, mailbox, orphans, delivered, removed, routed>>
      /\ UNCHANGED <<earlier, stray, orphaned>>
  BY DEF positionVars, vars, tradeVars, dbVars, reportVars, routeVars, inputVars,
         historyVars
<1>2. PositionTypeOK'
  BY <1>1 DEF PositionInv, PositionTypeOK, TradeTypeOK
<1>3. InStep' /\ AnsweredOnce'
  BY <1>1 DEF PositionInv, InStep, AnsweredOnce
<1>4. Unread' = Unread
  BY <1>1 DEF Unread
<1>5. Quiet
  <2>1. \A o \in OrderId : Coming(o)' = Coming(o)
    BY <1>1 DEF Coming
  <2>2. \A o \in OrderId : Coming(o) \in Nat /\ delivered[o] \in Nat
    BY Facts
  <2>3. /\ \A o \in OrderId : /\ Coming(o)' \in Nat
                              /\ Coming(o)' + delivered[o] <= Coming(o) + delivered'[o]
        /\ status' \in [OrderId -> Status] /\ delivered' \in [OrderId -> Nat]
    BY <1>1, <2>1, <2>2 DEF PositionInv, PositionTypeOK, TradeTypeOK
  <2> QED
    BY <1>1, <1>4, <2>3 DEF Quiet, tradeVars, reportVars, historyVars
<1> QED
  BY <1>2, <1>3, <1>5, QuietKeeps DEF PositionInv, PositionTypeOK

\* The chain leaves the position as it is, until it is reported.
LEMMA ChainExecutesStep ==
  ASSUME PositionInv, ChainExecutes
  PROVE  PositionInv'
<1>1. /\ UNCHANGED <<tradeVars, dbVars, reportVars, warrants, issued>>
      /\ UNCHANGED <<commands, results, actor, mailbox, orphans, delivered, removed, routed>>
      /\ UNCHANGED historyVars
  BY DEF ChainExecutes, routeVars, inputVars
<1>2. PositionTypeOK'
  BY <1>1
  DEF PositionInv, PositionTypeOK, TradeTypeOK, tradeVars, dbVars, reportVars,
      historyVars
<1>3. InStep' /\ AnsweredOnce'
  BY <1>1 DEF PositionInv, InStep, AnsweredOnce, tradeVars
<1>4. Unread' = Unread
  BY <1>1 DEF Unread
<1>5. Quiet
  <2>1. \A o \in OrderId : Coming(o)' = Coming(o)
    BY <1>1 DEF Coming
  <2>2. \A o \in OrderId : Coming(o) \in Nat /\ delivered[o] \in Nat
    BY Facts
  <2>3. /\ \A o \in OrderId : /\ Coming(o)' \in Nat
                              /\ Coming(o)' + delivered[o] <= Coming(o) + delivered'[o]
        /\ status' \in [OrderId -> Status] /\ delivered' \in [OrderId -> Nat]
    BY <1>1, <2>1, <2>2 DEF PositionInv, PositionTypeOK, TradeTypeOK, dbVars
  <2> QED
    BY <1>1, <1>4, <2>3 DEF Quiet, dbVars
<1> QED
  BY <1>2, <1>3, <1>5, QuietKeeps DEF PositionInv, PositionTypeOK

LEMMA NextInv ==
  PositionInv /\ PositionChainInv /\ [PositionNext]_positionVars => PositionInv'
<1> SUFFICES ASSUME PositionInv, PositionChainInv, [PositionNext]_positionVars
             PROVE  PositionInv'
  OBVIOUS
<1>1. ASSUME NEW o \in OrderId,
             \/ DeliverCreation(o) \/ DeliverRemoval(o)
             \/ OrphanActivates(o) \/ OrphanFails(o)
      PROVE  PositionInv'
  BY <1>1, DeliverStep, OrphanActivatesStep, OrphanFailsStep
<1>2. CASE \E t \in Tx : RouteLogs(t)
  BY <1>2, RouteLogsStep
<1>3. CASE Handle
  BY <1>3, HandleAddStep, HandleNewStep, HandleNewAbortedStep, HandleRemoveStep,
     HandleForwardStep, HandleCompleteStep
     DEF Handle
<1>4. CASE RouteResult
  BY <1>4, RouteRunning, RouteNowhere
<1>5. CASE ActorStep
  BY <1>5, ReadLogsStep, SkipLogsStep, ReadAddStep, ReadRemoveStep, ReadFailedStep,
     ReadConfirmedStep
     DEF ActorStep
<1>6. CASE \E r \in warrants : Accept(r) \/ Reject(r)
  BY <1>6, AcceptStep, RejectStep
<1>7. CASE ChainExecutes
  BY <1>7, ChainExecutesStep
<1>8. CASE UNCHANGED positionVars
  BY <1>8, StutterStep
<1> QED
  BY <1>1, <1>2, <1>3, <1>4, <1>5, <1>6, <1>7, <1>8 DEF PositionNext

-----------------------------------------------------------------------------
(* The chain's side.                                                       *)

\* The warrants whose result is on its way.
Arrived == Unhandled(results) \cup Unhandled(mailbox)

LEMMA OpenWarrants == Open = warrants \ Arrived
BY DEF Open, Arrived, Unhandled

LEMMA PostReports ==
  ASSUME mailbox \in Seq(MailMsg), NEW e \in MailMsg, Post(e)
  PROVE  Unhandled(mailbox') \subseteq Unhandled(mailbox) \cup ResultOf(e)
BY ResultsAppend DEF Post

LEMMA TailReports ==
  ASSUME PositionInv, mailbox # << >>
  PROVE  /\ Unhandled(Tail(mailbox)) \subseteq Unhandled(mailbox)
         /\ Unhandled(<<Message>>) \subseteq Unhandled(mailbox)
<1>1. mailbox \in Seq(MailMsg) /\ OneResult(mailbox)
  BY DEF PositionInv, PositionTypeOK, AnsweredOnce
<1>2. Unhandled(Tail(mailbox)) \subseteq Unhandled(mailbox)
  BY <1>1, ResultsTail
<1>3. 1 \in DOMAIN mailbox /\ Message = mailbox[1]
  BY <1>1, Shifted DEF Message
<1>4. Unhandled(<<Message>>) \subseteq Unhandled(mailbox)
  BY <1>3 DEF Unhandled
<1> QED
  BY <1>2, <1>4

\* What the actor reads settles reported warrants only.
LEMMA ActorReports ==
  ASSUME PositionInv, ActorStep
  PROVE  /\ Arrived' \subseteq Arrived /\ warrants \ Arrived \subseteq warrants'
         /\ UNCHANGED <<reportVars, chainVars>>
<1>1. mailbox # << >> /\ results' = results
  BY DEF ActorStep, ReadLogs, SkipLogs, ReadAdd, ReadRemove, ReadFailed,
         ReadConfirmed, Read
<1>2. mailbox' = Tail(mailbox) \/ mailbox' = << >>
  BY DEF ActorStep, ReadLogs, SkipLogs, ReadAdd, ReadRemove, ReadFailed,
         ReadConfirmed, Afterwards
<1>3. \/ warrants \subseteq warrants'
      \/ warrants' = warrants \ Unhandled(mailbox)
      \/ warrants' = warrants \ Unhandled(<<Message>>)
  BY DEF ActorStep, ReadLogs, SkipLogs, ReadAdd, ReadRemove, ReadFailed,
         ReadConfirmed, Settled, IssueWarrant, vars
<1>4. UNCHANGED <<reportVars, chainVars>>
  BY DEF ActorStep, ReadLogs, SkipLogs, ReadAdd, ReadRemove, ReadFailed,
         ReadConfirmed, IssueWarrant, vars
<1>5. /\ Unhandled(Tail(mailbox)) \subseteq Unhandled(mailbox)
      /\ Unhandled(<<Message>>) \subseteq Unhandled(mailbox)
      /\ Unhandled(<< >>) = {}
  BY <1>1, TailReports, ResultsNone
<1> QED
  BY <1>1, <1>2, <1>3, <1>4, <1>5 DEF Arrived

\* So does what Buffett does, and what comes from outside.
LEMMA RouteReports ==
  ASSUME PositionInv,
         \/ \E o \in OrderId : \/ DeliverCreation(o) \/ DeliverRemoval(o)
                               \/ OrphanActivates(o) \/ OrphanFails(o)
         \/ \E t \in Tx : RouteLogs(t)
         \/ Handle \/ RouteResult \/ UNCHANGED positionVars
  PROVE  /\ Arrived' \subseteq Arrived /\ warrants \ Arrived \subseteq warrants'
         /\ UNCHANGED <<reportVars, chainVars>>
<1>1. mailbox \in Seq(MailMsg) /\ results \in Seq(ResultMsg)
  BY DEF PositionInv, PositionTypeOK
<1>2. ASSUME UNCHANGED <<warrants, results, mailbox, reportVars, chainVars>>
      PROVE  /\ Arrived' \subseteq Arrived /\ warrants \ Arrived \subseteq warrants'
             /\ UNCHANGED <<reportVars, chainVars>>
  BY <1>2 DEF Arrived
<1>3. ASSUME NEW e \in MailMsg, e.kind # "result", Post(e),
             UNCHANGED <<warrants, results, reportVars, chainVars>>
      PROVE  /\ Arrived' \subseteq Arrived /\ warrants \ Arrived \subseteq warrants'
             /\ UNCHANGED <<reportVars, chainVars>>
  <2>1. Unhandled(mailbox') \subseteq Unhandled(mailbox)
    BY <1>1, <1>3, PostReports DEF ResultOf
  <2> QED
    BY <1>3, <2>1 DEF Arrived
<1>4. CASE \E o \in OrderId : \/ DeliverCreation(o) \/ DeliverRemoval(o)
                              \/ OrphanActivates(o) \/ OrphanFails(o)
  <2>1. UNCHANGED <<warrants, results, mailbox, reportVars, chainVars>>
    BY <1>4 DEF DeliverCreation, DeliverRemoval, OrphanActivates, OrphanFails, vars
  <2> QED
    BY <1>2, <2>1
<1>5. CASE \E t \in Tx : RouteLogs(t)
  <2>1. PICK t \in Tx : RouteLogs(t)
    BY <1>5
  <2>2. /\ Post([kind |-> "logs", tx |-> t])
        /\ UNCHANGED <<warrants, results, reportVars, chainVars>>
    BY <2>1 DEF RouteLogs, vars
  <2>3. [kind |-> "logs", tx |-> t] \in MailMsg
    BY MailKinds
  <2> QED
    BY <1>3, <2>2, <2>3
<1>6. CASE Handle
  <2>1. CASE HandleAdd
    <3>1. Subject \in OrderId
      BY <2>1, CommandTaken, CommandKinds DEF HandleAdd, Subject
    <3>2. /\ Post([kind |-> "add", order |-> Subject])
          /\ UNCHANGED <<warrants, results, reportVars, chainVars>>
      BY <2>1 DEF HandleAdd, vars
    <3>3. [kind |-> "add", order |-> Subject] \in MailMsg
      BY <3>1, MailKinds
    <3> QED
      BY <1>3, <3>2, <3>3
  <2>2. CASE HandleRemove
    <3>1. Subject \in OrderId
      BY <2>2, CommandTaken, CommandKinds DEF HandleRemove, Subject
    <3>2. /\ mailbox' = mailbox \/ Post([kind |-> "remove", order |-> Subject])
          /\ UNCHANGED <<warrants, results, reportVars, chainVars>>
      BY <2>2 DEF HandleRemove
    <3>3. [kind |-> "remove", order |-> Subject] \in MailMsg
      BY <3>1, MailKinds
    <3> QED
      BY <1>2, <1>3, <3>2, <3>3
  <2>3. CASE \/ HandleNew \/ HandleNewFails \/ HandleNewAborted
             \/ HandleForward \/ HandleComplete
    <3>1. UNCHANGED <<warrants, results, mailbox, reportVars, chainVars>>
      BY <2>3 DEF HandleNew, HandleNewFails, HandleNewAborted, HandleForward,
         HandleComplete, vars
    <3> QED
      BY <1>2, <3>1
  <2> QED
    BY <1>6, <2>1, <2>2, <2>3 DEF Handle
<1>7. CASE RouteResult
  <2> DEFINE e == Head(results)
  <2>1. /\ results # << >> /\ results' = Tail(results) /\ Post(e)
        /\ warrants' = warrants \/ warrants' = warrants \ {e.warrant}
        /\ UNCHANGED <<reportVars, chainVars>>
    BY <1>7 DEF RouteResult
  <2>2. /\ e \in ResultMsg /\ ResultOf(e) = {e.warrant}
        /\ Unhandled(results) = Unhandled(Tail(results)) \cup {e.warrant}
    BY <2>1, ResultTaken
  <2>3. e \in MailMsg
    BY <2>2, MailKinds
  <2> HIDE DEF e
  <2>4. Unhandled(mailbox') \subseteq Unhandled(mailbox) \cup {e.warrant}
    BY <1>1, <2>1, <2>2, <2>3, PostReports
  <2> QED
    BY <2>1, <2>2, <2>4 DEF Arrived
<1>8. CASE UNCHANGED positionVars
  <2>1. UNCHANGED <<warrants, results, mailbox, reportVars, chainVars>>
    BY <1>8 DEF positionVars, vars, routeVars
  <2> QED
    BY <1>2, <2>1
<1> QED
  BY <1>4, <1>5, <1>6, <1>7, <1>8

LEMMA ChainKept ==
  ASSUME PositionInv, PositionChainInv, UNCHANGED <<reportVars, chainVars>>,
         Arrived' \subseteq Arrived, warrants \ Arrived \subseteq warrants'
  PROVE  PositionChainInv'
<1>1. /\ UNCHANGED <<executed, late, landed, landedBy, surplus, surplusBy>>
      /\ UNCHANGED <<confirmed, confirmedBy>>
  BY DEF reportVars, chainVars
<1>2. executed' \subseteq Open' /\ executed' \subseteq warrants'
  <2>1. executed \subseteq warrants \ Arrived
    BY OpenWarrants DEF PositionChainInv
  <2>2. Open' = warrants' \ Arrived'
    BY DEF Open, Arrived, Unhandled
  <2> QED
    BY <1>1, <2>1, <2>2
<1>3. ChainInv'
  BY <1>1, <1>2 DEF PositionChainInv, ChainInv, ChainTypeOK, Accounted
<1> QED
  BY <1>1, <1>2, <1>3 DEF PositionChainInv

LEMMA ReportKeepsChain ==
  ASSUME PositionInv, PositionChainInv, NEW r \in warrants, Accept(r) \/ Reject(r)
  PROVE  PositionChainInv'
<1>1. PICK c \in BOOLEAN :
        Answer(r, c) /\ (ReportConfirmed(r) \/ ReportFailed(r))
  BY DEF Accept, Reject
<1>2. /\ executed' = executed \ {r} /\ landed' = landed
  BY <1>1 DEF ReportConfirmed, ReportFailed, Report
<1>3. /\ warrants' = warrants /\ mailbox' = mailbox
      /\ results' = Append(results, [kind |-> "result", warrant |-> r, confirmed |-> c])
  BY <1>1 DEF Answer
<1>4. /\ warrants \in SUBSET Claim(OrderId) /\ IsFiniteSet(Units(warrants))
      /\ r \in Claim(OrderId)
  BY Facts
<1>5. executed \subseteq warrants \ Arrived
  BY OpenWarrants DEF PositionChainInv
<1>6. Arrived' \subseteq Arrived \cup {r}
  <2>1. results \in Seq(ResultMsg)
    BY DEF PositionInv, PositionTypeOK
  <2>2. [kind |-> "result", warrant |-> r, confirmed |-> c] \in ResultMsg
    BY <1>4 DEF ResultMsg
  <2>3. Unhandled(results') = Unhandled(results)
          \cup ResultOf([kind |-> "result", warrant |-> r, confirmed |-> c])
    BY <1>3, <2>1, <2>2, ResultsAppend
  <2>4. ResultOf([kind |-> "result", warrant |-> r, confirmed |-> c]) = {r}
    BY DEF ResultOf
  <2> QED
    BY <1>3, <2>3, <2>4 DEF Arrived
<1>7. ChainInv'
  <2>1. /\ ChainInv /\ confirmed \in Nat /\ confirmedBy \in [OrderId -> Nat]
        /\ r.amount <= Holdings
    BY DEF PositionChainInv, PositionInv, PositionTypeOK, TradeTypeOK, Numbered
  <2>2. executed \ {r} \subseteq warrants'
    BY <1>3, <1>5
  <2> QED
    BY <1>1, <1>4, <2>1, <2>2, ReportAccounted
<1>8. executed' \subseteq Open'
  <2>1. Open' = warrants' \ Arrived'
    BY DEF Open, Arrived, Unhandled
  <2> QED
    BY <1>2, <1>3, <1>5, <1>6, <2>1
<1> QED
  BY <1>2, <1>7, <1>8 DEF PositionChainInv

LEMMA ExecutionKeepsChain ==
  ASSUME PositionInv, PositionChainInv, ChainExecutes
  PROVE  PositionChainInv'
<1>1. /\ UNCHANGED <<warrants, results, mailbox, reportVars>> /\ landed' <= Holdings
  BY DEF ChainExecutes, routeVars
<1>2. Open' = Open /\ Open \subseteq warrants
  BY <1>1 DEF Open
<1>3. /\ warrants \in SUBSET Claim(OrderId) /\ IsFiniteSet(Units(warrants))
      /\ ChainInv /\ confirmed \in Nat /\ confirmedBy \in [OrderId -> Nat]
      /\ executed \subseteq Open
  BY Facts DEF PositionChainInv, PositionInv, PositionTypeOK, TradeTypeOK
<1>4. ASSUME NEW w \in Open, Execute(w)
      PROVE  ChainInv' /\ executed' \subseteq Open'
  <2>1. ChainInv'
    BY <1>1, <1>2, <1>3, <1>4, ExecuteAccounted
  <2> QED
    BY <1>2, <1>3, <1>4, <2>1 DEF Execute
<1>5. ASSUME NEW s \in late \cup {SaleOf(w) : w \in executed}, ExecuteMore(s)
      PROVE  ChainInv' /\ executed' \subseteq Open'
  <2>1. ChainInv'
    BY <1>1, <1>3, <1>5, MoreAccounted
  <2> QED
    BY <1>2, <1>3, <1>5, <2>1 DEF ExecuteMore
<1> QED
  BY <1>1, <1>4, <1>5 DEF ChainExecutes, PositionChainInv

LEMMA NextChainInv ==
  PositionInv /\ PositionChainInv /\ [PositionNext]_positionVars => PositionChainInv'
<1> SUFFICES ASSUME PositionInv, PositionChainInv, [PositionNext]_positionVars
             PROVE  PositionChainInv'
  OBVIOUS
<1>1. CASE ActorStep
  BY <1>1, ActorReports, ChainKept
<1>2. CASE \/ \E o \in OrderId : \/ DeliverCreation(o) \/ DeliverRemoval(o)
                                 \/ OrphanActivates(o) \/ OrphanFails(o)
           \/ \E t \in Tx : RouteLogs(t)
           \/ Handle \/ RouteResult \/ UNCHANGED positionVars
  BY <1>2, RouteReports, ChainKept
<1>3. CASE \E r \in warrants : Accept(r) \/ Reject(r)
  BY <1>3, ReportKeepsChain
<1>4. CASE ChainExecutes
  BY <1>4, ExecutionKeepsChain
<1> QED
  BY <1>1, <1>2, <1>3, <1>4 DEF PositionNext

LEMMA InitChainInv ==
  PositionInit => PositionChainInv
<1> SUFFICES ASSUME PositionInit PROVE PositionChainInv
  OBVIOUS
<1>1. /\ executed = {} /\ late = {} /\ landed = 0 /\ surplus = 0 /\ confirmed = 0
      /\ landedBy = [o \in OrderId |-> 0] /\ surplusBy = [o \in OrderId |-> 0]
      /\ confirmedBy = [o \in OrderId |-> 0]
  BY DEF PositionInit, ChainInit
<1>2. Total({}) = 0 /\ \A o : ClaimsOf({}, o) = {}
  BY TotalType DEF ClaimsOf
<1>3. ChainInv
  BY <1>1, <1>2 DEF ChainInv, ChainTypeOK, Accounted
<1> QED
  BY <1>1, <1>3, Constants DEF PositionChainInv

\* Channels, trade, rows and chain agree through every loss, repetition and
\* misrouting of a message, through creations that are given up and whatever
\* the chain executes, late or twice: the invariant that the theorems below
\* rest on.
THEOREM PositionInvariant == PositionSpec => [](PositionInv /\ PositionChainInv)
BY InitInv, InitChainInv, NextInv, NextChainInv, PTL DEF PositionSpec

-----------------------------------------------------------------------------
(* What follows from the invariant.                                        *)

LEMMA InvRoute == PositionInv => RouteOK
<1> SUFFICES ASSUME PositionInv PROVE RouteOK
  OBVIOUS
<1>1. \A i \in DOMAIN commands :
        commands[i].kind = "complete" <=> commands[i] = [kind |-> "complete"]
  <2>1. \A i \in DOMAIN commands : commands[i] \in CommandMsg
    BY ElementOfSeq, LenProperties DEF PositionInv, PositionTypeOK
  <2> QED
    BY <2>1, CommandKinds
<1>2. {i \in DOMAIN commands : commands[i].kind = "complete"}
        = {i \in DOMAIN commands : commands[i] = [kind |-> "complete"]}
  BY <1>1
<1> QED
  BY <1>2 DEF RouteOK, PositionInv, PositionTypeOK, InStep, Occurs

\* Trade and route are in step: a trade that stopped is announced exactly once
\* (Countersell's actor loop and handle_complete_trade), and no mailbox outlives
\* its actor.
THEOREM RouteInStep == PositionSpec => []RouteOK
BY PositionInvariant, InvRoute, PTL

LEMMA InvMaximum == PositionInv /\ PositionChainInv => WithinMaximum
<1> SUFFICES ASSUME PositionInv, PositionChainInv, NEW o \in OrderId
             PROVE  landedBy[o] + Total(ClaimsOf(Open \ executed, o))
                      <= delivered[o] * MaxToSell[o] + surplusBy[o]
  BY DEF WithinMaximum
<1>1. Open \in SUBSET Unsold
  <2>1. ASSUME NEW w \in Open PROVE w \notin Unread
    BY DEF Open, Unread, ConfirmedIn
  <2> QED
    BY <2>1 DEF Open, Unsold
<1>2. Unsold \in SUBSET Claim(OrderId) /\ IsFiniteSet(Units(Unsold))
  BY Facts
<1>3. /\ Total(ClaimsOf(Open, o)) \in Nat
      /\ Total(ClaimsOf(Open, o)) <= Total(ClaimsOf(Unsold, o))
      /\ IsFiniteSet(Units(Open)) /\ Open \in SUBSET Claim(OrderId)
  BY <1>1, <1>2, ShareLess, PartTotal
<1>4. /\ Total(ClaimsOf(executed, o)) \in Nat
      /\ Total(ClaimsOf(Open \ executed, o)) \in Nat
      /\ Total(ClaimsOf(Open, o))
           = Total(ClaimsOf(executed, o)) + Total(ClaimsOf(Open \ executed, o))
  BY <1>3, SplitOf DEF PositionChainInv
<1>5. /\ landedBy[o] = confirmedBy[o] + Total(ClaimsOf(executed, o)) + surplusBy[o]
      /\ surplusBy[o] \in Nat
  BY DEF PositionChainInv, ChainInv, ChainTypeOK, Accounted
<1>6. /\ confirmedBy[o] \in Nat /\ Total(ClaimsOf(Unsold, o)) \in Nat
      /\ Cardinality(Free(o)) \in Nat /\ MaxToSell[o] \in Nat
      /\ Coming(o) \in Nat /\ delivered[o] \in Nat
  BY Facts
<1>7. Coming(o) * MaxToSell[o] \in Nat /\ delivered[o] * MaxToSell[o] \in Nat
  BY <1>6
<1>8. confirmedBy[o] + Total(ClaimsOf(Unsold, o)) + Cardinality(Free(o))
          + Coming(o) * MaxToSell[o]
        <= delivered[o] * MaxToSell[o]
  BY DEF PositionInv, Budgeted
<1> QED
  BY <1>3, <1>4, <1>5, <1>6, <1>7, <1>8

\* What an order sells, and may still sell by the warrants that are not
\* reported, is its maximum at most once for each delivery of its creation,
\* whatever trades the position goes through and whatever results go astray;
\* beyond it come only the executions of warrants that the executor reported
\* FAILED, or second ones (process_order's retries).
THEOREM MaximumPerDelivery == PositionSpec => []WithinMaximum
BY PositionInvariant, InvMaximum, PTL

LEMMA InvRows == PositionInv => RowsTrue
<1> SUFFICES ASSUME PositionInv, NEW o \in OrderId
             PROVE  /\ status[o] = "COMPLETED" => confirmedBy[o] >= MaxToSell[o]
                    /\ dbSold[o] <= confirmedBy[o]
                    /\ status[o] = "ACTIVE" => \/ actor = "running" /\ ~Absent(o)
                                               \/ dbSold[o] < confirmedBy[o]
                                               \/ o \in orphaned
                                               \/ MaxToSell[o] = 0
  BY DEF RowsTrue, CompletedIsSold, ActiveIsHeld
<1>1. /\ Total(ClaimsOf(Unread, o)) \in Nat
      /\ dbSold[o] \in Nat /\ confirmedBy[o] \in Nat
  BY Facts
<1>2. /\ dbSold[o] + Total(ClaimsOf(Unread, o)) <= confirmedBy[o]
      /\ status[o] = "COMPLETED" => confirmedBy[o] >= MaxToSell[o]
  BY DEF PositionInv, Recorded
<1>3. Astray(o) => dbSold[o] < confirmedBy[o] \/ o \in orphaned
  BY <1>1 DEF Astray
<1>4. status[o] = "ACTIVE" => \/ actor = "running" /\ ~Absent(o)
                              \/ Astray(o)
                              \/ MaxToSell[o] = 0
  BY DEF PositionInv, Held
<1> QED
  BY <1>1, <1>2, <1>3, <1>4

\* COMPLETED is earned by confirmed sales, no more is recorded than was
\* confirmed, and an ACTIVE order is in a running trade but for want of a record
\* or because an actor whose creation was given up wrote it (create_new_trade).
THEOREM RowsAreTrue == PositionSpec => []RowsTrue
BY PositionInvariant, InvRows, PTL

\* The pending counter of a trade is off by exactly the results of its
\* predecessors that it took for its own, modulo the width of the counter.
THEOREM PendingAccounted == PositionSpec => []StrayAccounted
<1>1. PositionInv => StrayAccounted
  BY DEF PositionInv, Numbered
<1> QED
  BY <1>1, PositionInvariant, PTL

-----------------------------------------------------------------------------
(* What no step does.                                                      *)

\* An order whose one delivery was used up by a completion is nowhere.
LEMMA Spent ==
  ASSUME PositionInv, NEW o \in OrderId, status[o] = "COMPLETED", ~(delivered[o] > 1)
  PROVE  /\ \A i \in live : entries[i].id # o
         /\ commands # << >> => Head(commands) # [kind |-> "create", order |-> o]
         /\ mailbox # << >> => Message # [kind |-> "add", order |-> o]
         /\ orphans[o] = 0
<1>1. /\ Coming(o) \in Nat /\ IsFiniteSet(Places(o)) /\ Cardinality(Places(o)) \in Nat
      /\ Occurs(commands, [kind |-> "create", order |-> o]) \in Nat
      /\ Occurs(mailbox, [kind |-> "add", order |-> o]) \in Nat
      /\ delivered[o] \in Nat /\ orphans[o] \in Nat
  BY Facts
<1>2. Coming(o) + Cardinality(Places(o)) + 1 <= delivered[o]
  BY DEF PositionInv, Counted
<1>3. Coming(o) = 0 /\ Cardinality(Places(o)) = 0
  BY <1>1, <1>2
<1>4. /\ Occurs(commands, [kind |-> "create", order |-> o]) = 0
      /\ Occurs(mailbox, [kind |-> "add", order |-> o]) = 0
      /\ orphans[o] = 0
  BY <1>1, <1>3 DEF Coming
<1>5. Places(o) = {}
  BY <1>1, <1>3, FS_EmptySet
<1>6. commands \in Seq(CommandMsg) /\ mailbox \in Seq(MailMsg)
  BY DEF PositionInv, PositionTypeOK
<1>7. commands # << >> => Head(commands) # [kind |-> "create", order |-> o]
  BY <1>4, <1>6, OccursTail
<1>8. mailbox # << >> => Message # [kind |-> "add", order |-> o]
  BY <1>4, <1>6, OccursTail DEF Message
<1> QED
  BY <1>4, <1>5, <1>7, <1>8 DEF Places

LEMMA CompletedKept ==
  ASSUME PositionInv, [PositionNext]_positionVars, NEW o \in OrderId,
         status[o] = "COMPLETED", ~(delivered[o] > 1)
  PROVE  status'[o] \in {"COMPLETED", "DELETED"}
<1>1. /\ \A i \in live : entries[i].id # o
      /\ commands # << >> => Head(commands) # [kind |-> "create", order |-> o]
      /\ mailbox # << >> => Message # [kind |-> "add", order |-> o]
      /\ orphans[o] = 0
  BY Spent
<1>2. status \in [OrderId -> Status] /\ live \subseteq 1 .. Len(entries)
  BY DEF PositionInv, PositionTypeOK, TradeTypeOK
<1>3. CASE status' = status
  BY <1>3
<1>4. CASE HandleNew
  <2>1. commands # << >> /\ Head(commands) \in CommandMsg /\ Head(commands).kind = "create"
    BY <1>4, CommandTaken DEF HandleNew, Take
  <2>2. Subject # o
    BY <1>1, <2>1, CommandKinds DEF Subject
  <2> QED
    BY <1>2, <1>4, <2>2 DEF HandleNew
<1>5. CASE HandleRemove
  BY <1>2, <1>5 DEF HandleRemove
<1>6. CASE ReadAdd
  <2>1. mailbox # << >> /\ Message.kind = "add" /\ AddOrder(Message.order)
    BY <1>6 DEF ReadAdd, Read, Message
  <2>2. Message.order # o
    BY <1>1, <2>1, MailTaken, MailKinds
  <2> QED
    BY <1>2, <2>1, <2>2 DEF AddOrder, dbVars
<1>7. CASE ReadRemove
  <2>1. RemoveOrder(Message.order)
    BY <1>7 DEF ReadRemove
  <2>2. Absent(o)
    BY <1>1 DEF Absent
  <2> QED
    BY <1>2, <2>1, <2>2 DEF RemoveOrder, dbVars
<1>8. CASE ReadFailed
  <2>1. status' = status \/ status' = Marked(status, live, "CANCELLED")
    BY <1>8 DEF ReadFailed, OnFailed, GiveUp
  <2> QED
    BY <1>1, <2>1 DEF Marked
<1>9. ASSUME NEW fetched \in BOOLEAN, ReadConfirmed(fetched)
      PROVE  status'[o] \in {"COMPLETED", "DELETED"}
  <2>1. \/ status' = status
        \/ CheckCompletion(status)
        \/ \E p : CheckCompletion([status EXCEPT ![p] = "COMPLETED"])
    <3>1. OnConfirmed(Message.warrant, fetched)
      BY <1>9 DEF ReadConfirmed
    <3> QED
      BY <3>1 DEF OnConfirmed, dbVars
  <2>2. ASSUME NEW st, st[o] = "COMPLETED", CheckCompletion(st)
        PROVE  status'[o] = "COMPLETED"
    <3>1. PICK R \in SUBSET live : status' = st \/ status' = Marked(st, R, "CANCELLED")
      BY <2>2 DEF CheckCompletion
    <3> QED
      BY <1>1, <2>2, <3>1 DEF Marked
  <2>3. \A p : [status EXCEPT ![p] = "COMPLETED"][o] = "COMPLETED"
    BY <1>2
  <2>4. CASE \E p : CheckCompletion([status EXCEPT ![p] = "COMPLETED"])
    <3>1. PICK st : CheckCompletion(st) /\ st[o] = "COMPLETED"
      BY <2>3, <2>4
    <3> QED
      BY <2>2, <3>1
  <2>5. CASE CheckCompletion(status)
    BY <2>2, <2>5
  <2> QED
    BY <2>1, <2>4, <2>5
<1>10. ASSUME NEW p \in OrderId, OrphanActivates(p)
       PROVE  status'[o] = "COMPLETED"
  <2>1. p # o
    BY <1>1, <1>10 DEF OrphanActivates
  <2> QED
    BY <1>2, <1>10, <2>1 DEF OrphanActivates
<1>11. \/ status' = status \/ (\E p \in OrderId : OrphanActivates(p)) \/ HandleNew \/ HandleRemove
       \/ ReadAdd \/ ReadRemove \/ ReadFailed
       \/ \E fetched \in BOOLEAN : ReadConfirmed(fetched)
  <2>1. CASE \E p \in OrderId : \/ DeliverCreation(p) \/ DeliverRemoval(p)
                                \/ OrphanActivates(p) \/ OrphanFails(p)
    BY <2>1 DEF DeliverCreation, DeliverRemoval, OrphanFails, vars, dbVars
  <2>2. CASE \E t \in Tx : RouteLogs(t)
    BY <2>2 DEF RouteLogs, vars, dbVars
  <2>3. CASE Handle
    BY <2>3 DEF Handle, HandleAdd, HandleNewFails, HandleNewAborted, HandleForward, HandleComplete,
       vars, dbVars
  <2>4. CASE RouteResult
    BY <2>4 DEF RouteResult, dbVars
  <2>5. CASE ActorStep
    BY <2>5 DEF ActorStep, ReadLogs, SkipLogs, IssueWarrant, vars, dbVars
  <2>6. CASE \E r \in warrants : Accept(r) \/ Reject(r)
    BY <2>6 DEF Accept, Reject, Answer, dbVars
  <2>7. CASE UNCHANGED positionVars
    BY <2>7 DEF positionVars, vars, dbVars
  <2>8. CASE ChainExecutes
    BY <2>8 DEF ChainExecutes, dbVars
  <2> QED
    BY <2>1, <2>2, <2>3, <2>4, <2>5, <2>6, <2>7, <2>8 DEF PositionNext
<1> QED
  BY <1>3, <1>4, <1>5, <1>6, <1>7, <1>8, <1>9, <1>10, <1>11

\* No late result, repeated transaction or end of a trade overwrites COMPLETED,
\* only a removal that finds no trade does (Buffett's handle_remove_order),
\* unless the order's creation was delivered twice.
THEOREM CompletedIsFinal == PositionSpec => CompletedStays
<1>1. PositionInv /\ [PositionNext]_positionVars =>
        [\A o \in OrderId :
           status[o] = "COMPLETED" => \/ status'[o] \in {"COMPLETED", "DELETED"}
                                      \/ delivered[o] > 1]_positionVars
  BY CompletedKept
<1> QED
  BY <1>1, PositionInvariant, PTL DEF PositionSpec, CompletedStays

\* What Handled says of the two channels, in the numbers the proofs use.
LEMMA HandledCounts ==
  ASSUME NEW c \in Seq(CommandMsg), NEW m \in Seq(MailMsg), NEW o \in OrderId
  PROVE  /\ (\A i \in DOMAIN c : c[i].kind = "create" => c[i].order # o)
              <=> Occurs(c, [kind |-> "create", order |-> o]) = 0
         /\ (\A i \in DOMAIN m : m[i].kind = "add" => m[i].order # o)
              <=> Occurs(m, [kind |-> "add", order |-> o]) = 0
<1>1. /\ \A i \in DOMAIN c : c[i] \in CommandMsg
      /\ \A i \in DOMAIN m : m[i] \in MailMsg
  BY ElementOfSeq, LenProperties
<1>2. /\ \A i \in DOMAIN c : c[i] = [kind |-> "create", order |-> o]
                               <=> c[i].kind = "create" /\ c[i].order = o
      /\ \A i \in DOMAIN m : m[i] = [kind |-> "add", order |-> o]
                               <=> m[i].kind = "add" /\ m[i].order = o
  BY <1>1, CommandKinds, MailKinds
<1>3. \A S : IsFiniteSet(S) => (Cardinality(S) = 0 <=> S = {})
  BY FS_EmptySet
<1> DEFINE C == {i \in DOMAIN c : c[i] = [kind |-> "create", order |-> o]}
           M == {i \in DOMAIN m : m[i] = [kind |-> "add", order |-> o]}
<1>4. IsFiniteSet(C) /\ IsFiniteSet(M)
  BY OccursType
<1>5. /\ Occurs(c, [kind |-> "create", order |-> o]) = Cardinality(C)
      /\ Occurs(m, [kind |-> "add", order |-> o]) = Cardinality(M)
  BY DEF Occurs
<1>6. /\ (\A i \in DOMAIN c : c[i].kind = "create" => c[i].order # o) <=> C = {}
      /\ (\A i \in DOMAIN m : m[i].kind = "add" => m[i].order # o) <=> M = {}
  BY <1>2
<1> HIDE DEF C, M
<1> QED
  BY <1>3, <1>4, <1>5, <1>6

\* A step that delivers nothing and takes neither a creation nor an addition of
\* the order leaves it as handled as it was.
LEMMA StillComing ==
  ASSUME PositionInv, PositionInv', NEW o \in OrderId, Handled(o)', ~Handled(o),
         delivered'[o] = delivered[o],
         Occurs(commands', [kind |-> "create", order |-> o])
           >= Occurs(commands, [kind |-> "create", order |-> o]),
         Occurs(mailbox', [kind |-> "add", order |-> o])
           >= Occurs(mailbox, [kind |-> "add", order |-> o])
  PROVE  FALSE
<1>1. /\ commands \in Seq(CommandMsg) /\ mailbox \in Seq(MailMsg)
      /\ commands' \in Seq(CommandMsg) /\ mailbox' \in Seq(MailMsg)
  BY DEF PositionInv, PositionTypeOK
<1>2. /\ Occurs(commands', [kind |-> "create", order |-> o]) = 0
      /\ Occurs(mailbox', [kind |-> "add", order |-> o]) = 0
      /\ delivered'[o] > 0
  BY <1>1, HandledCounts DEF Handled
<1>3. ~ /\ delivered[o] > 0
        /\ Occurs(commands, [kind |-> "create", order |-> o]) = 0
        /\ Occurs(mailbox, [kind |-> "add", order |-> o]) = 0
  BY <1>1, HandledCounts DEF Handled
<1>4. /\ Occurs(commands, [kind |-> "create", order |-> o]) \in Nat
      /\ Occurs(mailbox, [kind |-> "add", order |-> o]) \in Nat
  BY Facts
<1> QED
  BY <1>2, <1>3, <1>4

LEMMA PostKeeps ==
  ASSUME PositionInv, NEW e \in MailMsg, Post(e), NEW x
  PROVE  /\ Occurs(mailbox', x) >= Occurs(mailbox, x)
         /\ actor = "running" /\ e = x => Occurs(mailbox', x) > 0
<1>1. mailbox \in Seq(MailMsg)
  BY DEF PositionInv, PositionTypeOK
<1>2. Occurs(mailbox, x) \in Nat
  BY <1>1, OccursType
<1>3. Occurs(Append(mailbox, e), x) = Occurs(mailbox, x) + (IF e = x THEN 1 ELSE 0)
  BY <1>1, OccursAppend
<1> QED
  BY <1>2, <1>3 DEF Post

LEMMA NotLost ==
  ASSUME PositionInv, PositionChainInv, [PositionNext]_positionVars, NEW o \in OrderId,
         Handled(o)', ~Handled(o), status'[o] = "CREATED",
         actor' = "running", Cardinality(live) # MaxOrders
  PROVE  FALSE
<1>1. PositionInv'
  BY NextInv
<1>2. /\ commands \in Seq(CommandMsg) /\ mailbox \in Seq(MailMsg)
      /\ commands' \in Seq(CommandMsg) /\ mailbox' \in Seq(MailMsg)
      /\ results \in Seq(ResultMsg) /\ delivered \in [OrderId -> Nat]
      /\ status \in [OrderId -> Status]
  BY <1>1 DEF PositionInv, PositionTypeOK, TradeTypeOK
<1> DEFINE C(c) == Occurs(c, [kind |-> "create", order |-> o])
           A(m) == Occurs(m, [kind |-> "add", order |-> o])
<1>3. C(commands') = 0 /\ A(mailbox') = 0
  BY <1>2, HandledCounts DEF Handled
<1>4. C(commands) \in Nat /\ A(mailbox) \in Nat
  BY Facts
<1>5. ~ /\ delivered'[o] = delivered[o]
        /\ C(commands') >= C(commands)
        /\ A(mailbox') >= A(mailbox)
  BY <1>1, StillComing
<1>6. ASSUME NEW e \in CommandMsg, commands' = Append(commands, e)
      PROVE  /\ C(commands') >= C(commands)
             /\ e # [kind |-> "create", order |-> o]
  <2>1. C(Append(commands, e)) =
          C(commands) + (IF e = [kind |-> "create", order |-> o] THEN 1 ELSE 0)
    BY <1>2, OccursAppend
  <2> QED
    BY <1>3, <1>4, <1>6, <2>1
<1>7. ASSUME NEW kind, Take(kind)
      PROVE  /\ Head(commands) \in CommandMsg /\ Head(commands).kind = kind
             /\ Head(commands) # [kind |-> "create", order |-> o]
                  => C(commands') >= C(commands)
  BY <1>4, <1>7, CommandTaken
<1>8. ASSUME NEW kind, Take(kind), kind # "create"
      PROVE  C(commands') >= C(commands)
  <2>1. [kind |-> "create", order |-> o].kind # kind
    BY <1>8
  <2> QED
    BY <1>7, <1>8, <2>1
<1>9. ASSUME NEW e \in MailMsg, Post(e)
      PROVE  /\ A(mailbox') >= A(mailbox)
             /\ actor = "running" => e # [kind |-> "add", order |-> o]
  BY <1>3, <1>9, PostKeeps
<1>10. ASSUME mailbox # << >>, mailbox' = Tail(mailbox)
       PROVE  /\ Message \in MailMsg
              /\ Message # [kind |-> "add", order |-> o] => A(mailbox') >= A(mailbox)
  BY <1>4, <1>10, MailTaken
<1> HIDE DEF C, A
<1>11. ASSUME NEW p \in OrderId, DeliverCreation(p) \/ DeliverRemoval(p)
       PROVE  FALSE
  <2>1. CASE DeliverCreation(p)
    <3>1. /\ [kind |-> "create", order |-> p] \in CommandMsg
          /\ commands' = Append(commands, [kind |-> "create", order |-> p])
          /\ mailbox' = mailbox
          /\ delivered' = [delivered EXCEPT ![p] = @ + 1]
      BY <2>1, CommandKinds DEF DeliverCreation, Command
    <3>2. p # o /\ C(commands') >= C(commands)
      BY <1>6, <3>1
    <3> QED
      BY <1>2, <1>4, <1>5, <3>1, <3>2
  <2>2. CASE DeliverRemoval(p)
    <3>1. /\ [kind |-> "remove", order |-> p] \in CommandMsg
          /\ commands' = Append(commands, [kind |-> "remove", order |-> p])
          /\ mailbox' = mailbox /\ delivered' = delivered
      BY <2>2, CommandKinds DEF DeliverRemoval, Command
    <3> QED
      BY <1>4, <1>5, <1>6, <3>1
  <2> QED
    BY <1>11, <2>1, <2>2
<1>12. ASSUME NEW t \in Tx, RouteLogs(t) PROVE FALSE
  <2>1. /\ [kind |-> "logs", tx |-> t] \in MailMsg /\ Post([kind |-> "logs", tx |-> t])
        /\ commands' = commands /\ delivered' = delivered
    BY <1>12, MailKinds DEF RouteLogs
  <2> QED
    BY <1>4, <1>5, <1>9, <2>1
<1>13. CASE HandleAdd
  <2>1. PICK s \in OrderId : /\ s = Subject
                             /\ Head(commands) = [kind |-> "create", order |-> s]
                             /\ [kind |-> "add", order |-> s] \in MailMsg
    BY <1>7, <1>13, CommandKinds, MailKinds DEF HandleAdd, Subject
  <2>2. /\ Take("create") /\ Post([kind |-> "add", order |-> s])
        /\ actor = "running" /\ delivered' = delivered
    BY <1>13, <2>1 DEF HandleAdd, inputVars
  <2>3. s # o
    BY <1>9, <2>1, <2>2
  <2>4. Head(commands) # [kind |-> "create", order |-> o]
    BY <2>1, <2>3, CommandKinds
  <2> QED
    BY <1>5, <1>7, <1>9, <2>1, <2>2, <2>4
<1>14. CASE HandleNew
  <2>1. PICK s \in OrderId : /\ s = Subject
                             /\ Head(commands) = [kind |-> "create", order |-> s]
    BY <1>7, <1>14, CommandKinds DEF HandleNew, Subject
  <2>2. /\ Take("create") /\ status' = [status EXCEPT ![s] = "ACTIVE"]
        /\ mailbox' = mailbox /\ delivered' = delivered
    BY <1>14, <2>1 DEF HandleNew, inputVars
  <2>3. s # o
    BY <1>2, <2>2
  <2>4. Head(commands) # [kind |-> "create", order |-> o]
    BY <2>1, <2>3, CommandKinds
  <2> QED
    BY <1>4, <1>5, <1>7, <2>2, <2>4
<1>15. CASE HandleNewFails
  BY <1>15 DEF HandleNewFails
<1>16. CASE HandleRemove
  <2>1. PICK s \in OrderId : s = Subject /\ [kind |-> "remove", order |-> s] \in MailMsg
    BY <1>7, <1>16, CommandKinds, MailKinds DEF HandleRemove, Subject
  <2>2. /\ Take("remove") /\ delivered' = delivered
        /\ mailbox' = mailbox \/ Post([kind |-> "remove", order |-> s])
    BY <1>16, <2>1 DEF HandleRemove, inputVars
  <2>3. A(mailbox') >= A(mailbox)
    BY <1>4, <1>9, <2>1, <2>2
  <2> QED
    BY <1>5, <1>8, <2>2, <2>3
<1>17. CASE HandleForward
  <2>1. Take("forward") /\ mailbox' = mailbox /\ delivered' = delivered
    BY <1>17 DEF HandleForward, inputVars
  <2> QED
    BY <1>4, <1>5, <1>8, <2>1
<1>18. CASE HandleComplete \/ HandleNewAborted
  BY <1>18 DEF HandleComplete, HandleNewAborted
<1>19. CASE RouteResult
  <2>1. Head(results) \in ResultMsg
    BY <1>2, <1>19, Shifted DEF RouteResult
  <2>2. /\ Head(results) \in MailMsg /\ Post(Head(results))
        /\ commands' = commands /\ delivered' = delivered
    BY <1>19, <2>1, MailKinds DEF RouteResult, inputVars
  <2> QED
    BY <1>4, <1>5, <1>9, <2>2
<1>20. ASSUME \/ \E r \in warrants : Accept(r) \/ Reject(r)
              \/ \E p \in OrderId : OrphanActivates(p) \/ OrphanFails(p)
              \/ ChainExecutes
       PROVE  FALSE
  <2>1. commands' = commands /\ mailbox' = mailbox /\ delivered' = delivered
    BY <1>20 DEF Accept, Reject, Answer, OrphanActivates, OrphanFails, ChainExecutes,
       routeVars, inputVars
  <2> QED
    BY <1>4, <1>5, <2>1
<1>21. CASE UNCHANGED positionVars
  <2>1. commands' = commands /\ mailbox' = mailbox /\ delivered' = delivered
    BY <1>21 DEF positionVars, routeVars, inputVars
  <2> QED
    BY <1>4, <1>5, <2>1
<1>22. CASE ReadLogs \/ SkipLogs
  <2>1. /\ mailbox # << >> /\ mailbox' = Tail(mailbox)
        /\ Message.kind = "logs" /\ delivered' = delivered
    BY <1>22 DEF ReadLogs, SkipLogs, Read, Message, inputVars
  <2>2. A(mailbox') >= A(mailbox)
    BY <1>10, <2>1
  <2>3. C(commands') >= C(commands)
    <3>1. CASE ReadLogs
      <4>1. PICK w \in warrants' :
              commands' = Append(commands, [kind |-> "forward", warrant |-> w])
        BY <3>1 DEF ReadLogs
      <4>2. w \in Claim(OrderId)
        BY <1>1, <4>1 DEF PositionInv, PositionTypeOK, TradeTypeOK
      <4>3. [kind |-> "forward", warrant |-> w] \in CommandMsg
        BY <4>2, CommandKinds
      <4> QED
        BY <1>6, <4>1, <4>3
    <3>2. CASE SkipLogs
      BY <1>4, <3>2 DEF SkipLogs
    <3> QED
      BY <1>22, <3>1, <3>2
  <2> QED
    BY <1>5, <2>1, <2>2, <2>3
<1>23. ASSUME actor = "running", mailbox # << >>, Afterwards, delivered' = delivered
       PROVE  Message = [kind |-> "add", order |-> o]
  <2>1. mailbox' = Tail(mailbox) /\ commands' = commands
    BY <1>23 DEF Afterwards
  <2> QED
    BY <1>4, <1>5, <1>10, <1>23, <2>1
<1>24. CASE ReadAdd
  <2>1. /\ actor = "running" /\ mailbox # << >> /\ Afterwards /\ delivered' = delivered
        /\ AddOrder(Message.order)
    BY <1>24 DEF ReadAdd, Read, inputVars
  <2>2. Message = [kind |-> "add", order |-> o]
    BY <1>23, <2>1
  <2>3. Message.order = o
    BY <2>2
  <2>4. Cardinality(live) < MaxOrders
    <3>1. Cardinality(live) \in Nat /\ Cardinality(live) <= MaxOrders /\ MaxOrders \in Nat
      BY Facts, Constants DEF PositionInv, Counted
    <3> QED
      BY <3>1
  <2>5. status' = [status EXCEPT ![o] = "ACTIVE"]
    <3>1. Cardinality(live) \in Nat /\ MaxOrders \in Nat
      BY Facts, Constants
    <3>2. ~(Cardinality(live) >= MaxOrders)
      BY <2>4, <3>1
    <3> QED
      BY <2>1, <2>3, <3>2 DEF AddOrder
  <2> QED
    BY <1>2, <2>5
<1>25. CASE ReadRemove \/ ReadFailed \/ \E fetched \in BOOLEAN : ReadConfirmed(fetched)
  <2>1. /\ actor = "running" /\ mailbox # << >> /\ Afterwards /\ delivered' = delivered
        /\ Message.kind = "remove" \/ Message.kind = "result"
    BY <1>25 DEF ReadRemove, ReadFailed, ReadConfirmed, Read, Message, inputVars
  <2> QED
    BY <1>23, <2>1
<1> QED
  BY <1>11, <1>12, <1>13, <1>14, <1>15, <1>16, <1>17, <1>18, <1>19, <1>20, <1>21,
     <1>22, <1>24, <1>25
     DEF PositionNext, Handle, ActorStep

\* An order that is dropped when its creation is handled was dropped by a trade
\* that does not run afterwards or that is full (Countersell's add_order).
THEOREM OrdersLostWithTrades == PositionSpec => LostOnlyWithoutTrade
<1>1. PositionInv /\ PositionChainInv /\ [PositionNext]_positionVars =>
        [\A o \in OrderId :
           Handled(o)' /\ ~Handled(o) /\ status'[o] = "CREATED" =>
             actor' # "running" \/ Cardinality(live) = MaxOrders]_positionVars
  BY NotLost
<1> QED
  BY <1>1, PositionInvariant, PTL DEF PositionSpec, LostOnlyWithoutTrade
=============================================================================
