------------------------- MODULE CountersellProofs --------------------------
(***************************************************************************)
(* The Countersell trade is safe for any orders, limits, holdings and      *)
(* prices, whatever the chain executes and whenever it does.  First what   *)
(* the trade can know, its warrants and their reports, is shown to stay    *)
(* covered, and the rest of its inductive invariant follows action by      *)
(* action.  Then what landed is accounted for, by the reports and the      *)
(* surplus, and the trade and the chain are shown to take only steps of    *)
(* the ledger, whose promise bounds what is taken and reserved.            *)
(***************************************************************************)
EXTENDS Countersell, SequenceTheorems, FunctionTheorems, FiniteSetTheorems, TLAPS

-----------------------------------------------------------------------------
(* What adding a claim to a set of claims, or closing one, does to the     *)
(* total.  Finiteness of the units is a hypothesis of every lemma, and     *)
(* their conclusions hand it on, so that an inductive invariant can carry  *)
(* it from step to step.                                                   *)

\* One claim counts for exactly its amount.
LEMMA OneClaim ==
  ASSUME NEW Owner, NEW c \in Claim(Owner)
  PROVE  /\ IsFiniteSet(UnitsOf(c))
         /\ Cardinality(UnitsOf(c)) = c.amount
<1>1. c.amount \in Nat /\ c.amount > 0
  BY DEF Claim
<1>2. IsFiniteSet({c}) /\ Cardinality({c}) = 1
  BY FS_Singleton
<1>3. IsFiniteSet(1 .. c.amount) /\ Cardinality(1 .. c.amount) = c.amount
  BY <1>1, FS_Interval
<1>4. /\ IsFiniteSet({c} \X (1 .. c.amount))
      /\ Cardinality({c} \X (1 .. c.amount)) = 1 * c.amount
  BY ZenonT(40), <1>2, <1>3, FS_Product
<1> QED
  BY <1>1, <1>4 DEF UnitsOf

\* The total of finitely many units is a number, and no claims make none.
LEMMA TotalType ==
  /\ \A S : IsFiniteSet(Units(S)) => Total(S) \in Nat
  /\ IsFiniteSet(Units({})) /\ Total({}) = 0
<1>1. Units({}) = {}
  BY DEF Units
<1> QED
  BY <1>1, FS_CardinalityType, FS_EmptySet DEF Total

\* A new claim adds its amount.
LEMMA AddClaim ==
  ASSUME NEW Owner, NEW S, NEW c \in Claim(Owner),
         IsFiniteSet(Units(S)), c \notin S
  PROVE  /\ IsFiniteSet(Units(S \cup {c}))
         /\ Total(S \cup {c}) = Total(S) + c.amount
<1>1. Units(S \cup {c}) = Units(S) \cup UnitsOf(c)
  BY DEF Units
<1>2. Units(S) \cap UnitsOf(c) = {}
  BY DEF Units, UnitsOf
<1>3. IsFiniteSet(UnitsOf(c)) /\ Cardinality(UnitsOf(c)) = c.amount
  BY OneClaim
<1>4. /\ IsFiniteSet(Units(S) \cup UnitsOf(c))
      /\ Cardinality(Units(S) \cup UnitsOf(c)) =
           Cardinality(Units(S)) + Cardinality(UnitsOf(c))
             - Cardinality(Units(S) \cap UnitsOf(c))
  BY <1>3, FS_Union
<1>5. Cardinality({}) = 0
  BY FS_EmptySet
<1>6. Cardinality(Units(S)) \in Nat /\ c.amount \in Nat
  BY FS_CardinalityType DEF Claim
<1>7. Cardinality(Units(S) \cap UnitsOf(c)) = 0
  BY <1>2, <1>5
<1>8. Cardinality(Units(S) \cup UnitsOf(c)) = Cardinality(Units(S)) + c.amount
  BY <1>3, <1>4, <1>6, <1>7
<1> QED
  BY <1>1, <1>4, <1>8 DEF Total

\* Closing a claim takes its amount off, and the total covered it.
LEMMA CloseClaim ==
  ASSUME NEW Owner, NEW S \in SUBSET Claim(Owner), NEW c \in S,
         IsFiniteSet(Units(S))
  PROVE  /\ IsFiniteSet(Units(S \ {c}))
         /\ Total(S \ {c}) = Total(S) - c.amount
         /\ c.amount <= Total(S)
<1> DEFINE R == S \ {c}
<1>1. Units(R) \in SUBSET Units(S)
  BY DEF Units
<1>2. IsFiniteSet(Units(R))
  BY <1>1, FS_Subset
<1>3. R \cup {c} = S /\ c \notin R /\ c \in Claim(Owner)
  OBVIOUS
<1>4. Total(S) = Total(R) + c.amount
  <2> HIDE DEF R
  <2> QED BY <1>2, <1>3, AddClaim
<1>5. Total(R) \in Nat /\ c.amount \in Nat
  BY <1>2, TotalType DEF Claim
<1> QED
  BY <1>2, <1>4, <1>5

\* A part of the claims comes to no more than all of them.
LEMMA PartTotal ==
  ASSUME NEW S, NEW T \in SUBSET S, IsFiniteSet(Units(S))
  PROVE  IsFiniteSet(Units(T)) /\ Total(T) <= Total(S)
<1>1. Units(T) \in SUBSET Units(S)
  BY DEF Units
<1> QED
  BY <1>1, FS_Subset DEF Total

\* Claims that come to nothing are no claims: every amount is positive.
LEMMA NoTotalNoClaims ==
  ASSUME NEW Owner, NEW S \in SUBSET Claim(Owner), IsFiniteSet(Units(S)),
         Total(S) = 0
  PROVE  S = {}
<1>1. SUFFICES ASSUME NEW c \in S PROVE FALSE
  OBVIOUS
<1>2. c.amount <= Total(S)
  BY CloseClaim
<1>3. c.amount \in Nat /\ c.amount # 0
  BY DEF Claim
<1> QED
  BY <1>2, <1>3

\* The claims of one order: what a new claim and a closed one do to them.
LEMMA AddClaimOf ==
  ASSUME NEW Owner, NEW S \in SUBSET Claim(Owner), NEW c \in Claim(Owner),
         IsFiniteSet(Units(S)), c \notin S, NEW o
  PROVE  Total(ClaimsOf(S \cup {c}, o)) =
           Total(ClaimsOf(S, o)) + (IF c.order = o THEN c.amount ELSE 0)
<1>1. ClaimsOf(S, o) \in SUBSET S
  BY DEF ClaimsOf
<1>2. IsFiniteSet(Units(ClaimsOf(S, o))) /\ Total(ClaimsOf(S, o)) \in Nat
  BY <1>1, PartTotal, TotalType
<1>3. CASE c.order = o
  <2>1. ClaimsOf(S \cup {c}, o) = ClaimsOf(S, o) \cup {c}
    BY <1>3 DEF ClaimsOf
  <2>2. c \notin ClaimsOf(S, o)
    BY <1>1
  <2>3. Total(ClaimsOf(S, o) \cup {c}) = Total(ClaimsOf(S, o)) + c.amount
    BY <1>2, <2>2, AddClaim
  <2> QED
    BY <1>3, <2>1, <2>3
<1>4. CASE c.order # o
  <2>1. ClaimsOf(S \cup {c}, o) = ClaimsOf(S, o)
    BY <1>4 DEF ClaimsOf
  <2> QED
    BY <1>2, <1>4, <2>1
<1> QED
  BY <1>3, <1>4

LEMMA CloseClaimOf ==
  ASSUME NEW Owner, NEW S \in SUBSET Claim(Owner), NEW c \in S,
         IsFiniteSet(Units(S)), NEW o
  PROVE  /\ Total(ClaimsOf(S \ {c}, o)) =
              Total(ClaimsOf(S, o)) - (IF c.order = o THEN c.amount ELSE 0)
         /\ c.order = o => c.amount <= Total(ClaimsOf(S, o))
<1>1. ClaimsOf(S, o) \in SUBSET S /\ ClaimsOf(S, o) \in SUBSET Claim(Owner)
  BY DEF ClaimsOf
<1>2. IsFiniteSet(Units(ClaimsOf(S, o))) /\ Total(ClaimsOf(S, o)) \in Nat
  BY <1>1, PartTotal, TotalType
<1>3. CASE c.order = o
  <2>1. ClaimsOf(S \ {c}, o) = ClaimsOf(S, o) \ {c}
    BY DEF ClaimsOf
  <2>2. c \in ClaimsOf(S, o)
    BY <1>3 DEF ClaimsOf
  <2> QED
    BY <1>1, <1>2, <1>3, <2>1, <2>2, CloseClaim
<1>4. CASE c.order # o
  <2>1. ClaimsOf(S \ {c}, o) = ClaimsOf(S, o)
    BY <1>4 DEF ClaimsOf
  <2> QED
    BY <1>2, <1>4, <2>1
<1> QED
  BY <1>3, <1>4

-----------------------------------------------------------------------------
(* Channels.                                                               *)

LEMMA Appended ==
  ASSUME NEW S, NEW s \in Seq(S), NEW e \in S
  PROVE  /\ Append(s, e) \in Seq(S)
         /\ Len(s) \in Nat /\ Len(Append(s, e)) = Len(s) + 1
         /\ DOMAIN s = 1 .. Len(s)
         /\ DOMAIN Append(s, e) = (1 .. Len(s)) \cup {Len(s) + 1}
         /\ Len(s) + 1 \notin 1 .. Len(s)
         /\ \A i \in 1 .. Len(s) : s[i] \in S /\ Append(s, e)[i] = s[i]
         /\ Append(s, e)[Len(s) + 1] = e
BY AppendProperties, LenProperties, ElementOfSeq

LEMMA Shifted ==
  ASSUME NEW S, NEW s \in Seq(S), s # << >>
  PROVE  /\ Head(s) \in S /\ Head(s) = s[1]
         /\ Tail(s) \in Seq(S)
         /\ Len(s) \in Nat /\ Len(s) >= 1 /\ Len(Tail(s)) = Len(s) - 1
         /\ DOMAIN s = 1 .. Len(s)
         /\ DOMAIN Tail(s) = 1 .. (Len(s) - 1)
         /\ \A i \in 1 .. (Len(s) - 1) : i + 1 \in 1 .. Len(s) /\ Tail(s)[i] = s[i + 1]
         /\ \A j \in 1 .. Len(s) : j # 1 => j - 1 \in 1 .. (Len(s) - 1)
                                            /\ Tail(s)[j - 1] = s[j]
<1>1. /\ Head(s) \in S /\ Head(s) = s[1] /\ Tail(s) \in Seq(S)
      /\ Len(s) \in Nat /\ Len(s) >= 1 /\ Len(Tail(s)) = Len(s) - 1
      /\ DOMAIN s = 1 .. Len(s) /\ DOMAIN Tail(s) = 1 .. (Len(s) - 1)
  BY HeadTailProperties, ElementOfSeq, LenProperties, EmptySeq
<1>2. ASSUME NEW i \in 1 .. (Len(s) - 1)
      PROVE  i + 1 \in 1 .. Len(s) /\ Tail(s)[i] = s[i + 1]
  BY <1>1, HeadTailProperties
<1>3. ASSUME NEW j \in 1 .. Len(s), j # 1
      PROVE  j - 1 \in 1 .. (Len(s) - 1) /\ Tail(s)[j - 1] = s[j]
  <2>1. j - 1 \in 1 .. (Len(s) - 1) /\ (j - 1) + 1 = j
    BY <1>1, <1>3
  <2> QED
    BY <1>2, <2>1
<1> QED
  BY <1>1, <1>2, <1>3

\* How many messages of a kind a channel holds.
Among(s, T) == Cardinality({i \in DOMAIN s : s[i] \in T})

LEMMA AmongType ==
  ASSUME NEW S, NEW s \in Seq(S), NEW T
  PROVE  /\ IsFiniteSet({i \in DOMAIN s : s[i] \in T})
         /\ Among(s, T) \in Nat
<1>1. IsFiniteSet(1 .. Len(s)) /\ DOMAIN s = 1 .. Len(s)
  BY FS_Interval, LenProperties
<1>2. {i \in DOMAIN s : s[i] \in T} \in SUBSET (1 .. Len(s))
  BY <1>1
<1> QED
  BY <1>1, <1>2, FS_Subset, FS_CardinalityType DEF Among

LEMMA AmongNone ==
  ASSUME NEW T
  PROVE  Among(<< >>, T) = 0
<1>1. {i \in DOMAIN << >> : << >>[i] \in T} = {}
  OBVIOUS
<1> QED
  BY <1>1, FS_EmptySet DEF Among

LEMMA AmongAppend ==
  ASSUME NEW S, NEW s \in Seq(S), NEW x \in S, NEW T
  PROVE  Among(Append(s, x), T) = Among(s, T) + (IF x \in T THEN 1 ELSE 0)
<1> DEFINE A == {i \in DOMAIN s : s[i] \in T}
           B == {i \in DOMAIN Append(s, x) : Append(s, x)[i] \in T}
<1>1. IsFiniteSet(A) /\ Cardinality(A) \in Nat
  BY AmongType DEF Among
<1>2. /\ DOMAIN s = 1 .. Len(s)
      /\ DOMAIN Append(s, x) = (1 .. Len(s)) \cup {Len(s) + 1}
      /\ Len(s) + 1 \notin 1 .. Len(s)
      /\ \A i \in 1 .. Len(s) : Append(s, x)[i] = s[i]
      /\ Append(s, x)[Len(s) + 1] = x
  BY Appended
<1>3. CASE x \in T
  <2>1. B = A \cup {Len(s) + 1} /\ Len(s) + 1 \notin A
    BY <1>2, <1>3
  <2>2. Cardinality(B) = Cardinality(A) + 1
    BY <1>1, <2>1, FS_AddElement
  <2> QED
    BY <1>3, <2>2 DEF Among
<1>4. CASE x \notin T
  <2>1. B = A
    BY <1>2, <1>4
  <2> HIDE DEF A, B
  <2>2. Among(s, T) = Cardinality(A) /\ Among(Append(s, x), T) = Cardinality(B)
    BY DEF Among, A, B
  <2> QED
    BY <1>1, <1>4, <2>1, <2>2
<1> QED
  BY <1>3, <1>4

LEMMA AmongTail ==
  ASSUME NEW S, NEW s \in Seq(S), s # << >>, NEW T
  PROVE  /\ Among(Tail(s), T) = Among(s, T) - (IF Head(s) \in T THEN 1 ELSE 0)
         /\ Head(s) \in T => Among(s, T) >= 1
<1> DEFINE A == {i \in DOMAIN s : s[i] \in T}
           B == {i \in DOMAIN Tail(s) : Tail(s)[i] \in T}
           f == [i \in B |-> i + 1]
<1>1. /\ DOMAIN s = 1 .. Len(s) /\ DOMAIN Tail(s) = 1 .. (Len(s) - 1)
      /\ Len(s) \in Nat /\ Len(s) >= 1 /\ Head(s) = s[1] /\ Tail(s) \in Seq(S)
      /\ \A i \in 1 .. (Len(s) - 1) : i + 1 \in 1 .. Len(s) /\ Tail(s)[i] = s[i + 1]
      /\ \A j \in 1 .. Len(s) : j # 1 => j - 1 \in 1 .. (Len(s) - 1)
                                         /\ Tail(s)[j - 1] = s[j]
  BY Shifted
<1>2. /\ IsFiniteSet(A) /\ Cardinality(A) \in Nat
      /\ IsFiniteSet(B) /\ Cardinality(B) \in Nat
  <2>1. Tail(s) \in Seq(S)
    BY <1>1
  <2>2. IsFiniteSet(A) /\ IsFiniteSet(B)
    BY <2>1, AmongType
  <2> QED
    BY <2>2, FS_CardinalityType
<1>3. f \in [B -> A \ {1}]
  BY <1>1
<1>4. \A a, b \in B : f[a] = f[b] => a = b
  BY <1>1
<1>5. ASSUME NEW j \in A \ {1} PROVE \E i \in B : f[i] = j
  <2>1. j - 1 \in B /\ (j - 1) + 1 = j
    BY <1>1, <1>5
  <2> QED
    BY <2>1
<1> HIDE DEF f
<1>6. f \in Bijection(B, A \ {1})
  BY <1>3, <1>4, <1>5, Fun_IsBij
<1>7. Cardinality(A \ {1}) = Cardinality(B)
  BY <1>2, <1>6, Fun_ExistsBij, FS_Bijection
<1>8. /\ 1 \in A => Cardinality(A \ {1}) = Cardinality(A) - 1
      /\ 1 \notin A => Cardinality(A \ {1}) = Cardinality(A)
  BY <1>2, FS_RemoveElement
<1>9. 1 \in A <=> Head(s) \in T
  BY <1>1
<1> HIDE DEF A, B
<1>10. Among(s, T) = Cardinality(A) /\ Among(Tail(s), T) = Cardinality(B)
  BY DEF Among, A, B
<1> QED
  BY <1>2, <1>7, <1>8, <1>9, <1>10

-----------------------------------------------------------------------------
(* The trade.                                                              *)

\* What never changes once it is written.
StatusKept ==
    \A o \in OrderId :
      status[o] \in {"COMPLETED", "CANCELLED"} => status'[o] = status[o]

-----------------------------------------------------------------------------
(* The warrants as the trade keeps them: what is confirmed of them and what *)
(* awaits its result, the chain left aside.                                *)

Reserved(c) ==
    /\ confirmed + Total(warrants) + c.amount <= Holdings
    /\ confirmedBy[c.order] + Total(ClaimsOf(warrants, c.order)) + c.amount
         <= MaxToSell[c.order]
    /\ warrants' = warrants \cup {c}
    /\ issued' = issued + 1
    /\ UNCHANGED reportVars

\* A result takes its warrant away, and counts it if it was confirmed.
Credited(r) ==
    /\ confirmed' = confirmed + r.amount
    /\ confirmedBy' = [confirmedBy EXCEPT ![r.order] = @ + r.amount]

Reported(r) ==
    /\ warrants' = warrants \ {r}
    /\ Credited(r) \/ UNCHANGED reportVars
    /\ UNCHANGED issued

Bookkeeping ==
    \/ \E o \in OrderId, a \in 1 .. Holdings :
         Reserved([n |-> issued + 1, order |-> o, amount |-> a])
    \/ \E r \in warrants : Reported(r)

bookVars == <<warrants, reportVars, issued>>

\* With warrants numbered once, nothing beyond the holdings, nor beyond an
\* order's limit, is confirmed or promised.
BookTypeOK == /\ warrants \in SUBSET Claim(OrderId)
              /\ confirmed \in Nat
              /\ confirmedBy \in [OrderId -> Nat]
              /\ issued \in Nat

BookInv == /\ BookTypeOK
           /\ IsFiniteSet(Units(warrants))
           /\ \A w \in warrants : w.n <= issued
           /\ Covered

\* The owner's share of the warrants is a number.
LEMMA ShareType ==
  ASSUME NEW S, IsFiniteSet(Units(S)), NEW o
  PROVE  IsFiniteSet(Units(ClaimsOf(S, o))) /\ Total(ClaimsOf(S, o)) \in Nat
<1>1. ClaimsOf(S, o) \in SUBSET S
  BY DEF ClaimsOf
<1> QED
  BY <1>1, PartTotal, TotalType

\* No step of the book-keeping breaks it.
LEMMA BookStep ==
  ASSUME BookInv, [Bookkeeping]_bookVars
  PROVE  BookInv'
<1>1. ASSUME NEW o \in OrderId, NEW a \in 1 .. Holdings,
             Reserved([n |-> issued + 1, order |-> o, amount |-> a])
      PROVE  BookInv'
  <2> DEFINE c == [n |-> issued + 1, order |-> o, amount |-> a]
  <2>1. c \in Claim(OrderId) /\ c.n = issued + 1 /\ c.order = o /\ c.amount = a
    BY <1>1 DEF Claim, BookInv, BookTypeOK
  <2>2. c \notin warrants /\ warrants \in SUBSET Claim(OrderId) /\ issued \in Nat
    BY <2>1 DEF BookInv, BookTypeOK, Claim
  <2>3. /\ warrants' = warrants \cup {c}
        /\ issued' = issued + 1 /\ confirmed' = confirmed /\ confirmedBy' = confirmedBy
        /\ confirmed + Total(warrants) + c.amount <= Holdings
        /\ confirmedBy[o] + Total(ClaimsOf(warrants, o)) + c.amount <= MaxToSell[o]
    BY <1>1, <2>1 DEF Reserved, reportVars
  <2> HIDE DEF c
  <2>4. IsFiniteSet(Units(warrants)) /\ Total(warrants) \in Nat
    BY TotalType DEF BookInv
  <2>5. IsFiniteSet(Units(warrants')) /\ Total(warrants') = Total(warrants) + c.amount
    BY <2>1, <2>2, <2>3, <2>4, AddClaim
  <2>6. BookTypeOK' /\ (\A d \in warrants' : d.n <= issued')
    <3>1. \A d \in warrants : d.n \in Nat /\ d.n <= issued
      BY <2>2 DEF BookInv, Claim
    <3>2. BookTypeOK'
      BY <2>1, <2>2, <2>3 DEF BookInv, BookTypeOK
    <3>3. ASSUME NEW d \in warrants' PROVE d.n <= issued'
      <4>1. d \in warrants \/ d = c
        BY <2>3
      <4> QED
        BY <2>1, <2>2, <2>3, <3>1, <4>1
    <3> QED
      BY <3>2, <3>3
  <2>7. confirmed' + Total(warrants') <= Holdings
    <3>1. confirmed \in Nat /\ c.amount \in Nat
      BY <2>1 DEF BookInv, BookTypeOK, Claim
    <3> QED
      BY <2>3, <2>4, <2>5, <3>1, CountersellAssumption
  <2>8. ASSUME NEW p \in OrderId
        PROVE  confirmedBy'[p] + Total(ClaimsOf(warrants', p)) <= MaxToSell[p]
    <3>0. Total(ClaimsOf(warrants, p)) \in Nat
      BY <2>4, ShareType
    <3>1. /\ confirmedBy[p] \in Nat /\ MaxToSell[p] \in Nat /\ c.amount \in Nat
          /\ confirmedBy[p] + Total(ClaimsOf(warrants, p)) <= MaxToSell[p]
          /\ Total(ClaimsOf(warrants, p)) \in Nat
      BY <2>1, <3>0, CountersellAssumption
      DEF Covered, BookInv, BookTypeOK, Claim
    <3>2. Total(ClaimsOf(warrants \cup {c}, p)) =
            Total(ClaimsOf(warrants, p)) + (IF c.order = p THEN c.amount ELSE 0)
      BY <2>1, <2>2, <2>4, AddClaimOf
    <3>3. CASE p = o
      BY <2>1, <2>3, <3>1, <3>2, <3>3
    <3>4. CASE p # o
      BY <2>1, <2>3, <3>1, <3>2, <3>4
    <3> QED
      BY <3>3, <3>4
  <2> QED
    BY <2>5, <2>6, <2>7, <2>8
    DEF BookInv, Covered
<1>2. ASSUME NEW c \in warrants, Reported(c)
      PROVE  BookInv'
  <2>1. /\ c \in Claim(OrderId) /\ warrants \in SUBSET Claim(OrderId)
        /\ c.order \in OrderId /\ c.amount \in Nat /\ issued \in Nat
        /\ confirmed \in Nat /\ confirmedBy \in [OrderId -> Nat]
    BY DEF BookInv, BookTypeOK, Claim
  <2>2. warrants' = warrants \ {c} /\ issued' = issued
    BY <1>2 DEF Reported, Credited, reportVars
  <2>3. IsFiniteSet(Units(warrants)) /\ Total(warrants) \in Nat
    BY TotalType DEF BookInv
  <2>4. /\ IsFiniteSet(Units(warrants'))
        /\ Total(warrants') = Total(warrants) - c.amount
    BY <2>1, <2>2, <2>3, CloseClaim
  <2>5. \/ /\ confirmed' = confirmed + c.amount
           /\ confirmedBy' = [confirmedBy EXCEPT ![c.order] = @ + c.amount]
        \/ confirmed' = confirmed /\ confirmedBy' = confirmedBy
    BY <1>2 DEF Reported, Credited, reportVars
  <2>6. BookTypeOK' /\ (\A d \in warrants' : d.n <= issued')
    BY <2>1, <2>2, <2>5 DEF BookInv, BookTypeOK
  <2>7. confirmed' + Total(warrants') <= Holdings
    BY <2>1, <2>3, <2>4, <2>5, CountersellAssumption DEF Covered, BookInv
  <2>8. ASSUME NEW p \in OrderId
        PROVE  confirmedBy'[p] + Total(ClaimsOf(warrants', p)) <= MaxToSell[p]
    <3>1. /\ confirmedBy[p] \in Nat /\ MaxToSell[p] \in Nat
          /\ confirmedBy[p] + Total(ClaimsOf(warrants, p)) <= MaxToSell[p]
          /\ Total(ClaimsOf(warrants, p)) \in Nat
      BY <2>1, <2>3, ShareType, CountersellAssumption DEF Covered, BookInv
    <3>2. Total(ClaimsOf(warrants \ {c}, p)) =
            Total(ClaimsOf(warrants, p)) - (IF c.order = p THEN c.amount ELSE 0)
      BY <2>1, <2>3, CloseClaimOf
    <3>3. CASE p = c.order
      BY <2>1, <2>2, <2>5, <3>1, <3>2, <3>3
    <3>4. CASE p # c.order
      BY <2>1, <2>2, <2>5, <3>1, <3>2, <3>4
    <3> QED
      BY <3>3, <3>4
  <2> QED
    BY <2>4, <2>6, <2>7, <2>8
    DEF BookInv, Covered
<1>3. CASE UNCHANGED bookVars
  BY <1>3
  DEF bookVars, reportVars, BookInv, BookTypeOK, Covered
<1> QED
  BY <1>1, <1>2, <1>3 DEF Bookkeeping

\* The totals are numbers, and every entry is an order's.
LEMMA Totals ==
  ASSUME IInv
  PROVE  /\ IsFiniteSet(Units(warrants)) /\ Total(warrants) \in Nat
         /\ \A o : Total(ClaimsOf(warrants, o)) \in Nat
         /\ \A i \in 1 .. Len(entries) :
              /\ entries[i] \in OrderState
              /\ entries[i].id \in OrderId
              /\ entries[i].sold \in Nat
              /\ entries[i].pending \in Nat
         /\ \A i \in live : i \in 1 .. Len(entries)
<1>1. IsFiniteSet(Units(warrants))
  BY DEF IInv, Unique
<1>2. ASSUME NEW o PROVE Total(ClaimsOf(warrants, o)) \in Nat
  <2>1. ClaimsOf(warrants, o) \in SUBSET warrants
    BY DEF ClaimsOf
  <2> QED
    BY <1>1, <2>1, PartTotal, TotalType
<1>3. entries \in Seq(OrderState) /\ live \subseteq 1 .. Len(entries)
  BY DEF IInv, TradeTypeOK
<1>4. ASSUME NEW i \in 1 .. Len(entries) PROVE entries[i] \in OrderState
  BY <1>3
<1> QED
  BY <1>1, <1>2, <1>3, <1>4, TotalType DEF OrderState

\* Closing a warrant takes its amount off its order's share and off the whole.
LEMMA Closing ==
  ASSUME IInv, NEW r \in warrants, warrants' = warrants \ {r}
  PROVE  /\ r.order \in OrderId /\ r.amount \in Nat /\ r.amount > 0
         /\ r.amount <= Total(warrants)
         /\ r.amount <= Total(ClaimsOf(warrants, r.order))
         /\ Total(warrants') = Total(warrants) - r.amount
         /\ Total(ClaimsOf(warrants', r.order)) =
              Total(ClaimsOf(warrants, r.order)) - r.amount
         /\ \A o : o # r.order => Total(ClaimsOf(warrants', o))
                                  = Total(ClaimsOf(warrants, o))
         /\ \A o : ClaimsOf(warrants, o) = {} => ClaimsOf(warrants', o) = {}
         /\ Pushed(r.order)
<1>1. warrants \in SUBSET Claim(OrderId) /\ IsFiniteSet(Units(warrants))
  BY DEF IInv, TradeTypeOK, Unique
<1>2. r.order \in OrderId /\ r.amount \in Nat /\ r.amount > 0
  BY <1>1 DEF Claim
<1>3. /\ Total(warrants \ {r}) = Total(warrants) - r.amount
      /\ r.amount <= Total(warrants)
  BY <1>1, CloseClaim
<1>4. \A o : /\ Total(ClaimsOf(warrants \ {r}, o)) =
                  Total(ClaimsOf(warrants, o))
                    - (IF r.order = o THEN r.amount ELSE 0)
             /\ r.order = o => r.amount <= Total(ClaimsOf(warrants, o))
  BY <1>1, CloseClaimOf
<1>5. r \in ClaimsOf(warrants, r.order)
  BY DEF ClaimsOf
<1>6. Pushed(r.order)
  BY <1>2, <1>5 DEF IInv, PushedFirst
<1>7. \A o : ClaimsOf(warrants, o) = {} => ClaimsOf(warrants \ {r}, o) = {}
  BY DEF ClaimsOf
<1>8. ASSUME NEW o, o # r.order
      PROVE  Total(ClaimsOf(warrants \ {r}, o)) = Total(ClaimsOf(warrants, o))
  <2>1. Total(ClaimsOf(warrants, o)) \in Nat
    BY Totals
  <2>2. Total(ClaimsOf(warrants \ {r}, o)) = Total(ClaimsOf(warrants, o)) - 0
    BY <1>4, <1>8
  <2> QED
    BY <2>1, <2>2
<1> QED
  BY <1>2, <1>3, <1>4, <1>6, <1>7, <1>8

\* A found order is the only entry with its id.
LEMMA FoundOnly ==
  ASSUME IInv, NEW i \in live, NEW o, Found(i, o)
  PROVE  /\ entries[i].id = o
         /\ \A j \in 1 .. Len(entries) : entries[j].id = o => j = i
BY Totals DEF Found, IInv, Unique

-----------------------------------------------------------------------------
\* What issue_warrant books fits the order's and the wallet's room.
LEMMA IssueFits ==
  ASSUME IInv, NEW net \in NetBuy, NEW mcap \in Mcap, NEW ideal \in Quote,
         IssueWarrant(net, mcap, ideal)
  PROVE  \E i \in live, a \in 1 .. Holdings :
           LET o == entries[i].id
               w == [n |-> issued + 1, order |-> o, amount |-> a]
           IN  /\ ~complete
               /\ o \in OrderId
               /\ confirmed + Total(warrants) + a <= Holdings
               /\ confirmedBy[o] + Total(ClaimsOf(warrants, o)) + a <= MaxToSell[o]
               /\ warrants' = warrants \cup {w}
               /\ issued' = issued + 1
               /\ entries' = [entries EXCEPT ![i].pending = @ + a]
               /\ totalPending' = totalPending + a
               /\ UNCHANGED <<live, totalSold, failures, complete, dbVars,
                              reportVars>>
<1>1. PICK k \in Triggered(net, mcap), i \in live :
        LET w == [n |-> issued + 1, order |-> entries[i].id,
                  amount |-> Amount(i, ideal)]
        IN  Book(i, w) /\ warrants' = warrants \cup {w}
  BY DEF IssueWarrant
<1> DEFINE a == Amount(i, ideal)
           o == entries[i].id
<1>2. /\ ~complete /\ issued' = issued + 1
      /\ UNCHANGED <<dbVars, reportVars>>
  BY DEF IssueWarrant
<1>3. /\ a > 0
      /\ entries' = [entries EXCEPT ![i].pending = @ + a]
      /\ totalPending' = AddW(totalPending, a)
      /\ UNCHANGED <<live, totalSold, failures, complete>>
  BY <1>1 DEF Book
<1>4. /\ o \in OrderId /\ MaxToSell[o] \in Nat /\ MaxToSell[o] < Word
      /\ Word \in Nat /\ Holdings \in Nat /\ Holdings < Word /\ ideal \in Nat
  BY Totals, CountersellAssumption
<1>5. /\ entries[i].sold = confirmedBy[o] /\ confirmedBy[o] \in Nat
      /\ entries[i].pending = Total(ClaimsOf(warrants, o))
      /\ Total(ClaimsOf(warrants, o)) \in Nat
      /\ confirmedBy[o] + Total(ClaimsOf(warrants, o)) <= MaxToSell[o]
  <2>1. confirmedBy[o] + Total(ClaimsOf(warrants, o)) <= MaxToSell[o]
    BY <1>4 DEF Covered, IInv
  <2> QED
    BY <1>4, <2>1, Totals DEF IInv, TradeTypeOK, OrdersBooked
<1>6. /\ totalSold = confirmed /\ confirmed \in Nat
      /\ totalPending = Total(warrants) /\ Total(warrants) \in Nat
      /\ confirmed + Total(warrants) <= Holdings
  <2>1. confirmed + Total(warrants) <= Holdings
    BY DEF Covered, IInv
  <2> QED
    BY <1>2, <2>1, Totals DEF IInv, TradeTypeOK, CountersBooked
<1>7. Room(entries[i]) = MaxToSell[o] - (confirmedBy[o] + Total(ClaimsOf(warrants, o)))
  BY <1>4, <1>5 DEF Room, Monus, AddW
<1>8. Monus(Holdings, AddW(totalSold, totalPending))
        = Holdings - (confirmed + Total(warrants))
  BY <1>4, <1>6 DEF Monus, AddW
<1>9. /\ a \in Nat
      /\ a <= MaxToSell[o] - (confirmedBy[o] + Total(ClaimsOf(warrants, o)))
      /\ a <= Holdings - (confirmed + Total(warrants))
  BY <1>4, <1>5, <1>6, <1>7, <1>8 DEF Amount, Least
<1>10. totalPending' = totalPending + a
  BY <1>3, <1>4, <1>6, <1>9 DEF AddW
<1> HIDE DEF a
<1>11. a \in 1 .. Holdings
  BY <1>3, <1>4, <1>6, <1>9
<1>12. warrants' = warrants \cup {[n |-> issued + 1, order |-> o, amount |-> a]}
  BY <1>1 DEF a
<1>13. /\ confirmed + Total(warrants) + a <= Holdings
       /\ confirmedBy[o] + Total(ClaimsOf(warrants, o)) + a <= MaxToSell[o]
  BY <1>4, <1>5, <1>6, <1>9
<1> QED
  BY <1>2, <1>3, <1>4, <1>10, <1>11, <1>12, <1>13

\* Every step of the trade keeps these books, or leaves them alone.
LEMMA Books ==
  ASSUME IInv, [Next]_vars
  PROVE  [Bookkeeping]_bookVars
<1>1. ASSUME NEW net \in NetBuy, NEW mcap \in Mcap, NEW ideal \in Quote,
             IssueWarrant(net, mcap, ideal)
      PROVE  Bookkeeping
  <2>1. PICK i \in live, a \in 1 .. Holdings :
           LET o == entries[i].id
               w == [n |-> issued + 1, order |-> o, amount |-> a]
           IN  /\ o \in OrderId
               /\ confirmed + Total(warrants) + a <= Holdings
               /\ confirmedBy[o] + Total(ClaimsOf(warrants, o)) + a <= MaxToSell[o]
               /\ warrants' = warrants \cup {w}
               /\ issued' = issued + 1
               /\ UNCHANGED reportVars
    BY <1>1, IssueFits
  <2>2. Reserved([n |-> issued + 1, order |-> entries[i].id, amount |-> a])
    BY <2>1 DEF Reserved, reportVars
  <2> QED
    BY <2>1, <2>2 DEF Bookkeeping
<1>2. ASSUME NEW r \in warrants, NEW b \in BOOLEAN,
             Confirm(r, b) \/ Fail(r) \/ DropResult(r, b)
      PROVE  Reported(r)
  BY <1>2
  DEF Confirm, Fail, DropResult, ReportConfirmed, ReportFailed, Reported, Credited
<1>3. ASSUME NEW o \in OrderId, Add(o) \/ Remove(o)
      PROVE  UNCHANGED bookVars
  BY <1>3 DEF Add, Remove, bookVars, reportVars
<1>4. CASE UNCHANGED vars \/ Landing
  BY <1>4 DEF vars, Landing, bookVars, reportVars
<1> QED
  BY <1>1, <1>2, <1>3, <1>4 DEF Next, Bookkeeping

\* So they are still covered in the next state.
LEMMA BooksCarry ==
  ASSUME IInv, [Next]_vars
  PROVE  /\ warrants' \in SUBSET Claim(OrderId)
         /\ confirmed' \in Nat
         /\ confirmedBy' \in [OrderId -> Nat]
         /\ issued' \in Nat
         /\ IsFiniteSet(Units(warrants'))
         /\ \A w \in warrants' : w.n <= issued'
         /\ Covered'
<1>1. BookInv
  BY DEF IInv, TradeTypeOK, Unique, BookInv, BookTypeOK
<1>2. BookInv'
  BY <1>1, Books, BookStep
<1> QED
  BY <1>2 DEF BookInv, BookTypeOK

-----------------------------------------------------------------------------
\* Booking on an entry changes that entry's amounts and nothing else.
LEMMA UpdateEntry ==
  ASSUME NEW es \in Seq(OrderState), NEW i \in 1 .. Len(es),
         NEW e \in OrderState, e.id = es[i].id
  PROVE  /\ [es EXCEPT ![i] = e] \in Seq(OrderState)
         /\ Len([es EXCEPT ![i] = e]) = Len(es)
         /\ \A j \in 1 .. Len(es) : [es EXCEPT ![i] = e][j].id = es[j].id
         /\ \A j \in 1 .. Len(es) : j # i => [es EXCEPT ![i] = e][j] = es[j]
         /\ [es EXCEPT ![i] = e][i] = e
BY ExceptSeq

\* Issuing a warrant keeps the invariant.
LEMMA IssueStep ==
  ASSUME IInv, NEW net \in NetBuy, NEW mcap \in Mcap, NEW ideal \in Quote,
         IssueWarrant(net, mcap, ideal)
  PROVE  IInv' /\ StatusKept
<1>1. PICK i \in live, a \in 1 .. Holdings :
        LET o == entries[i].id
            w == [n |-> issued + 1, order |-> o, amount |-> a]
        IN  /\ ~complete
            /\ o \in OrderId
            /\ confirmed + Total(warrants) + a <= Holdings
            /\ confirmedBy[o] + Total(ClaimsOf(warrants, o)) + a <= MaxToSell[o]
            /\ warrants' = warrants \cup {w}
            /\ issued' = issued + 1
            /\ entries' = [entries EXCEPT ![i].pending = @ + a]
            /\ totalPending' = totalPending + a
            /\ UNCHANGED <<live, totalSold, failures, complete, dbVars,
                           reportVars>>
  BY IssueFits
<1> DEFINE o == entries[i].id
           w == [n |-> issued + 1, order |-> o, amount |-> a]
<1>2. /\ a \in Nat /\ a > 0 /\ Holdings \in Nat
      /\ o \in OrderId /\ i \in 1 .. Len(entries)
      /\ entries \in Seq(OrderState) /\ entries[i] \in OrderState
  <2>1. a \in Nat /\ a > 0 /\ Holdings \in Nat
    BY CountersellAssumption
  <2>2. o \in OrderId
    BY <1>1
  <2>3. i \in 1 .. Len(entries) /\ entries[i] \in OrderState
    BY Totals
  <2>4. entries \in Seq(OrderState)
    BY DEF IInv, TradeTypeOK
  <2> QED
    BY <2>1, <2>2, <2>3, <2>4
<1>3. /\ entries' \in Seq(OrderState) /\ Len(entries') = Len(entries)
      /\ \A j \in 1 .. Len(entries) : entries'[j].id = entries[j].id
      /\ \A j \in 1 .. Len(entries) : j # i => entries'[j] = entries[j]
      /\ entries'[i].sold = entries[i].sold
      /\ entries'[i].pending = entries[i].pending + a
  <2> DEFINE e == [entries[i] EXCEPT !.pending = entries[i].pending + a]
  <2>1. entries[i].pending + a \in Nat
    BY <1>2, Totals
  <2>2. /\ e \in OrderState /\ e.id = entries[i].id /\ e.sold = entries[i].sold
        /\ e.pending = entries[i].pending + a
    BY <1>2, <2>1 DEF OrderState
  <2>3. entries' = [entries EXCEPT ![i] = e]
    BY <1>1
  <2> HIDE DEF e
  <2> QED
    BY <1>2, <2>2, <2>3, UpdateEntry
<1>4. /\ Total(warrants') = Total(warrants) + a
      /\ \A p : Total(ClaimsOf(warrants', p)) =
             Total(ClaimsOf(warrants, p)) + (IF o = p THEN a ELSE 0)
      /\ \A p : p # o => ClaimsOf(warrants', p) = ClaimsOf(warrants, p)
  <2>1. /\ warrants \in SUBSET Claim(OrderId) /\ IsFiniteSet(Units(warrants))
        /\ issued \in Nat /\ \A c \in warrants : c.n <= issued
    BY DEF IInv, TradeTypeOK, Unique
  <2>2. w \in Claim(OrderId) /\ w \notin warrants /\ w.amount = a /\ w.order = o
    BY <1>2, <2>1 DEF Claim
  <2>3. warrants' = warrants \cup {w}
    BY <1>1
  <2> HIDE DEF w
  <2>4. Total(warrants \cup {w}) = Total(warrants) + a
    BY <2>1, <2>2, AddClaim
  <2>5. \A p : Total(ClaimsOf(warrants \cup {w}, p)) =
             Total(ClaimsOf(warrants, p)) + (IF o = p THEN a ELSE 0)
    BY <2>1, <2>2, AddClaimOf
  <2>6. \A p : p # o => ClaimsOf(warrants \cup {w}, p) = ClaimsOf(warrants, p)
    BY <2>2 DEF ClaimsOf
  <2> QED
    BY <2>3, <2>4, <2>5, <2>6
<1>5. /\ warrants' \in SUBSET Claim(OrderId) /\ issued' \in Nat
      /\ IsFiniteSet(Units(warrants')) /\ \A v \in warrants' : v.n <= issued'
      /\ Covered'
  BY BooksCarry DEF Next
<1>6. /\ UNCHANGED <<live, totalSold, failures, complete, status, dbSold,
                     confirmed, confirmedBy>>
  BY <1>1 DEF dbVars, reportVars
<1>7. TradeTypeOK'
  <2>1. totalPending' \in Nat
    BY <1>1, <1>2 DEF IInv, TradeTypeOK
  <2> QED
    BY <1>3, <1>5, <1>6, <2>1 DEF IInv, TradeTypeOK
<1>8. Unique'
  BY <1>3, <1>5 DEF IInv, Unique
<1>9. PushedFirst'
  <2>1. Pushed(o)
    BY <1>2 DEF Pushed
  <2>2. \A p : Pushed(p)' = Pushed(p)
    BY <1>3 DEF Pushed
  <2> QED
    BY <1>4, <1>6, <2>1, <2>2 DEF IInv, PushedFirst
<1>10. CountersBooked'
  BY <1>1, <1>4, <1>6 DEF IInv, CountersBooked
<1>11. OrdersBooked'
  <2> SUFFICES ASSUME NEW j \in live
               PROVE  /\ entries'[j].pending
                           = Total(ClaimsOf(warrants', entries'[j].id))
                      /\ entries'[j].sold = confirmedBy[entries'[j].id]
    BY <1>6 DEF OrdersBooked
  <2>1. /\ j \in 1 .. Len(entries)
        /\ entries[j].pending = Total(ClaimsOf(warrants, entries[j].id))
        /\ entries[j].sold = confirmedBy[entries[j].id]
    BY Totals DEF IInv, OrdersBooked
  <2>2. CASE j = i
    BY <1>3, <1>4, <2>1, <2>2
  <2>3. CASE j # i
    <3>1. entries[j].id # o
      BY <1>2, <2>1, <2>3 DEF IInv, Unique
    <3>2. Total(ClaimsOf(warrants, entries[j].id)) \in Nat
      BY Totals
    <3> QED
      BY <1>3, <1>4, <2>1, <2>3, <3>1, <3>2
  <2> QED
    BY <2>2, <2>3
<1>12. LiveActive' /\ GoneDone'
  BY <1>3, <1>6, Totals DEF IInv, LiveActive, GoneDone
<1>13. CompleteWhy' /\ CompletedIsSold' /\ ActiveUnrecorded' /\ StatusKept
  BY <1>6
  DEF IInv, CompleteWhy, CompletedIsSold, ActiveUnrecorded, StatusKept
<1> QED
  BY <1>5, <1>7, <1>8, <1>9, <1>10, <1>11, <1>12, <1>13 DEF IInv

-----------------------------------------------------------------------------
\* A sale closed by its result leaves every order in the Vec exact, whether
\* its order is still there or not.
LEMMA SaleExact ==
  ASSUME IInv, NEW r \in warrants, warrants' = warrants \ {r}, Credited(r),
         live' \subseteq live,
         \/ \E i \in live : Found(i, r.order) /\ Sell(r, i)
         \/ Absent(r.order) /\ entries' = entries
  PROVE  /\ entries' \in Seq(OrderState) /\ Len(entries') = Len(entries)
         /\ \A j \in 1 .. Len(entries) : entries'[j].id = entries[j].id
         /\ \A j \in live : entries'[j].sold = confirmedBy'[entries[j].id]
         /\ OrdersBooked'
<1>1. /\ r.order \in OrderId /\ r.amount \in Nat /\ r.amount > 0
      /\ r.amount <= Total(ClaimsOf(warrants, r.order))
      /\ Total(ClaimsOf(warrants', r.order)) =
           Total(ClaimsOf(warrants, r.order)) - r.amount
      /\ \A o : o # r.order => Total(ClaimsOf(warrants', o))
                               = Total(ClaimsOf(warrants, o))
  BY Closing
<1>2. /\ \A o : Total(ClaimsOf(warrants, o)) \in Nat
      /\ \A j \in live :
           /\ j \in 1 .. Len(entries)
           /\ entries[j].id \in OrderId
           /\ entries[j].pending = Total(ClaimsOf(warrants, entries[j].id))
           /\ entries[j].sold = confirmedBy[entries[j].id]
  BY Totals DEF IInv, OrdersBooked
<1>3. entries \in Seq(OrderState) /\ confirmedBy \in [OrderId -> Nat]
  BY DEF IInv, TradeTypeOK
<1>4. confirmedBy' = [confirmedBy EXCEPT ![r.order] = @ + r.amount]
  BY DEF Credited
<1>5. CASE \E i \in live : Found(i, r.order) /\ Sell(r, i)
  <2>1. PICK i \in live : Found(i, r.order) /\ Sell(r, i)
    BY <1>5
  <2>2. /\ entries[i].id = r.order
        /\ \A j \in 1 .. Len(entries) : entries[j].id = r.order => j = i
    BY <2>1, FoundOnly
  <2> DEFINE e == [entries[i] EXCEPT !.pending = entries[i].pending - r.amount,
                                     !.sold = entries[i].sold + r.amount]
  <2>3. entries[i] \in OrderState /\ i \in 1 .. Len(entries)
    BY Totals
  <2>4. /\ entries[i].pending - r.amount \in Nat
        /\ Monus(entries[i].pending, r.amount) = entries[i].pending - r.amount
        /\ entries[i].sold + r.amount \in Nat
    BY <1>1, <1>2, <2>2, <2>3 DEF Monus, OrderState
  <2>5. /\ e \in OrderState /\ e.id = entries[i].id
        /\ e.sold = entries[i].sold + r.amount
        /\ e.pending = entries[i].pending - r.amount
    BY <2>3, <2>4 DEF OrderState
  <2>6. entries' = [entries EXCEPT ![i] = e]
    BY <2>1, <2>4 DEF Sell
  <2> HIDE DEF e
  <2>7. /\ entries' \in Seq(OrderState) /\ Len(entries') = Len(entries)
        /\ \A j \in 1 .. Len(entries) : entries'[j].id = entries[j].id
        /\ \A j \in 1 .. Len(entries) : j # i => entries'[j] = entries[j]
        /\ entries'[i] = e
    BY <1>3, <2>3, <2>5, <2>6, UpdateEntry
  <2>8. ASSUME NEW j \in live
        PROVE  /\ entries'[j].sold = confirmedBy'[entries[j].id]
               /\ entries'[j].pending
                    = Total(ClaimsOf(warrants', entries[j].id))
    <3>1. CASE j = i
      BY <1>1, <1>2, <1>3, <1>4, <2>2, <2>5, <2>7, <3>1
    <3>2. CASE j # i
      <4>1. entries[j].id # r.order /\ entries'[j] = entries[j]
        BY <1>2, <2>2, <2>7, <3>2
      <4>2. confirmedBy'[entries[j].id] = confirmedBy[entries[j].id]
        BY <1>2, <1>3, <1>4, <4>1
      <4>3. Total(ClaimsOf(warrants', entries[j].id))
              = Total(ClaimsOf(warrants, entries[j].id))
        BY <1>1, <1>2, <4>1
      <4> QED
        BY <1>2, <4>1, <4>2, <4>3
    <3> QED
      BY <3>1, <3>2
  <2> QED
    BY <1>2, <2>7, <2>8 DEF OrdersBooked
<1>6. CASE Absent(r.order) /\ entries' = entries
  <2>1. ASSUME NEW j \in live
        PROVE  /\ entries[j].sold = confirmedBy'[entries[j].id]
               /\ entries[j].pending = Total(ClaimsOf(warrants', entries[j].id))
    <3>1. entries[j].id # r.order
      BY <1>6 DEF Absent
    <3>2. confirmedBy'[entries[j].id] = confirmedBy[entries[j].id]
      BY <1>2, <1>3, <1>4, <3>1
    <3>3. Total(ClaimsOf(warrants', entries[j].id))
            = Total(ClaimsOf(warrants, entries[j].id))
      BY <1>1, <1>2, <3>1
    <3> QED
      BY <1>2, <3>2, <3>3
  <2> QED
    BY <1>3, <1>6, <2>1 DEF OrdersBooked
<1> QED
  BY <1>5, <1>6

\* The completion check gives every order that leaves the Vec, and every order
\* of a trade that ends, the status it deserves.
LEMMA Completion ==
  ASSUME IInv, ~complete, NEW st \in [OrderId -> Status],
         Len(entries') = Len(entries),
         \A j \in 1 .. Len(entries) : entries'[j].id = entries[j].id,
         \A j \in live : entries'[j].sold = confirmedBy'[entries[j].id],
         totalSold' = confirmed',
         confirmedBy' \in [OrderId -> Nat],
         \A o \in OrderId : confirmedBy[o] <= confirmedBy'[o],
         \A o \in OrderId : dbSold'[o] <= confirmedBy'[o],
         \A o \in OrderId : st[o] # status[o] =>
           /\ st[o] = "COMPLETED" /\ confirmedBy'[o] >= MaxToSell[o]
           /\ \E j \in live : entries[j].id = o,
         \A o \in OrderId : st[o] = "ACTIVE" /\ confirmedBy'[o] >= MaxToSell[o]
           => dbSold'[o] < confirmedBy'[o] \/ MaxToSell[o] = 0,
         CheckCompletion(st)
  PROVE  /\ live' \subseteq live /\ complete' \in BOOLEAN
         /\ status' \in [OrderId -> Status]
         /\ \A o \in OrderId : status'[o] = "ACTIVE" => status[o] = "ACTIVE"
         /\ LiveActive' /\ GoneDone' /\ CompleteWhy' /\ CompletedIsSold'
         /\ ActiveUnrecorded' /\ StatusKept
<1> DEFINE remaining ==
             {i \in live : entries'[i].sold < MaxToSell[entries[i].id]}
           exhausted == totalSold' >= Holdings
<1>1. /\ live' = remaining
      /\ complete' = (remaining = {} \/ exhausted)
      /\ status' = IF exhausted THEN Marked(st, remaining, "CANCELLED") ELSE st
  BY DEF CheckCompletion
<1>2. /\ MaxToSell \in [OrderId -> Nat]
      /\ status \in [OrderId -> Status] /\ confirmedBy \in [OrderId -> Nat]
  BY CountersellAssumption DEF IInv, TradeTypeOK
<1>3. \A j \in live : /\ j \in 1 .. Len(entries) /\ entries[j].id \in OrderId
                      /\ status[entries[j].id] = "ACTIVE"
  BY Totals DEF IInv, LiveActive
<1>4. \A j \in remaining : /\ entries'[j].id = entries[j].id
                           /\ st[entries[j].id] = "ACTIVE"
                           /\ j \in live
  <2> SUFFICES ASSUME NEW j \in remaining PROVE st[entries[j].id] = "ACTIVE"
    BY <1>3
  <2>1. /\ j \in live /\ entries[j].id \in OrderId
        /\ confirmedBy'[entries[j].id] < MaxToSell[entries[j].id]
    BY <1>3
  <2>2. ~(confirmedBy'[entries[j].id] >= MaxToSell[entries[j].id])
    BY <1>2, <2>1
  <2> QED
    BY <1>3, <2>1, <2>2
<1>5. ASSUME NEW o \in OrderId
      PROVE  \/ status'[o] = st[o]
             \/ /\ exhausted /\ status'[o] = "CANCELLED"
                /\ \E j \in remaining : entries'[j].id = o
  BY <1>1, <1>3 DEF Marked
<1>6. \A j \in remaining : exhausted => status'[entries'[j].id] = "CANCELLED"
  BY <1>1, <1>3, <1>4 DEF Marked
<1>7. status' \in [OrderId -> Status]
  BY <1>1 DEF Marked, Status
<1>8. ~exhausted => status' = st
  BY <1>1
<1>9. remaining \subseteq live
  OBVIOUS
<1>10. \A j \in live : j \notin remaining =>
         confirmedBy'[entries[j].id] >= MaxToSell[entries[j].id]
  BY <1>2, <1>3
<1> HIDE DEF remaining, exhausted
<1>11. LiveActive'
  <2>1. ASSUME NEW j \in remaining
        PROVE  status'[entries'[j].id]
                 = (IF complete' THEN "CANCELLED" ELSE "ACTIVE")
    <3>1. CASE exhausted
      BY <1>1, <1>6, <3>1
    <3>2. CASE ~exhausted
      BY <1>1, <1>4, <1>8, <3>2
    <3> QED
      BY <3>1, <3>2
  <2> QED
    BY <1>1, <2>1 DEF LiveActive
<1>12. GoneDone'
  <2> SUFFICES ASSUME NEW j \in 1 .. Len(entries), j \notin remaining
               PROVE  \/ status'[entries[j].id] = "CANCELLED"
                      \/ confirmedBy'[entries[j].id] >= MaxToSell[entries[j].id]
    BY <1>1 DEF GoneDone
  <2>1. entries[j].id \in OrderId
    BY Totals
  <2>2. CASE j \in live
    BY <1>10, <2>2
  <2>3. CASE j \notin live
    <3>1. \/ status[entries[j].id] = "CANCELLED"
          \/ confirmedBy[entries[j].id] >= MaxToSell[entries[j].id]
      BY <2>3 DEF IInv, GoneDone
    <3>2. CASE status[entries[j].id] = "CANCELLED"
      <4>1. st[entries[j].id] = "CANCELLED"
        BY <1>3, <2>1, <3>2
      <4> QED
        BY <1>5, <2>1, <4>1
    <3>3. CASE confirmedBy[entries[j].id] >= MaxToSell[entries[j].id]
      BY <1>2, <2>1, <3>3
    <3> QED
      BY <3>1, <3>2, <3>3
  <2> QED
    BY <2>2, <2>3
<1>13. CompleteWhy'
  BY <1>1 DEF CompleteWhy, exhausted
<1>14. CompletedIsSold'
  <2> SUFFICES ASSUME NEW o \in OrderId, status'[o] = "COMPLETED"
               PROVE  confirmedBy'[o] >= MaxToSell[o]
    BY DEF CompletedIsSold
  <2>1. st[o] = "COMPLETED"
    BY <1>5
  <2>2. CASE status[o] = "COMPLETED"
    <3>1. confirmedBy[o] >= MaxToSell[o]
      BY <2>2 DEF IInv, CompletedIsSold
    <3> QED
      BY <1>2, <3>1
  <2> QED
    BY <2>1, <2>2
<1>15. ActiveUnrecorded'
  BY <1>5 DEF ActiveUnrecorded
<1>16. StatusKept
  <2> SUFFICES ASSUME NEW o \in OrderId, status[o] \in {"COMPLETED", "CANCELLED"}
               PROVE  status'[o] = status[o]
    BY DEF StatusKept
  <2>1. \A j \in live : entries[j].id # o
    BY <1>3
  <2> QED
    BY <1>3, <1>4, <1>5, <1>9, <2>1
<1>17. \A o \in OrderId : status'[o] = "ACTIVE" => status[o] = "ACTIVE"
  BY <1>5
<1>18. complete' \in BOOLEAN
  BY <1>1
<1> QED
  BY <1>1, <1>7, <1>9, <1>11, <1>12, <1>13, <1>14, <1>15, <1>16, <1>17, <1>18

\* What a result does to the orders and to their rows.
OrdersKept ==
    /\ live' \subseteq live /\ complete' \in BOOLEAN
    /\ entries' \in Seq(OrderState) /\ Len(entries') = Len(entries)
    /\ \A j \in 1 .. Len(entries) : entries'[j].id = entries[j].id
    /\ OrdersBooked'
    /\ status' \in [OrderId -> Status] /\ dbSold' \in [OrderId -> Nat]
    /\ \A o \in OrderId : status'[o] = "ACTIVE" => status[o] = "ACTIVE"
    /\ LiveActive' /\ GoneDone' /\ CompleteWhy' /\ CompletedIsSold'
    /\ ActiveUnrecorded' /\ StatusKept

\* What every result, or its loss, leaves in place.
LEMMA ResultKeeps ==
  ASSUME IInv, NEW r \in warrants, NEW b \in BOOLEAN,
         Confirm(r, b) \/ Fail(r) \/ DropResult(r, b),
         entries' \in Seq(OrderState), Len(entries') = Len(entries),
         \A j \in 1 .. Len(entries) : entries'[j].id = entries[j].id,
         \A o \in OrderId : status'[o] = "ACTIVE" => status[o] = "ACTIVE"
  PROVE  /\ warrants' \in SUBSET Claim(OrderId) /\ issued' \in Nat
         /\ confirmed' \in Nat /\ confirmedBy' \in [OrderId -> Nat]
         /\ Covered' /\ Unique' /\ PushedFirst'
<1>1. warrants' = warrants \ {r} /\ (Credited(r) \/ UNCHANGED reportVars)
  BY DEF Confirm, Fail, DropResult, ReportConfirmed, ReportFailed, Credited
<1>2. [Next]_vars
  BY DEF Next
<1>3. /\ warrants' \in SUBSET Claim(OrderId) /\ issued' \in Nat
      /\ confirmed' \in Nat /\ confirmedBy' \in [OrderId -> Nat]
      /\ Covered' /\ IsFiniteSet(Units(warrants'))
      /\ \A w \in warrants' : w.n <= issued'
  BY <1>2, BooksCarry
<1>4. Unique'
  BY <1>3 DEF IInv, Unique
<1>5. /\ Pushed(r.order) /\ confirmedBy \in [OrderId -> Nat]
      /\ \A o : ClaimsOf(warrants, o) = {} => ClaimsOf(warrants', o) = {}
  BY <1>1, Closing DEF IInv, TradeTypeOK
<1>6. PushedFirst'
  <2> SUFFICES ASSUME NEW o \in OrderId, ~Pushed(o)'
               PROVE  /\ ClaimsOf(warrants', o) = {}
                      /\ confirmedBy'[o] = 0 /\ status'[o] # "ACTIVE"
    BY DEF PushedFirst
  <2>1. ~Pushed(o)
    BY DEF Pushed
  <2>2. o # r.order
    BY <1>5, <2>1
  <2>3. confirmedBy'[o] = confirmedBy[o]
    BY <1>1, <1>5, <2>2 DEF Credited, reportVars
  <2> QED
    BY <1>5, <2>1, <2>3 DEF IInv, PushedFirst
<1> QED
  BY <1>3, <1>4, <1>6

\* A confirmed result keeps the invariant, whether or not the sale's details
\* could be fetched and whether or not its order is still in the Vec.
LEMMA ConfirmStep ==
  ASSUME IInv, NEW r \in warrants, NEW fetched \in BOOLEAN, Confirm(r, fetched)
  PROVE  IInv' /\ StatusKept
<1>1. /\ ~complete /\ warrants' = warrants \ {r} /\ Credited(r)
      /\ OnConfirmed(r, fetched) /\ failures' = 0
      /\ totalPending' = SubW(totalPending, r.amount)
      /\ totalSold' = AddW(totalSold, r.amount)
  BY DEF Confirm, ReportConfirmed, Credited, OnConfirmed
<1>2. /\ r.order \in OrderId /\ r.amount \in Nat /\ r.amount > 0
      /\ r.amount <= Total(warrants) /\ Total(warrants) \in Nat
      /\ Total(warrants') = Total(warrants) - r.amount
  BY <1>1, Closing, Totals
<1>3. /\ confirmed \in Nat /\ confirmedBy \in [OrderId -> Nat]
      /\ dbSold \in [OrderId -> Nat] /\ status \in [OrderId -> Status]
      /\ confirmed' = confirmed + r.amount
      /\ confirmedBy' = [confirmedBy EXCEPT ![r.order] = @ + r.amount]
  BY <1>1 DEF IInv, TradeTypeOK, Credited
<1>4. totalPending' = Total(warrants') /\ totalSold' = confirmed'
  <2>1. /\ totalPending = Total(warrants) /\ totalSold = confirmed
        /\ confirmed + Total(warrants) <= Holdings
        /\ Holdings \in Nat /\ Word \in Nat /\ Holdings < Word
    BY <1>1, CountersellAssumption DEF Covered, IInv, CountersBooked
  <2>2. SubW(totalPending, r.amount) = Total(warrants) - r.amount
    BY <1>2, <2>1 DEF SubW
  <2>3. AddW(totalSold, r.amount) = confirmed + r.amount
    BY <1>2, <1>3, <2>1 DEF AddW
  <2> QED
    BY <1>1, <1>2, <1>3, <2>2, <2>3
<1>5. /\ confirmedBy' \in [OrderId -> Nat]
      /\ \A o \in OrderId : confirmedBy[o] <= confirmedBy'[o]
      /\ confirmedBy'[r.order] = confirmedBy[r.order] + r.amount
      /\ \A o \in OrderId : o # r.order => confirmedBy'[o] = confirmedBy[o]
  BY <1>2, <1>3
<1>6. \A o \in OrderId : /\ dbSold[o] <= confirmedBy[o]
                         /\ dbSold[o] \in Nat /\ confirmedBy[o] \in Nat
  BY <1>3 DEF IInv, CompletedIsSold
<1>7. OrdersKept
  <2>1. ASSUME NEW i \in live, Found(i, r.order), fetched, RecordSale(r, i),
               CheckCompletion(IF ReachesMax(r, i)
                               THEN [status EXCEPT ![r.order] = "COMPLETED"]
                               ELSE status)
        PROVE  OrdersKept
    <3> DEFINE st == IF ReachesMax(r, i)
                     THEN [status EXCEPT ![r.order] = "COMPLETED"] ELSE status
    <3>1. live' \subseteq live
      BY <2>1 DEF CheckCompletion
    <3>2. Sell(r, i) /\ dbSold' = [dbSold EXCEPT ![r.order] = @ + r.amount]
      BY <2>1 DEF RecordSale
    <3>3. /\ entries' \in Seq(OrderState) /\ Len(entries') = Len(entries)
          /\ \A j \in 1 .. Len(entries) : entries'[j].id = entries[j].id
          /\ \A j \in live : entries'[j].sold = confirmedBy'[entries[j].id]
          /\ OrdersBooked'
      BY <1>1, <2>1, <3>1, <3>2, SaleExact
    <3>4. ReachesMax(r, i) <=> confirmedBy'[r.order] >= MaxToSell[r.order]
      <4>1. entries[i].id = r.order /\ entries[i].sold = confirmedBy[r.order]
        BY <2>1, FoundOnly DEF IInv, OrdersBooked
      <4> QED
        BY <1>5, <4>1 DEF ReachesMax
    <3>5. /\ st \in [OrderId -> Status]
          /\ \A o \in OrderId : st[o] # status[o] =>
               /\ st[o] = "COMPLETED" /\ confirmedBy'[o] >= MaxToSell[o]
               /\ \E j \in live : entries[j].id = o
      BY <1>2, <1>3, <2>1, <3>4 DEF Status, Found
    <3>6. /\ dbSold' \in [OrderId -> Nat]
          /\ \A o \in OrderId : dbSold'[o] <= confirmedBy'[o]
      BY <1>2, <1>3, <1>5, <1>6, <3>2
    <3>7. ASSUME NEW o \in OrderId, st[o] = "ACTIVE",
                 confirmedBy'[o] >= MaxToSell[o]
          PROVE  dbSold'[o] < confirmedBy'[o] \/ MaxToSell[o] = 0
      <4>1. o # r.order
        BY <1>3, <3>4, <3>7
      <4>2. dbSold'[o] = dbSold[o] /\ confirmedBy'[o] = confirmedBy[o] /\ st[o] = status[o]
        BY <1>3, <1>5, <3>2, <4>1
      <4> QED
        BY <3>7, <4>2 DEF IInv, ActiveUnrecorded
    <3>8. CheckCompletion(st)
      BY <2>1
    <3> HIDE DEF st
    <3> QED
      BY <1>1, <1>4, <1>5, <3>3, <3>5, <3>6, <3>7, <3>8, Completion DEF OrdersKept
  <2>2. ASSUME NEW i \in live, Found(i, r.order), Sell(r, i),
               UNCHANGED <<live, complete, dbVars>>
        PROVE  OrdersKept
    <3>1. live' = live /\ complete' = complete /\ status' = status /\ dbSold' = dbSold
      BY <2>2 DEF dbVars
    <3>2. /\ entries' \in Seq(OrderState) /\ Len(entries') = Len(entries)
          /\ \A j \in 1 .. Len(entries) : entries'[j].id = entries[j].id
          /\ OrdersBooked'
      BY <1>1, <2>2, <3>1, SaleExact
    <3>3. LiveActive' /\ StatusKept /\ CompleteWhy'
      BY <1>1, <3>1, <3>2, Totals
      DEF IInv, LiveActive, StatusKept, CompleteWhy
    <3>4. MaxToSell \in [OrderId -> Nat]
      BY CountersellAssumption
    <3>5. GoneDone'
      <4> SUFFICES ASSUME NEW j \in 1 .. Len(entries), j \notin live
                   PROVE  \/ status[entries[j].id] = "CANCELLED"
                          \/ confirmedBy'[entries[j].id] >= MaxToSell[entries[j].id]
        BY <3>1, <3>2 DEF GoneDone
      <4>1. /\ entries[j].id \in OrderId
            /\ \/ status[entries[j].id] = "CANCELLED"
               \/ confirmedBy[entries[j].id] >= MaxToSell[entries[j].id]
        BY Totals DEF IInv, GoneDone
      <4> QED
        BY <1>5, <1>6, <3>4, <4>1
    <3>6. CompletedIsSold'
      <4> SUFFICES ASSUME NEW o \in OrderId
                   PROVE  /\ status[o] = "COMPLETED" => confirmedBy'[o] >= MaxToSell[o]
                          /\ dbSold[o] <= confirmedBy'[o]
        BY <3>1 DEF CompletedIsSold
      <4>1. status[o] = "COMPLETED" => confirmedBy[o] >= MaxToSell[o]
        BY DEF IInv, CompletedIsSold
      <4> QED
        BY <1>5, <1>6, <3>4, <4>1
    <3>7. ActiveUnrecorded'
      <4> SUFFICES ASSUME NEW o \in OrderId, status[o] = "ACTIVE",
                          confirmedBy'[o] >= MaxToSell[o]
                   PROVE  dbSold[o] < confirmedBy'[o] \/ MaxToSell[o] = 0
        BY <3>1 DEF ActiveUnrecorded
      <4>1. CASE o = r.order
        BY <1>2, <1>5, <1>6, <4>1
      <4>2. CASE o # r.order
        BY <1>5, <4>2 DEF IInv, ActiveUnrecorded
      <4> QED
        BY <4>1, <4>2
    <3>8. live' \subseteq live /\ complete' \in BOOLEAN
      BY <3>1 DEF IInv, TradeTypeOK
    <3>9. /\ status' \in [OrderId -> Status] /\ dbSold' \in [OrderId -> Nat]
          /\ \A o \in OrderId : status'[o] = "ACTIVE" => status[o] = "ACTIVE"
      BY <1>3, <3>1
    <3> QED
      BY <3>2, <3>3, <3>5, <3>6, <3>7, <3>8, <3>9 DEF OrdersKept
  <2>3. ASSUME Absent(r.order), UNCHANGED <<entries, dbSold>>,
               CheckCompletion(status)
        PROVE  OrdersKept
    <3>1. live' \subseteq live
      BY <2>3 DEF CheckCompletion
    <3>2. entries' = entries /\ dbSold' = dbSold
      BY <2>3
    <3>3. /\ entries' \in Seq(OrderState) /\ Len(entries') = Len(entries)
          /\ \A j \in 1 .. Len(entries) : entries'[j].id = entries[j].id
          /\ \A j \in live : entries'[j].sold = confirmedBy'[entries[j].id]
          /\ OrdersBooked'
      BY <1>1, <2>3, <3>1, <3>2, SaleExact
    <3>4. \A o \in OrderId : dbSold'[o] <= confirmedBy'[o]
      BY <1>5, <1>6, <3>2
    <3>5. ASSUME NEW o \in OrderId, status[o] = "ACTIVE",
                 confirmedBy'[o] >= MaxToSell[o]
          PROVE  dbSold'[o] < confirmedBy'[o] \/ MaxToSell[o] = 0
      <4>1. CASE o = r.order
        BY <1>2, <1>5, <1>6, <3>2, <4>1
      <4>2. CASE o # r.order
        BY <1>5, <3>2, <3>5, <4>2 DEF IInv, ActiveUnrecorded
      <4> QED
        BY <4>1, <4>2
    <3> QED
      BY <1>1, <1>3, <1>4, <1>5, <2>3, <3>2, <3>3, <3>4, <3>5, Completion DEF OrdersKept
  <2> QED
    BY <1>1, <2>1, <2>2, <2>3 DEF OnConfirmed
<1>8. /\ warrants' \in SUBSET Claim(OrderId) /\ issued' \in Nat
      /\ confirmed' \in Nat /\ Covered' /\ Unique' /\ PushedFirst'
  BY <1>7, ResultKeeps DEF OrdersKept
<1>9. CountersBooked'
  BY <1>4 DEF CountersBooked
<1>10. TradeTypeOK'
  <2>1. totalPending' \in Nat /\ totalSold' \in Nat
    BY <1>2, <1>4, <1>8
  <2>2. live' \subseteq 1 .. Len(entries')
    BY <1>7 DEF OrdersKept, IInv, TradeTypeOK
  <2> QED
    BY <1>1, <1>5, <1>7, <1>8, <2>1, <2>2 DEF OrdersKept, TradeTypeOK
<1> QED
  BY <1>7, <1>8, <1>9, <1>10 DEF IInv, OrdersKept

\* A failed result keeps the invariant, also when it ends the trade.
LEMMA FailStep ==
  ASSUME IInv, NEW r \in warrants, Fail(r)
  PROVE  IInv' /\ StatusKept
<1>1. /\ ~complete /\ warrants' = warrants \ {r}
      /\ OnFailed(r) /\ failures' = failures + 1
      /\ totalPending' = SubW(totalPending, r.amount)
      /\ UNCHANGED <<totalSold, dbSold, confirmed, confirmedBy, issued>>
  BY DEF Fail, ReportFailed, OnFailed, reportVars
<1>2. /\ r.order \in OrderId /\ r.amount \in Nat /\ r.amount > 0
      /\ r.amount <= Total(warrants) /\ Total(warrants) \in Nat
      /\ r.amount <= Total(ClaimsOf(warrants, r.order))
      /\ Total(warrants') = Total(warrants) - r.amount
      /\ Total(ClaimsOf(warrants', r.order)) =
           Total(ClaimsOf(warrants, r.order)) - r.amount
      /\ \A o : o # r.order => Total(ClaimsOf(warrants', o))
                               = Total(ClaimsOf(warrants, o))
  BY <1>1, Closing, Totals
<1>3. totalPending' = Total(warrants') /\ totalSold' = confirmed'
  <2>1. totalPending = Total(warrants) /\ totalSold = confirmed
    BY <1>1 DEF IInv, CountersBooked
  <2> QED
    BY <1>1, <1>2, <2>1 DEF SubW
<1>4. \/ live' = live /\ complete' = complete /\ status' = status
      \/ /\ live' = {} /\ complete' = TRUE
         /\ status' = Marked(status, live, "CANCELLED")
  BY <1>1 DEF OnFailed, GiveUp
<1>5. /\ entries' \in Seq(OrderState) /\ Len(entries') = Len(entries)
      /\ \A j \in 1 .. Len(entries) : entries'[j].id = entries[j].id
      /\ \A j \in live :
           /\ entries'[j].sold = entries[j].sold
           /\ entries'[j].pending = Total(ClaimsOf(warrants', entries[j].id))
  <2>1. CASE \E i \in live : /\ Found(i, r.order)
                             /\ entries' = [entries EXCEPT
                                   ![i].pending = Monus(@, r.amount)]
    <3>1. PICK i \in live : /\ Found(i, r.order)
                            /\ entries' = [entries EXCEPT
                                  ![i].pending = Monus(@, r.amount)]
      BY <2>1
    <3>2. /\ entries[i].id = r.order
          /\ \A j \in 1 .. Len(entries) : entries[j].id = r.order => j = i
      BY <3>1, FoundOnly
    <3>3. /\ entries[i] \in OrderState /\ i \in 1 .. Len(entries)
          /\ entries[i].pending = Total(ClaimsOf(warrants, r.order))
          /\ entries[i].pending \in Nat
      BY <3>2, Totals DEF IInv, OrdersBooked
    <3> DEFINE e == [entries[i] EXCEPT !.pending = Monus(entries[i].pending,
                                                         r.amount)]
    <3>4. /\ e \in OrderState /\ e.id = entries[i].id
          /\ e.sold = entries[i].sold
          /\ e.pending = entries[i].pending - r.amount
      BY <1>2, <3>3 DEF OrderState, Monus
    <3>5. entries' = [entries EXCEPT ![i] = e] /\ entries \in Seq(OrderState)
      BY <3>1 DEF IInv, TradeTypeOK
    <3> HIDE DEF e
    <3>6. /\ entries' \in Seq(OrderState) /\ Len(entries') = Len(entries)
          /\ \A j \in 1 .. Len(entries) : entries'[j].id = entries[j].id
          /\ \A j \in 1 .. Len(entries) : j # i => entries'[j] = entries[j]
          /\ entries'[i] = e
      BY <3>3, <3>4, <3>5, UpdateEntry
    <3>7. ASSUME NEW j \in live
          PROVE  /\ entries'[j].sold = entries[j].sold
                 /\ entries'[j].pending
                      = Total(ClaimsOf(warrants', entries[j].id))
      <4>1. CASE j = i
        BY <1>2, <3>2, <3>3, <3>4, <3>6, <4>1
      <4>2. CASE j # i
        <5>1. /\ entries[j].id # r.order /\ entries'[j] = entries[j]
              /\ entries[j].pending = Total(ClaimsOf(warrants, entries[j].id))
          BY <3>2, <3>6, <4>2, Totals DEF IInv, OrdersBooked
        <5> QED
          BY <1>2, <5>1
      <4> QED
        BY <4>1, <4>2
    <3> QED
      BY <3>6, <3>7
  <2>2. CASE Absent(r.order) /\ entries' = entries
    <3>1. entries \in Seq(OrderState)
      BY DEF IInv, TradeTypeOK
    <3>2. ASSUME NEW j \in live
          PROVE  entries[j].pending = Total(ClaimsOf(warrants', entries[j].id))
      <4>1. /\ entries[j].id # r.order
            /\ entries[j].pending = Total(ClaimsOf(warrants, entries[j].id))
        BY <2>2 DEF Absent, IInv, OrdersBooked
      <4> QED
        BY <1>2, <4>1
    <3> QED
      BY <2>2, <3>1, <3>2
  <2> QED
    BY <1>1, <2>1, <2>2 DEF OnFailed
<1>6. /\ \A j \in live : /\ j \in 1 .. Len(entries) /\ entries[j].id \in OrderId
                         /\ status[entries[j].id] = "ACTIVE"
                         /\ entries[j].sold = confirmedBy[entries[j].id]
      /\ status \in [OrderId -> Status]
  BY <1>1, Totals DEF IInv, TradeTypeOK, LiveActive, OrdersBooked
<1>7. OrdersBooked'
  <2>1. live' \subseteq live
    BY <1>4
  <2> QED
    BY <1>1, <1>5, <1>6, <2>1 DEF OrdersBooked
<1>8. ASSUME NEW o \in OrderId
      PROVE  \/ status'[o] = status[o]
             \/ /\ live' = {} /\ status'[o] = "CANCELLED"
                /\ status[o] = "ACTIVE"
  BY <1>4, <1>6 DEF Marked
<1>9. status' \in [OrderId -> Status]
  BY <1>4, <1>6 DEF Marked, Status
<1>10. LiveActive' /\ StatusKept /\ CompleteWhy'
  <2>1. LiveActive'
    BY <1>1, <1>4, <1>5, <1>6 DEF LiveActive
  <2>2. StatusKept
    BY <1>8 DEF StatusKept
  <2>3. CompleteWhy'
    BY <1>1, <1>4 DEF CompleteWhy
  <2> QED
    BY <2>1, <2>2, <2>3
<1>11. GoneDone'
  <2> SUFFICES ASSUME NEW j \in 1 .. Len(entries), j \notin live'
               PROVE  \/ status'[entries[j].id] = "CANCELLED"
                      \/ confirmedBy[entries[j].id] >= MaxToSell[entries[j].id]
    BY <1>1, <1>5 DEF GoneDone
  <2>1. entries[j].id \in OrderId
    BY Totals
  <2>2. CASE j \notin live
    BY <1>8, <2>1, <2>2 DEF IInv, GoneDone
  <2>3. CASE j \in live
    BY <1>4, <2>1, <2>3 DEF Marked
  <2> QED
    BY <2>2, <2>3
<1>12. CompletedIsSold' /\ ActiveUnrecorded'
  BY <1>1, <1>8 DEF IInv, CompletedIsSold, ActiveUnrecorded
<1>13. /\ warrants' \in SUBSET Claim(OrderId) /\ issued' \in Nat
       /\ confirmed' \in Nat /\ confirmedBy' \in [OrderId -> Nat]
       /\ Covered' /\ Unique' /\ PushedFirst'
  <2>1. \A o \in OrderId : status'[o] = "ACTIVE" => status[o] = "ACTIVE"
    BY <1>8
  <2> QED
    BY <1>5, <2>1, ResultKeeps
<1>14. CountersBooked'
  BY <1>3 DEF CountersBooked
<1>15. TradeTypeOK'
  <2>1. totalPending' \in Nat /\ totalSold' \in Nat /\ failures' \in Nat
    BY <1>1, <1>2, <1>3, <1>13 DEF IInv, TradeTypeOK
  <2>2. live' \subseteq 1 .. Len(entries')
    BY <1>4, <1>5 DEF IInv, TradeTypeOK
  <2>3. complete' \in BOOLEAN
    BY <1>4 DEF IInv, TradeTypeOK
  <2>4. dbSold' \in [OrderId -> Nat]
    BY <1>1 DEF IInv, TradeTypeOK
  <2> QED
    BY <1>5, <1>9, <1>13, <2>1, <2>2, <2>3, <2>4 DEF TradeTypeOK
<1> QED
  BY <1>7, <1>10, <1>11, <1>12, <1>13, <1>14, <1>15 DEF IInv

\* A result nobody waits for any more keeps the invariant: the Vec it would
\* have been booked in is empty.
LEMMA DropStep ==
  ASSUME IInv, NEW r \in warrants, NEW isConfirmed \in BOOLEAN,
         DropResult(r, isConfirmed)
  PROVE  IInv' /\ StatusKept
<1>1. /\ complete /\ warrants' = warrants \ {r}
      /\ UNCHANGED <<entries, live, totalSold, totalPending, failures,
                     complete, status, dbSold, issued>>
      /\ Credited(r) \/ UNCHANGED reportVars
  BY DEF DropResult, ReportConfirmed, ReportFailed, Credited, tradeVars, dbVars
<1>2. /\ r.order \in OrderId /\ r.amount \in Nat /\ r.amount > 0
      /\ r.amount <= Total(warrants) /\ Total(warrants) \in Nat
  BY <1>1, Closing, Totals
<1>3. live = {}
  <2>1. confirmed + Total(warrants) <= Holdings /\ confirmed \in Nat /\ Holdings \in Nat
    BY CountersellAssumption DEF Covered, IInv, TradeTypeOK
  <2>2. ~(confirmed >= Holdings)
    BY <1>2, <2>1
  <2> QED
    BY <1>1, <2>2 DEF IInv, CompleteWhy
<1>4. /\ confirmedBy \in [OrderId -> Nat] /\ dbSold \in [OrderId -> Nat]
      /\ MaxToSell \in [OrderId -> Nat]
  BY CountersellAssumption DEF IInv, TradeTypeOK
<1>5. ASSUME NEW o \in OrderId
      PROVE  \/ confirmedBy'[o] = confirmedBy[o]
             \/ confirmedBy'[o] = confirmedBy[o] + r.amount
  BY <1>1, <1>2, <1>4 DEF Credited, reportVars
<1>6. /\ warrants' \in SUBSET Claim(OrderId) /\ issued' \in Nat
      /\ confirmed' \in Nat /\ confirmedBy' \in [OrderId -> Nat]
      /\ Covered' /\ Unique' /\ PushedFirst'
  <2>1. entries' \in Seq(OrderState)
    BY <1>1 DEF IInv, TradeTypeOK
  <2> QED
    BY <1>1, <2>1, ResultKeeps
<1>7. TradeTypeOK' /\ CountersBooked' /\ OrdersBooked' /\ LiveActive' /\ StatusKept
  BY <1>1, <1>3, <1>6
  DEF IInv, TradeTypeOK, CountersBooked, OrdersBooked, LiveActive, StatusKept
<1>8. CompleteWhy'
  BY <1>1, <1>3 DEF CompleteWhy
<1>9. GoneDone'
  <2> SUFFICES ASSUME NEW j \in 1 .. Len(entries)
               PROVE  \/ status[entries[j].id] = "CANCELLED"
                      \/ confirmedBy'[entries[j].id] >= MaxToSell[entries[j].id]
    BY <1>1 DEF GoneDone
  <2>1. /\ entries[j].id \in OrderId
        /\ \/ status[entries[j].id] = "CANCELLED"
           \/ confirmedBy[entries[j].id] >= MaxToSell[entries[j].id]
    BY <1>3, Totals DEF IInv, GoneDone
  <2>2. /\ confirmedBy[entries[j].id] \in Nat /\ MaxToSell[entries[j].id] \in Nat
        /\ confirmedBy'[entries[j].id] >= confirmedBy[entries[j].id]
        /\ confirmedBy'[entries[j].id] \in Nat
    <3> DEFINE o == entries[j].id
    <3>1. o \in OrderId
      BY <2>1
    <3>2. confirmedBy[o] \in Nat /\ MaxToSell[o] \in Nat
      BY <1>4, <3>1
    <3>3. confirmedBy'[o] = confirmedBy[o] \/ confirmedBy'[o] = confirmedBy[o] + r.amount
      BY <1>5, <3>1
    <3> HIDE DEF o
    <3>4. confirmedBy'[o] >= confirmedBy[o] /\ confirmedBy'[o] \in Nat
      BY <1>2, <3>2, <3>3
    <3> QED
      BY <3>2, <3>4 DEF o
  <2> QED
    BY <2>1, <2>2
<1>10. CompletedIsSold' /\ ActiveUnrecorded'
  <2> SUFFICES ASSUME NEW o \in OrderId
               PROVE  /\ status[o] = "COMPLETED" => confirmedBy'[o] >= MaxToSell[o]
                      /\ dbSold[o] <= confirmedBy'[o]
                      /\ status[o] = "ACTIVE" /\ confirmedBy'[o] >= MaxToSell[o]
                           => dbSold[o] < confirmedBy'[o] \/ MaxToSell[o] = 0
    BY <1>1 DEF CompletedIsSold, ActiveUnrecorded
  <2>1. /\ status[o] = "COMPLETED" => confirmedBy[o] >= MaxToSell[o]
        /\ dbSold[o] <= confirmedBy[o]
        /\ status[o] = "ACTIVE" /\ confirmedBy[o] >= MaxToSell[o]
             => dbSold[o] < confirmedBy[o] \/ MaxToSell[o] = 0
    BY DEF IInv, CompletedIsSold, ActiveUnrecorded
  <2> QED
    BY <1>2, <1>4, <1>5, <2>1
<1> QED
  BY <1>6, <1>7, <1>8, <1>9, <1>10 DEF IInv

\* A new order keeps the invariant, added or refused.
LEMMA AddStep ==
  ASSUME IInv, NEW o \in OrderId, Add(o)
  PROVE  IInv' /\ StatusKept
<1>1. /\ ~complete /\ status[o] = "CREATED" /\ ~Pushed(o) /\ AddOrder(o)
      /\ UNCHANGED <<warrants, issued, confirmed, confirmedBy>>
  BY DEF Add, Pushed, reportVars
<1>2. CASE UNCHANGED <<tradeVars, dbVars>>
  BY <1>1, <1>2
  DEF IInv, TradeTypeOK, Unique, PushedFirst, Pushed, CountersBooked, OrdersBooked,
      Covered, LiveActive,
      GoneDone, CompleteWhy, CompletedIsSold, ActiveUnrecorded, StatusKept,
      tradeVars, dbVars
<1>3. CASE /\ entries' = Append(entries, NewOrder(o))
           /\ live' = live \cup {Len(entries) + 1}
           /\ status' = [status EXCEPT ![o] = "ACTIVE"]
           /\ UNCHANGED <<totalSold, totalPending, failures, complete, dbSold>>
  <2>1. NewOrder(o) \in OrderState
    BY DEF NewOrder, OrderState
  <2>2. /\ entries \in Seq(OrderState) /\ live \subseteq 1 .. Len(entries)
        /\ status \in [OrderId -> Status] /\ Len(entries) \in Nat
    BY DEF IInv, TradeTypeOK
  <2>3. /\ entries' \in Seq(OrderState) /\ Len(entries') = Len(entries) + 1
        /\ \A j \in 1 .. Len(entries) : entries'[j] = entries[j]
        /\ entries'[Len(entries) + 1] = NewOrder(o)
    BY <1>3, <2>1, <2>2, AppendProperties
  <2>4. /\ NewOrder(o).id = o /\ NewOrder(o).sold = 0 /\ NewOrder(o).pending = 0
    BY DEF NewOrder
  <2>5. \A j \in 1 .. Len(entries') : j \in 1 .. Len(entries) \/ j = Len(entries) + 1
    BY <2>2, <2>3
  <2>6. \A j \in 1 .. Len(entries) : entries[j].id # o /\ entries[j].id \in OrderId
    BY <1>1, Totals DEF Pushed
  <2>7. /\ ClaimsOf(warrants, o) = {} /\ confirmedBy[o] = 0
        /\ Total(ClaimsOf(warrants, o)) = 0
    BY <1>1, TotalType DEF IInv, PushedFirst
  <2>8. TradeTypeOK'
    <3>1. live' \subseteq 1 .. Len(entries')
      <4> DEFINE n == Len(entries)
      <4>1. live \subseteq 1 .. n /\ n \in Nat
        BY <2>2
      <4>2. live' = live \cup {n + 1} /\ Len(entries') = n + 1
        BY <1>3, <2>3
      <4> HIDE DEF n
      <4> QED
        BY <4>1, <4>2
    <3>2. status' \in [OrderId -> Status]
      BY <1>3, <2>2 DEF Status
    <3> QED
      BY <1>1, <1>3, <2>3, <3>1, <3>2 DEF IInv, TradeTypeOK
  <2>9. Unique'
    <3>1. ASSUME NEW i \in 1 .. Len(entries'), NEW j \in 1 .. Len(entries'),
                 entries'[i].id = entries'[j].id
          PROVE  i = j
      BY <2>3, <2>4, <2>5, <2>6, <3>1 DEF IInv, Unique
    <3> QED
      BY <1>1, <3>1 DEF IInv, Unique
  <2>10. PushedFirst'
    <3> SUFFICES ASSUME NEW p \in OrderId, ~Pushed(p)'
                 PROVE  /\ ClaimsOf(warrants, p) = {}
                        /\ confirmedBy[p] = 0 /\ status'[p] # "ACTIVE"
      BY <1>1 DEF PushedFirst
    <3>1. p # o
      <4>1. Len(entries) + 1 \in 1 .. Len(entries')
        BY <2>2, <2>3
      <4> QED
        BY <2>3, <2>4, <4>1 DEF Pushed
    <3>2. ~Pushed(p)
      <4> SUFFICES ASSUME NEW j \in 1 .. Len(entries), entries[j].id = p
                   PROVE  FALSE
        BY DEF Pushed
      <4>1. j \in 1 .. Len(entries') /\ entries'[j].id = p
        BY <2>2, <2>3
      <4> QED
        BY <4>1 DEF Pushed
    <3>3. status'[p] = status[p]
      BY <1>3, <2>2, <3>1
    <3> QED
      BY <3>2, <3>3 DEF IInv, PushedFirst
  <2>11. CountersBooked' /\ Covered' /\ CompleteWhy'
    <3>1. CountersBooked'
      BY <1>1, <1>3 DEF IInv, CountersBooked
    <3>2. Covered'
      BY <1>1 DEF IInv, Covered
    <3>3. CompleteWhy'
      BY <1>1, <1>3 DEF CompleteWhy
    <3> QED
      BY <3>1, <3>2, <3>3
  <2>12. OrdersBooked' /\ LiveActive'
    <3>1. ASSUME NEW j \in live'
          PROVE  /\ entries'[j].pending
                      = Total(ClaimsOf(warrants, entries'[j].id))
                 /\ entries'[j].sold = confirmedBy[entries'[j].id]
                 /\ status'[entries'[j].id] = "ACTIVE"
      <4>1. CASE j = Len(entries) + 1
        BY ZenonT(40), <1>3, <2>2, <2>3, <2>4, <2>7, <4>1
      <4>2. CASE j \in live
        BY <1>1, <1>3, <2>2, <2>3, <2>6, <4>2 DEF IInv, OrdersBooked, LiveActive
      <4> QED
        BY <1>3, <4>1, <4>2
    <3> QED
      BY <1>1, <1>3, <3>1 DEF OrdersBooked, LiveActive
  <2>13. GoneDone'
    <3> SUFFICES ASSUME NEW j \in 1 .. Len(entries'), j \notin live'
                 PROVE  \/ status'[entries'[j].id] = "CANCELLED"
                        \/ confirmedBy[entries'[j].id] >= MaxToSell[entries'[j].id]
      BY <1>1 DEF GoneDone
    <3>1. j \in 1 .. Len(entries) /\ j \notin live
      BY <1>3, <2>5
    <3>2. status'[entries[j].id] = status[entries[j].id]
      BY <1>3, <2>2, <2>6, <3>1
    <3> QED
      BY <2>3, <3>1, <3>2 DEF IInv, GoneDone
  <2>14. CompletedIsSold' /\ ActiveUnrecorded' /\ StatusKept
    <3> SUFFICES ASSUME NEW p \in OrderId
                 PROVE  /\ status'[p] = "COMPLETED" => confirmedBy[p] >= MaxToSell[p]
                        /\ dbSold[p] <= confirmedBy[p]
                        /\ status'[p] = "ACTIVE" /\ confirmedBy[p] >= MaxToSell[p]
                             => dbSold[p] < confirmedBy[p] \/ MaxToSell[p] = 0
                        /\ status[p] \in {"COMPLETED", "CANCELLED"}
                             => status'[p] = status[p]
      BY <1>1, <1>3 DEF CompletedIsSold, ActiveUnrecorded, StatusKept
    <3>1. CASE p = o
      <4>1. status'[o] = "ACTIVE" /\ MaxToSell[o] \in Nat
        BY <1>3, <2>2, CountersellAssumption
      <4> QED
        BY <1>1, <2>7, <3>1, <4>1 DEF IInv, CompletedIsSold
    <3>2. CASE p # o
      <4>1. status'[p] = status[p]
        BY <1>3, <2>2, <3>2
      <4> QED
        BY <4>1 DEF IInv, CompletedIsSold, ActiveUnrecorded
    <3> QED
      BY <3>1, <3>2
  <2> QED
    BY <2>8, <2>9, <2>10, <2>11, <2>12, <2>13, <2>14 DEF IInv
<1> QED
  BY <1>1, <1>2, <1>3 DEF AddOrder

\* Removing an order, found or not, keeps the invariant.
LEMMA RemoveStep ==
  ASSUME IInv, NEW o \in OrderId, Remove(o)
  PROVE  IInv' /\ StatusKept
<1>1. /\ ~complete /\ RemoveOrder(o)
      /\ UNCHANGED <<warrants, issued, confirmed, confirmedBy>>
  BY DEF Remove, reportVars
<1>2. CASE UNCHANGED <<tradeVars, dbVars>>
  BY <1>1, <1>2
  DEF IInv, TradeTypeOK, Unique, PushedFirst, Pushed, CountersBooked, OrdersBooked,
      Covered, LiveActive,
      GoneDone, CompleteWhy, CompletedIsSold, ActiveUnrecorded, StatusKept,
      tradeVars, dbVars
<1>3. CASE /\ ~Absent(o)
           /\ live' = {i \in live : entries[i].id # o}
           /\ status' = [status EXCEPT ![o] = "CANCELLED"]
           /\ complete' = (complete \/ live' = {})
           /\ UNCHANGED <<entries, totalSold, totalPending, failures, dbSold>>
  <2>1. live' \subseteq live /\ (complete' => live' = {}) /\ complete' \in BOOLEAN
    BY <1>1, <1>3
  <2>2. /\ status \in [OrderId -> Status]
        /\ status'[o] = "CANCELLED"
        /\ \A p \in OrderId : p # o => status'[p] = status[p]
    BY <1>3 DEF IInv, TradeTypeOK
  <2>3. \A j \in live : /\ j \in 1 .. Len(entries) /\ entries[j].id \in OrderId
                        /\ status[entries[j].id] = "ACTIVE"
    BY <1>1, Totals DEF IInv, LiveActive
  <2>4. status[o] = "ACTIVE"
    BY <1>3, <2>3 DEF Absent
  <2>5. TradeTypeOK'
    <3>1. status' \in [OrderId -> Status]
      BY <1>3, <2>2 DEF Status
    <3> QED
      BY <1>1, <1>3, <2>1, <3>1 DEF IInv, TradeTypeOK
  <2>6. Unique' /\ CountersBooked' /\ Covered' /\ OrdersBooked'
    <3>1. Unique' /\ Covered'
      BY <1>1, <1>3 DEF IInv, Unique, Covered
    <3>2. CountersBooked'
      BY <1>1, <1>3 DEF IInv, CountersBooked
    <3>3. OrdersBooked'
      BY <1>1, <1>3, <2>1 DEF IInv, OrdersBooked
    <3> QED
      BY <3>1, <3>2, <3>3
  <2>7. PushedFirst'
    <3>1. \A p : Pushed(p)' = Pushed(p)
      BY <1>3 DEF Pushed
    <3> QED
      BY <1>1, <2>2, <3>1 DEF IInv, PushedFirst
  <2>8. LiveActive' /\ CompleteWhy'
    BY <1>1, <1>3, <2>1, <2>2, <2>3 DEF LiveActive, CompleteWhy
  <2>9. GoneDone'
    <3> SUFFICES ASSUME NEW j \in 1 .. Len(entries), j \notin live'
                 PROVE  \/ status'[entries[j].id] = "CANCELLED"
                        \/ confirmedBy[entries[j].id] >= MaxToSell[entries[j].id]
      BY <1>1, <1>3 DEF GoneDone
    <3>1. CASE entries[j].id = o
      BY <2>2, <3>1
    <3>2. CASE entries[j].id # o
      <4>1. j \notin live /\ entries[j].id \in OrderId
        BY <1>3, <3>2, Totals
      <4> QED
        BY <2>2, <3>2, <4>1 DEF IInv, GoneDone
    <3> QED
      BY <3>1, <3>2
  <2>10. CompletedIsSold' /\ ActiveUnrecorded' /\ StatusKept
    <3> SUFFICES ASSUME NEW p \in OrderId
                 PROVE  /\ status'[p] = "COMPLETED" => confirmedBy[p] >= MaxToSell[p]
                        /\ dbSold[p] <= confirmedBy[p]
                        /\ status'[p] = "ACTIVE" /\ confirmedBy[p] >= MaxToSell[p]
                             => dbSold[p] < confirmedBy[p] \/ MaxToSell[p] = 0
                        /\ status[p] \in {"COMPLETED", "CANCELLED"}
                             => status'[p] = status[p]
      BY <1>1, <1>3 DEF CompletedIsSold, ActiveUnrecorded, StatusKept
    <3>1. CASE p = o
      BY <2>2, <2>4, <3>1 DEF IInv, CompletedIsSold
    <3>2. CASE p # o
      BY <2>2, <3>2 DEF IInv, CompletedIsSold, ActiveUnrecorded
    <3> QED
      BY <3>1, <3>2
  <2> QED
    BY <2>5, <2>6, <2>7, <2>8, <2>9, <2>10 DEF IInv
<1> QED
  BY <1>1, <1>2, <1>3 DEF RemoveOrder

-----------------------------------------------------------------------------
\* A trade starts within the invariant.
LEMMA InitIInv ==
  Init => IInv
<1> SUFFICES ASSUME Init PROVE IInv
  OBVIOUS
<1>1. PICK o \in OrderId :
        /\ NewTrade(o)
        /\ status = [p \in OrderId |-> IF p = o THEN "ACTIVE" ELSE "CREATED"]
  BY DEF Init
<1>2. /\ warrants = {} /\ issued = 0 /\ confirmed = 0
      /\ dbSold = [p \in OrderId |-> 0] /\ confirmedBy = [p \in OrderId |-> 0]
  BY DEF Init, ChainInit
<1>3. /\ entries = <<NewOrder(o)>> /\ live = {1} /\ totalSold = 0
      /\ totalPending = 0 /\ failures = 0 /\ complete = FALSE
  BY <1>1 DEF NewTrade
<1>4. /\ NewOrder(o) \in OrderState /\ NewOrder(o).id = o
      /\ NewOrder(o).sold = 0 /\ NewOrder(o).pending = 0
  BY DEF NewOrder, OrderState
<1>5. /\ entries \in Seq(OrderState) /\ Len(entries) = 1
      /\ entries[1] = NewOrder(o)
      /\ \A j \in 1 .. Len(entries) : j = 1
  BY <1>3, <1>4
<1>6. \A p : ClaimsOf(warrants, p) = {}
  BY <1>2 DEF ClaimsOf
<1>7. /\ IsFiniteSet(Units(warrants)) /\ Total(warrants) = 0
      /\ \A p : Total(ClaimsOf(warrants, p)) = 0
  BY <1>2, <1>6, TotalType
<1>8. TradeTypeOK
  <2>1. live \subseteq 1 .. Len(entries) /\ warrants \in SUBSET Claim(OrderId)
    BY <1>2, <1>3, <1>5
  <2>2. status \in [OrderId -> Status]
    BY <1>1 DEF Status
  <2>3. dbSold \in [OrderId -> Nat] /\ confirmedBy \in [OrderId -> Nat]
    BY <1>2
  <2> QED
    BY <1>2, <1>3, <1>5, <2>1, <2>2, <2>3 DEF TradeTypeOK
<1>9. Unique /\ PushedFirst
  <2>1. Pushed(o)
    BY <1>4, <1>5 DEF Pushed
  <2>2. PushedFirst
    BY <1>1, <1>2, <1>6, <2>1 DEF PushedFirst
  <2>3. Unique
    BY <1>2, <1>5, <1>7 DEF Unique
  <2> QED
    BY <2>2, <2>3
<1>10. CountersBooked /\ OrdersBooked
  BY <1>2, <1>3, <1>4, <1>5, <1>7 DEF CountersBooked, OrdersBooked
<1>11. Covered
  <2>1. Holdings \in Nat /\ MaxToSell \in [OrderId -> Nat]
    BY CountersellAssumption
  <2>2. confirmed + Total(warrants) <= Holdings
    BY <1>2, <1>7, <2>1
  <2>3. \A p \in OrderId :
          confirmedBy[p] + Total(ClaimsOf(warrants, p)) <= MaxToSell[p]
    BY <1>2, <1>7, <2>1
  <2> QED
    BY <2>2, <2>3 DEF Covered
<1>12. LiveActive /\ GoneDone /\ CompleteWhy
  BY <1>1, <1>3, <1>4, <1>5 DEF LiveActive, GoneDone, CompleteWhy
<1>13. CompletedIsSold
  BY <1>1, <1>2 DEF CompletedIsSold
<1>14. ActiveUnrecorded
  <2>1. MaxToSell \in [OrderId -> Nat]
    BY CountersellAssumption
  <2> QED
    BY <1>2, <2>1 DEF ActiveUnrecorded
<1> QED
  BY <1>8, <1>9, <1>10, <1>11, <1>12, <1>13, <1>14 DEF IInv

\* Every step keeps the invariant, and every final status.
LEMMA Step ==
  ASSUME IInv, [Next]_vars
  PROVE  IInv' /\ StatusKept
<1>1. CASE UNCHANGED vars \/ Landing
  <2>1. UNCHANGED <<tradeVars, dbVars, reportVars, warrants, issued>>
    BY <1>1 DEF vars, Landing
  <2> QED
    BY <2>1
    DEF IInv, TradeTypeOK, Unique, PushedFirst, Pushed, CountersBooked,
        OrdersBooked, Covered, LiveActive, GoneDone, CompleteWhy,
        CompletedIsSold, ActiveUnrecorded, StatusKept, tradeVars, dbVars,
        reportVars
<1>2. CASE Next /\ ~Landing
  BY <1>2, IssueStep, ConfirmStep, FailStep, DropStep, AddStep, RemoveStep
  DEF Next
<1> QED
  BY <1>1, <1>2

\* The inductive invariant holds in every reachable state of the trade.
THEOREM Invariant ==
  Spec => []IInv
<1>1. IInv /\ [Next]_vars => IInv'
  BY Step
<1> QED
  BY InitIInv, <1>1, PTL DEF Spec

-----------------------------------------------------------------------------
(* The chain's side.                                                       *)

\* What is executed, awaiting its report, and what may yet be executed, make
\* up all the warrants, also for each order.
LEMMA Split ==
  ASSUME NEW S \in SUBSET Claim(OrderId), IsFiniteSet(Units(S)),
         NEW T \in SUBSET S
  PROVE  /\ Total(S) \in Nat /\ Total(T) \in Nat /\ Total(S \ T) \in Nat
         /\ Total(S) = Total(T) + Total(S \ T)
<1>1. /\ Units(T) \cap Units(S \ T) = {}
      /\ Units(S) = Units(T) \cup Units(S \ T)
  <2>1. ASSUME NEW u \in Units(T) PROVE u \notin Units(S \ T)
    BY DEF Units, UnitsOf
  <2>2. Units(S) = Units(T) \cup Units(S \ T)
    BY DEF Units
  <2> QED
    BY <2>1, <2>2
<1>2. /\ IsFiniteSet(Units(T)) /\ IsFiniteSet(Units(S \ T))
  BY PartTotal
<1>3. Cardinality(Units(T) \cup Units(S \ T))
        = Cardinality(Units(T)) + Cardinality(Units(S \ T)) - Cardinality({})
  BY <1>1, <1>2, FS_Union
<1>4. Cardinality({}) = 0
  BY FS_EmptySet
<1>5. Total(S) \in Nat /\ Total(T) \in Nat /\ Total(S \ T) \in Nat
  BY <1>2, TotalType
<1> QED
  BY <1>1, <1>3, <1>4, <1>5 DEF Total

LEMMA SplitOf ==
  ASSUME NEW S \in SUBSET Claim(OrderId), IsFiniteSet(Units(S)),
         NEW T \in SUBSET S, NEW o
  PROVE  /\ Total(ClaimsOf(S, o)) \in Nat /\ Total(ClaimsOf(T, o)) \in Nat
         /\ Total(ClaimsOf(S \ T, o)) \in Nat
         /\ Total(ClaimsOf(S, o))
              = Total(ClaimsOf(T, o)) + Total(ClaimsOf(S \ T, o))
<1>1. /\ ClaimsOf(S, o) \in SUBSET Claim(OrderId)
      /\ ClaimsOf(T, o) \in SUBSET ClaimsOf(S, o)
      /\ ClaimsOf(S \ T, o) = ClaimsOf(S, o) \ ClaimsOf(T, o)
  BY DEF ClaimsOf
<1>2. IsFiniteSet(Units(ClaimsOf(S, o)))
  BY ShareType
<1> QED
  BY <1>1, <1>2, Split

\* The chain's steps, and the reports, keep the accounts.
LEMMA ExecuteAccounted ==
  ASSUME ChainInv, warrants \in SUBSET Claim(OrderId),
         IsFiniteSet(Units(warrants)), confirmed \in Nat,
         confirmedBy \in [OrderId -> Nat],
         NEW w \in warrants, Execute(w), UNCHANGED reportVars,
         warrants' = warrants
  PROVE  ChainInv'
<1>1. /\ executed \in SUBSET warrants /\ executed \in SUBSET Claim(OrderId)
      /\ w \notin executed /\ w \in Claim(OrderId)
      /\ w.order \in OrderId /\ w.amount \in Nat
  BY DEF ChainInv, Execute, Claim
<1>2. IsFiniteSet(Units(executed)) /\ Total(executed) \in Nat
  BY <1>1, PartTotal, TotalType
<1>3. /\ executed' = executed \cup {w}
      /\ landed' = landed + w.amount
      /\ landedBy' = [landedBy EXCEPT ![w.order] = @ + w.amount]
      /\ UNCHANGED <<late, surplus, surplusBy, confirmed, confirmedBy>>
  BY DEF Execute, Land, reportVars
<1>4. Total(executed') = Total(executed) + w.amount
  BY <1>1, <1>2, <1>3, AddClaim
<1>5. /\ landed \in Nat /\ landedBy \in [OrderId -> Nat]
      /\ surplus \in Nat /\ surplusBy \in [OrderId -> Nat]
  BY DEF ChainInv, ChainTypeOK
<1>6. ASSUME NEW o \in OrderId
      PROVE  landedBy'[o] = confirmedBy'[o] + Total(ClaimsOf(executed', o))
                              + surplusBy'[o]
  <2>1. /\ Total(ClaimsOf(executed \cup {w}, o)) = Total(ClaimsOf(executed, o))
             + (IF w.order = o THEN w.amount ELSE 0)
        /\ Total(ClaimsOf(executed, o)) \in Nat
    BY <1>1, <1>2, AddClaimOf, ShareType
  <2>2. /\ landedBy[o] = confirmedBy[o] + Total(ClaimsOf(executed, o)) + surplusBy[o]
        /\ landedBy[o] \in Nat /\ confirmedBy[o] \in Nat /\ surplusBy[o] \in Nat
    BY <1>5 DEF ChainInv, Accounted
  <2>3. landedBy'[o] = landedBy[o] + (IF w.order = o THEN w.amount ELSE 0)
    BY <1>1, <1>3, <1>5, <2>2
  <2> QED
    BY <1>1, <1>3, <2>1, <2>2, <2>3
<1>7. landed' = confirmed' + Total(executed') + surplus'
  BY <1>1, <1>2, <1>3, <1>4, <1>5 DEF ChainInv, Accounted
<1>8. ChainTypeOK' /\ executed' \subseteq warrants'
  BY <1>1, <1>3, <1>5 DEF ChainInv, ChainTypeOK
<1> QED
  BY <1>3, <1>6, <1>7, <1>8 DEF ChainInv, Accounted

LEMMA MoreAccounted ==
  ASSUME ChainInv, warrants \in SUBSET Claim(OrderId),
         IsFiniteSet(Units(warrants)), confirmed \in Nat,
         confirmedBy \in [OrderId -> Nat],
         NEW s \in late \cup {SaleOf(w) : w \in executed}, ExecuteMore(s),
         UNCHANGED reportVars, warrants' = warrants
  PROVE  ChainInv' /\ s.order \in OrderId /\ s.amount \in Nat \ {0}
<1>1. /\ executed \in SUBSET warrants /\ executed \in SUBSET Claim(OrderId)
      /\ s.order \in OrderId /\ s.amount \in Nat \ {0}
  BY DEF ChainInv, ChainTypeOK, SaleOf, Claim
<1>2. IsFiniteSet(Units(executed)) /\ Total(executed) \in Nat
  BY <1>1, PartTotal, TotalType
<1>3. /\ executed' = executed /\ late' = late
      /\ landed' = landed + s.amount
      /\ landedBy' = [landedBy EXCEPT ![s.order] = @ + s.amount]
      /\ surplus' = surplus + s.amount
      /\ surplusBy' = [surplusBy EXCEPT ![s.order] = @ + s.amount]
      /\ UNCHANGED <<confirmed, confirmedBy>>
  BY DEF ExecuteMore, Land, Unaccounted, reportVars
<1>4. /\ landed \in Nat /\ landedBy \in [OrderId -> Nat]
      /\ surplus \in Nat /\ surplusBy \in [OrderId -> Nat]
  BY DEF ChainInv, ChainTypeOK
<1>5. ASSUME NEW o \in OrderId
      PROVE  landedBy'[o] = confirmedBy'[o] + Total(ClaimsOf(executed', o))
                              + surplusBy'[o]
  <2>1. Total(ClaimsOf(executed, o)) \in Nat
    BY <1>2, ShareType
  <2>2. /\ landedBy[o] = confirmedBy[o] + Total(ClaimsOf(executed, o)) + surplusBy[o]
        /\ landedBy[o] \in Nat /\ confirmedBy[o] \in Nat /\ surplusBy[o] \in Nat
    BY <1>4 DEF ChainInv, Accounted
  <2>3. /\ landedBy'[o] = landedBy[o] + (IF s.order = o THEN s.amount ELSE 0)
        /\ surplusBy'[o] = surplusBy[o] + (IF s.order = o THEN s.amount ELSE 0)
    BY <1>1, <1>3, <1>4, <2>2
  <2> QED
    BY <1>1, <1>3, <2>1, <2>2, <2>3
<1>6. landed' = confirmed' + Total(executed') + surplus'
  BY <1>1, <1>2, <1>3, <1>4 DEF ChainInv, Accounted
<1>7. ChainTypeOK' /\ executed' \subseteq warrants'
  BY <1>1, <1>3, <1>4 DEF ChainInv, ChainTypeOK
<1> QED
  BY <1>1, <1>3, <1>5, <1>6, <1>7 DEF ChainInv, Accounted

LEMMA ReportAccounted ==
  ASSUME ChainInv, warrants \in SUBSET Claim(OrderId),
         IsFiniteSet(Units(warrants)), confirmed \in Nat,
         confirmedBy \in [OrderId -> Nat],
         NEW r \in warrants, r.amount <= Holdings,
         ReportConfirmed(r) \/ ReportFailed(r),
         executed \ {r} \subseteq warrants'
  PROVE  ChainInv'
<1> DEFINE a == IF r \in executed THEN r.amount ELSE 0
<1>1. /\ executed \in SUBSET warrants /\ executed \in SUBSET Claim(OrderId)
      /\ r.order \in OrderId /\ r.amount \in Nat \ {0} /\ r \in Claim(OrderId)
  BY DEF ChainInv, Claim
<1>2. IsFiniteSet(Units(executed)) /\ Total(executed) \in Nat
  BY <1>1, PartTotal, TotalType
<1>3. /\ executed' = executed \ {r}
      /\ late' \in {late, late \cup {SaleOf(r)}}
      /\ UNCHANGED <<landed, landedBy>>
  BY DEF ReportConfirmed, ReportFailed, Report
<1>4. /\ landed \in Nat /\ landedBy \in [OrderId -> Nat]
      /\ surplus \in Nat /\ surplusBy \in [OrderId -> Nat]
      /\ late \subseteq [order : OrderId, amount : Nat \ {0}]
      /\ \A s \in late : s.amount <= Holdings
  BY DEF ChainInv, ChainTypeOK
<1>5. \/ /\ confirmed' = confirmed + a
         /\ confirmedBy' = [confirmedBy EXCEPT ![r.order] = @ + a]
         /\ UNCHANGED <<surplus, surplusBy>>
      \/ /\ surplus' = surplus + a
         /\ surplusBy' = [surplusBy EXCEPT ![r.order] = @ + a]
         /\ UNCHANGED <<confirmed, confirmedBy>>
  <2>1. CASE ReportConfirmed(r)
    BY <2>1 DEF ReportConfirmed
  <2>2. CASE ReportFailed(r) /\ r \in executed
    BY <2>2 DEF ReportFailed, Unaccounted, reportVars
  <2>3. CASE ReportFailed(r) /\ r \notin executed
    <3>1. UNCHANGED <<surplus, surplusBy, confirmed, confirmedBy>>
      BY <2>3 DEF ReportFailed, reportVars
    <3>2. surplusBy' = [surplusBy EXCEPT ![r.order] = @ + a]
      BY <1>1, <1>4, <2>3, <3>1
    <3> QED
      BY <1>4, <2>3, <3>1, <3>2
  <2> QED
    BY <2>1, <2>2, <2>3
<1>6. a \in Nat
  BY <1>1
<1>7. Total(executed') = Total(executed) - a /\ a <= Total(executed)
  <2>1. CASE r \in executed
    BY <1>1, <1>2, <1>3, <2>1, CloseClaim
  <2>2. CASE r \notin executed
    <3>1. executed' = executed
      BY <1>3, <2>2
    <3> QED
      BY <1>2, <2>2, <3>1
  <2> QED
    BY <2>1, <2>2
<1>8. ASSUME NEW o \in OrderId
      PROVE  /\ Total(ClaimsOf(executed', o)) = Total(ClaimsOf(executed, o))
                  - (IF r.order = o THEN a ELSE 0)
             /\ Total(ClaimsOf(executed, o)) \in Nat
             /\ r.order = o => a <= Total(ClaimsOf(executed, o))
  <2>1. Total(ClaimsOf(executed, o)) \in Nat
    BY <1>2, ShareType
  <2>2. CASE r \in executed
    BY <1>1, <1>2, <1>3, <2>1, <2>2, CloseClaimOf
  <2>3. CASE r \notin executed
    <3>1. executed' = executed
      BY <1>3, <2>3
    <3> QED
      BY <2>1, <2>3, <3>1
  <2> QED
    BY <2>1, <2>2, <2>3
<1> HIDE DEF a
<1>9. ASSUME NEW o \in OrderId
      PROVE  landedBy'[o] = confirmedBy'[o] + Total(ClaimsOf(executed', o))
                              + surplusBy'[o]
  <2>1. /\ landedBy[o] = confirmedBy[o] + Total(ClaimsOf(executed, o)) + surplusBy[o]
        /\ landedBy[o] \in Nat /\ confirmedBy[o] \in Nat /\ surplusBy[o] \in Nat
    BY <1>4 DEF ChainInv, Accounted
  <2>2. \/ /\ confirmedBy'[o] = confirmedBy[o] + (IF r.order = o THEN a ELSE 0)
           /\ surplusBy'[o] = surplusBy[o]
        \/ /\ surplusBy'[o] = surplusBy[o] + (IF r.order = o THEN a ELSE 0)
           /\ confirmedBy'[o] = confirmedBy[o]
    BY <1>1, <1>4, <1>5, <1>6, <2>1
  <2>3. landedBy'[o] = landedBy[o]
    BY <1>3
  <2> DEFINE b == IF r.order = o THEN a ELSE 0
  <2>4. /\ Total(ClaimsOf(executed', o)) = Total(ClaimsOf(executed, o)) - b
        /\ Total(ClaimsOf(executed, o)) \in Nat /\ b \in Nat
    BY <1>6, <1>8
  <2> HIDE DEF b
  <2>5. CASE /\ confirmedBy'[o] = confirmedBy[o] + b
             /\ surplusBy'[o] = surplusBy[o]
    BY <2>1, <2>3, <2>4, <2>5
  <2>6. CASE /\ surplusBy'[o] = surplusBy[o] + b
             /\ confirmedBy'[o] = confirmedBy[o]
    BY <2>1, <2>3, <2>4, <2>6
  <2> QED
    BY <2>2, <2>5, <2>6 DEF b
<1>10. landed' = confirmed' + Total(executed') + surplus'
  BY <1>2, <1>3, <1>4, <1>5, <1>6, <1>7 DEF ChainInv, Accounted
<1>11. ChainTypeOK' /\ \A s \in late' : s.amount <= Holdings
  <2>1. /\ SaleOf(r) \in [order : OrderId, amount : Nat \ {0}]
        /\ SaleOf(r).amount = r.amount
    BY <1>1 DEF SaleOf
  <2>2. /\ late' \subseteq [order : OrderId, amount : Nat \ {0}]
        /\ \A s \in late' : s.amount <= Holdings
    BY <1>3, <1>4, <2>1
  <2>3. surplus' \in Nat /\ surplusBy' \in [OrderId -> Nat]
    BY <1>1, <1>4, <1>5, <1>6
  <2> QED
    BY <1>3, <1>4, <2>2, <2>3 DEF ChainTypeOK
<1> QED
  BY <1>3, <1>9, <1>10, <1>11 DEF ChainInv, Accounted

\* No warrant is larger than the wallet.
LEMMA Fits ==
  ASSUME IInv, NEW w \in warrants
  PROVE  /\ w \in Claim(OrderId) /\ w.order \in OrderId
         /\ w.amount \in 1 .. Holdings
         /\ w.amount <= Total(warrants)
         /\ w.amount <= Total(ClaimsOf(warrants, w.order))
<1>1. warrants \in SUBSET Claim(OrderId) /\ IsFiniteSet(Units(warrants))
  BY DEF IInv, TradeTypeOK, Unique
<1>2. w.amount <= Total(warrants) /\ w.amount <= Total(ClaimsOf(warrants, w.order))
  BY <1>1, CloseClaim, CloseClaimOf
<1>3. confirmed + Total(warrants) <= Holdings /\ confirmed \in Nat /\ Holdings \in Nat
  BY CountersellAssumption DEF IInv, TradeTypeOK, Covered
<1>4. Total(warrants) \in Nat
  BY <1>1, TotalType
<1>5. w \in Claim(OrderId) /\ w.order \in OrderId /\ w.amount \in Nat \ {0}
  BY <1>1 DEF Claim
<1> QED
  BY <1>2, <1>3, <1>4, <1>5

LEMMA ChainStep ==
  ASSUME IInv, ChainInv, [Next]_vars
  PROVE  ChainInv'
<1>1. /\ warrants \in SUBSET Claim(OrderId) /\ IsFiniteSet(Units(warrants))
      /\ confirmed \in Nat /\ confirmedBy \in [OrderId -> Nat]
  BY DEF IInv, TradeTypeOK, Unique
<1>2. ASSUME NEW r \in warrants, NEW b \in BOOLEAN,
             Confirm(r, b) \/ Fail(r) \/ DropResult(r, b)
      PROVE  ChainInv'
  <2>1. /\ ReportConfirmed(r) \/ ReportFailed(r)
        /\ warrants' = warrants \ {r}
    BY <1>2 DEF Confirm, Fail, DropResult
  <2>2. executed \ {r} \subseteq warrants' /\ r.amount <= Holdings
    BY <2>1, Fits DEF ChainInv
  <2> QED
    BY <1>1, <2>1, <2>2, ReportAccounted
<1>3. CASE Landing
  <2>1. warrants' = warrants /\ UNCHANGED reportVars
    BY <1>3 DEF Landing
  <2> QED
    BY <1>1, <1>3, <2>1, ExecuteAccounted, MoreAccounted DEF Landing
<1>4. CASE \/ UNCHANGED vars
           \/ \E o \in OrderId : Add(o) \/ Remove(o)
           \/ \E net \in NetBuy, mcap \in Mcap, ideal \in Quote :
                IssueWarrant(net, mcap, ideal)
  <2>1. UNCHANGED chainVars /\ UNCHANGED reportVars /\ warrants \subseteq warrants'
    BY <1>4 DEF vars, Add, Remove, IssueWarrant
  <2> QED
    BY <2>1 DEF ChainInv, ChainTypeOK, Accounted, chainVars, reportVars
<1> QED
  BY <1>2, <1>3, <1>4 DEF Next

\* Whatever landed is confirmed, awaits its report, or is surplus.
THEOREM ChainAccounted ==
  Spec => []ChainInv
<1>1. Init => ChainInv
  <2> SUFFICES ASSUME Init PROVE ChainInv
    OBVIOUS
  <2>1. ChainInit
    BY DEF Init
  <2>2. /\ Total(executed) = 0
        /\ \A o : ClaimsOf(executed, o) = {} /\ Total(ClaimsOf(executed, o)) = 0
    BY <2>1, TotalType DEF ChainInit, ClaimsOf
  <2> QED
    BY <2>1, <2>2 DEF ChainInit, ChainInv, ChainTypeOK, Accounted
<1>2. IInv /\ ChainInv /\ [Next]_vars => ChainInv'
  BY ChainStep
<1> QED
  BY Invariant, <1>1, <1>2, PTL DEF Spec

\* The counters of a trade never exceed its holdings, not even when it ends.
LEMMA WordsStep ==
  ASSUME IInv, InWords, [Next]_vars
  PROVE  InWords'
<1>1. /\ Holdings \in Nat /\ Holdings < Word /\ Word \in Nat
      /\ totalSold \in Nat /\ totalPending \in Nat /\ confirmed \in Nat
      /\ Total(warrants) \in Nat /\ confirmed + Total(warrants) <= Holdings
  BY Totals, CountersellAssumption DEF IInv, TradeTypeOK, Covered
<1>2. ASSUME NEW r \in warrants, NEW b \in BOOLEAN, Confirm(r, b) \/ Fail(r)
      PROVE  InWords'
  <2>1. /\ totalPending = Total(warrants) /\ totalSold = confirmed
        /\ r.amount \in Nat /\ r.amount <= Total(warrants)
    BY <1>2, Fits DEF Confirm, Fail, IInv, CountersBooked
  <2>2. /\ totalPending' = SubW(totalPending, r.amount)
        /\ totalSold' \in {totalSold, AddW(totalSold, r.amount)}
    BY <1>2 DEF Confirm, Fail, OnConfirmed, OnFailed
  <2> QED
    BY <1>1, <2>1, <2>2 DEF InWords, SubW, AddW
<1>3. ASSUME NEW net \in NetBuy, NEW mcap \in Mcap, NEW ideal \in Quote,
             IssueWarrant(net, mcap, ideal)
      PROVE  InWords'
  <2>1. PICK a \in 1 .. Holdings :
          /\ ~complete /\ confirmed + Total(warrants) + a <= Holdings
          /\ totalPending' = totalPending + a /\ totalSold' = totalSold
    BY <1>3, IssueFits
  <2> QED
    BY <1>1, <2>1 DEF InWords, IInv, CountersBooked
<1>4. CASE \/ UNCHANGED vars \/ Landing
           \/ \E o \in OrderId : Add(o) \/ Remove(o)
           \/ \E r \in warrants, b \in BOOLEAN : DropResult(r, b)
  <2>1. UNCHANGED <<totalSold, totalPending>>
    BY <1>4
    DEF vars, Landing, Add, AddOrder, Remove, RemoveOrder, DropResult, tradeVars
  <2> QED
    BY <2>1 DEF InWords
<1> QED
  BY <1>2, <1>3, <1>4 DEF Next

THEOREM WordsKept ==
  Spec => []InWords
<1>1. Init => InWords
  BY CountersellAssumption DEF Init, NewTrade, InWords
<1>2. IInv /\ InWords /\ [Next]_vars => InWords'
  BY WordsStep
<1> QED
  BY Invariant, <1>1, <1>2, PTL DEF Spec

\* No u64 wraps and no saturating_sub hides a mismatch: sums stay below Word,
\* and every result that may come releases no more than is pending.
THEOREM TypeCorrect ==
  Spec => []WithinWord
<1>1. ASSUME IInv, ChainInv, InWords PROVE TypeOK
  BY <1>1, CountersellAssumption DEF IInv, ChainInv, InWords, TypeOK, TradeTypeOK
<1>2. ASSUME IInv PROVE NoWrap
  <2>1. ASSUME NEW i \in live
        PROVE  /\ entries[i].sold + entries[i].pending
                    <= MaxToSell[entries[i].id]
               /\ \A w \in warrants :
                    w.order = entries[i].id => w.amount <= entries[i].pending
    <3>1. /\ entries[i].pending = Total(ClaimsOf(warrants, entries[i].id))
          /\ entries[i].sold = confirmedBy[entries[i].id]
          /\ entries[i].id \in OrderId
      BY <1>2, Totals DEF IInv, OrdersBooked
    <3> QED
      BY <1>2, <3>1, Fits DEF IInv, Covered
  <2>2. ASSUME ~complete
        PROVE  /\ totalSold + totalPending <= Holdings
               /\ \A w \in warrants : w.amount <= totalPending
    BY <1>2, <2>2, Fits DEF IInv, CountersBooked, Covered
  <2> QED
    BY <2>1, <2>2 DEF NoWrap
<1>3. IInv /\ ChainInv /\ InWords => WithinWord
  BY <1>1, <1>2 DEF WithinWord
<1> QED
  BY Invariant, ChainAccounted, WordsKept, <1>3, PTL

\* The counters issue_warrant caps by are exact as long as the trade runs: the
\* chain has taken what is booked, what awaits its report, and the surplus.
THEOREM CountersCorrect ==
  Spec => []AmountsExact
<1>1. ASSUME IInv, ChainInv PROVE CountersExact
  BY <1>1 DEF IInv, ChainInv, CountersBooked, CountersExact, Accounted
<1>2. ASSUME IInv, ChainInv PROVE OrdersExact
  <2> SUFFICES ASSUME NEW i \in live
               PROVE  LET o == entries[i].id
                      IN  /\ entries[i].pending = Total(ClaimsOf(warrants, o))
                          /\ landedBy[o] = entries[i].sold
                               + Total(ClaimsOf(executed, o)) + surplusBy[o]
    BY DEF OrdersExact
  <2>1. /\ entries[i].pending = Total(ClaimsOf(warrants, entries[i].id))
        /\ entries[i].sold = confirmedBy[entries[i].id]
        /\ entries[i].id \in OrderId
    BY <1>2, Totals DEF IInv, OrdersBooked
  <2> QED
    BY <1>2, <2>1 DEF ChainInv, Accounted
<1>3. IInv /\ ChainInv => AmountsExact
  BY <1>1, <1>2 DEF AmountsExact
<1> QED
  BY Invariant, ChainAccounted, <1>3, PTL

\* A trade that ends without cancelling an order has no warrant in flight:
\* either the wallet is empty, or every order has sold all it may.
THEOREM SettledEnd ==
  Spec => []SettledCompletion
<1>1. ASSUME IInv, complete, \A o \in OrderId : status[o] # "CANCELLED"
      PROVE  warrants = {}
  <2>1. /\ warrants \in SUBSET Claim(OrderId) /\ IsFiniteSet(Units(warrants))
        /\ confirmed \in Nat /\ confirmedBy \in [OrderId -> Nat]
        /\ Holdings \in Nat /\ MaxToSell \in [OrderId -> Nat]
    BY <1>1, CountersellAssumption DEF IInv, TradeTypeOK, Unique
  <2>2. Total(warrants) \in Nat /\ \A o : Total(ClaimsOf(warrants, o)) \in Nat
    BY <1>1, Totals
  <2>3. /\ confirmed + Total(warrants) <= Holdings
        /\ \A o \in OrderId :
             confirmedBy[o] + Total(ClaimsOf(warrants, o)) <= MaxToSell[o]
    BY <1>1 DEF Covered, IInv
  <2>4. CASE confirmed >= Holdings
    <3>1. Total(warrants) = 0
      BY <2>1, <2>2, <2>3, <2>4
    <3> QED
      BY <2>1, <3>1, NoTotalNoClaims
  <2>5. CASE live = {}
    <3> SUFFICES ASSUME NEW w \in warrants PROVE FALSE
      OBVIOUS
    <3>1. w.order \in OrderId /\ w \in ClaimsOf(warrants, w.order)
      BY <2>1 DEF Claim, ClaimsOf
    <3>2. PICK i \in 1 .. Len(entries) : entries[i].id = w.order
      BY <1>1, <3>1 DEF IInv, PushedFirst, Pushed
    <3>3. confirmedBy[w.order] >= MaxToSell[w.order]
      BY <1>1, <2>5, <3>1, <3>2 DEF IInv, GoneDone
    <3>4. Total(ClaimsOf(warrants, w.order)) = 0
      BY <2>1, <2>2, <2>3, <3>1, <3>3
    <3>5. /\ ClaimsOf(warrants, w.order) \in SUBSET warrants
          /\ ClaimsOf(warrants, w.order) \in SUBSET Claim(OrderId)
      BY <2>1 DEF ClaimsOf
    <3>6. IsFiniteSet(Units(ClaimsOf(warrants, w.order)))
      BY <2>1, <3>5, PartTotal
    <3>7. ClaimsOf(warrants, w.order) = {}
      BY <3>4, <3>5, <3>6, NoTotalNoClaims
    <3> QED
      BY <3>1, <3>7
  <2> QED
    BY <1>1, <2>4, <2>5 DEF IInv, CompleteWhy
<1>2. IInv => SettledCompletion
  BY <1>1 DEF SettledCompletion
<1> QED
  BY Invariant, <1>2, PTL

\* The rows tell the truth about the chain: COMPLETED is earned, no more is
\* recorded than was sold, and an order is orphaned only by a lost record.
THEOREM RowsEarnedTrue ==
  Spec => []RowsEarned
<1>1. ASSUME IInv, complete, NEW o \in OrderId, status[o] = "ACTIVE"
      PROVE  dbSold[o] < confirmedBy[o] \/ MaxToSell[o] = 0
  <2>1. PICK i \in 1 .. Len(entries) : entries[i].id = o
    BY <1>1 DEF IInv, PushedFirst, Pushed
  <2>2. i \notin live
    BY <1>1, <2>1 DEF IInv, LiveActive
  <2>3. confirmedBy[o] >= MaxToSell[o]
    BY <1>1, <2>1, <2>2 DEF IInv, GoneDone
  <2> QED
    BY <1>1, <2>3 DEF IInv, ActiveUnrecorded
<1>2. IInv => RowsEarned
  BY <1>1 DEF IInv, OrphanOnlyUnrecorded, RowsEarned
<1> QED
  BY Invariant, <1>2, PTL

\* COMPLETED and CANCELLED are final.
THEOREM StatusFinal ==
  Spec => FinalStatus
<1>1. IInv /\ [Next]_vars => [StatusKept]_vars
  BY Step
<1>2. [StatusKept]_vars
        => [\A o \in OrderId :
              status[o] \in {"COMPLETED", "CANCELLED"}
                => status'[o] = status[o]]_vars
  BY DEF StatusKept
<1> QED
  BY Invariant, <1>1, <1>2, PTL DEF Spec, FinalStatus

-----------------------------------------------------------------------------
(* The ledger.                                                             *)

\* The claims the ledger speaks of are the claims of this module.
LEMMA SameClaims ==
  /\ \A S : Ledger!Total(S) = Total(S)
  /\ \A S, o : Ledger!ClaimsOf(S, o) = ClaimsOf(S, o)
<1>1. \A S : Ledger!Units(S) = Units(S)
  BY DEF Ledger!Units, Units, Ledger!UnitsOf, UnitsOf
<1>2. \A S : Ledger!Cardinality(S) = Cardinality(S)
  BY DEF Ledger!Cardinality, Cardinality
<1>3. \A S : Ledger!Total(S) = Total(S)
  BY <1>1, <1>2 DEF Ledger!Total, Total
<1>4. \A S, o : Ledger!ClaimsOf(S, o) = ClaimsOf(S, o)
  BY DEF Ledger!ClaimsOf, ClaimsOf
<1> QED
  BY <1>3, <1>4

\* The promise, in the terms of this module.
LEMMA Promise ==
  NeverOversold <=>
    /\ landed + Total(warrants \ executed) <= Holdings + surplus
    /\ \A o \in OrderId : landedBy[o] + Total(ClaimsOf(warrants \ executed, o))
                            <= MaxToSell[o] + surplusBy[o]
BY SameClaims DEF NeverOversold, Ledger!WithinHoldings, Ledger!WithinLimits

\* The ledger's invariant: with reservations numbered once, nothing beyond the
\* holdings, nor beyond an order's limit, is taken or promised, but the surplus.
LedgerTypeOK == /\ warrants \in SUBSET Claim(OrderId)
                /\ executed \in SUBSET warrants
                /\ landed \in Nat
                /\ landedBy \in [OrderId -> Nat]
                /\ surplus \in Nat
                /\ surplusBy \in [OrderId -> Nat]
                /\ issued \in Nat

LedgerInv == /\ LedgerTypeOK
             /\ IsFiniteSet(Units(warrants))
             /\ \A w \in warrants : w.n <= issued
             /\ NeverOversold

\* What a step does to the promise, given what it does to the reservations that
\* are not drawn and to the tokens taken and in surplus: they change by b, d
\* and e, for the owner p alone.
LEMMA Kept ==
  ASSUME LedgerInv, NEW p \in OrderId, NEW b \in Int, NEW d \in Nat, NEW e \in Nat,
         Total(warrants' \ executed') = Total(warrants \ executed) + b,
         \A o \in OrderId :
           Total(ClaimsOf(warrants' \ executed', o))
             = Total(ClaimsOf(warrants \ executed, o)) + (IF o = p THEN b ELSE 0),
         landed' = landed + d,
         landedBy' = [landedBy EXCEPT ![p] = @ + d],
         surplus' = surplus + e,
         surplusBy' = [surplusBy EXCEPT ![p] = @ + e],
         \/ d + b <= e
         \/ /\ landed + Total(warrants \ executed) + b + d <= Holdings + surplus + e
            /\ landedBy[p] + Total(ClaimsOf(warrants \ executed, p)) + b + d
                 <= MaxToSell[p] + surplusBy[p] + e
  PROVE  NeverOversold'
<1>1. /\ Holdings \in Nat /\ MaxToSell \in [OrderId -> Nat]
      /\ landed \in Nat /\ landedBy \in [OrderId -> Nat]
      /\ surplus \in Nat /\ surplusBy \in [OrderId -> Nat]
  BY CountersellAssumption DEF LedgerInv, LedgerTypeOK
<1>2. /\ Total(warrants \ executed) \in Nat
      /\ \A o : Total(ClaimsOf(warrants \ executed, o)) \in Nat
  BY Split, SplitOf DEF LedgerInv, LedgerTypeOK
<1>3. landed' + Total(warrants' \ executed') <= Holdings + surplus'
  <2>1. landed + Total(warrants \ executed) <= Holdings + surplus
    BY Promise DEF LedgerInv
  <2> QED
    BY <1>1, <1>2, <2>1
<1>4. ASSUME NEW o \in OrderId
      PROVE  landedBy'[o] + Total(ClaimsOf(warrants' \ executed', o))
               <= MaxToSell[o] + surplusBy'[o]
  <2>1. /\ landedBy[o] + Total(ClaimsOf(warrants \ executed, o))
             <= MaxToSell[o] + surplusBy[o]
        /\ landedBy[o] \in Nat /\ surplusBy[o] \in Nat /\ MaxToSell[o] \in Nat
        /\ Total(ClaimsOf(warrants \ executed, o)) \in Nat
    BY <1>1, <1>2, Promise DEF LedgerInv
  <2>2. CASE o = p
    <3>1. /\ landedBy'[p] = landedBy[p] + d /\ surplusBy'[p] = surplusBy[p] + e
          /\ Total(ClaimsOf(warrants' \ executed', p))
               = Total(ClaimsOf(warrants \ executed, p)) + b
      BY <1>1
    <3> QED
      BY <2>1, <2>2, <3>1
  <2>3. CASE o # p
    <3>1. /\ landedBy'[o] = landedBy[o] /\ surplusBy'[o] = surplusBy[o]
          /\ Total(ClaimsOf(warrants' \ executed', o))
               = Total(ClaimsOf(warrants \ executed, o)) + 0
      BY <1>1, <2>3
    <3> QED
      BY <2>1, <3>1
  <2> QED
    BY <2>2, <2>3
<1> QED
  BY <1>3, <1>4, SameClaims
  DEF NeverOversold, Ledger!WithinHoldings, Ledger!WithinLimits

\* No step of the ledger breaks its promise.
LEMMA LedgerStep ==
  ASSUME LedgerInv, [Ledger!LedgerNext]_(Ledger!ledgerVars)
  PROVE  LedgerInv'
<1> DEFINE rest == warrants \ executed
<1>1. /\ warrants \in SUBSET Claim(OrderId) /\ executed \in SUBSET warrants
      /\ landed \in Nat /\ landedBy \in [OrderId -> Nat]
      /\ surplus \in Nat /\ surplusBy \in [OrderId -> Nat]
      /\ issued \in Nat /\ IsFiniteSet(Units(warrants))
      /\ \A w \in warrants : w.n \in Nat /\ w.n <= issued
  BY DEF LedgerInv, LedgerTypeOK, Claim
<1>2. /\ rest \in SUBSET Claim(OrderId) /\ IsFiniteSet(Units(rest))
      /\ Total(rest) \in Nat
      /\ \A o : Total(ClaimsOf(rest, o)) \in Nat
  BY <1>1, PartTotal, Split, SplitOf
<1>3. ASSUME NEW o \in OrderId, NEW a \in 1 .. Holdings,
             Ledger!Reserve([n |-> issued + 1, order |-> o, amount |-> a])
      PROVE  LedgerInv'
  <2> DEFINE c == [n |-> issued + 1, order |-> o, amount |-> a]
  <2>1. /\ c \in Claim(OrderId) /\ c.n = issued + 1 /\ c.order = o /\ c.amount = a
        /\ a \in Nat /\ c \notin warrants
    BY <1>1 DEF Claim
  <2>2. /\ warrants' = warrants \cup {c} /\ executed' = executed
        /\ issued' = issued + 1
        /\ UNCHANGED <<landed, landedBy, surplus, surplusBy>>
        /\ landed + Total(rest) + a <= Holdings + surplus
        /\ landedBy[o] + Total(ClaimsOf(rest, o)) + a <= MaxToSell[o] + surplusBy[o]
    BY <1>3, SameClaims DEF Ledger!Reserve
  <2> HIDE DEF c
  <2>3. /\ warrants' \ executed' = rest \cup {c} /\ c \notin rest
        /\ IsFiniteSet(Units(warrants'))
    BY <1>1, <2>1, <2>2, AddClaim
  <2> HIDE DEF rest
  <2>4. /\ Total(rest \cup {c}) = Total(rest) + a
        /\ \A p \in OrderId : Total(ClaimsOf(rest \cup {c}, p))
             = Total(ClaimsOf(rest, p)) + (IF p = o THEN a ELSE 0)
    <3>1. Total(rest \cup {c}) = Total(rest) + c.amount
      BY <1>2, <2>1, <2>3, AddClaim
    <3>2. ASSUME NEW p \in OrderId
          PROVE  Total(ClaimsOf(rest \cup {c}, p))
                   = Total(ClaimsOf(rest, p)) + (IF c.order = p THEN c.amount ELSE 0)
      BY <1>2, <2>1, <2>3, AddClaimOf
    <3> QED
      BY <2>1, <3>1, <3>2
  <2>5. /\ landed' = landed + 0 /\ surplus' = surplus + 0
        /\ landedBy' = [landedBy EXCEPT ![o] = @ + 0]
        /\ surplusBy' = [surplusBy EXCEPT ![o] = @ + 0]
    BY <1>1, <2>2
  <2>6. /\ landed + Total(rest) + a + 0 <= Holdings + surplus + 0
        /\ landedBy[o] + Total(ClaimsOf(rest, o)) + a + 0
             <= MaxToSell[o] + surplusBy[o] + 0
    <3>1. landedBy[o] \in Nat /\ surplusBy[o] \in Nat /\ Total(ClaimsOf(rest, o)) \in Nat
      BY <1>1, <1>2
    <3>2. Holdings \in Nat /\ MaxToSell[o] \in Nat
      BY CountersellAssumption
    <3> QED
      BY <1>1, <1>2, <2>1, <2>2, <3>1, <3>2
  <2>7. NeverOversold'
    <3>1. a \in Int /\ 0 \in Nat
      BY <2>1
    <3> QED
      BY <2>3, <2>4, <2>5, <2>6, <3>1, Kept DEF rest
  <2>8. LedgerTypeOK' /\ \A w \in warrants' : w.n <= issued'
    BY <1>1, <2>1, <2>2 DEF LedgerTypeOK
  <2> QED
    BY <2>3, <2>7, <2>8 DEF LedgerInv
<1>4. ASSUME NEW o \in OrderId, NEW a \in 1 .. Holdings, Ledger!Overdraw(o, a)
      PROVE  LedgerInv'
  <2>1. /\ landed' = landed + a /\ surplus' = surplus + a
        /\ landedBy' = [landedBy EXCEPT ![o] = @ + a]
        /\ surplusBy' = [surplusBy EXCEPT ![o] = @ + a]
        /\ UNCHANGED <<warrants, executed, issued>> /\ a \in Nat
    BY <1>4 DEF Ledger!Overdraw, Ledger!Take, Ledger!Exceed
  <2>2. /\ Total(warrants' \ executed') = Total(rest) + 0
        /\ \A p \in OrderId : Total(ClaimsOf(warrants' \ executed', p))
             = Total(ClaimsOf(rest, p)) + (IF p = o THEN 0 ELSE 0)
    <3>1. warrants' \ executed' = rest
      BY <2>1
    <3>2. ASSUME NEW p \in OrderId
          PROVE  Total(ClaimsOf(warrants' \ executed', p)) = Total(ClaimsOf(rest, p)) + 0
      BY <1>2, <3>1
    <3>3. Total(warrants' \ executed') = Total(rest) + 0
      BY <1>2, <3>1
    <3> HIDE DEF rest
    <3> QED
      BY <3>2, <3>3
  <2>3. NeverOversold'
    <3>1. 0 \in Int /\ a + 0 <= a
      BY <2>1
    <3> QED
      BY <2>1, <2>2, <3>1, Kept
  <2> QED
    BY <1>1, <2>1, <2>3 DEF LedgerInv, LedgerTypeOK
<1>5. ASSUME NEW c \in warrants, Ledger!Draw(c) \/ (Ledger!Release(c) /\ c \notin executed)
      PROVE  LedgerInv'
  <2>1. /\ c \in rest /\ c.order \in OrderId /\ c.amount \in Nat
        /\ warrants' \ executed' = rest \ {c}
        /\ warrants' \subseteq warrants /\ executed' \subseteq warrants'
        /\ issued' = issued
    BY <1>1, <1>5 DEF Ledger!Draw, Ledger!Release, Claim
  <2>2. \E d \in Nat : /\ d <= c.amount
                       /\ landed' = landed + d
                       /\ landedBy' = [landedBy EXCEPT ![c.order] = @ + d]
    <3>1. CASE Ledger!Draw(c)
      <4>1. /\ landed' = landed + c.amount /\ c.amount <= c.amount
            /\ landedBy' = [landedBy EXCEPT ![c.order] = @ + c.amount]
        BY <2>1, <3>1 DEF Ledger!Draw, Ledger!Take
      <4> QED
        BY <2>1, <4>1
    <3>2. CASE Ledger!Release(c) /\ c \notin executed
      <4>1. landed' = landed + 0 /\ landedBy' = [landedBy EXCEPT ![c.order] = @ + 0]
        BY <1>1, <2>1, <3>2 DEF Ledger!Release
      <4>2. 0 \in Nat /\ 0 <= c.amount
        BY <2>1
      <4> QED
        BY <4>1, <4>2
    <3> QED
      BY <1>5, <3>1, <3>2
  <2>3. PICK d \in Nat : /\ d <= c.amount
                         /\ landed' = landed + d
                         /\ landedBy' = [landedBy EXCEPT ![c.order] = @ + d]
    BY <2>2
  <2>4. surplus' = surplus /\ surplusBy' = surplusBy
    BY <1>5 DEF Ledger!Draw, Ledger!Release
  <2>5. surplus' = surplus + 0 /\ surplusBy' = [surplusBy EXCEPT ![c.order] = @ + 0]
    BY <1>1, <2>1, <2>4
  <2>6. /\ Total(rest \ {c}) = Total(rest) - c.amount
        /\ \A o : Total(ClaimsOf(rest \ {c}, o))
             = Total(ClaimsOf(rest, o)) - (IF c.order = o THEN c.amount ELSE 0)
    <3> HIDE DEF rest
    <3> QED BY <1>2, <2>1, CloseClaim, CloseClaimOf
  <2>7. /\ Total(rest \ {c}) = Total(rest) + (0 - c.amount)
        /\ \A o \in OrderId : Total(ClaimsOf(rest \ {c}, o))
             = Total(ClaimsOf(rest, o)) + (IF o = c.order THEN 0 - c.amount ELSE 0)
    <3> HIDE DEF rest
    <3> QED BY <1>2, <2>1, <2>6
  <2>8. NeverOversold'
    <3>1. 0 - c.amount \in Int /\ d + (0 - c.amount) <= 0
      BY <2>1, <2>3
    <3> QED
      BY <2>1, <2>3, <2>5, <2>7, <3>1, Kept
  <2>9. LedgerTypeOK'
    BY <1>1, <2>1, <2>3, <2>4 DEF LedgerTypeOK
  <2>10. IsFiniteSet(Units(warrants'))
    BY <1>1, <2>1, PartTotal
  <2> QED
    BY <1>1, <2>1, <2>8, <2>9, <2>10 DEF LedgerInv
<1>6. ASSUME NEW c \in warrants, Ledger!Settle(c) \/ (Ledger!Release(c) /\ c \in executed)
      PROVE  LedgerInv'
  <2>1. /\ c \in executed /\ c.order \in OrderId /\ c.amount \in Nat
        /\ warrants' = warrants \ {c} /\ executed' = executed \ {c}
        /\ issued' = issued /\ UNCHANGED <<landed, landedBy>>
    BY <1>1, <1>6 DEF Ledger!Settle, Ledger!Release, Claim
  <2>2. PICK e \in Nat : /\ surplus' = surplus + e
                         /\ surplusBy' = [surplusBy EXCEPT ![c.order] = @ + e]
    <3>1. CASE Ledger!Settle(c)
      <4>1. surplus' = surplus + 0 /\ surplusBy' = [surplusBy EXCEPT ![c.order] = @ + 0]
        BY <1>1, <2>1, <3>1 DEF Ledger!Settle
      <4> QED
        BY <4>1
    <3>2. CASE Ledger!Release(c) /\ c \in executed
      BY <2>1, <3>2 DEF Ledger!Release, Ledger!Exceed
    <3> QED
      BY <1>6, <3>1, <3>2
  <2>3. warrants' \ executed' = rest
    BY <2>1
  <2>4. /\ Total(warrants' \ executed') = Total(rest) + 0
        /\ \A p \in OrderId : Total(ClaimsOf(warrants' \ executed', p))
             = Total(ClaimsOf(rest, p)) + (IF p = c.order THEN 0 ELSE 0)
    BY <1>2, <2>3
  <2>5. landed' = landed + 0 /\ landedBy' = [landedBy EXCEPT ![c.order] = @ + 0]
    BY <1>1, <2>1
  <2>6. NeverOversold'
    <3>1. 0 \in Int /\ 0 \in Nat /\ 0 + 0 <= e
      OBVIOUS
    <3> QED
      BY <2>1, <2>2, <2>4, <2>5, <3>1, Kept
  <2>7. LedgerTypeOK' /\ IsFiniteSet(Units(warrants'))
    BY <1>1, <2>1, <2>2, PartTotal DEF LedgerTypeOK
  <2> QED
    BY <1>1, <2>1, <2>6, <2>7 DEF LedgerInv
<1>7. CASE UNCHANGED Ledger!ledgerVars
  <2>1. UNCHANGED <<warrants, executed, landed, landedBy, surplus, surplusBy, issued>>
    BY <1>7 DEF Ledger!ledgerVars
  <2> QED
    BY <2>1, SameClaims
    DEF LedgerInv, LedgerTypeOK, NeverOversold, Ledger!WithinHoldings,
        Ledger!WithinLimits
<1>8. CASE \E o \in OrderId, a \in 1 .. Holdings :
             \/ Ledger!Reserve([n |-> issued + 1, order |-> o, amount |-> a])
             \/ Ledger!Overdraw(o, a)
  <2>1. PICK o \in OrderId, a \in 1 .. Holdings :
          \/ Ledger!Reserve([n |-> issued + 1, order |-> o, amount |-> a])
          \/ Ledger!Overdraw(o, a)
    BY <1>8
  <2>2. CASE Ledger!Reserve([n |-> issued + 1, order |-> o, amount |-> a])
    BY <1>3, <2>2
  <2>3. CASE Ledger!Overdraw(o, a)
    BY <1>4, <2>3
  <2> QED
    BY <2>1, <2>2, <2>3
<1>9. CASE \E c \in warrants :
             Ledger!Draw(c) \/ Ledger!Settle(c) \/ Ledger!Release(c)
  <2>1. PICK c \in warrants :
          Ledger!Draw(c) \/ Ledger!Settle(c) \/ Ledger!Release(c)
    BY <1>9
  <2>2. CASE Ledger!Draw(c)
    BY <1>5, <2>2
  <2>3. CASE Ledger!Settle(c)
    BY <1>6, <2>3
  <2>4. CASE Ledger!Release(c)
    BY <1>5, <1>6, <2>4
  <2> QED
    BY <2>1, <2>2, <2>3, <2>4
<1> QED
  BY <1>7, <1>8, <1>9 DEF Ledger!LedgerNext

\* Whatever the holdings and the limits, the ledger takes and promises nothing
\* beyond them but the surplus: the caps issue_warrant puts on a warrant are
\* enough.
THEOREM LedgerSafe == Ledger!LedgerSpec => []NeverOversold
<1>1. Ledger!LedgerInit => LedgerInv
  <2> SUFFICES ASSUME Ledger!LedgerInit PROVE LedgerInv
    OBVIOUS
  <2>1. /\ warrants = {} /\ executed = {} /\ landed = 0 /\ surplus = 0 /\ issued = 0
        /\ landedBy = [o \in OrderId |-> 0] /\ surplusBy = [o \in OrderId |-> 0]
    BY DEF Ledger!LedgerInit
  <2>2. warrants \ executed = {} /\ \A o : ClaimsOf(warrants \ executed, o) = {}
    BY <2>1 DEF ClaimsOf
  <2>3. /\ IsFiniteSet(Units(warrants)) /\ Total(warrants \ executed) = 0
        /\ \A o : Total(ClaimsOf(warrants \ executed, o)) = 0
    BY <2>1, <2>2, TotalType
  <2>4. LedgerTypeOK /\ \A c \in warrants : c.n <= issued
    BY <2>1 DEF LedgerTypeOK
  <2>5. NeverOversold
    BY <2>1, <2>3, Promise, CountersellAssumption
  <2> QED
    BY <2>3, <2>4, <2>5 DEF LedgerInv
<1>2. LedgerInv /\ [Ledger!LedgerNext]_(Ledger!ledgerVars) => LedgerInv'
  BY LedgerStep
<1>3. LedgerInv => NeverOversold
  BY DEF LedgerInv
<1> QED
  BY <1>1, <1>2, <1>3, PTL DEF Ledger!LedgerSpec

\* What a warrant is capped by leaves room in the ledger.
LEMMA RoomInLedger ==
  ASSUME IInv, ChainInv, NEW o \in OrderId, NEW a \in Nat,
         confirmed + Total(warrants) + a <= Holdings,
         confirmedBy[o] + Total(ClaimsOf(warrants, o)) + a <= MaxToSell[o]
  PROVE  /\ landed + Total(warrants \ executed) + a <= Holdings + surplus
         /\ landedBy[o] + Total(ClaimsOf(warrants \ executed, o)) + a
              <= MaxToSell[o] + surplusBy[o]
<1>1. /\ warrants \in SUBSET Claim(OrderId) /\ IsFiniteSet(Units(warrants))
      /\ executed \in SUBSET warrants
      /\ confirmed \in Nat /\ confirmedBy[o] \in Nat
      /\ landed \in Nat /\ landedBy[o] \in Nat
      /\ surplus \in Nat /\ surplusBy[o] \in Nat
      /\ Holdings \in Nat /\ MaxToSell[o] \in Nat
  BY CountersellAssumption DEF IInv, TradeTypeOK, Unique, ChainInv, ChainTypeOK
<1>2. /\ Total(warrants) = Total(executed) + Total(warrants \ executed)
      /\ Total(executed) \in Nat /\ Total(warrants \ executed) \in Nat
  BY <1>1, Split
<1>3. /\ Total(ClaimsOf(warrants, o))
           = Total(ClaimsOf(executed, o)) + Total(ClaimsOf(warrants \ executed, o))
      /\ Total(ClaimsOf(executed, o)) \in Nat
      /\ Total(ClaimsOf(warrants \ executed, o)) \in Nat
  BY <1>1, SplitOf
<1>4. /\ landed = confirmed + Total(executed) + surplus
      /\ landedBy[o] = confirmedBy[o] + Total(ClaimsOf(executed, o)) + surplusBy[o]
  BY DEF ChainInv, Accounted
<1> QED
  BY <1>1, <1>2, <1>3, <1>4

\* Every step of the trade and of the chain is a step of the ledger, or leaves
\* it alone.
LEMMA LedgerRefines ==
  ASSUME IInv, ChainInv, [Next]_vars
  PROVE  [Ledger!LedgerNext]_(Ledger!ledgerVars)
<1>1. ASSUME NEW net \in NetBuy, NEW mcap \in Mcap, NEW ideal \in Quote,
             IssueWarrant(net, mcap, ideal)
      PROVE  Ledger!LedgerNext
  <2>1. PICK i \in live, a \in 1 .. Holdings :
           LET o == entries[i].id
               w == [n |-> issued + 1, order |-> o, amount |-> a]
           IN  /\ o \in OrderId
               /\ confirmed + Total(warrants) + a <= Holdings
               /\ confirmedBy[o] + Total(ClaimsOf(warrants, o)) + a <= MaxToSell[o]
               /\ warrants' = warrants \cup {w}
               /\ issued' = issued + 1
    BY <1>1, IssueFits
  <2> DEFINE o == entries[i].id
  <2>2. /\ landed + Total(warrants \ executed) + a <= Holdings + surplus
        /\ landedBy[o] + Total(ClaimsOf(warrants \ executed, o)) + a
             <= MaxToSell[o] + surplusBy[o]
    <3>1. o \in OrderId /\ a \in Nat
      BY <2>1, CountersellAssumption
    <3> QED
      BY <2>1, <3>1, RoomInLedger
  <2>3. UNCHANGED chainVars
    BY <1>1 DEF IssueWarrant
  <2>4. Ledger!Reserve([n |-> issued + 1, order |-> o, amount |-> a])
    BY <2>1, <2>2, <2>3, SameClaims DEF Ledger!Reserve, chainVars
  <2> QED
    BY <2>1, <2>4 DEF Ledger!LedgerNext
<1>2. ASSUME NEW r \in warrants, NEW b \in BOOLEAN,
             Confirm(r, b) \/ Fail(r) \/ DropResult(r, b)
      PROVE  Ledger!Settle(r) \/ Ledger!Release(r)
  <2>1. /\ warrants' = warrants \ {r} /\ issued' = issued
        /\ ReportConfirmed(r) \/ ReportFailed(r)
    BY <1>2 DEF Confirm, Fail, DropResult
  <2>2. CASE ReportConfirmed(r)
    BY <2>1, <2>2 DEF ReportConfirmed, Report, Ledger!Settle
  <2>3. CASE ReportFailed(r)
    BY <2>1, <2>3
    DEF ReportFailed, Report, Unaccounted, Ledger!Release, Ledger!Exceed
  <2> QED
    BY <2>1, <2>2, <2>3
<1>3. ASSUME NEW w \in warrants, Execute(w), UNCHANGED <<warrants, issued>>
      PROVE  Ledger!Draw(w)
  BY <1>3 DEF Execute, Land, Ledger!Draw, Ledger!Take
<1>4. ASSUME NEW s \in late \cup {SaleOf(w) : w \in executed}, ExecuteMore(s),
             UNCHANGED <<warrants, issued>>
      PROVE  Ledger!LedgerNext
  <2>1. s.order \in OrderId /\ s.amount \in 1 .. Holdings
    <3>1. CASE s \in late
      BY <3>1, CountersellAssumption DEF ChainInv, ChainTypeOK
    <3>2. CASE s \in {SaleOf(w) : w \in executed}
      <4>1. PICK w \in warrants : s = SaleOf(w)
        BY <3>2 DEF ChainInv
      <4> QED
        BY <4>1, Fits DEF SaleOf
    <3> QED
      BY <3>1, <3>2
  <2>2. Ledger!Overdraw(s.order, s.amount)
    BY <1>4 DEF ExecuteMore, Land, Unaccounted, Ledger!Overdraw, Ledger!Take,
                Ledger!Exceed
  <2> QED
    BY <2>1, <2>2 DEF Ledger!LedgerNext
<1>5. ASSUME NEW o \in OrderId, Add(o) \/ Remove(o)
      PROVE  UNCHANGED Ledger!ledgerVars
  BY <1>5 DEF Add, Remove, chainVars, Ledger!ledgerVars
<1>6. CASE UNCHANGED vars
  BY <1>6 DEF vars, chainVars, Ledger!ledgerVars
<1> QED
  BY <1>1, <1>2, <1>3, <1>4, <1>5, <1>6 DEF Next, Landing, Ledger!LedgerNext

\* The trade implements the ledger.
THEOREM Refinement ==
  Spec => ImplementsLedger
<1>1. Init => Ledger!LedgerInit
  BY DEF Init, ChainInit, Ledger!LedgerInit
<1>2. IInv /\ ChainInv /\ [Next]_vars => [Ledger!LedgerNext]_(Ledger!ledgerVars)
  BY LedgerRefines
<1> QED
  BY Invariant, ChainAccounted, <1>1, <1>2, PTL
  DEF Spec, ImplementsLedger, Ledger!LedgerSpec

\* So neither the wallet nor an order is oversold or overpromised by more than
\* the surplus, whenever the chain executes and whatever is reported.
THEOREM Safe ==
  Spec => []NeverOversold
BY Refinement, LedgerSafe, PTL DEF ImplementsLedger
=============================================================================
