------------------------------ MODULE ApiProofs ------------------------------
(***************************************************************************)
(* The HTTP service, for any requests, however they interleave: answers    *)
(* are true, messages name what the database holds, and a removal reaches  *)
(* the trade of its order while the account keeps its wallet.              *)
(***************************************************************************)
EXTENDS Api, FiniteSetTheorems, TLAPS

\* The forms of a request, told apart by their kind.
Form == {Unused} \cup Plain \cup Creation \cup Deletion \cup Refusal

LEMMA Forms ==
  ASSUME NEW f \in Form
  PROVE  /\ f.kind = "none" => f = Unused
         /\ f.kind = "none" <=> f.step = "none"
         /\ f.kind \in {"wallet", "reset"} => f \in Plain
         /\ f.kind = "create" => f \in Creation
         /\ f.kind = "delete" /\ f.step \in {"send", "done"} => f \in Deletion
         /\ f \in Deletion => f.kind = "delete" /\ f.step # "refused"
         /\ f.step \in {"token", "insert", "wallet", "context"} => f.kind = "create"
         /\ f.step = "encrypt" => f.kind \in {"wallet", "reset"}
         /\ f.step = "send" => f.kind \in {"create", "delete"}
BY DEF Form, Unused, Plain, Creation, Deletion, Refusal

\* Each request has one of these forms.
LEMMA Requests ==
  ASSUME ApiInv, NEW r \in Request
  PROVE  request[r] \in Form
BY DEF ApiInv, Typed, Form

LEMMA SaversFinite ==
  /\ IsFiniteSet(Savers) /\ Cardinality(Savers) \in Nat
  /\ IsFiniteSet(Request) /\ Cardinality(Request) \in Nat
  /\ Cardinality(Savers) <= Cardinality(Request)
<1>1. Savers \in SUBSET Request
  BY DEF Savers
<1> QED
  BY <1>1, ApiAssumption, FS_Subset, FS_CardinalityType

-----------------------------------------------------------------------------
(* One request goes on; the others stay.                                   *)

\* What a step of r leaves alone.
LEMMA OthersKept ==
  ASSUME ApiInv, NEW r \in Request, NEW f \in Form,
         request' = [request EXCEPT ![r] = f]
  PROVE  /\ request' \in [Request -> Form]
         /\ request'[r] = f
         /\ \A q \in Request : q # r => request'[q] = request[q]
BY DEF ApiInv, Typed, Form

\* A removal's names and a message's stay true when their order's request does.
LEMMA NamesKept ==
  ASSUME ApiInv, orders \subseteq orders', wallets' \in Nat, wallets <= wallets',
         \A o \in orders : request'[o].type = request[o].type
                           /\ request'[o].wallet = request[o].wallet
                           /\ request'[o].amounts = request[o].amounts
  PROVE  /\ \A o, w : NamesLater(o, w) => NamesLater(o, w)'
         /\ sent' = sent => MessagesTrue'
<1>1. ASSUME NEW o, NEW w, NamesLater(o, w) PROVE NamesLater(o, w)'
  <2>1. o \in orders /\ w \in request[o].wallet .. wallets
    BY <1>1 DEF NamesLater
  <2>2. o \in Request /\ request[o].kind = "create"
    BY <2>1 DEF ApiInv, CreationInStep, Creates
  <2>3. request[o] \in Creation
    BY <2>2, Requests, Forms
  <2>4. request[o].wallet \in Nat /\ wallets \in Nat
    BY <2>3 DEF Creation, ApiInv, Typed
  <2>5. o \in orders' /\ w \in request'[o].wallet .. wallets'
    BY <2>1, <2>4
  <2> QED
    BY <2>5 DEF NamesLater
<1>2. ASSUME sent' = sent PROVE MessagesTrue'
  <2> SUFFICES ASSUME NEW m \in sent
      PROVE \/ m.order \in orders' /\ m = [command |-> "CREATE_ORDER",
                 order |-> m.order, type |-> request'[m.order].type,
                 wallet |-> request'[m.order].wallet,
                 amounts |-> request'[m.order].amounts]
            \/ (NamesLater(m.order, m.wallet))' /\ m = [command |-> "DELETE_ORDER",
                 order |-> m.order, type |-> request'[m.order].type,
                 wallet |-> m.wallet]
    BY <1>2 DEF MessagesTrue
  <2>1. PICK o, w : o = m.order /\ w = m.wallet
    OBVIOUS
  <2>2. CASE m.order \in orders /\ m = [command |-> "CREATE_ORDER",
                 order |-> m.order, type |-> request[m.order].type,
                 wallet |-> request[m.order].wallet,
                 amounts |-> request[m.order].amounts]
    BY <2>2
  <2>3. CASE NamesLater(m.order, m.wallet) /\ m = [command |-> "DELETE_ORDER",
                 order |-> m.order, type |-> request[m.order].type,
                 wallet |-> m.wallet]
    <3>1. NamesLater(o, w)' /\ o \in orders
      BY <1>1, <2>1, <2>3 DEF NamesLater
    <3>2. request'[o].type = request[o].type
      BY <3>1
    <3> QED
      BY <2>1, <2>3, <3>1, <3>2
  <2> QED
    BY <2>2, <2>3 DEF ApiInv, MessagesTrue
<1> QED
  BY <1>1, <1>2

\* A deletion that was asked names what it named.
LEMMA DeletionsKept ==
  ASSUME ApiInv, NEW r \in Request,
         \A q \in Request : q # r => request'[q] = request[q],
         request'[r] \in Deletion =>
           NamesLater(request'[r].order, request'[r].wallet),
         \A o, w : NamesLater(o, w) => NamesLater(o, w)'
  PROVE  DeletionNames'
<1> SUFFICES ASSUME NEW q \in Request, request'[q] \in Deletion
             PROVE  NamesLater(request[q].order, request[q].wallet)'
  BY DEF DeletionNames, Deletion
<1>1. PICK g : g = request'[q]
  OBVIOUS
<1>2. NamesLater(g.order, g.wallet)
  BY <1>1 DEF ApiInv, DeletionNames
<1>3. NamesLater(g.order, g.wallet)'
  BY <1>2
<1> QED
  BY <1>1, <1>3

\* A request goes on that has neither an order nor a wallet to show for it.
LEMMA GoesOn ==
  ASSUME ApiInv, NEW r \in Request, NEW f \in Form,
         request' = [request EXCEPT ![r] = f],
         UNCHANGED <<accountVars, orders, sent, engineVars>>,
         request[r].step \in {"none", "encrypt", "token", "insert", "wallet", "context"},
         f.kind \in Kind,
         f.kind \in {"wallet", "reset"} => f.step # "done",
         f.kind = "create" => /\ f.step \notin {"send", "done"}
                              /\ f.wallet <= wallets
                              /\ f.step = "context" => f.wallet > 0,
         f \in Deletion => NamesLater(f.order, f.wallet),
         tokenRow' \in {"absent", "saved"} \cup Request,
         TokenHeld'
  PROVE  ApiInv'
<1>1. /\ request' \in [Request -> Form]
      /\ request'[r] = f
      /\ \A q \in Request : q # r => request'[q] = request[q]
  BY OthersKept
<1>2. r \notin orders /\ orders \subseteq Request
  BY DEF ApiInv, CreationInStep, Creates
<1>3. \A o \in orders : request'[o] = request[o]
  BY <1>1, <1>2
<1>4. Typed'
  BY <1>1 DEF ApiInv, Typed, Form, accountVars, engineVars
<1>5. WalletsCounted'
  <2>1. Savers' = Savers
    BY <1>1 DEF Savers
  <2> QED
    BY <2>1 DEF ApiInv, WalletsCounted, accountVars
<1>6. CreationInStep'
  <2>1. ASSUME NEW q \in Creates'
        PROVE  /\ request'[q].wallet <= wallets
               /\ request'[q].step \in {"context", "send", "done"} => request'[q].wallet > 0
               /\ request'[q].step \in {"send", "done"} => q \in orders
               /\ request'[q].step = "done" => \E m \in sent : m.order = q
    <3>1. q \in Request /\ request'[q].kind = "create"
      BY <2>1 DEF Creates
    <3>2. CASE q = r
      BY <1>1, <3>1, <3>2
    <3>3. CASE q # r
      BY <1>1, <3>1, <3>3 DEF ApiInv, CreationInStep, Creates
    <3> QED
      BY <3>2, <3>3
  <2>2. ASSUME NEW q \in orders
        PROVE  /\ q \in Creates'
               /\ request'[q].step \in {"send", "done", "failed"}
               /\ request'[q].wallet > 0
    BY <1>3 DEF ApiInv, CreationInStep, Creates
  <2> QED
    BY <2>1, <2>2 DEF CreationInStep, accountVars
<1>7. /\ \A o, w : NamesLater(o, w) => NamesLater(o, w)'
      /\ MessagesTrue'
  BY <1>3, NamesKept DEF accountVars, ApiInv, Typed
<1>8. DeletionNames'
  BY <1>1, <1>7, DeletionsKept
<1>9. TradesCreated'
  BY DEF ApiInv, TradesCreated, engineVars
<1> QED
  BY <1>4, <1>5, <1>6, <1>7, <1>8, <1>9 DEF ApiInv

LEMMA Stepping ==
  ASSUME ApiInv, NEW r \in Request, NEW step, Goes(r, step),
         request[r].kind = "create",
         step \in {"token", "insert", "wallet", "context", "send", "done",
                   "refused", "failed"}
  PROVE  \E f \in Creation :
           /\ request' = [request EXCEPT ![r] = f]
           /\ f.kind = "create" /\ f.step = step
           /\ f.type = request[r].type /\ f.amounts = request[r].amounts
           /\ f.wallet = request[r].wallet
           /\ f.wallet \in Nat /\ f.wallet <= wallets
<1> DEFINE f == [request[r] EXCEPT !.step = step]
<1>1. request[r] \in Creation
  BY Requests, Forms
<1>2. request' = [request EXCEPT ![r] = f]
  BY DEF Goes
<1>3. /\ f \in Creation /\ f.kind = "create" /\ f.step = step
      /\ f.type = request[r].type /\ f.amounts = request[r].amounts
      /\ f.wallet = request[r].wallet /\ f.wallet \in Nat
  BY <1>1 DEF Creation
<1>4. request[r].wallet <= wallets
  BY DEF ApiInv, CreationInStep, Creates
<1> QED
  BY <1>2, <1>3, <1>4

\* A creation goes on, or ends without a message, before its order is there.
LEMMA CreationOn ==
  ASSUME ApiInv, NEW r \in Request, NEW step, Goes(r, step),
         UNCHANGED <<accountVars, orders, sent, engineVars>>,
         request[r].step \in {"token", "insert", "wallet", "context"},
         step \in {"insert", "wallet", "refused", "failed"},
         tokenRow' \in {"absent", "saved"} \cup Request,
         TokenHeld'
  PROVE  ApiInv'
<1>1. request[r].kind = "create" /\ request[r].kind \in Kind
  BY Requests, Forms DEF ApiInv, Typed
<1>2. PICK f \in Creation :
        /\ request' = [request EXCEPT ![r] = f]
        /\ f.kind = "create" /\ f.step = step /\ f.wallet <= wallets
  BY <1>1, Stepping
<1>3. f \in Form /\ f \notin Deletion
  BY <1>2 DEF Form, Deletion
<1> QED
  BY <1>1, <1>2, <1>3, GoesOn

\* What is left of the token when r rolls back.
LEMMA RolledBack ==
  ASSUME ApiInv, NEW r \in Request, NEW answer, Rollback(r, answer)
  PROVE  /\ Goes(r, answer)
         /\ tokenRow' \in {"absent", "saved"} \cup Request
         /\ TokenHeld'
<1>1. /\ Goes(r, answer) /\ tokenRow' = IF tokenRow = r THEN "absent" ELSE tokenRow
  BY DEF Rollback
<1>2. tokenRow' \in Request => tokenRow' = tokenRow /\ tokenRow # r
  BY <1>1, ApiAssumption
<1>3. \A q \in Request : q # r => request'[q] = request[q]
  BY <1>1 DEF Goes, ApiInv, Typed
<1>4. tokenRow' \in {"absent", "saved"} \cup Request
  BY <1>1 DEF ApiInv, Typed
<1>5. TokenHeld'
  BY <1>2, <1>3 DEF ApiInv, TokenHeld
<1> QED
  BY <1>1, <1>4, <1>5

\* The token's row does not change, and r has not inserted it.
LEMMA TokenKept ==
  ASSUME ApiInv, NEW r \in Request, tokenRow' = tokenRow, tokenRow # r,
         \A q \in Request : q # r => request'[q] = request[q]
  PROVE  tokenRow' \in {"absent", "saved"} \cup Request /\ TokenHeld'
BY DEF ApiInv, Typed, TokenHeld

LEMMA AskStep ==
  ASSUME ApiInv, NEW r \in Request, Asked(r)
  PROVE  ApiInv'
<1>1. /\ request[r] = Unused
      /\ UNCHANGED <<accountVars, tokenRow, orders, sent, engineVars>>
  BY DEF Asked, AskWallet, AskReset, AskOrder, AskDelete
<1>2. request[r].step = "none" /\ request[r].kind = "none"
  BY <1>1 DEF Unused
<1>3. tokenRow # r
  BY <1>2 DEF ApiInv, TokenHeld
<1>4. \E f \in Form :
        /\ request' = [request EXCEPT ![r] = f]
        /\ f.kind \in Kind
        /\ f.kind \in {"wallet", "reset"} => f.step # "done"
        /\ f.kind = "create" => f.step = "token" /\ f.wallet = 0
        /\ f \in Deletion => NamesLater(f.order, f.wallet)
  <2>1. ASSUME "wallet" \in Kind, AskWallet(r) PROVE <1>4
    <3>0. PICK step \in {"encrypt", "refused", "failed"} :
            request' = [request EXCEPT ![r] = [kind |-> "wallet", step |-> step]]
      BY <2>1 DEF AskWallet
    <3> DEFINE f == [kind |-> "wallet", step |-> step]
    <3>1. request' = [request EXCEPT ![r] = f]
      BY <3>0
    <3>2. f \in Plain /\ f \notin Deletion /\ f.kind = "wallet" /\ f.step # "done"
      BY DEF Plain, Deletion
    <3> QED
      BY <2>1, <3>1, <3>2 DEF Form
  <2>2. ASSUME "reset" \in Kind, AskReset(r) PROVE <1>4
    <3>0. PICK first \in LoginClaims :
            request' = [request EXCEPT ![r] =
              [kind |-> "reset", step |-> IF first THEN "encrypt" ELSE "refused"]]
      BY <2>2 DEF AskReset
    <3> DEFINE f == [kind |-> "reset", step |-> IF first THEN "encrypt" ELSE "refused"]
    <3>1. request' = [request EXCEPT ![r] = f]
      BY <3>0
    <3>2. f \in Plain /\ f \notin Deletion /\ f.kind = "reset" /\ f.step # "done"
      BY DEF Plain, Deletion
    <3> QED
      BY <2>2, <3>1, <3>2 DEF Form
  <2>3. ASSUME "create" \in Kind, NEW type \in Type,
               NEW amounts \in {"numbers", "missing"}, AskOrder(r, type, amounts)
        PROVE  <1>4
    <3> DEFINE f == [kind |-> "create", step |-> "token", type |-> type,
                     amounts |-> amounts, wallet |-> 0]
    <3>1. request' = [request EXCEPT ![r] = f]
      BY <2>3 DEF AskOrder
    <3>2. /\ f \in Creation /\ f \notin Deletion /\ f.kind = "create"
          /\ f.step = "token" /\ f.wallet = 0
      BY DEF Creation, Deletion
    <3> QED
      BY <2>3, <3>1, <3>2 DEF Form
  <2>4. ASSUME "delete" \in Kind, NEW o \in Request, o \in orders,
               request' = [request EXCEPT ![r] =
                 [kind |-> "delete", step |-> "send", order |-> o,
                  wallet |-> account]]
        PROVE  <1>4
    <3> DEFINE f == [kind |-> "delete", step |-> "send", order |-> o, wallet |-> account]
    <3>1. request' = [request EXCEPT ![r] = f]
      BY <2>4
    <3>2. account \in Nat /\ account = wallets
      BY DEF ApiInv, Typed
    <3>3. /\ f \in Deletion /\ f.kind = "delete"
          /\ f.order = o /\ f.wallet = wallets
      BY <3>2 DEF Deletion
    <3>4. request[o] \in Creation /\ request[o].wallet <= wallets
      BY <2>4, Requests, Forms DEF ApiInv, CreationInStep, Creates
    <3>5. NamesLater(o, wallets)
      BY <2>4, <3>2, <3>4 DEF NamesLater, Creation
    <3> HIDE DEF f
    <3> QED
      BY <2>4, <3>1, <3>3, <3>5 DEF Form
  <2>5. ASSUME "delete" \in Kind, NEW step \in {"refused", "failed"},
               request' = [request EXCEPT ![r] = [kind |-> "delete", step |-> step]]
        PROVE  <1>4
    <3> DEFINE f == [kind |-> "delete", step |-> step]
    <3>1. request' = [request EXCEPT ![r] = f]
      BY <2>5
    <3>2. f \in Refusal /\ f.kind = "delete" /\ f \notin Deletion
      BY DEF Refusal, Deletion
    <3> QED
      BY <2>5, <3>1, <3>2 DEF Form
  <2>6. ASSUME "delete" \in Kind, NEW o \in Request, AskDelete(r, o) PROVE <1>4
    <3>1. CASE /\ o \in orders
               /\ request' = [request EXCEPT ![r] =
                    [kind |-> "delete", step |-> "send", order |-> o,
                     wallet |-> account]]
      BY <2>4, <2>6, <3>1
    <3>2. CASE \E step \in {"refused", "failed"} :
                 request' = [request EXCEPT ![r] = [kind |-> "delete", step |-> step]]
      BY <2>5, <2>6, <3>2
    <3> QED
      BY <2>6, <3>1, <3>2 DEF AskDelete
  <2> QED
    BY <2>1, <2>2, <2>3, <2>6 DEF Asked
<1>5. PICK f \in Form :
        /\ request' = [request EXCEPT ![r] = f]
        /\ f.kind \in Kind
        /\ f.kind \in {"wallet", "reset"} => f.step # "done"
        /\ f.kind = "create" => f.step = "token" /\ f.wallet = 0
        /\ f \in Deletion => NamesLater(f.order, f.wallet)
  BY <1>4
<1>6. \A q \in Request : q # r => request'[q] = request[q]
  BY <1>5, OthersKept
<1>7. tokenRow' \in {"absent", "saved"} \cup Request /\ TokenHeld'
  BY <1>1, <1>3, <1>6, TokenKept
<1>8. f.kind = "create" => f.wallet <= wallets /\ f.step \notin {"send", "done", "context"}
  BY <1>5 DEF ApiInv, Typed
<1> QED
  BY <1>1, <1>2, <1>5, <1>7, <1>8, GoesOn

LEMMA EncryptFailsStep ==
  ASSUME ApiInv, NEW r \in Request, EncryptFails(r)
  PROVE  ApiInv'
<1>1. /\ request[r].step = "encrypt"
      /\ request' = [request EXCEPT ![r].step = "failed"]
      /\ UNCHANGED <<accountVars, tokenRow, orders, sent, engineVars>>
  BY DEF EncryptFails, At, Goes
<1>2. request[r] \in Plain
  BY <1>1, Requests, Forms
<1> DEFINE f == [request[r] EXCEPT !.step = "failed"]
<1>3. request' = [request EXCEPT ![r] = f]
  BY <1>1
<1>4. /\ f \in Plain /\ f.step = "failed" /\ f.kind = request[r].kind
      /\ f.kind # "create" /\ f \notin Deletion
  BY <1>2 DEF Plain, Deletion
<1>5. f \in Form /\ f.kind \in Kind
  BY <1>2, <1>4 DEF Form, ApiInv, Typed, Plain
<1> HIDE DEF f
<1>6. \A q \in Request : q # r => request'[q] = request[q]
  BY <1>3, <1>5, OthersKept
<1>7. tokenRow # r
  BY <1>1 DEF ApiInv, TokenHeld
<1>8. tokenRow' \in {"absent", "saved"} \cup Request /\ TokenHeld'
  BY <1>1, <1>6, <1>7, TokenKept
<1> QED
  BY <1>1, <1>3, <1>4, <1>5, <1>8, GoesOn

\* The token and the wallet are looked up, and a creation that fails is undone.
LEMMA LookUpStep ==
  ASSUME ApiInv, NEW r \in Request,
         FindToken(r) \/ NoWallet(r) \/ TransactionFails(r)
  PROVE  ApiInv'
<1>1. UNCHANGED <<accountVars, orders, sent, engineVars>>
  BY DEF FindToken, NoWallet, TransactionFails
<1>2. CASE FindToken(r)
  <2>1. PICK step \in {"insert", "wallet"} :
          request[r].step = "token" /\ Goes(r, step) /\ tokenRow' = tokenRow
    BY <1>2 DEF FindToken, At
  <2>2. tokenRow # r /\ \A q \in Request : q # r => request'[q] = request[q]
    BY <2>1 DEF ApiInv, TokenHeld, Goes, Typed
  <2>3. tokenRow' \in {"absent", "saved"} \cup Request /\ TokenHeld'
    BY <2>1, <2>2, TokenKept
  <2> QED
    BY <1>1, <2>1, <2>3, CreationOn
<1>3. CASE NoWallet(r) \/ TransactionFails(r)
  <2>1. PICK answer \in {"failed", "refused"} :
          /\ request[r].step \in {"token", "insert", "wallet", "context"}
          /\ Rollback(r, answer)
    BY <1>3 DEF NoWallet, TransactionFails, At
  <2>2. Goes(r, answer) /\ tokenRow' \in {"absent", "saved"} \cup Request /\ TokenHeld'
    BY <2>1, RolledBack
  <2> QED
    BY <1>1, <2>1, <2>2, CreationOn
<1> QED
  BY <1>2, <1>3

LEMMA SaveTokenStep ==
  ASSUME ApiInv, NEW r \in Request, SaveToken(r)
  PROVE  ApiInv'
<1>1. /\ request[r].step = "insert" /\ Goes(r, "wallet") /\ tokenRow' = r
      /\ UNCHANGED <<accountVars, orders, sent, engineVars>>
  BY DEF SaveToken, At
<1>2. request[r].kind = "create"
  BY <1>1, Requests, Forms
<1>3. request'[r].kind = "create" /\ request'[r].step = "wallet"
  <2>1. PICK f \in Creation : /\ request' = [request EXCEPT ![r] = f]
                              /\ f.kind = "create" /\ f.step = "wallet"
    BY <1>1, <1>2, Stepping
  <2> QED
    BY <2>1 DEF ApiInv, Typed
<1>4. TokenHeld'
  BY <1>1, <1>3 DEF TokenHeld
<1> QED
  BY <1>1, <1>4, CreationOn

LEMMA ReadWalletStep ==
  ASSUME ApiInv, NEW r \in Request, ReadWallet(r)
  PROVE  ApiInv'
<1>1. /\ request[r].step = "wallet" /\ account # 0
      /\ request' = [request EXCEPT ![r].step = "context", ![r].wallet = account]
      /\ UNCHANGED <<accountVars, tokenRow, orders, sent, engineVars>>
  BY DEF ReadWallet, At
<1>2. request[r] \in Creation /\ request[r].kind \in Kind
  BY <1>1, Requests, Forms DEF ApiInv, Typed, Creation
<1> DEFINE f == [request[r] EXCEPT !.step = "context", !.wallet = account]
<1>3. account \in Nat /\ account = wallets
  BY DEF ApiInv, Typed
<1>4. /\ f \in Creation /\ f.kind = request[r].kind /\ f.kind = "create"
      /\ f.step = "context" /\ f.wallet = wallets /\ f \notin Deletion
  BY <1>2, <1>3 DEF Creation, Deletion
<1>5. request' = [request EXCEPT ![r] = f]
  BY <1>1, <1>2 DEF ApiInv, Typed
<1> HIDE DEF f
<1>6. f \in Form
  BY <1>4 DEF Form
<1>7. request'[r] = f /\ \A q \in Request : q # r => request'[q] = request[q]
  BY <1>5, <1>6, OthersKept
<1>8. tokenRow' \in {"absent", "saved"} \cup Request /\ TokenHeld'
  BY <1>1, <1>4, <1>7 DEF ApiInv, Typed, TokenHeld
<1>9. f.kind \in Kind /\ f.wallet <= wallets /\ f.wallet > 0
  BY <1>1, <1>2, <1>3, <1>4
<1> QED
  BY <1>1, <1>4, <1>5, <1>6, <1>8, <1>9, GoesOn

-----------------------------------------------------------------------------
(* The order is committed, and published.                                  *)

LEMMA InsertOrderStep ==
  ASSUME ApiInv, NEW r \in Request, InsertOrder(r)
  PROVE  ApiInv'
<1>1. PICK step \in {"send", "failed"} :
      /\ request[r].step = "context" /\ Goes(r, step)
      /\ orders' = orders \cup {r}
      /\ tokenRow' = IF tokenRow = r THEN "saved" ELSE tokenRow
      /\ UNCHANGED <<accountVars, sent, engineVars>>
  BY DEF InsertOrder, At
<1>2. request[r].kind = "create" /\ r \in Creates /\ request[r].kind \in Kind
  BY <1>1, Requests, Forms DEF Creates, ApiInv, Typed
<1>3. PICK f \in Creation :
        /\ request' = [request EXCEPT ![r] = f]
        /\ f.kind = "create" /\ f.step = step
        /\ f.wallet = request[r].wallet /\ f.wallet <= wallets
  BY <1>1, <1>2, Stepping
<1>4. f.wallet > 0
  BY <1>1, <1>2, <1>3 DEF ApiInv, CreationInStep
<1>5. f \in Form /\ f \notin Deletion
  BY <1>3 DEF Form, Deletion
<1>6. /\ request' \in [Request -> Form]
      /\ request'[r] = f
      /\ \A q \in Request : q # r => request'[q] = request[q]
  BY <1>3, <1>5, OthersKept
<1>7. r \notin orders /\ orders \subseteq Request
  BY <1>1 DEF ApiInv, CreationInStep, Creates
<1>8. /\ tokenRow' \in {"absent", "saved"} \cup Request
      /\ TokenHeld'
  BY <1>1, <1>6, ApiAssumption DEF ApiInv, Typed, TokenHeld
<1>9. Typed'
  BY <1>1, <1>2, <1>3, <1>6, <1>8 DEF ApiInv, Typed, Form, accountVars, engineVars
<1>10. WalletsCounted'
  <2>1. Savers' = Savers
    BY <1>2, <1>3, <1>6 DEF Savers
  <2> QED
    BY <1>1, <2>1 DEF ApiInv, WalletsCounted, accountVars
<1>11. CreationInStep'
  <2>1. ASSUME NEW q \in Creates'
        PROVE  /\ request'[q].wallet <= wallets
               /\ request'[q].step \in {"context", "send", "done"} => request'[q].wallet > 0
               /\ request'[q].step \in {"send", "done"} => q \in orders'
               /\ request'[q].step = "done" => \E m \in sent : m.order = q
    <3>1. q \in Request /\ request'[q].kind = "create"
      BY <2>1 DEF Creates
    <3>2. CASE q = r
      BY <1>1, <1>3, <1>4, <1>6, <3>2
    <3>3. CASE q # r
      BY <1>1, <1>6, <3>1, <3>3 DEF ApiInv, CreationInStep, Creates
    <3> QED
      BY <3>2, <3>3
  <2>2. ASSUME NEW q \in orders'
        PROVE  /\ q \in Creates'
               /\ request'[q].step \in {"send", "done", "failed"}
               /\ request'[q].wallet > 0
    <3>1. CASE q = r
      BY <1>3, <1>4, <1>6, <3>1 DEF Creates
    <3>2. CASE q # r
      BY <1>1, <1>6, <2>2, <3>2 DEF ApiInv, CreationInStep, Creates
    <3> QED
      BY <3>1, <3>2
  <2> QED
    BY <1>1, <2>1, <2>2 DEF CreationInStep, accountVars
<1>12. /\ \A o, w : NamesLater(o, w) => NamesLater(o, w)'
       /\ MessagesTrue'
  <2>1. /\ orders \subseteq orders' /\ wallets' \in Nat /\ wallets <= wallets'
    BY <1>1 DEF accountVars, ApiInv, Typed
  <2>2. \A o \in orders : request'[o] = request[o]
    BY <1>6, <1>7
  <2> QED
    BY <1>1, <2>1, <2>2, NamesKept
<1>13. DeletionNames'
  BY <1>5, <1>6, <1>12, DeletionsKept
<1>14. TradesCreated'
  BY <1>1 DEF ApiInv, TradesCreated, engineVars
<1> QED
  BY <1>8, <1>9, <1>10, <1>11, <1>12, <1>13, <1>14 DEF ApiInv

\* What a request at its last step has to say is true.
LEMMA MessageTrue ==
  ASSUME ApiInv, NEW r \in Request, request[r].step = "send", NEW m, m = Message(r)
  PROVE  /\ m.order \in orders
         /\ \/ m = [command |-> "CREATE_ORDER", order |-> m.order,
                    type |-> request[m.order].type,
                    wallet |-> request[m.order].wallet,
                    amounts |-> request[m.order].amounts]
            \/ /\ NamesLater(m.order, m.wallet)
               /\ m = [command |-> "DELETE_ORDER", order |-> m.order,
                       type |-> request[m.order].type, wallet |-> m.wallet]
         /\ request[r].kind = "create" => m.order = r
<1>1. CASE request[r].kind = "create"
  <2>1. r \in orders
    BY <1>1 DEF ApiInv, CreationInStep, Creates
  <2>2. m = [command |-> "CREATE_ORDER", order |-> r, type |-> request[r].type,
             wallet |-> request[r].wallet, amounts |-> request[r].amounts]
    BY <1>1 DEF Message
  <2>3. m.order = r
    BY <2>2
  <2> QED
    BY <2>1, <2>2, <2>3
<1>2. CASE request[r].kind = "delete"
  <2>1. request[r] \in Deletion
    BY <1>2, Requests, Forms
  <2>2. PICK o, w : o = request[r].order /\ w = request[r].wallet
    OBVIOUS
  <2>3. NamesLater(o, w)
    BY <2>1, <2>2 DEF ApiInv, DeletionNames
  <2>4. m = [command |-> "DELETE_ORDER", order |-> o, type |-> request[o].type, wallet |-> w]
    BY <1>2, <2>2 DEF Message
  <2>5. m.order = o /\ m.wallet = w
    BY <2>4
  <2> QED
    BY <1>2, <2>3, <2>4, <2>5 DEF NamesLater
<1> QED
  BY <1>1, <1>2, Requests, Forms

LEMMA SendStep ==
  ASSUME ApiInv, NEW r \in Request, Send(r) \/ SendFails(r)
  PROVE  ApiInv'
<1>0. PICK m : m = Message(r)
  OBVIOUS
<1>1. PICK step \in {"done", "failed"} :
        /\ m = Message(r) /\ request[r].step = "send" /\ Goes(r, step)
        /\ sent \subseteq sent' /\ sent' \subseteq sent \cup {m}
        /\ step = "done" => m \in sent'
  BY <1>0 DEF Send, SendFails, At, Rollback
<1>2. UNCHANGED <<accountVars, orders, engineVars>>
  BY DEF Send, SendFails
<1>3. /\ m.order \in orders
      /\ \/ m = [command |-> "CREATE_ORDER", order |-> m.order,
                 type |-> request[m.order].type,
                 wallet |-> request[m.order].wallet,
                 amounts |-> request[m.order].amounts]
         \/ /\ NamesLater(m.order, m.wallet)
            /\ m = [command |-> "DELETE_ORDER", order |-> m.order,
                    type |-> request[m.order].type, wallet |-> m.wallet]
      /\ request[r].kind = "create" => m.order = r
  BY <1>1, MessageTrue
<1>4. \E f \in Form :
        /\ request' = [request EXCEPT ![r] = f]
        /\ f.kind = request[r].kind /\ f.step = step
        /\ f.kind = "create" => /\ f.type = request[r].type
                                /\ f.amounts = request[r].amounts
                                /\ f.wallet = request[r].wallet
        /\ f \in Deletion => NamesLater(f.order, f.wallet)
  <2>1. CASE request[r].kind = "create"
    <3>1. PICK f \in Creation :
            /\ request' = [request EXCEPT ![r] = f]
            /\ f.kind = "create" /\ f.step = step
            /\ f.type = request[r].type /\ f.amounts = request[r].amounts
            /\ f.wallet = request[r].wallet
      BY <1>1, <2>1, Stepping
    <3>2. f \in Form /\ f \notin Deletion
      BY <3>1 DEF Form, Deletion
    <3> QED
      BY <2>1, <3>1, <3>2
  <2>2. CASE request[r].kind = "delete"
    <3> DEFINE f == [request[r] EXCEPT !.step = step]
    <3>1. request[r] \in Deletion
      BY <1>1, <2>2, Requests, Forms
    <3>2. request' = [request EXCEPT ![r] = f]
      BY <1>1 DEF Goes
    <3>3. /\ f \in Deletion /\ f.kind = "delete" /\ f.step = step
          /\ f.order = request[r].order /\ f.wallet = request[r].wallet
      BY <3>1 DEF Deletion
    <3>4. NamesLater(request[r].order, request[r].wallet)
      BY <3>1 DEF ApiInv, DeletionNames
    <3> HIDE DEF f
    <3> QED
      BY <2>2, <3>2, <3>3, <3>4 DEF Form
  <2> QED
    BY <1>1, <2>1, <2>2, Requests, Forms
<1>5. PICK f \in Form :
        /\ request' = [request EXCEPT ![r] = f]
        /\ f.kind = request[r].kind /\ f.step = step
        /\ f.kind = "create" => /\ f.type = request[r].type
                                /\ f.amounts = request[r].amounts
                                /\ f.wallet = request[r].wallet
        /\ f \in Deletion => NamesLater(f.order, f.wallet)
  BY <1>4
<1>6. /\ request' \in [Request -> Form]
      /\ request'[r] = f
      /\ \A q \in Request : q # r => request'[q] = request[q]
  BY <1>5, OthersKept
<1>7. orders \subseteq Creates /\ orders \subseteq Request
  BY DEF ApiInv, CreationInStep, Creates
<1>8. tokenRow' \in {"absent", "saved"} \cup Request /\ TokenHeld'
  <2>1. CASE Send(r)
    <3>1. tokenRow # r /\ tokenRow' = tokenRow
      BY <1>1, <2>1 DEF ApiInv, TokenHeld, Send
    <3> QED
      BY <1>6, <3>1, TokenKept
  <2>2. CASE SendFails(r)
    <3>1. Rollback(r, "failed")
      BY <2>2 DEF SendFails
    <3> QED
      BY <3>1, RolledBack
  <2> QED
    BY <2>1, <2>2
<1>9. Typed'
  <2>1. \A q \in Request : request'[q].kind = request[q].kind
    BY <1>5, <1>6
  <2> QED
    BY <1>1, <1>2, <1>6, <1>8, <2>1 DEF ApiInv, Typed, Form, accountVars, engineVars
<1>10. WalletsCounted'
  <2>1. request[r].kind \notin {"wallet", "reset"}
    BY <1>1, Requests, Forms DEF Plain
  <2>2. Savers' = Savers
    BY <1>5, <1>6, <2>1 DEF Savers
  <2> QED
    BY <1>2, <2>2 DEF ApiInv, WalletsCounted, accountVars
<1>11. CreationInStep'
  <2>1. ASSUME NEW q \in Creates'
        PROVE  /\ request'[q].wallet <= wallets
               /\ request'[q].step \in {"context", "send", "done"} => request'[q].wallet > 0
               /\ request'[q].step \in {"send", "done"} => q \in orders
               /\ request'[q].step = "done" => \E e \in sent' : e.order = q
    <3>1. q \in Request /\ request'[q].kind = "create"
      BY <2>1 DEF Creates
    <3>2. CASE q = r
      <4>1. r \in Creates /\ m.order = r
        BY <1>3, <1>5, <1>6, <3>1, <3>2 DEF Creates
      <4> QED
        BY <1>1, <1>5, <1>6, <3>2, <4>1 DEF ApiInv, CreationInStep, Creates
    <3>3. CASE q # r
      BY <1>1, <1>6, <3>1, <3>3 DEF ApiInv, CreationInStep, Creates
    <3> QED
      BY <3>2, <3>3
  <2>2. ASSUME NEW q \in orders
        PROVE  /\ q \in Creates'
               /\ request'[q].step \in {"send", "done", "failed"}
               /\ request'[q].wallet > 0
    <3>1. /\ q \in Request /\ request[q].kind = "create"
          /\ request[q].step \in {"send", "done", "failed"} /\ request[q].wallet > 0
      BY DEF ApiInv, CreationInStep, Creates
    <3>2. CASE q = r
      BY <1>1, <1>5, <1>6, <3>1, <3>2 DEF Creates
    <3>3. CASE q # r
      BY <1>6, <3>1, <3>3 DEF Creates
    <3> QED
      BY <3>2, <3>3
  <2> QED
    BY <1>2, <2>1, <2>2 DEF CreationInStep, accountVars
<1>12. \A o \in orders : /\ request'[o].type = request[o].type
                         /\ request'[o].wallet = request[o].wallet
                         /\ request'[o].amounts = request[o].amounts
  BY <1>5, <1>6, <1>7 DEF Creates
<1>13. \A o, w : NamesLater(o, w) => NamesLater(o, w)'
  BY <1>2, <1>12, NamesKept DEF accountVars, ApiInv, Typed
<1>14. MessagesTrue'
  <2> SUFFICES ASSUME NEW e \in sent'
      PROVE \/ e.order \in orders' /\ e = [command |-> "CREATE_ORDER",
                 order |-> e.order, type |-> request'[e.order].type,
                 wallet |-> request'[e.order].wallet,
                 amounts |-> request'[e.order].amounts]
            \/ (NamesLater(e.order, e.wallet))' /\ e = [command |-> "DELETE_ORDER",
                 order |-> e.order, type |-> request'[e.order].type,
                 wallet |-> e.wallet]
    BY DEF MessagesTrue
  <2>1. /\ e.order \in orders
        /\ \/ e = [command |-> "CREATE_ORDER", order |-> e.order,
                   type |-> request[e.order].type,
                   wallet |-> request[e.order].wallet,
                   amounts |-> request[e.order].amounts]
           \/ /\ NamesLater(e.order, e.wallet)
              /\ e = [command |-> "DELETE_ORDER", order |-> e.order,
                      type |-> request[e.order].type, wallet |-> e.wallet]
    BY <1>1, <1>3 DEF ApiInv, MessagesTrue, NamesLater
  <2>2. PICK o, w : o = e.order /\ w = e.wallet
    OBVIOUS
  <2>3. NamesLater(o, w) => NamesLater(o, w)'
    BY <1>13
  <2>4. /\ request'[o].type = request[o].type
        /\ request'[o].wallet = request[o].wallet
        /\ request'[o].amounts = request[o].amounts
    BY <1>12, <2>1, <2>2
  <2> QED
    BY <1>2, <2>1, <2>2, <2>3, <2>4
<1>15. DeletionNames'
  BY <1>5, <1>6, <1>13, DeletionsKept
<1>16. TradesCreated'
  BY <1>2 DEF ApiInv, TradesCreated, engineVars
<1> QED
  BY <1>8, <1>9, <1>10, <1>11, <1>14, <1>15, <1>16 DEF ApiInv

-----------------------------------------------------------------------------
(* The account and the engine.                                             *)

\* The request that saves a wallet is one more that has.
LEMMA SaveWalletStep ==
  ASSUME ApiInv, NEW r \in Request, SaveWallet(r)
  PROVE  ApiInv'
<1>1. /\ request[r].step = "encrypt"
      /\ request' = [request EXCEPT ![r].step = "done"]
      /\ wallets' = wallets + 1 /\ account' = wallets'
      /\ UNCHANGED <<firstLogin, tokenRow, orders, sent, engineVars>>
  BY DEF SaveWallet, At, Goes
<1>2. request[r] \in Plain /\ request[r].kind \in Kind
  BY <1>1, Requests, Forms DEF ApiInv, Typed
<1> DEFINE f == [request[r] EXCEPT !.step = "done"]
<1>3. request' = [request EXCEPT ![r] = f]
  BY <1>1
<1>4. /\ f \in Plain /\ f.step = "done" /\ f.kind = request[r].kind
      /\ f.kind \in {"wallet", "reset"} /\ f \notin Deletion
  BY <1>2 DEF Plain, Deletion
<1> HIDE DEF f
<1>5. f \in Form
  BY <1>4 DEF Form
<1>6. /\ request' \in [Request -> Form]
      /\ request'[r] = f
      /\ \A q \in Request : q # r => request'[q] = request[q]
  BY <1>3, <1>5, OthersKept
<1>7. tokenRow # r /\ r \notin orders /\ r \notin Savers
      /\ orders \subseteq Request
  BY <1>1, <1>4 DEF ApiInv, TokenHeld, CreationInStep, Creates, Savers
<1>8. tokenRow' \in {"absent", "saved"} \cup Request /\ TokenHeld'
  BY <1>1, <1>6, <1>7, TokenKept
<1>9. wallets \in Nat /\ wallets' \in Nat /\ account' = wallets' /\ wallets <= wallets'
  BY <1>1 DEF ApiInv, Typed
<1>10. Typed'
  <2>1. \A q \in Request : request'[q].kind = request[q].kind
    BY <1>4, <1>6
  <2> QED
    BY <1>1, <1>6, <1>8, <1>9, <2>1 DEF ApiInv, Typed, Form, engineVars
<1>11. WalletsCounted'
  <2>1. Savers' = Savers \cup {r}
    BY <1>4, <1>6 DEF Savers
  <2>2. Cardinality(Savers \cup {r}) = Cardinality(Savers) + 1
    BY <1>7, SaversFinite, FS_AddElement
  <2>3. wallets <= Cardinality(Savers) + 1 /\ Cardinality(Savers) \in Nat
    BY SaversFinite DEF ApiInv, WalletsCounted
  <2>4. Cardinality(Savers') = Cardinality(Savers) + 1
    BY <2>1, <2>2
  <2> QED
    BY <1>1, <1>9, <2>3, <2>4 DEF WalletsCounted
<1>12. CreationInStep'
  <2>1. ASSUME NEW q \in Creates'
        PROVE  /\ request'[q].wallet <= wallets'
               /\ request'[q].step \in {"context", "send", "done"} => request'[q].wallet > 0
               /\ request'[q].step \in {"send", "done"} => q \in orders
               /\ request'[q].step = "done" => \E m \in sent : m.order = q
    <3>1. q # r /\ q \in Creates
      BY <1>4, <1>6, <2>1 DEF Creates
    <3>2. request[q] \in Creation
      BY <3>1, Requests, Forms DEF Creates
    <3>3. request'[q] = request[q] /\ request[q].wallet \in Nat
      BY <1>6, <3>1, <3>2 DEF Creates, Creation
    <3>4. request[q].wallet <= wallets
      BY <3>1 DEF ApiInv, CreationInStep
    <3>5. request'[q].wallet <= wallets'
      BY <1>9, <3>3, <3>4
    <3> QED
      BY <3>1, <3>3, <3>5 DEF ApiInv, CreationInStep
  <2>2. ASSUME NEW q \in orders
        PROVE  /\ q \in Creates'
               /\ request'[q].step \in {"send", "done", "failed"}
               /\ request'[q].wallet > 0
    <3>1. request'[q] = request[q]
      BY <1>6, <1>7
    <3> QED
      BY <3>1 DEF ApiInv, CreationInStep, Creates
  <2> QED
    BY <1>1, <2>1, <2>2 DEF CreationInStep
<1>13. \A o \in orders : request'[o] = request[o]
  BY <1>6, <1>7
<1>14. /\ \A o, w : NamesLater(o, w) => NamesLater(o, w)'
       /\ MessagesTrue'
  BY <1>1, <1>9, <1>13, NamesKept
<1>15. DeletionNames'
  BY <1>4, <1>6, <1>14, DeletionsKept
<1>16. TradesCreated'
  BY <1>1 DEF ApiInv, TradesCreated, engineVars
<1> QED
  BY <1>8, <1>10, <1>11, <1>12, <1>14, <1>15, <1>16 DEF ApiInv

\* Steps that change no request, order or message.
LEMMA QuietStep ==
  ASSUME ApiInv, UNCHANGED <<account, wallets, tokenRow, request, orders, sent>>,
         firstLogin' \in BOOLEAN, taken' \subseteq sent, TradesCreated'
  PROVE  ApiInv'
<1>1. Typed'
  BY DEF ApiInv, Typed
<1>2. WalletsCounted' /\ TokenHeld' /\ CreationInStep' /\ DeletionNames' /\ MessagesTrue'
  BY DEF ApiInv, WalletsCounted, TokenHeld, CreationInStep, DeletionNames,
         MessagesTrue, Savers, Creates, NamesLater
<1> QED
  BY <1>1, <1>2 DEF ApiInv

LEMMA EngineStep ==
  ASSUME ApiInv, Engine
  PROVE  ApiInv'
<1>1. PICK m \in sent : TakeCreation(m) \/ TakeRemoval(m)
  BY DEF Engine
<1>2. /\ taken' = taken \cup {m}
      /\ UNCHANGED <<account, wallets, firstLogin, tokenRow, request, orders, sent>>
  BY <1>1 DEF TakeCreation, TakeRemoval, accountVars
<1>3. \A o \in trades' : \/ o \in trades
                         \/ m.command = "CREATE_ORDER" /\ o = m.order
  BY <1>1 DEF TakeCreation, TakeRemoval
<1>4. TradesCreated'
  BY <1>2, <1>3 DEF ApiInv, TradesCreated
<1> QED
  BY <1>2, <1>4, QuietStep DEF ApiInv, Typed

-----------------------------------------------------------------------------
(* The theorems.                                                           *)

LEMMA InitInv == Init => ApiInv
<1> SUFFICES ASSUME Init PROVE ApiInv
  OBVIOUS
<1>1. \A r \in Request : request[r] = Unused
  BY DEF Init
<1>2. Unused.kind = "none" /\ Unused.step = "none" /\ Unused \notin Deletion
  BY DEF Unused, Deletion
<1>3. Typed
  BY <1>2 DEF Init, Typed
<1>4. Creates = {} /\ Savers = {}
  BY <1>1, <1>2 DEF Creates, Savers
<1>5. WalletsCounted
  <2>1. wallets \in {0, 1}
    BY DEF Init
  <2>2. Cardinality(Savers) = 0
    BY <1>4, FS_EmptySet
  <2> QED
    BY <2>1, <2>2 DEF WalletsCounted
<1>6. TokenHeld
  BY ApiAssumption DEF Init, TokenHeld
<1>7. CreationInStep /\ DeletionNames /\ MessagesTrue /\ TradesCreated
  BY <1>1, <1>2, <1>4
  DEF Init, CreationInStep, DeletionNames, MessagesTrue, TradesCreated
<1> QED
  BY <1>3, <1>5, <1>6, <1>7 DEF ApiInv

LEMMA NextInv == ApiInv /\ [Next]_vars => ApiInv'
<1> SUFFICES ASSUME ApiInv, [Next]_vars PROVE ApiInv'
  OBVIOUS
<1>1. ASSUME NEW r \in Request, Asked(r) PROVE ApiInv'
  BY <1>1, AskStep
<1>2. ASSUME NEW r \in Request, Handle(r) PROVE ApiInv'
  BY <1>2, SaveWalletStep, EncryptFailsStep, LookUpStep, SaveTokenStep,
     ReadWalletStep, InsertOrderStep, SendStep
  DEF Handle
<1>3. CASE Confirm
  <2>1. TradesCreated'
    BY <1>3 DEF Confirm, ApiInv, TradesCreated, engineVars
  <2> QED
    BY <1>3, <2>1, QuietStep DEF Confirm, ApiInv, Typed, engineVars
<1>4. CASE Engine
  BY <1>4, EngineStep
<1>5. CASE UNCHANGED vars
  <2>1. TradesCreated'
    BY <1>5 DEF vars, ApiInv, TradesCreated, engineVars
  <2> QED
    BY <1>5, <2>1, QuietStep DEF vars, ApiInv, Typed, accountVars, engineVars
<1> QED
  BY <1>1, <1>2, <1>3, <1>4, <1>5 DEF Next

LEMMA Invariance == Spec => []ApiInv
<1>1. Init => ApiInv
  BY InitInv
<1>2. ApiInv /\ [Next]_vars => ApiInv'
  BY NextInv
<1> QED
  BY <1>1, <1>2, PTL DEF Spec

\* Hermes' rows find the order they refer to, and no open transaction is left
\* on a connection that went back to the pool, whichever of the awaited calls
\* fail and however the requests interleave.
THEOREM DatabaseConsistent == Spec => []Consistent
<1>1. ASSUME ApiInv PROVE Consistent
  <2>1. TypeOK
    <3>1. wallets \in 0 .. Cardinality(Request) + 1 /\ account \in 0 .. wallets
      BY <1>1, SaversFinite DEF ApiInv, Typed, WalletsCounted
    <3>2. tokenRow \in {"absent", "saved"} \cup Creates
      BY <1>1 DEF ApiInv, Typed, TokenHeld, Creates
    <3>3. orders \subseteq Creates
      BY <1>1 DEF ApiInv, CreationInStep
    <3>4. trades \subseteq Creates
      <4> SUFFICES ASSUME NEW o \in trades PROVE o \in Creates
        OBVIOUS
      <4>1. PICK c \in sent : c.order = o
        BY <1>1 DEF ApiInv, TradesCreated, Typed
      <4>2. c.order \in orders
        BY <1>1 DEF ApiInv, MessagesTrue, NamesLater
      <4> QED
        BY <3>3, <4>1, <4>2
    <3> QED
      BY <1>1, <3>1, <3>2, <3>3, <3>4 DEF TypeOK, ApiInv, Typed
  <2>2. PublishedIsRecorded
    <3> SUFFICES ASSUME NEW m \in sent
                 PROVE  /\ m.order \in orders
                        /\ m.type = request[m.order].type
                        /\ m.wallet \in 1 .. wallets
      BY DEF PublishedIsRecorded
    <3>1. PICK o : o = m.order
      OBVIOUS
    <3>2. o \in orders /\ m.type = request[o].type
          /\ m.wallet \in request[o].wallet .. wallets
      <4>1. CASE m.order \in orders /\ m = [command |-> "CREATE_ORDER",
                   order |-> m.order, type |-> request[m.order].type,
                   wallet |-> request[m.order].wallet,
                   amounts |-> request[m.order].amounts]
        <5>1. o \in orders /\ m.type = request[o].type /\ m.wallet = request[o].wallet
          BY <3>1, <4>1
        <5>2. o \in Request /\ request[o].kind = "create" /\ request[o].wallet <= wallets
          BY <1>1, <5>1 DEF ApiInv, CreationInStep, Creates
        <5>3. request[o] \in Creation
          BY <1>1, <5>2, Requests, Forms
        <5> QED
          BY <1>1, <5>1, <5>2, <5>3 DEF Creation, ApiInv, Typed
      <4>2. CASE /\ NamesLater(m.order, m.wallet)
                 /\ m = [command |-> "DELETE_ORDER", order |-> m.order,
                         type |-> request[m.order].type, wallet |-> m.wallet]
        BY <3>1, <4>2 DEF NamesLater
      <4> QED
        BY <1>1, <4>1, <4>2 DEF ApiInv, MessagesTrue
    <3>3. o \in Request /\ request[o].kind = "create" /\ request[o].wallet > 0
      BY <1>1, <3>2 DEF ApiInv, CreationInStep, Creates
    <3>4. request[o].wallet \in Nat
      BY <1>1, <3>3, Requests, Forms DEF Creation
    <3> QED
      BY <1>1, <3>1, <3>2, <3>3, <3>4 DEF ApiInv, Typed
  <2>3. NoOpenTransaction
    BY <1>1 DEF ApiInv, TokenHeld, NoOpenTransaction, Over
  <2> QED
    BY <2>1, <2>2, <2>3 DEF Consistent
<1>2. ApiInv => Consistent
  BY <1>1
<1> QED
  BY <1>2, Invariance, PTL

\* An order answered with success is committed and published, one that is
\* refused is neither: the commit comes before the message, the message before
\* the answer, and every refusal before the commit.
THEOREM AnswersAreTrue == Spec => []AnswersTrue
<1>1. ApiInv => AnswersTrue
  BY DEF ApiInv, CreationInStep, AnswersTrue, At
<1> QED
  BY <1>1, Invariance, PTL

\* A removal names the wallet the account has when it is asked for, which is not
\* older than the one its order was created with; so, while the account keeps
\* that wallet, the two mean the same trade.
THEOREM RemovalsReachTheirTrade == Spec => RemovalEffective
<1> DEFINE Effective ==
      \A m \in taken' \ taken, c \in taken :
        /\ m.command = "DELETE_ORDER"
        /\ m.type = "Countersell"
        /\ c.command = "CREATE_ORDER"
        /\ c.order = m.order
        /\ c.wallet = wallets
        => m.order \notin trades'
<1>1. ASSUME ApiInv, [Next]_vars PROVE Effective
  <2> SUFFICES ASSUME NEW m \in taken' \ taken, NEW c \in taken,
                      m.command = "DELETE_ORDER", m.type = "Countersell",
                      c.command = "CREATE_ORDER", c.order = m.order,
                      c.wallet = wallets
               PROVE  m.order \notin trades'
    OBVIOUS
  <2>1. taken' # taken
    OBVIOUS
  <2>2. Engine
    BY <1>1, <2>1
    DEF Next, vars, Asked, AskWallet, AskReset, AskOrder, AskDelete, Handle,
        SaveWallet, EncryptFails, FindToken, SaveToken, ReadWallet, NoWallet,
        InsertOrder, TransactionFails, Send, SendFails, Confirm, engineVars
  <2>3. PICK n \in sent : TakeCreation(n) \/ TakeRemoval(n)
    BY <2>2 DEF Engine
  <2>4. n = m /\ TakeRemoval(m) /\ m \in sent
    BY <2>3 DEF TakeCreation, TakeRemoval
  <2>5. PICK o : o = m.order /\ o = c.order
    OBVIOUS
  <2>6. c \in sent
    BY <1>1 DEF ApiInv, Typed
  <2>7. m.wallet \in request[o].wallet .. wallets /\ m.type = request[o].type
        /\ o \in orders
    BY <1>1, <2>4, <2>5 DEF ApiInv, MessagesTrue, NamesLater
  <2>8. c.wallet = request[o].wallet /\ c.type = request[o].type
    BY <1>1, <2>5, <2>6 DEF ApiInv, MessagesTrue
  <2>9. m.wallet = wallets
    BY <1>1, <2>7, <2>8 DEF ApiInv, Typed
  <2>10. Addressed(c) = Addressed(m)
    BY <2>7, <2>8, <2>9 DEF Addressed
  <2>11. o \in trades => o \in Reaches(m)
    BY <2>5, <2>10 DEF Reaches
  <2> QED
    BY <2>4, <2>5, <2>11 DEF TakeRemoval
<1>2. Spec => [][Effective]_vars
  BY <1>1, Invariance, PTL DEF Spec
<1> QED
  BY <1>2 DEF RemovalEffective
=============================================================================
