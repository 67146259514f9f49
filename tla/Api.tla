--------------------------------- MODULE Api --------------------------------
(***************************************************************************)
(* The HTTP service (api/src): the requests of one account about its       *)
(* wallet and its orders of one token, each a sequence of awaited queries  *)
(* and calls that interleaves with the others, and the queue through which *)
(* Janus and Buffett take the commands.                                    *)
(*                                                                         *)
(* A wallet is its number.  An order is named after the request that       *)
(* creates it.  The queue is a standard one (its messages name no group),  *)
(* so commands overtake each other; that they are also delivered again is  *)
(* the subject of modules Position and OneShot.  Of the engine only the    *)
(* orders that have a trade are kept.                                      *)
(*                                                                         *)
(* Abstracted: authentication, the read-only routes, and the amounts of an *)
(* order: they are numbers, or one of them is missing.                     *)
(***************************************************************************)
EXTENDS Naturals, FiniteSets

CONSTANTS Request,    \* bound: the requests that are made
          Kind,       \* what they are for
          Type        \* the types of orders

ASSUME ApiAssumption ==
    /\ IsFiniteSet(Request)
    /\ Request \cap {"absent", "saved"} = {}   \* states of the token's row
    /\ Kind \subseteq {"wallet", "reset", "create", "delete"}
    /\ Type \subseteq {"OneShotBuy", "OneShotSell", "Countersell"}

VARIABLES account,    \* the account's wallet, 0 when it has none
          wallets,    \* how many wallets were generated
          firstLogin, \* no token without the claim firstLogin was issued
          tokenRow,   \* "absent", "saved", or the request that has inserted it
          request,    \* what each request is and where it is
          orders,     \* the orders that are committed
          sent,       \* the messages that were published
          taken,      \* those that the engine has handled
          trades      \* the orders that have a trade

accountVars == <<account, wallets, firstLogin>>
engineVars == <<taken, trades>>
vars == <<accountVars, tokenRow, request, orders, sent, engineVars>>

Unused == [kind |-> "none", step |-> "none"]

Init == /\ account \in {0, 1}
        /\ wallets = account
        /\ firstLogin = TRUE
        /\ tokenRow \in {"absent", "saved"}
        /\ request = [r \in Request |-> Unused]
        /\ orders = {}
        /\ sent = {}
        /\ taken = {}
        /\ trades = {}

At(r, step) == request[r].step = step

\* r goes on to a step, or is over with an answer; nothing else changes of it.
Goes(r, step) == request' = [request EXCEPT ![r].step = step]

Over(r) == request[r].step \in {"none", "done", "refused", "failed"}

-----------------------------------------------------------------------------
(* Wallets.                                                                *)

\* What a request's token may say of firstLogin: tokens that were issued before
\* the confirmation are accepted after it.
LoginClaims == {TRUE, firstLogin}

\* POST /wallet: what is read here is not read again.
AskWallet(r) ==
    /\ request[r] = Unused
    /\ \E first \in LoginClaims, step \in {"encrypt", "refused", "failed"} :
         /\ step = "encrypt" => first /\ account = 0
         /\ step = "refused" => ~first \/ account # 0
         /\ step = "failed" => first
         /\ request' = [request EXCEPT ![r] = [kind |-> "wallet", step |-> step]]
    /\ UNCHANGED <<accountVars, tokenRow, orders, sent, engineVars>>

\* POST /wallet/reset.
AskReset(r) ==
    /\ request[r] = Unused
    /\ \E first \in LoginClaims :
         request' = [request EXCEPT ![r] =
           [kind |-> "reset", step |-> IF first THEN "encrypt" ELSE "refused"]]
    /\ UNCHANGED <<accountVars, tokenRow, orders, sent, engineVars>>

\* Slip: the key is generated once to encrypt and once more to save.
SaveWalletTwice(r) ==
    /\ At(r, "encrypt")
    /\ wallets' = wallets + 2
    /\ account' = wallets'
    /\ Goes(r, "done")
    /\ UNCHANGED <<firstLogin, tokenRow, orders, sent, engineVars>>

\* A generated key is encrypted and replaces the account's.
SaveWallet(r) ==
    /\ At(r, "encrypt")
    /\ wallets' = wallets + 1
    /\ account' = wallets'
    /\ Goes(r, "done")
    /\ UNCHANGED <<firstLogin, tokenRow, orders, sent, engineVars>>

EncryptFails(r) ==
    /\ At(r, "encrypt")
    /\ Goes(r, "failed")
    /\ UNCHANGED <<accountVars, tokenRow, orders, sent, engineVars>>

\* POST /wallet/confirm, with a token of the first login.
Confirm == /\ firstLogin' = FALSE
           /\ UNCHANGED <<account, wallets, tokenRow, request, orders, sent,
                          engineVars>>

-----------------------------------------------------------------------------
(* POST /orders: one transaction up to the insert, then the message.       *)

AskOrder(r, type, amounts) ==
    /\ request[r] = Unused
    /\ request' = [request EXCEPT ![r] =
         [kind |-> "create", step |-> "token", type |-> type,
          amounts |-> amounts, wallet |-> 0]]
    /\ UNCHANGED <<accountVars, tokenRow, orders, sent, engineVars>>

\* getToken: a token that no committed transaction has saved is fetched, to be
\* inserted.
FindToken(r) ==
    /\ At(r, "token")
    /\ Goes(r, IF tokenRow = "saved" THEN "wallet" ELSE "insert")
    /\ UNCHANGED <<accountVars, tokenRow, orders, sent, engineVars>>

\* An insert of a mint that another open transaction has inserted waits for it.
Waits(r) == At(r, "insert") /\ tokenRow \in Request

SaveToken(r) ==
    /\ At(r, "insert")
    /\ tokenRow = "absent"
    /\ tokenRow' = r
    /\ Goes(r, "wallet")
    /\ UNCHANGED <<accountVars, orders, sent, engineVars>>

\* Slip: the connection is released without the rollback.
RollbackForgotten(r, answer) ==
    /\ UNCHANGED tokenRow
    /\ Goes(r, answer)

Rollback(r, answer) ==
    /\ tokenRow' = IF tokenRow = r THEN "absent" ELSE tokenRow
    /\ Goes(r, answer)

\* A query or call fails before the commit, the mint was saved meanwhile by
\* another order, or a countersell lacks a number.
TransactionFails(r) ==
    /\ request[r].step \in {"token", "insert", "wallet", "context"}
    /\ ~Waits(r)
    /\ Rollback(r, "failed")
    /\ UNCHANGED <<accountVars, orders, sent, engineVars>>

ReadWallet(r) ==
    /\ At(r, "wallet")
    /\ account # 0
    /\ request' = [request EXCEPT ![r].step = "context", ![r].wallet = account]
    /\ UNCHANGED <<accountVars, tokenRow, orders, sent, engineVars>>

NoWallet(r) ==
    /\ At(r, "wallet")
    /\ account = 0
    /\ Rollback(r, "refused")
    /\ UNCHANGED <<accountVars, orders, sent, engineVars>>

\* buildOrderContext asks for all numbers of a countersell only.
Accepts(r) ==
    request[r].amounts = "numbers" \/ request[r].type # "Countersell"

\* The order is inserted and committed, with the token if it is new.  When the
\* commit has no answer the message is not sent.
InsertOrder(r) ==
    /\ At(r, "context")
    /\ Accepts(r)
    /\ orders' = orders \cup {r}
    /\ tokenRow' = IF tokenRow = r THEN "saved" ELSE tokenRow
    /\ \E committed \in {"send", "failed"} : Goes(r, committed)
    /\ UNCHANGED <<accountVars, sent, engineVars>>

-----------------------------------------------------------------------------
(* DELETE /orders/:id.                                                     *)

\* The order is named with the wallet that the account has now; the query for
\* them may fail.
AskDelete(r, o) ==
    /\ request[r] = Unused
    /\ request[o].kind = "create"
    /\ \/ /\ o \in orders
          /\ request' = [request EXCEPT ![r] =
               [kind |-> "delete", step |-> "send", order |-> o,
                wallet |-> account]]
       \/ /\ o \notin orders
          /\ request' = [request EXCEPT ![r] =
               [kind |-> "delete", step |-> "refused"]]
       \/ request' = [request EXCEPT ![r] = [kind |-> "delete", step |-> "failed"]]
    /\ UNCHANGED <<accountVars, tokenRow, orders, sent, engineVars>>

-----------------------------------------------------------------------------
(* The queue.                                                              *)

Message(r) ==
    IF request[r].kind = "create"
    THEN [command |-> "CREATE_ORDER", order |-> r, type |-> request[r].type,
          wallet |-> request[r].wallet, amounts |-> request[r].amounts]
    ELSE [command |-> "DELETE_ORDER", order |-> request[r].order,
          type |-> request[request[r].order].type, wallet |-> request[r].wallet]

\* Slip: the answer does not wait for the queue's.
SendUnawaited(r) ==
    /\ At(r, "send")
    /\ sent' \in {sent, sent \cup {Message(r)}}
    /\ Goes(r, "done")
    /\ UNCHANGED <<accountVars, tokenRow, orders, engineVars>>

Send(r) ==
    /\ At(r, "send")
    /\ sent' = sent \cup {Message(r)}
    /\ Goes(r, "done")
    /\ UNCHANGED <<accountVars, tokenRow, orders, engineVars>>

\* Slip: the order is withdrawn, although its message may be in the queue.
SendFailsWithdrawing(r) ==
    /\ At(r, "send")
    /\ sent' \in {sent, sent \cup {Message(r)}}
    /\ orders' = orders \ {r}
    /\ Rollback(r, "failed")
    /\ UNCHANGED <<accountVars, engineVars>>

\* The call fails, with or without its effect; there is nothing left to roll
\* back of an order that is committed.
SendFails(r) ==
    /\ At(r, "send")
    /\ sent' \in {sent, sent \cup {Message(r)}}
    /\ Rollback(r, "failed")
    /\ UNCHANGED <<accountVars, orders, engineVars>>

-----------------------------------------------------------------------------
(* The engine takes a message.                                             *)

\* The trade that a command addresses: a countersell is known by its wallet
\* (and the token), a one-shot by its order.
\* Slip: a creation is addressed by its order, whatever its type.
AddressedByOrder(m) == IF m.command = "DELETE_ORDER"
                       THEN <<m.type, m.wallet>>
                       ELSE <<"order", m.order>>

Addressed(m) == IF m.type = "Countersell" \/ m.command = "DELETE_ORDER"
                THEN <<m.type, m.wallet>>
                ELSE <<"order", m.order>>

\* The orders whose trade a message reaches.
Reaches(m) == {o \in trades : \E c \in taken :
                 /\ c.command = "CREATE_ORDER"
                 /\ c.order = o
                 /\ Addressed(c) = Addressed(m)}

\* A configuration with a missing number is not parsed.
TakeCreation(m) ==
    /\ m \in sent \ taken
    /\ m.command = "CREATE_ORDER"
    /\ taken' = taken \cup {m}
    /\ trades' = IF m.amounts = "numbers" THEN trades \cup {m.order} ELSE trades
    /\ UNCHANGED <<accountVars, tokenRow, request, orders, sent>>

\* A removal that reaches a trade is done by it; any other changes the row only.
TakeRemoval(m) ==
    /\ m \in sent \ taken
    /\ m.command = "DELETE_ORDER"
    /\ taken' = taken \cup {m}
    /\ trades' = IF Reaches(m) = {} THEN trades ELSE trades \ {m.order}
    /\ UNCHANGED <<accountVars, tokenRow, request, orders, sent>>

-----------------------------------------------------------------------------
Asked(r) ==
    \/ "wallet" \in Kind /\ AskWallet(r)
    \/ "reset" \in Kind /\ AskReset(r)
    \/ /\ "create" \in Kind
       /\ \E type \in Type, amounts \in {"numbers", "missing"} :
            AskOrder(r, type, amounts)
    \/ "delete" \in Kind /\ \E o \in Request : AskDelete(r, o)

Handle(r) ==
    \/ SaveWallet(r) \/ EncryptFails(r)
    \/ FindToken(r) \/ SaveToken(r)
    \/ ReadWallet(r) \/ NoWallet(r)
    \/ InsertOrder(r) \/ TransactionFails(r)
    \/ Send(r) \/ SendFails(r)

Engine == \E m \in sent : TakeCreation(m) \/ TakeRemoval(m)

Next == \/ \E r \in Request : Asked(r) \/ Handle(r)
        \/ Confirm
        \/ Engine

\* A handler that was called goes on: each of its awaited calls is answered.
Spec == /\ Init
        /\ [][Next]_vars
        /\ \A r \in Request : WF_vars(Handle(r))

-----------------------------------------------------------------------------
Creates == {r \in Request : request[r].kind = "create"}

\* Variables hold what the code can store in them.
TypeOK ==
    /\ wallets \in 0 .. Cardinality(Request) + 1
    /\ account \in 0 .. wallets
    /\ firstLogin \in BOOLEAN
    /\ tokenRow \in {"absent", "saved"} \cup Creates
    /\ \A r \in Request : request[r].kind \in Kind \cup {"none"}
    /\ orders \subseteq Creates
    /\ taken \subseteq sent
    /\ trades \subseteq Creates

\* What the engine is told is in the database: every message names an order
\* that was committed, of that type and of a wallet the account has had, so
\* the rows that Hermes writes for it find the order they refer to.
PublishedIsRecorded ==
    \A m \in sent : /\ m.order \in orders
                    /\ m.type = request[m.order].type
                    /\ m.wallet \in 1 .. wallets

\* The answer is true: an order answered with success is committed and
\* published, one that is refused is neither.
AnswersTrue ==
    \A r \in Creates :
      /\ At(r, "done") => r \in orders /\ \E m \in sent : m.order = r
      /\ At(r, "refused") => r \notin orders

\* An open transaction belongs to a request that is being handled: none is
\* left on a connection that went back to the pool, where its lock on the
\* token would hold up every other order.
NoOpenTransaction == tokenRow \in Request => ~Over(tokenRow)

\* The database, its open transactions and the queue agree.
Consistent == TypeOK /\ PublishedIsRecorded /\ NoOpenTransaction

\* A countersell's removal that the engine takes after its creation ends the
\* trade, unless the account was given another wallet in between: what the two
\* requests say of one order then means the same trade.
RemovalEffective ==
    [][\A m \in taken' \ taken, c \in taken :
         /\ m.command = "DELETE_ORDER"
         /\ m.type = "Countersell"
         /\ c.command = "CREATE_ORDER"
         /\ c.order = m.order
         /\ c.wallet = wallets
         => m.order \notin trades']_vars

\* Two orders of a new token, one waiting for the other's insert, both get an
\* answer.
EveryRequestAnswered == \A r \in Request : ~Over(r) ~> Over(r)

-----------------------------------------------------------------------------
(* Claims of the documentation that do not hold.                           *)

\* The command of an order is published: none is committed and over without
\* its message.
OrdersPublished ==
    \A r \in orders : Over(r) => \E m \in sent : m.order = r

\* A removal names the trade that its order's creation named.
RemovalNamesTrade ==
    \A m, c \in sent :
      /\ m.order = c.order
      /\ c.command = "CREATE_ORDER" /\ c.type = "Countersell"
      => Addressed(m) = Addressed(c)

\* An order whose removal was handled is not traded any more.
RemovedIsNotTraded ==
    \A m \in taken : m.command = "DELETE_ORDER" => m.order \notin trades

\* A wallet that exists is not created again: only a reset replaces it.
WalletCreatedOnce ==
    [][account # 0 /\ account' # account
         => \E r \in Request : request[r].kind = "reset" /\ At(r, "encrypt")]_vars

-----------------------------------------------------------------------------
(* The inductive invariant of the proofs.                                  *)

Plain == [kind : {"wallet", "reset"},
          step : {"encrypt", "done", "refused", "failed"}]

Creation == [kind : {"create"},
             step : {"token", "insert", "wallet", "context", "send", "done",
                     "refused", "failed"},
             type : Type, amounts : {"numbers", "missing"}, wallet : Nat]

Deletion == [kind : {"delete"}, step : {"send", "done", "failed"},
             order : Request, wallet : Nat]

Refusal == [kind : {"delete"}, step : {"refused", "failed"}]

Typed ==
    /\ request \in [Request -> {Unused} \cup Plain \cup Creation
                                 \cup Deletion \cup Refusal]
    /\ \A r \in Request : request[r].kind \in Kind \cup {"none"}
    /\ wallets \in Nat /\ account = wallets
    /\ firstLogin \in BOOLEAN
    /\ tokenRow \in {"absent", "saved"} \cup Request
    /\ taken \subseteq sent

\* Every wallet but the first was saved by a request of its own.
Savers == {r \in Request : /\ request[r].kind \in {"wallet", "reset"}
                          /\ request[r].step = "done"}

WalletsCounted == wallets <= Cardinality(Savers) + 1

\* The request that has inserted the token has not left its transaction.
TokenHeld == tokenRow \in Request => /\ request[tokenRow].kind = "create"
                                     /\ request[tokenRow].step \in {"wallet", "context"}

\* How far a creation is tells whether its order is committed.
CreationInStep ==
    /\ \A r \in Creates :
         /\ request[r].wallet <= wallets
         /\ request[r].step \in {"context", "send", "done"} => request[r].wallet > 0
         /\ request[r].step \in {"send", "done"} => r \in orders
         /\ request[r].step = "done" => \E m \in sent : m.order = r
    /\ \A r \in orders : /\ r \in Creates
                         /\ request[r].step \in {"send", "done", "failed"}
                         /\ request[r].wallet > 0

\* A removal names a wallet the account had when the order was committed, or a
\* later one.
NamesLater(o, wallet) == o \in orders /\ wallet \in request[o].wallet .. wallets

DeletionNames ==
    \A r \in Request : request[r] \in Deletion => NamesLater(request[r].order, request[r].wallet)

MessagesTrue ==
    \A m \in sent :
      \/ m.order \in orders /\ m = [command |-> "CREATE_ORDER", order |-> m.order,
             type |-> request[m.order].type, wallet |-> request[m.order].wallet,
             amounts |-> request[m.order].amounts]
      \/ NamesLater(m.order, m.wallet) /\ m = [command |-> "DELETE_ORDER",
             order |-> m.order, type |-> request[m.order].type, wallet |-> m.wallet]

\* A trade is its order's, whose creation was taken.
TradesCreated ==
    \A o \in trades : \E c \in taken : c.command = "CREATE_ORDER" /\ c.order = o

ApiInv == /\ Typed
          /\ WalletsCounted
          /\ TokenHeld
          /\ CreationInStep
          /\ DeletionNames
          /\ MessagesTrue
          /\ TradesCreated
=============================================================================
