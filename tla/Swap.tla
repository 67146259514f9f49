-------------------------------- MODULE Swap --------------------------------
(***************************************************************************)
(* The transactions of Guillotine (guillotine/src/protocols and            *)
(* instruction_builder.rs): the plan of instructions that is built for an  *)
(* order, and what its instructions do to the wallet, one by one and all   *)
(* or nothing.                                                             *)
(*                                                                         *)
(* The programs that execute the instructions are external.  The wallet is *)
(* what they change of it: its SOL, its wrapped-SOL account and the token  *)
(* account.  Between transactions its owner moves funds as they like.      *)
(*                                                                         *)
(* Abstracted: an instruction is its effect and the accounts that may be   *)
(* the wrong ones; discriminators, derived addresses that are always right *)
(* and the network's own fee are left out.  An account's rent is one unit. *)
(***************************************************************************)
EXTENDS Naturals, Sequences

CONSTANTS Lamports,     \* sol_amount of orders
          Microtokens,  \* token_amount of orders
          Fee,          \* fee_lamports of orders
          Programs,     \* token programs of the mints that are traded
          Mayhem,       \* whether their coins are in mayhem mode
          MaxSol,       \* bound: the SOL and the tokens a wallet holds before
          MaxTokens     \*   an order at most

ASSUME SwapAssumption == /\ Lamports \subseteq Nat \ {0}
                         /\ Microtokens \subseteq Nat \ {0}
                         /\ Fee \subseteq Nat
                         /\ Programs \subseteq {"legacy", "token2022"}
                         /\ Mayhem \subseteq BOOLEAN
                         /\ MaxSol \in Nat /\ MaxTokens \in Nat

VARIABLES wallet,   \* the accounts of the wallet
          order,    \* the order in hand
          plan,     \* its instructions, or what became of it
          pc,       \* the next instruction of the running transaction
          before    \* the wallet before the order's transaction

swapVars == <<wallet, order, plan, pc, before>>

Rent == 1

Order == [protocol : {"PumpFun", "PumpSwap"}, buy : BOOLEAN,
          tokens : Microtokens, sol : Lamports, fee : Fee,
          program : Programs, mayhem : Mayhem,
          cached : BOOLEAN]     \* the trade knew the market's accounts

\* wsol: the wrapped-SOL account exists; lamports: what it holds beyond its
\* rent; synced: how much of that is tokens; ata: the token account exists.
Accounts == [sol : Nat, wsol : BOOLEAN, lamports : Nat, synced : Nat,
             ata : BOOLEAN, tokens : Nat]

-----------------------------------------------------------------------------
(* Plans.                                                                  *)

Extend == [do |-> "extend"]
CreateWsol(o) == [do |-> "createWsol", program |-> o.program]
Wrap(o) == [do |-> "wrap", sol |-> o.sol]
Sync == [do |-> "sync"]
CreateAta(o) == [do |-> "createAta", program |-> o.program]
Close == [do |-> "close"]
Pay(o) == [do |-> "pay", sol |-> o.fee]

Only(some, instruction) == IF some THEN <<instruction>> ELSE <<>>

\* The fee goes to the recipient's own wrapped-SOL account, or in mayhem mode
\* to whatever address global_config has reserved.
FeeAccount(o) == IF o.mayhem THEN "reserved_fee_recipient" ELSE "wsol"

\* Slip: the amounts are encoded in the wrong order.
TradeSwapped(o) ==
    [do |-> IF o.buy THEN "buy" ELSE "sell", via |-> o.protocol,
     tokens |-> o.sol, sol |-> o.tokens, feeAccount |-> FeeAccount(o)]

Trade(o) == [do |-> IF o.buy THEN "buy" ELSE "sell", via |-> o.protocol,
             tokens |-> o.tokens, sol |-> o.sol, feeAccount |-> FeeAccount(o)]

PumpFunPlan(o) == <<Extend>> \o Only(o.buy, CreateAta(o)) \o <<Trade(o)>>

\* Slip: the account is synced before it is funded.
PumpSwapPlanSyncedEarly(o) ==
    <<Extend, CreateWsol(o), Sync, Wrap(o)>>
      \o Only(o.buy, CreateAta(o)) \o <<Trade(o), Close>>

\* Slip: only a sale unwraps what it has received.
PumpSwapPlanOpen(o) ==
    <<Extend, CreateWsol(o), Wrap(o), Sync>>
      \o Only(o.buy, CreateAta(o)) \o <<Trade(o)>> \o Only(~o.buy, Close)

\* SOL is wrapped for a sale too.
PumpSwapPlan(o) ==
    <<Extend, CreateWsol(o), Wrap(o), Sync>>
      \o Only(o.buy, CreateAta(o)) \o <<Trade(o), Close>>

\* Slip: the fee is taken once by the protocol's builder and once more here.
PlanPayingTwice(o) ==
    (IF o.protocol = "PumpFun" THEN PumpFunPlan(o) ELSE PumpSwapPlan(o))
      \o Only(o.fee > 0, Pay(o)) \o Only(o.fee > 0, Pay(o))

PlanOf(o) ==
    (IF o.protocol = "PumpFun" THEN PumpFunPlan(o) ELSE PumpSwapPlan(o))
      \o Only(o.fee > 0, Pay(o))

\* spl_token refuses to write its close instruction for another program.
Buildable(o) == o.protocol = "PumpSwap" => o.program = "legacy"

-----------------------------------------------------------------------------
NoOrder == [protocol |-> "none"]

SwapInit == /\ wallet \in [sol : 0 .. MaxSol, wsol : {FALSE}, lamports : {0},
                           synced : {0}, ata : {FALSE}, tokens : {0}]
            /\ order = NoOrder
            /\ plan = <<>>
            /\ pc = 0
            /\ before = wallet

Idle == order = NoOrder

\* The owner: SOL comes and goes, wrapped SOL and tokens come.
Move(sol, lamports, tokens) ==
    /\ Idle
    /\ wallet' = [sol |-> sol, wsol |-> lamports > 0, lamports |-> lamports,
                  synced |-> lamports, ata |-> wallet.ata \/ tokens > 0,
                  tokens |-> wallet.tokens + tokens]
    /\ wallet'.tokens <= MaxTokens
    /\ before' = wallet'
    /\ UNCHANGED <<order, plan, pc>>

\* build_plan; accounts the trade did not know are read from the node.
Build(o) == /\ Idle
            /\ wallet.sol <= MaxSol /\ wallet.tokens <= MaxTokens
            /\ Buildable(o)
            /\ order' = o
            /\ plan' = PlanOf(o)
            /\ pc' = 1
            /\ UNCHANGED <<wallet, before>>

BuildFails(o) == /\ Idle
                 /\ ~Buildable(o) \/ ~o.cached
                 /\ order' = o
                 /\ plan' = <<>>
                 /\ pc' = 0
                 /\ UNCHANGED <<wallet, before>>

-----------------------------------------------------------------------------
(* The chain.                                                              *)

Running == pc \in 1 .. Len(plan)
Done == plan # <<>> /\ pc = Len(plan) + 1
This == plan[pc]

\* The market's program checks the account that its fee goes to.
FeeAccepted == This.via = "PumpSwap" => This.feeAccount = "wsol"

Affords(cost) == /\ wallet.ata
                 /\ IF This.via = "PumpSwap"
                    THEN wallet.wsol /\ wallet.synced >= cost
                    ELSE wallet.sol >= cost

\* Whether the instruction runs; a trade, at the worst price it allows.
\* Creating an account that exists does nothing.
Runnable ==
    CASE This.do = "extend" -> TRUE
      [] This.do = "createWsol" -> /\ This.program = "legacy"
                                   /\ wallet.wsol \/ wallet.sol >= Rent
      [] This.do = "createAta" -> wallet.ata \/ wallet.sol >= Rent
      [] This.do = "wrap" -> wallet.sol >= This.sol
      [] This.do \in {"sync", "close"} -> wallet.wsol
      [] This.do = "buy" -> FeeAccepted /\ Affords(This.sol)
      [] This.do = "sell" -> /\ FeeAccepted
                             /\ wallet.ata /\ wallet.tokens >= This.tokens
                             /\ This.via = "PumpSwap" => wallet.wsol
      [] This.do = "pay" -> wallet.sol >= This.sol

Is(do) == Running /\ This.do = do

Becomes(w) == /\ wallet' = w
              /\ pc' = pc + 1
              /\ UNCHANGED <<order, plan, before>>

Run(do, w) == Is(do) /\ Runnable /\ Becomes(w)

Extending == Run("extend", wallet)

OpenWsol == Run("createWsol", IF wallet.wsol THEN wallet
                ELSE [wallet EXCEPT !.sol = @ - Rent, !.wsol = TRUE])

OpenAta == Run("createAta", IF wallet.ata THEN wallet
               ELSE [wallet EXCEPT !.sol = @ - Rent, !.ata = TRUE])

Wrapping == Run("wrap", [wallet EXCEPT !.sol = @ - This.sol,
                                       !.lamports = @ + This.sol])

Syncing == Run("sync", [wallet EXCEPT !.synced = wallet.lamports])

\* The market moves n SOL: at most, or at least, what the order allows.
Traded(n, got) ==
    IF This.via = "PumpSwap"
    THEN [wallet EXCEPT !.lamports = IF got THEN @ + n ELSE @ - n,
                        !.synced = IF got THEN @ + n ELSE @ - n,
                        !.tokens = IF got THEN @ - This.tokens ELSE @ + This.tokens]
    ELSE [wallet EXCEPT !.sol = IF got THEN @ + n ELSE @ - n,
                        !.tokens = IF got THEN @ - This.tokens ELSE @ + This.tokens]

Buying(cost) == /\ Is("buy")
                /\ cost <= This.sol
                /\ FeeAccepted
                /\ Affords(cost)
                /\ Becomes(Traded(cost, FALSE))

Selling(proceeds) == /\ Is("sell")
                     /\ proceeds >= This.sol
                     /\ Runnable
                     /\ Becomes(Traded(proceeds, TRUE))

Closing == Run("close", [wallet EXCEPT !.sol = @ + wallet.lamports + Rent,
                                       !.wsol = FALSE, !.lamports = 0,
                                       !.synced = 0])

Paying == Run("pay", [wallet EXCEPT !.sol = @ - This.sol])

Leave == /\ order' = NoOrder
         /\ plan' = <<>>
         /\ pc' = 0
         /\ before' = wallet'

Commit == /\ Done
          /\ UNCHANGED wallet
          /\ Leave

\* An instruction that does not run, or a market that has moved: nothing of
\* the transaction happens.
Abort == /\ Running
         /\ ~Runnable \/ This.do \in {"buy", "sell"}
         /\ wallet' = before
         /\ Leave

\* An order without a plan is forgotten.
Forget == /\ ~Idle
          /\ plan = <<>>
          /\ UNCHANGED wallet
          /\ Leave

-----------------------------------------------------------------------------
Amount == 0 .. MaxSol

Owner == \E sol, lamports, tokens \in Amount : Move(sol, lamports, tokens)

Chain == \/ Extending \/ OpenWsol \/ OpenAta \/ Wrapping \/ Syncing
         \/ \E n \in Amount : Buying(n) \/ Selling(n)
         \/ Closing \/ Paying

SwapNext == \/ Owner
            \/ \E o \in Order : Build(o) \/ BuildFails(o)
            \/ Chain
            \/ Commit \/ Abort \/ Forget

SwapSpec == SwapInit /\ [][SwapNext]_swapVars

-----------------------------------------------------------------------------
Instruction ==
    [do : {"extend", "sync", "close"}]
      \cup [do : {"createWsol", "createAta"}, program : Programs]
      \cup [do : {"wrap"}, sol : Lamports]
      \cup [do : {"pay"}, sol : Fee]
      \cup [do : {"buy", "sell"}, via : {"PumpFun", "PumpSwap"},
            tokens : Microtokens, sol : Lamports,
            feeAccount : {"wsol", "reserved_fee_recipient"}]

SwapTypeOK == /\ wallet \in Accounts
              /\ order = NoOrder \/ order \in Order
              /\ plan \in Seq(Instruction)
              /\ pc \in 0 .. Len(plan) + 1
              /\ before \in Accounts

Funds(w) == w.sol + w.lamports + IF w.wsol THEN Rent ELSE 0

\* A transaction that went through keeps the order's price, fees, rents and
\* wrapping included: a purchase costs the wallet no more than its limit, the
\* fee and the rent of a new token account; a sale brings its limit at least,
\* less the fee.
PriceKept ==
    Done => IF order.buy
            THEN /\ Funds(before) <= Funds(wallet) + order.sol + order.fee
                                       + (IF before.ata THEN 0 ELSE Rent)
                 /\ wallet.tokens = before.tokens + order.tokens
            ELSE /\ Funds(wallet) + order.fee >= Funds(before) + order.sol
                 /\ wallet.tokens + order.tokens = before.tokens

\* Nothing stays wrapped: what a purchase did not use of its budget and what a
\* sale brought are SOL again when the transaction is over.
NothingWrapped ==
    Done /\ order.protocol = "PumpSwap" => ~wallet.wsol /\ wallet.lamports = 0

\* The wallet, the plan and its execution agree.
SwapConsistent == SwapTypeOK /\ NothingWrapped

\* A wallet that can pay for the order can execute it: the instructions are in
\* an order in which each finds what the ones before it prepared, and only the
\* market can refuse.  A sale on the pool must be able to wrap its own minimum
\* proceeds first.
Needs(o) == (IF o.buy \/ o.protocol = "PumpSwap" THEN o.sol ELSE 0)
              + o.fee + 2 * Rent

Payable(o, w) == /\ w.sol >= Needs(o)
                 /\ o.buy \/ (w.ata /\ w.tokens >= o.tokens)

RunsWhenFunded ==
    /\ Running
    /\ Payable(order, before)
    /\ order.protocol = "PumpSwap" => ~order.mayhem
    => Runnable

-----------------------------------------------------------------------------
(* Claims of the documentation that do not hold.                           *)

\* The token program of the mint is passed where it belongs: there is a plan
\* for every order whose market's accounts are known.
AlwaysBuildable == ~Idle /\ order.cached => plan # <<>>

\* The market's fee account is the wrapped-SOL account of its fee recipient,
\* in mayhem mode too.
FeeAccountRight ==
    \A i \in DOMAIN plan :
      plan[i].do \in {"buy", "sell"} /\ plan[i].via = "PumpSwap"
        => plan[i].feeAccount = "wsol"
-----------------------------------------------------------------------------
(* The inductive invariant of the proofs.                                  *)

\* An instruction of that kind has been executed.
Passed(do) == \E i \in 1 .. pc - 1 : plan[i].do = do

TradePassed == Passed("buy") \/ Passed("sell")

AmountIf(condition, n) == IF condition THEN n ELSE 0

\* What the wallet has paid and keeps nothing for, its trade aside.
Charged == AmountIf(Passed("createAta") /\ ~before.ata, Rent)
             + AmountIf(Passed("pay"), order.fee)

\* What has gone from its SOL to accounts that closing may bring back.
SetAside == AmountIf(Passed("createWsol") /\ ~before.wsol, Rent)
              + AmountIf(Passed("wrap"), order.sol)

AccountsOpened ==
    /\ wallet.wsol = ((before.wsol \/ Passed("createWsol")) /\ ~Passed("close"))
    /\ wallet.ata = (before.ata \/ Passed("createAta"))

Wrapped ==
    /\ Passed("wrap") /\ ~TradePassed => wallet.lamports >= order.sol
    /\ Passed("sync") /\ ~TradePassed => wallet.synced = wallet.lamports
    /\ Passed("close") => wallet.lamports = 0

TokensMoved ==
    /\ Passed("buy") => wallet.tokens = before.tokens + order.tokens
    /\ Passed("sell") => wallet.tokens + order.tokens = before.tokens
    /\ ~TradePassed => wallet.tokens = before.tokens

FundsMoved ==
    /\ Passed("buy") => Funds(before) <= Funds(wallet) + Charged + order.sol
    /\ Passed("sell") => Funds(wallet) + Charged >= Funds(before) + order.sol
    /\ ~TradePassed => Funds(wallet) + Charged = Funds(before)

\* No SOL goes anywhere else, closing and selling bring more.
SolLeft ==
    wallet.sol + Charged + SetAside
      + AmountIf(Passed("buy") /\ order.protocol = "PumpFun", order.sol)
    >= before.sol

Executing == /\ order \in Order /\ Buildable(order)
             /\ plan = PlanOf(order)
             /\ pc \in 1 .. Len(plan) + 1
             /\ AccountsOpened
             /\ Wrapped
             /\ TokensMoved
             /\ FundsMoved
             /\ SolLeft

Unplanned == /\ order = NoOrder \/ order \in Order
             /\ plan = <<>> /\ pc = 0 /\ wallet = before

SwapInv == /\ wallet \in Accounts /\ wallet.synced <= wallet.lamports
           /\ before \in Accounts /\ before.synced <= before.lamports
           /\ Unplanned \/ Executing
=============================================================================
