----------------------------- MODULE Guillotine -----------------------------
(***************************************************************************)
(* Guillotine (guillotine/src): one task per execution order.  The task    *)
(* builds a plan, reports SUBMITTED, looks up the wallet's key and submits *)
(* the plan, each time as a new transaction with a fresh blockhash, until  *)
(* an attempt is confirmed, is refused for good or no retry is left; then  *)
(* it reports CONFIRMED or FAILED.                                         *)
(*                                                                         *)
(* The chain and the RPC node between it and the task are external: a      *)
(* transaction that was sent lands or is rejected on its own time, or      *)
(* stays in flight for ever as an expired one does, and the call that sent *)
(* it can return an error in each case.                                    *)
(*                                                                         *)
(* Abstracted: the instructions of a plan (module Swap) and the text of    *)
(* errors, of which only retryable or not is kept.  An order of execution  *)
(* is a warrant; the channels are unbounded and nothing in them overtakes, *)
(* so a report is shown at the moment it is sent.                          *)
(***************************************************************************)
EXTENDS Naturals, Sequences, FiniteSets

CONSTANTS Warrant,      \* execution orders
          Wallet,
          WalletOf,     \* wallet_pubkey of each order
          MaxRetries    \* the plan's max_retries

ASSUME GuillotineAssumption ==
    /\ WalletOf \in [Warrant -> Wallet]
    /\ MaxRetries \in Nat

VARIABLES live,       \* not dry_run
          task,       \* where the task of each order is
          retries,    \* retry_count of each task
          signers,    \* wallets whose key is in the shared map
          reported,   \* the stages each order was reported in
          tx          \* the transaction of each attempt, as the chain sees it

vars == <<live, task, retries, signers, reported, tx>>

Phase == {"queued", "planning", "planned", "signing", "attempting", "sent",
          "ended"}
Stage == {"SUBMITTED", "CONFIRMED", "FAILED"}
Attempt == 1 .. MaxRetries + 1
Fate == {"none", "flying", "landed", "rejected"}

Current(w) == retries[w] + 1

Step(w, from, to) == /\ task[w] = from
                     /\ task' = [task EXCEPT ![w] = to]

Report(w, stage) == reported' = [reported EXCEPT ![w] = Append(@, stage)]

Init == /\ live \in BOOLEAN
        /\ task = [w \in Warrant |-> "queued"]
        /\ retries = [w \in Warrant |-> 0]
        /\ signers = {}
        /\ reported = [w \in Warrant |-> <<>>]
        /\ tx = [w \in Warrant |-> [a \in Attempt |-> "none"]]

-----------------------------------------------------------------------------
(* The wallet manager changes the shared map at any time.                  *)

Prepare(s) == /\ signers' = signers \cup {s}
              /\ UNCHANGED <<live, task, retries, reported, tx>>

Destroy(s) == /\ signers' = signers \ {s}
              /\ UNCHANGED <<live, task, retries, reported, tx>>

-----------------------------------------------------------------------------
(* process_order, up to its first report.                                  *)

Receive(w) == /\ Step(w, "queued", "planning")
              /\ UNCHANGED <<live, retries, signers, reported, tx>>

\* build_plan fails: accounts that cannot be read, or instructions that
\* cannot be built.  The task ends by the question mark and reports nothing.
PlanFails(w) == /\ Step(w, "planning", "ended")
                /\ UNCHANGED <<live, retries, signers, reported, tx>>

\* A plan is built; a priority fee that Shylock does not answer is defaulted.
Plan(w) == /\ Step(w, "planning", "planned")
           /\ Report(w, "SUBMITTED")
           /\ UNCHANGED <<live, retries, signers, tx>>

\* Slip: the dry run reports CONFIRMED and goes on to sign and send.
DryRunGoesOn(w) ==
    /\ Step(w, "planned", "signing")
    /\ IF live THEN UNCHANGED reported ELSE Report(w, "CONFIRMED")
    /\ UNCHANGED <<live, retries, signers, tx>>

\* A dry run reports CONFIRMED with a made-up signature and returns.
DryRun(w) ==
    /\ IF live THEN /\ Step(w, "planned", "signing")
                    /\ UNCHANGED reported
               ELSE /\ Step(w, "planned", "ended")
                    /\ Report(w, "CONFIRMED")
    /\ UNCHANGED <<live, retries, signers, tx>>

-----------------------------------------------------------------------------
(* Live: the key is read once; the task keeps it until it ends.            *)

Sign(w) == /\ WalletOf[w] \in signers
           /\ Step(w, "signing", "attempting")
           /\ UNCHANGED <<live, retries, signers, reported, tx>>

\* Slip: a task without a signer returns before it reports.
UnsignedSilently(w) ==
    /\ WalletOf[w] \notin signers
    /\ Step(w, "signing", "ended")
    /\ UNCHANGED <<live, retries, signers, reported, tx>>

Unsigned(w) == /\ WalletOf[w] \notin signers
               /\ Step(w, "signing", "ended")
               /\ Report(w, "FAILED")
               /\ UNCHANGED <<live, retries, signers, tx>>

-----------------------------------------------------------------------------
(* submit_transaction and the retry loop around it.                        *)

\* Blockhash, signature and simulation went well: the transaction is sent.
Send(w) == /\ Step(w, "attempting", "sent")
           /\ tx' = [tx EXCEPT ![w][Current(w)] = "flying"]
           /\ UNCHANGED <<live, retries, signers, reported>>

\* Slip: a retry that is not counted.
RetryUncounted(w) == /\ task' = [task EXCEPT ![w] = "attempting"]
                     /\ UNCHANGED <<retries, reported>>

Retry(w) == /\ retries' = [retries EXCEPT ![w] = @ + 1]
            /\ task' = [task EXCEPT ![w] = "attempting"]
            /\ UNCHANGED reported

\* Slip: the loop goes on after FAILED was reported.
GiveUpGoesOn(w) == /\ task' = [task EXCEPT ![w] = "attempting"]
                   /\ Report(w, "FAILED")
                   /\ UNCHANGED retries

GiveUp(w) == /\ task' = [task EXCEPT ![w] = "ended"]
             /\ Report(w, "FAILED")
             /\ UNCHANGED retries

\* Slip: one retry too many.
FailedOneMore(w, retryable) == IF retryable /\ retries[w] <= MaxRetries
                               THEN Retry(w) ELSE GiveUp(w)

\* is_retryable_error picks the branch.
Failed(w, retryable) == IF retryable /\ retries[w] < MaxRetries
                        THEN Retry(w) ELSE GiveUp(w)

\* No transaction was sent: no blockhash, an RPC error, or a simulation that
\* failed.  Its error is printed in Debug form, which none of the texts for
\* errors that are not worth a retry occurs in, so it is retried.
NotSent(w) == /\ task[w] = "attempting"
              /\ Failed(w, TRUE)
              /\ UNCHANGED <<live, signers, tx>>

\* Slip: the signature is taken for a confirmation.
ConfirmedOnSend(w) ==
    /\ Step(w, "sent", "ended")
    /\ Report(w, "CONFIRMED")
    /\ UNCHANGED <<live, retries, signers, tx>>

Confirmed(w) == /\ tx[w][Current(w)] = "landed"
                /\ Step(w, "sent", "ended")
                /\ Report(w, "CONFIRMED")
                /\ UNCHANGED <<live, retries, signers, tx>>

\* The chain has refused the transaction; a program's error is final, another
\* one is not.
Rejected(w, retryable) ==
    /\ task[w] = "sent"
    /\ tx[w][Current(w)] = "rejected"
    /\ Failed(w, retryable)
    /\ UNCHANGED <<live, signers, tx>>

\* The call gives up waiting, or loses the node: whatever became of the
\* transaction, the error is worth a retry.
Unconfirmed(w) == /\ task[w] = "sent"
                  /\ Failed(w, TRUE)
                  /\ UNCHANGED <<live, signers, tx>>

-----------------------------------------------------------------------------
(* The chain.                                                              *)

Decide(w, a, fate) == /\ tx[w][a] = "flying"
                      /\ fate \in {"landed", "rejected"}
                      /\ tx' = [tx EXCEPT ![w][a] = fate]
                      /\ UNCHANGED <<live, task, retries, signers, reported>>

-----------------------------------------------------------------------------
TaskStep(w) == \/ Receive(w) \/ PlanFails(w) \/ Plan(w) \/ DryRun(w)
               \/ Sign(w) \/ Unsigned(w)
               \/ Send(w) \/ NotSent(w) \/ Confirmed(w) \/ Unconfirmed(w)
               \/ \E retryable \in BOOLEAN : Rejected(w, retryable)

Next == \/ \E s \in Wallet : Prepare(s) \/ Destroy(s)
        \/ \E w \in Warrant : TaskStep(w)
        \/ \E w \in Warrant, a \in Attempt, fate \in Fate : Decide(w, a, fate)

Spec == Init /\ [][Next]_vars

\* Every call a task waits for returns: an RPC call times out, and Shylock
\* answers or drops the request for the fee.
FairSpec == Spec /\ \A w \in Warrant : WF_vars(TaskStep(w))

-----------------------------------------------------------------------------
TypeOK == /\ live \in BOOLEAN
          /\ task \in [Warrant -> Phase]
          /\ retries \in [Warrant -> 0 .. MaxRetries]
          /\ signers \subseteq Wallet
          /\ reported \in [Warrant -> Seq(Stage)]
          /\ tx \in [Warrant -> [Attempt -> Fate]]

Landed(w) == {a \in Attempt : tx[w][a] = "landed"}

Reported(w, stage) == \E i \in DOMAIN reported[w] : reported[w][i] = stage

\* Trades book a sale on CONFIRMED: in live trading the chain has then
\* executed the order, and in a dry run nothing ever reaches the chain.
ConfirmedIsTrue ==
    \A w \in Warrant :
      /\ live /\ Reported(w, "CONFIRMED") => Landed(w) # {}
      /\ ~live => \A a \in Attempt : tx[w][a] = "none"

\* What a task reports is what it knows.
Consistent == TypeOK /\ ConfirmedIsTrue

\* Once a terminal stage is reported the task sends nothing more: what the
\* chain still does to the order are attempts sent before the report.
NothingSentAfter ==
    [][\A w \in Warrant :
         Len(reported[w]) = 2 =>
           /\ reported'[w] = reported[w]
           /\ \A a \in Attempt : tx[w][a] = "none" => tx'[w][a] = "none"]_vars

\* The executor keeps its promise: one terminal stage after SUBMITTED, never
\* CONFIRMED without an execution, and no more executions than attempts.
Promise == INSTANCE Execution
             WITH Attempts <- MaxRetries + 1,
                  executions <- [w \in Warrant |-> Cardinality(Landed(w))]

ImplementsExecution == Promise!ExecSpec

\* An order that was reported SUBMITTED is reported CONFIRMED or FAILED in the
\* end: the retry loop ends, whatever the chain and the wallet manager do.
ResultArrives ==
    \A w \in Warrant : Len(reported[w]) = 1 ~> Len(reported[w]) = 2

\* A key that is destroyed leaves memory: the tasks that still hold a copy of
\* it end, unless the wallet's key is prepared again.
Holds(w) == task[w] \in {"attempting", "sent"}

KeyReleased ==
    \A s \in Wallet :
      s \notin signers ~>
        s \in signers \/ \A w \in Warrant : WalletOf[w] = s => ~Holds(w)

\* Both: a task that was started comes to an end and leaves nothing behind.
TasksEnd == ResultArrives /\ KeyReleased

-----------------------------------------------------------------------------
(* Claims of the code that do not hold.                                    *)

\* The tokens booked as pending for an order are all that is sold for it: once
\* at most, and not at all when it was reported FAILED and they are released.
SoldOnce ==
    \A w \in Warrant : /\ Cardinality(Landed(w)) <= 1
                       /\ Reported(w, "FAILED") => Landed(w) = {}

\* Every order that was taken is reported CONFIRMED or FAILED in the end.
EveryOrderAnswered ==
    \A w \in Warrant : task[w] = "planning" ~> Len(reported[w]) = 2
=============================================================================
