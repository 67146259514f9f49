-------------------------------- MODULE Chain -------------------------------
(***************************************************************************)
(* What becomes of a warrant between its hand-over to the executor and its *)
(* result, and after it.  The executor signs the warrant's transaction     *)
(* anew for each submission (a fresh blockhash: process_order and          *)
(* transaction_sender.rs), so the chain may execute a warrant more than    *)
(* once, and at any moment from its submission on, the time after its      *)
(* report included.  The executor reports CONFIRMED when it has seen one   *)
(* execution, and FAILED when it has given up: by then the chain may have  *)
(* executed the warrant all the same.                                      *)
(*                                                                         *)
(* An execution that no confirmation accounts for, a second one of the     *)
(* same warrant or one of a warrant reported FAILED, is counted as         *)
(* surplus.  Trading is live: a dry run, which sends nothing, is module    *)
(* Guillotine's.  Abstracted: the attempts of a warrant, whose number only *)
(* the bound on the surplus limits here, and their timeouts (also module   *)
(* Guillotine).                                                            *)
(***************************************************************************)
EXTENDS Claims

CONSTANTS OrderId,     \* order ids (primary keys of position_order)
          MaxSurplus   \* bound: tokens executed beyond the confirmed ones

ASSUME ChainAssumption == MaxSurplus \in Nat

VARIABLES executed,    \* warrants executed, and not reported yet
          late,        \* what submissions of reported warrants may yet sell
          landed,      \* tokens the chain has really taken from the wallet
          landedBy,    \* the same, per order
          surplus,     \* those of them that no confirmation accounts for
          surplusBy,   \* the same, per order
          confirmed,   \* tokens of the warrants that were reported CONFIRMED
          confirmedBy  \* the same, per order

chainVars == <<executed, late, landed, landedBy, surplus, surplusBy>>
reportVars == <<confirmed, confirmedBy>>

SaleOf(w) == [order |-> w.order, amount |-> w.amount]

ChainInit == /\ executed = {}
             /\ late = {}
             /\ landed = 0
             /\ landedBy = [o \in OrderId |-> 0]
             /\ surplus = 0
             /\ surplusBy = [o \in OrderId |-> 0]
             /\ confirmed = 0
             /\ confirmedBy = [o \in OrderId |-> 0]

-----------------------------------------------------------------------------
(* The chain executes a submission.                                        *)

Land(s) == /\ landed' = landed + s.amount
           /\ landedBy' = [landedBy EXCEPT ![s.order] = @ + s.amount]

Unaccounted(s) == /\ surplus + s.amount <= MaxSurplus
                  /\ surplus' = surplus + s.amount
                  /\ surplusBy' = [surplusBy EXCEPT ![s.order] = @ + s.amount]

\* The first execution of a warrant that awaits its report.
Execute(w) == /\ w \notin executed
              /\ Land(w)
              /\ executed' = executed \cup {w}
              /\ UNCHANGED <<late, surplus, surplusBy>>

\* Another one of the same warrant, or one that comes after the report.
ExecuteMore(s) == /\ Land(s)
                  /\ Unaccounted(s)
                  /\ UNCHANGED <<executed, late>>

-----------------------------------------------------------------------------
(* The executor reports a warrant, once.  If it was submitted, whatever    *)
(* the report says, a submission of it may still be in flight.             *)

Report(w) == /\ late' \in {late, late \cup {SaleOf(w)}}
             /\ executed' = executed \ {w}
             /\ UNCHANGED <<landed, landedBy>>

ReportConfirmed(w) ==
    /\ w \in executed
    /\ Report(w)
    /\ confirmed' = confirmed + w.amount
    /\ confirmedBy' = [confirmedBy EXCEPT ![w.order] = @ + w.amount]
    /\ UNCHANGED <<surplus, surplusBy>>

ReportFailed(w) ==
    /\ Report(w)
    /\ IF w \in executed THEN Unaccounted(w) ELSE UNCHANGED <<surplus, surplusBy>>
    /\ UNCHANGED reportVars

-----------------------------------------------------------------------------
ChainTypeOK ==
    /\ late \subseteq [order : OrderId, amount : Nat \ {0}]
    /\ landed \in Nat
    /\ landedBy \in [OrderId -> Nat]
    /\ surplus \in Nat
    /\ surplusBy \in [OrderId -> Nat]

\* Whatever landed is confirmed, awaits its report, or is surplus.
Accounted ==
    /\ landed = confirmed + Total(executed) + surplus
    /\ \A o \in OrderId :
         landedBy[o] = confirmedBy[o] + Total(ClaimsOf(executed, o)) + surplusBy[o]
=============================================================================
