------------------------------ MODULE Execution -----------------------------
(***************************************************************************)
(* What an executor may promise about the warrants it takes, seen from the *)
(* trades and from the chain.  A warrant is reported SUBMITTED, then once  *)
(* CONFIRMED or FAILED, or never reported at all.  The chain may execute   *)
(* it once per attempt, at any time after it was submitted; CONFIRMED is a *)
(* promise that it did, FAILED promises nothing.                           *)
(***************************************************************************)
EXTENDS Naturals, Sequences

CONSTANTS Warrant,    \* execution orders
          Attempts    \* how often one warrant may be submitted

VARIABLES live,        \* live trading: transactions are really sent
          reported,    \* the stages reported for each warrant, in order
          executions   \* how often the chain has executed each warrant

execVars == <<live, reported, executions>>

ExecInit == /\ live \in BOOLEAN
            /\ reported = [w \in Warrant |-> <<>>]
            /\ executions = [w \in Warrant |-> 0]

Report(w, stage) == /\ reported' = [reported EXCEPT ![w] = Append(@, stage)]
                    /\ UNCHANGED <<live, executions>>

ReportSubmitted(w) == /\ reported[w] = <<>>
                      /\ Report(w, "SUBMITTED")

ReportConfirmed(w) == /\ reported[w] = <<"SUBMITTED">>
                      /\ live => executions[w] > 0
                      /\ Report(w, "CONFIRMED")

ReportFailed(w) == /\ live
                   /\ reported[w] = <<"SUBMITTED">>
                   /\ Report(w, "FAILED")

Execute(w) == /\ live
              /\ reported[w] # <<>>
              /\ executions[w] < Attempts
              /\ executions' = [executions EXCEPT ![w] = @ + 1]
              /\ UNCHANGED <<live, reported>>

ExecNext == \E w \in Warrant : \/ ReportSubmitted(w)
                               \/ ReportConfirmed(w)
                               \/ ReportFailed(w)
                               \/ Execute(w)

ExecSpec == ExecInit /\ [][ExecNext]_execVars
=============================================================================
