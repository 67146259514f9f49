-------------------------- MODULE GuillotineProofs --------------------------
(***************************************************************************)
(* Theorems of the executor.  Of module Guillotine, for any orders,        *)
(* wallets and number of retries: what is reported is true, nothing is     *)
(* sent after a terminal report, and the task implements Execution.  Of    *)
(* module Swap, for any amounts, fees and wallets: what a transaction      *)
(* costs and brings, that nothing stays wrapped, and that a wallet with    *)
(* the funds can execute its plan.                                         *)
(***************************************************************************)
EXTENDS Guillotine, Swap, FiniteSetTheorems, SequenceTheorems, TLAPS

\* Where a task is decides what it has reported.
Progress(w) ==
    /\ task[w] \in {"queued", "planning"} => reported[w] = <<>>
    /\ task[w] \in {"planned", "signing", "attempting", "sent"}
         => reported[w] = <<"SUBMITTED">>
    /\ task[w] = "ended"
         => reported[w] \in {<<>>, <<"SUBMITTED", "CONFIRMED">>,
                             <<"SUBMITTED", "FAILED">>}
    /\ task[w] \in {"signing", "attempting", "sent"} => live

Unsent(w, from) == \A a \in Attempt : a >= from => tx[w][a] = "none"

\* And which attempts there cannot be yet.
Sending(w) ==
    /\ task[w] \in {"queued", "planning", "planned", "signing"}
         => retries[w] = 0 /\ Unsent(w, 1)
    /\ task[w] = "attempting" => Unsent(w, Current(w))
    /\ task[w] = "sent" => Unsent(w, Current(w) + 1)
    /\ reported[w] = <<>> \/ ~live => Unsent(w, 1)

Truth(w) == live /\ reported[w] = <<"SUBMITTED", "CONFIRMED">>
              => \E a \in Attempt : tx[w][a] = "landed"

TaskInv(w) == Progress(w) /\ Sending(w) /\ Truth(w)

IInv == TypeOK /\ \A w \in Warrant : TaskInv(w)

-----------------------------------------------------------------------------
LEMMA Appended ==
  ASSUME NEW s \in Stage, NEW t \in Stage
  PROVE  /\ Append(<<>>, s) = <<s>>
         /\ Append(<<s>>, t) = <<s, t>>
         /\ <<>> # <<s>> /\ <<>> # <<s, t>> /\ <<s>> # <<s, t>>
         /\ Len(<<>>) = 0 /\ Len(<<s>>) = 1 /\ Len(<<s, t>>) = 2
<1>1. Len(<<>>) = 0 /\ Len(<<s>>) = 1 /\ Len(<<s, t>>) = 2
  OBVIOUS
<1>2. Append(<<>>, s) = <<s>>
  OBVIOUS
<1>4. Append(<<s>>, t) = <<s, t>>
  <2> DEFINE u == Append(<<s>>, t)
  <2>1. <<s>> \in Seq(Stage) /\ Len(<<s>>) = 1 /\ <<s>>[1] = s
    OBVIOUS
  <2>2. u \in Seq(Stage) /\ Len(u) = 2 /\ u[1] = s /\ u[2] = t
    BY <2>1, AppendProperties
  <2> HIDE DEF u
  <2>3. u = <<s, t>>
    BY <2>2
  <2> QED
    BY <2>3 DEF u
<1>3. <<>> # <<s>> /\ <<>> # <<s, t>> /\ <<s>> # <<s, t>>
  BY <1>1
<1> QED
  BY <1>1, <1>2, <1>3, <1>4

LEMMA InitIInv == Init => IInv
BY GuillotineAssumption
   DEF Init, IInv, TypeOK, TaskInv, Progress, Sending, Truth, Unsent, Current,
       Phase, Stage, Fate

\* What no step of an order's task or of the chain touches is kept.
LEMMA Kept ==
  ASSUME NEW w \in Warrant, TaskInv(w), live' = live,
         task'[w] = task[w], retries'[w] = retries[w],
         reported'[w] = reported[w], tx'[w] = tx[w]
  PROVE  TaskInv(w)'
BY DEF TaskInv, Progress, Sending, Truth, Unsent, Current

\* A step of the task of w alone.
LEMMA Alone ==
  ASSUME IInv, NEW w \in Warrant, TypeOK', TaskInv(w)', live' = live,
         \A v \in Warrant \ {w} : /\ task'[v] = task[v]
                                  /\ retries'[v] = retries[v]
                                  /\ reported'[v] = reported[v]
                                  /\ tx'[v] = tx[v]
  PROVE  IInv'
<1>1. \A v \in Warrant \ {w} : TaskInv(v)'
  BY Kept DEF IInv
<1> QED
  BY <1>1 DEF IInv

LEMMA AppendTyped ==
  ASSUME TypeOK, NEW w \in Warrant, NEW stage \in Stage, Report(w, stage)
  PROVE  /\ reported' \in [Warrant -> Seq(Stage)]
         /\ reported'[w] = Append(reported[w], stage)
         /\ \A v \in Warrant \ {w} : reported'[v] = reported[v]
BY DEF TypeOK, Report

\* The end of an attempt: the next one, or FAILED.
LEMMA FailedKeeps ==
  ASSUME IInv, NEW w \in Warrant, NEW retryable \in BOOLEAN,
         task[w] \in {"attempting", "sent"}, Failed(w, retryable),
         UNCHANGED <<live, signers, tx>>
  PROVE  IInv'
<1>0. TypeOK /\ TaskInv(w) /\ retries[w] \in 0 .. MaxRetries /\ MaxRetries \in Nat
  BY GuillotineAssumption DEF IInv, TypeOK
<1>1. reported[w] = <<"SUBMITTED">> /\ live /\ Unsent(w, Current(w) + 1)
  BY <1>0 DEF TaskInv, Progress, Sending, Unsent, Current, Attempt
<1>2. CASE retryable /\ retries[w] < MaxRetries
  <2>1. Retry(w)
    BY <1>2 DEF Failed
  <2>2. TypeOK'
    BY <1>0, <1>2, <2>1 DEF TypeOK, Retry, Phase
  <2>3. /\ task'[w] = "attempting" /\ retries'[w] = retries[w] + 1
        /\ reported' = reported
    BY <1>0, <2>1 DEF TypeOK, Retry
  <2>4. TaskInv(w)'
    BY <1>0, <1>1, <2>3, Appended
       DEF TaskInv, Progress, Sending, Truth, Unsent, Current
  <2> QED
    BY <1>0, <2>1, <2>2, <2>4, Alone DEF Retry, TypeOK
<1>3. CASE ~(retryable /\ retries[w] < MaxRetries)
  <2>1. GiveUp(w)
    BY <1>3 DEF Failed
  <2>2. /\ reported' \in [Warrant -> Seq(Stage)]
        /\ reported'[w] = Append(reported[w], "FAILED")
        /\ \A v \in Warrant \ {w} : reported'[v] = reported[v]
    BY <1>0, <2>1, AppendTyped DEF GiveUp, Stage
  <2>3. TypeOK'
    BY <1>0, <2>1, <2>2 DEF TypeOK, GiveUp, Phase
  <2>4. reported'[w] = <<"SUBMITTED", "FAILED">> /\ task'[w] = "ended"
    BY <1>0, <1>1, <2>1, <2>2, Appended DEF TypeOK, GiveUp, Stage
  <2>5. TaskInv(w)'
    BY <1>0, <1>1, <2>4, Appended
       DEF TaskInv, Progress, Sending, Truth, Unsent, Current
  <2> QED
    BY <1>0, <2>1, <2>2, <2>3, <2>5, Alone DEF GiveUp, TypeOK
<1> QED
  BY <1>2, <1>3

\* A step of the task that reports nothing and sends nothing.
LEMMA QuietKeeps ==
  ASSUME IInv, NEW w \in Warrant, NEW from, NEW to \in Phase, Step(w, from, to),
         \/ from = "queued" /\ to = "planning"
         \/ from = "planning" /\ to = "ended"
         \/ from = "planned" /\ to = "signing" /\ live
         \/ from = "signing" /\ to = "attempting",
         UNCHANGED <<live, retries, signers, reported, tx>>
  PROVE  IInv'
<1>0. TypeOK /\ TaskInv(w) /\ retries[w] \in 0 .. MaxRetries /\ MaxRetries \in Nat
  BY GuillotineAssumption DEF IInv, TypeOK
<1>1. task[w] = from /\ task'[w] = to /\ TypeOK'
      /\ \A v \in Warrant \ {w} : task'[v] = task[v]
  BY <1>0 DEF TypeOK, Step
<1>2. TaskInv(w)'
  BY <1>0, <1>1 DEF TaskInv, Progress, Sending, Truth, Unsent, Current
<1> QED
  BY <1>0, <1>1, <1>2, Alone

\* A step of the task that reports.
LEMMA ReportKeeps ==
  ASSUME IInv, NEW w \in Warrant, NEW from, NEW to \in Phase,
         NEW stage \in Stage, Step(w, from, to), Report(w, stage),
         \/ from = "planning" /\ to = "planned" /\ stage = "SUBMITTED"
         \/ from = "planned" /\ to = "ended" /\ stage = "CONFIRMED" /\ ~live
         \/ from = "signing" /\ to = "ended" /\ stage = "FAILED"
         \/ /\ from = "sent" /\ to = "ended" /\ stage = "CONFIRMED"
            /\ tx[w][Current(w)] = "landed",
         UNCHANGED <<live, retries, signers, tx>>
  PROVE  IInv'
<1>0. TypeOK /\ TaskInv(w) /\ retries[w] \in 0 .. MaxRetries /\ MaxRetries \in Nat
  BY GuillotineAssumption DEF IInv, TypeOK
<1>1. task[w] = from /\ task'[w] = to
      /\ \A v \in Warrant \ {w} : task'[v] = task[v]
  BY <1>0 DEF TypeOK, Step
<1>2. /\ reported' \in [Warrant -> Seq(Stage)]
      /\ reported'[w] = Append(reported[w], stage)
      /\ \A v \in Warrant \ {w} : reported'[v] = reported[v]
  BY <1>0, AppendTyped
<1>3. TypeOK'
  BY <1>0, <1>2 DEF TypeOK, Step
<1>4. TaskInv(w)'
  <2>1. CASE from = "planning" /\ to = "planned" /\ stage = "SUBMITTED"
    <3>1. reported'[w] = <<"SUBMITTED">>
      BY <1>0, <1>1, <1>2, <2>1, Appended DEF TaskInv, Progress
    <3> QED
      BY <1>0, <1>1, <2>1, <3>1, Appended
         DEF TaskInv, Progress, Sending, Truth, Unsent, Current
  <2>2. CASE to = "ended" /\ reported[w] = <<"SUBMITTED">>
             /\ stage \in {"CONFIRMED", "FAILED"}
    <3>1. reported'[w] = <<"SUBMITTED", stage>>
      BY <1>2, <2>2, Appended
    <3>2. stage = "CONFIRMED" /\ live => \E a \in Attempt : tx[w][a] = "landed"
      BY <1>0, <1>1, <2>2 DEF Current, Attempt
    <3>3. stage # "CONFIRMED" => <<"SUBMITTED", stage>> # <<"SUBMITTED", "CONFIRMED">>
      OBVIOUS
    <3> QED
      BY <1>0, <1>1, <2>2, <3>1, <3>2, <3>3, Appended
         DEF TaskInv, Progress, Sending, Truth, Unsent, Current
  <2> QED
    BY <1>0, <1>1, <2>1, <2>2 DEF TaskInv, Progress
<1> QED
  BY <1>0, <1>1, <1>2, <1>3, <1>4, Alone

LEMMA NextIInv == IInv /\ [Next]_vars => IInv'
<1> SUFFICES ASSUME IInv, [Next]_vars
             PROVE  IInv'
  OBVIOUS
<1>0. TypeOK /\ MaxRetries \in Nat
  BY GuillotineAssumption DEF IInv
<1>1. ASSUME NEW s \in Wallet, Prepare(s) \/ Destroy(s)
      PROVE  IInv'
  <2>1. TypeOK'
    BY <1>0, <1>1 DEF TypeOK, Prepare, Destroy
  <2> QED
    BY <1>1, <2>1, Kept DEF IInv, Prepare, Destroy
<1>2. ASSUME NEW w \in Warrant, TaskStep(w)
      PROVE  IInv'
  <2>1. CASE Receive(w)
    BY <2>1, QuietKeeps DEF Receive, Phase
  <2>2. CASE PlanFails(w)
    BY <2>2, QuietKeeps DEF PlanFails, Phase
  <2>3. CASE Plan(w)
    BY <2>3, ReportKeeps DEF Plan, Phase, Stage
  <2>4. CASE DryRun(w)
    <3>1. CASE live
      BY <2>4, <3>1, QuietKeeps DEF DryRun, Phase
    <3>2. CASE ~live
      BY <2>4, <3>2, ReportKeeps DEF DryRun, Phase, Stage
    <3> QED
      BY <3>1, <3>2
  <2>5. CASE Sign(w)
    BY <2>5, QuietKeeps DEF Sign, Phase
  <2>6. CASE Unsigned(w)
    BY <2>6, ReportKeeps DEF Unsigned, Phase, Stage
  <2>7. CASE Send(w)
    <3>1. Current(w) \in Attempt /\ Current(w) \in Nat
      BY <1>0 DEF TypeOK, Current, Attempt
    <3>2. TypeOK'
      BY <1>0, <2>7, <3>1 DEF TypeOK, Send, Step, Phase, Fate
    <3>3. /\ task[w] = "attempting" /\ task'[w] = "sent"
          /\ tx'[w] = [tx[w] EXCEPT ![Current(w)] = "flying"]
          /\ tx[w] \in [Attempt -> Fate]
          /\ UNCHANGED <<live, retries, reported>>
          /\ \A v \in Warrant \ {w} : task'[v] = task[v] /\ tx'[v] = tx[v]
      BY <1>0, <2>7 DEF TypeOK, Send, Step
    <3>4. TaskInv(w)
      BY DEF IInv
    <3>5. \A a \in Attempt : a >= Current(w) + 1 => tx'[w][a] = "none"
      BY <3>1, <3>3, <3>4 DEF TaskInv, Sending, Unsent, Attempt
    <3>6. TaskInv(w)'
      BY <3>3, <3>4, <3>5, Appended
         DEF TaskInv, Progress, Sending, Truth, Unsent, Current
    <3> QED
      BY <3>2, <3>3, <3>6, Alone
  <2>8. CASE NotSent(w)
    BY <2>8, FailedKeeps DEF NotSent
  <2>9. CASE Confirmed(w)
    BY <2>9, ReportKeeps DEF Confirmed, Phase, Stage
  <2>10. CASE Unconfirmed(w)
    BY <2>10, FailedKeeps DEF Unconfirmed
  <2>11. ASSUME NEW retryable \in BOOLEAN, Rejected(w, retryable)
         PROVE  IInv'
    BY <2>11, FailedKeeps DEF Rejected
  <2> QED
    BY <1>2, <2>1, <2>2, <2>3, <2>4, <2>5, <2>6, <2>7, <2>8, <2>9, <2>10,
       <2>11 DEF TaskStep
<1>3. ASSUME NEW w \in Warrant, NEW a \in Attempt, NEW fate \in Fate,
             Decide(w, a, fate)
      PROVE  IInv'
  <2>1. /\ tx[w][a] = "flying" /\ fate \in {"landed", "rejected"}
        /\ tx' = [tx EXCEPT ![w][a] = fate]
        /\ UNCHANGED <<live, task, retries, signers, reported>>
    BY <1>3 DEF Decide
  <2>2. TypeOK'
    BY <1>0, <2>1 DEF TypeOK
  <2>3. /\ tx[w] \in [Attempt -> Fate]
        /\ tx'[w] = [tx[w] EXCEPT ![a] = fate]
        /\ \A v \in Warrant \ {w} : tx'[v] = tx[v]
    BY <1>0, <2>1 DEF TypeOK
  <2>4. TaskInv(w)
    BY DEF IInv
  <2>5. \A b \in Attempt : /\ tx[w][b] = "none" => tx'[w][b] = "none"
                           /\ tx[w][b] = "landed" => tx'[w][b] = "landed"
    BY <2>1, <2>3
  <2>6. TaskInv(w)'
    BY <2>1, <2>4, <2>5
       DEF TaskInv, Progress, Sending, Truth, Unsent, Current
  <2> QED
    BY <2>1, <2>2, <2>3, <2>6, Alone
<1>4. CASE UNCHANGED vars
  <2>1. TypeOK'
    BY <1>0, <1>4 DEF TypeOK, vars
  <2> QED
    BY <1>4, <2>1, Kept DEF IInv, vars
<1> QED
  BY <1>1, <1>2, <1>3, <1>4 DEF Next

LEMMA Invariance == Spec => []IInv
BY InitIInv, NextIInv, PTL DEF Spec

-----------------------------------------------------------------------------
(* The implementation of Execution.                                        *)

LEMMA Terminal ==
  ASSUME TypeOK, NEW w \in Warrant, TaskInv(w)
  PROVE  /\ Len(reported[w]) = 2 => task[w] = "ended"
         /\ Reported(w, "CONFIRMED")
              => reported[w] = <<"SUBMITTED", "CONFIRMED">>
<1>1. reported[w] \in {<<>>, <<"SUBMITTED">>, <<"SUBMITTED", "CONFIRMED">>,
                       <<"SUBMITTED", "FAILED">>}
  BY DEF TypeOK, TaskInv, Progress, Phase
<1>2. /\ Len(<<>>) = 0 /\ DOMAIN <<>> = {}
      /\ Len(<<"SUBMITTED">>) = 1 /\ DOMAIN <<"SUBMITTED">> = {1}
      /\ <<"SUBMITTED">>[1] # "CONFIRMED"
      /\ DOMAIN <<"SUBMITTED", "FAILED">> = {1, 2}
      /\ <<"SUBMITTED", "FAILED">>[1] # "CONFIRMED"
      /\ <<"SUBMITTED", "FAILED">>[2] # "CONFIRMED"
  OBVIOUS
<1>3. Reported(w, "CONFIRMED") => reported[w] = <<"SUBMITTED", "CONFIRMED">>
  BY <1>1, <1>2 DEF Reported
<1>4. task[w] # "ended" => reported[w] \in {<<>>, <<"SUBMITTED">>}
  BY DEF TypeOK, TaskInv, Progress, Phase
<1> QED
  BY <1>2, <1>3, <1>4

Executions == [w \in Warrant |-> Cardinality(Landed(w))]

LEMMA Counted ==
  ASSUME NEW w \in Warrant
  PROVE  /\ IsFiniteSet(Landed(w))
         /\ Cardinality(Landed(w)) \in Nat
         /\ Landed(w) # {} => Cardinality(Landed(w)) > 0
         /\ Landed(w) # Attempt => Cardinality(Landed(w)) < MaxRetries + 1
<1>1. /\ IsFiniteSet(Attempt) /\ Cardinality(Attempt) = MaxRetries + 1
  BY GuillotineAssumption, FS_Interval DEF Attempt
<1>2. Landed(w) \subseteq Attempt
  BY DEF Landed
<1>3. IsFiniteSet(Landed(w)) /\ Cardinality(Landed(w)) \in Nat
  BY <1>1, <1>2, FS_Subset, FS_CardinalityType
<1>4. Landed(w) # {} => Cardinality(Landed(w)) # 0
  BY <1>3, FS_EmptySet
<1>5. Landed(w) # Attempt => Cardinality(Landed(w)) < Cardinality(Attempt)
  <2>1. /\ Cardinality(Landed(w)) <= Cardinality(Attempt)
        /\ Cardinality(Attempt) = Cardinality(Landed(w)) => Attempt = Landed(w)
    BY <1>1, <1>2, FS_Subset
  <2> QED
    BY <1>1, <1>3, <2>1, GuillotineAssumption
<1> QED
  BY <1>1, <1>3, <1>4, <1>5

\* While no attempt lands, the executions are what they were.
LEMMA SameExecutions ==
  ASSUME \A w \in Warrant : \A a \in Attempt :
           tx'[w][a] = "landed" <=> tx[w][a] = "landed"
  PROVE  Executions' = Executions
BY DEF Executions, Landed

LEMMA Simulates ==
  ASSUME IInv, [Next]_vars
  PROVE  [Promise!ExecNext]_(Promise!execVars)
<1> USE DEF Promise!execVars
<1>0. TypeOK /\ MaxRetries \in Nat /\ \A w \in Warrant : TaskInv(w)
  BY GuillotineAssumption DEF IInv
<1>1. CASE UNCHANGED <<live, reported, tx>>
  <2>1. Executions' = Executions
    BY <1>1, SameExecutions
  <2> QED
    BY <1>1, <2>1 DEF Executions
<1>2. ASSUME NEW w \in Warrant, NEW stage \in Stage, Report(w, stage),
             UNCHANGED <<live, tx>>,
             \/ task[w] = "planning" /\ stage = "SUBMITTED"
             \/ /\ task[w] \in {"planned", "signing", "attempting", "sent"}
                /\ \/ stage = "CONFIRMED" /\ ~live
                   \/ stage = "CONFIRMED" /\ Landed(w) # {}
                   \/ stage = "FAILED" /\ live
      PROVE  Promise!ExecNext
  <2>1. Executions' = Executions
    BY <1>2, SameExecutions
  <2>2. Promise!Report(w, stage)
    BY <1>2, <2>1 DEF Promise!Report, Report, Executions
  <2>3. CASE task[w] = "planning" /\ stage = "SUBMITTED"
    <3>1. Promise!ReportSubmitted(w)
      BY <1>0, <2>2, <2>3 DEF Promise!ReportSubmitted, TaskInv, Progress
    <3> QED
      BY <3>1 DEF Promise!ExecNext
  <2>4. CASE stage = "CONFIRMED"
             /\ task[w] \in {"planned", "signing", "attempting", "sent"}
    <3>1. live => Executions[w] > 0
      BY <1>2, <2>4, Counted DEF Executions
    <3>2. Promise!ReportConfirmed(w)
      BY <1>0, <2>2, <2>4, <3>1
         DEF Promise!ReportConfirmed, TaskInv, Progress, Executions
    <3> QED
      BY <3>2 DEF Promise!ExecNext
  <2>5. CASE stage = "FAILED"
    <3>1. Promise!ReportFailed(w)
      BY <1>0, <1>2, <2>2, <2>5 DEF Promise!ReportFailed, TaskInv, Progress
    <3> QED
      BY <3>1 DEF Promise!ExecNext
  <2> QED
    BY <1>2, <2>3, <2>4, <2>5
<1>3. ASSUME NEW w \in Warrant, NEW retryable, Failed(w, retryable),
             task[w] \in {"attempting", "sent"}, UNCHANGED <<live, tx>>
      PROVE  [Promise!ExecNext]_(Promise!execVars)
  <2>1. CASE retryable /\ retries[w] < MaxRetries
    BY <1>1, <1>3, <2>1 DEF Failed, Retry
  <2>2. CASE ~(retryable /\ retries[w] < MaxRetries)
    <3>1. Report(w, "FAILED") /\ live
      BY <1>0, <1>3, <2>2 DEF Failed, GiveUp, TaskInv, Progress
    <3> QED
      BY <1>2, <1>3, <3>1 DEF Stage
  <2> QED
    BY <2>1, <2>2
<1>4. ASSUME NEW w \in Warrant, TaskStep(w)
      PROVE  [Promise!ExecNext]_(Promise!execVars)
  <2>1. CASE Receive(w) \/ PlanFails(w) \/ Sign(w)
    BY <1>1, <2>1 DEF Receive, PlanFails, Sign
  <2>2. CASE Plan(w)
    BY <1>2, <2>2 DEF Plan, Step, Stage
  <2>3. CASE DryRun(w)
    <3>1. CASE live
      BY <1>1, <2>3, <3>1 DEF DryRun
    <3>2. CASE ~live
      BY <1>2, <2>3, <3>2 DEF DryRun, Step, Stage
    <3> QED
      BY <3>1, <3>2
  <2>4. CASE Unsigned(w)
    <3>1. live
      BY <1>0, <2>4 DEF Unsigned, Step, TaskInv, Progress
    <3> QED
      BY <1>2, <2>4, <3>1 DEF Unsigned, Step, Stage
  <2>5. CASE Send(w)
    <3>1. Current(w) \in Attempt /\ tx[w][Current(w)] = "none"
      BY <1>0, <2>5
         DEF TypeOK, Send, Step, TaskInv, Sending, Unsent, Current, Attempt
    <3>2. \A v \in Warrant : \A a \in Attempt :
            tx'[v][a] = "landed" <=> tx[v][a] = "landed"
      BY <1>0, <2>5, <3>1 DEF Send, TypeOK
    <3>3. Executions' = Executions
      BY <3>2, SameExecutions
    <3> QED
      BY <2>5, <3>3 DEF Send, Executions
  <2>6. CASE NotSent(w)
    BY <1>3, <2>6 DEF NotSent
  <2>7. CASE Confirmed(w)
    <3>1. Current(w) \in Attempt
      BY <1>0 DEF TypeOK, Current, Attempt
    <3>2. Landed(w) # {}
      BY <2>7, <3>1 DEF Confirmed, Landed
    <3> QED
      BY <1>2, <2>7, <3>2 DEF Confirmed, Step, Stage
  <2>8. CASE Unconfirmed(w)
    BY <1>3, <2>8 DEF Unconfirmed
  <2>9. ASSUME NEW retryable \in BOOLEAN, Rejected(w, retryable)
        PROVE  [Promise!ExecNext]_(Promise!execVars)
    BY <1>3, <2>9 DEF Rejected
  <2> QED
    BY <1>4, <2>1, <2>2, <2>3, <2>4, <2>5, <2>6, <2>7, <2>8, <2>9
       DEF TaskStep
<1>5. ASSUME NEW w \in Warrant, NEW a \in Attempt, NEW fate \in Fate,
             Decide(w, a, fate)
      PROVE  [Promise!ExecNext]_(Promise!execVars)
  <2>1. /\ tx[w][a] = "flying" /\ fate \in {"landed", "rejected"}
        /\ tx' = [tx EXCEPT ![w][a] = fate]
        /\ UNCHANGED <<live, reported>>
    BY <1>5 DEF Decide
  <2>2. CASE fate = "rejected"
    <3>1. \A v \in Warrant : \A b \in Attempt :
            tx'[v][b] = "landed" <=> tx[v][b] = "landed"
      BY <1>0, <2>1, <2>2 DEF TypeOK
    <3>2. Executions' = Executions
      BY <3>1, SameExecutions
    <3> QED
      BY <2>1, <3>2 DEF Executions
  <2>3. CASE fate = "landed"
    <3>1. a \notin Landed(w) /\ Landed(w)' = Landed(w) \cup {a}
          /\ \A v \in Warrant \ {w} : Landed(v)' = Landed(v)
      BY <1>0, <2>1, <2>3 DEF TypeOK, Landed
    <3>2. Cardinality(Landed(w)') = Cardinality(Landed(w)) + 1
      BY <3>1, Counted, FS_AddElement
    <3>3. Executions' = [Executions EXCEPT ![w] = @ + 1]
      BY <3>1, <3>2 DEF Executions
    <3>4. Executions[w] < MaxRetries + 1
      BY <3>1, Counted DEF Executions
    <3>5. live /\ reported[w] # <<>>
      <4>1. ~(a >= 1 => tx[w][a] = "none") /\ a >= 1
        BY <2>1, <1>0 DEF Attempt
      <4> QED
        BY <1>0, <4>1 DEF TypeOK, TaskInv, Sending, Unsent
    <3>6. Promise!Execute(w)
      BY <2>1, <3>3, <3>4, <3>5 DEF Promise!Execute, Executions
    <3> QED
      BY <3>6 DEF Promise!ExecNext
  <2> QED
    BY <2>1, <2>2, <2>3
<1>6. CASE \E s \in Wallet : Prepare(s) \/ Destroy(s)
  BY <1>1, <1>6 DEF Prepare, Destroy
<1>7. CASE UNCHANGED vars
  BY <1>1, <1>7 DEF vars
<1> QED
  BY <1>4, <1>5, <1>6, <1>7 DEF Next

-----------------------------------------------------------------------------
\* What a task reports is true: in live trading the chain has executed an order
\* that is reported CONFIRMED, and a dry run sends nothing.
THEOREM ReportsTrue == Spec => []Consistent
<1>1. IInv => Consistent
  <2> SUFFICES ASSUME IInv PROVE Consistent
    OBVIOUS
  <2>1. ASSUME NEW w \in Warrant
        PROVE  /\ live /\ Reported(w, "CONFIRMED") => Landed(w) # {}
               /\ ~live => \A a \in Attempt : tx[w][a] = "none"
    <3>1. TypeOK /\ TaskInv(w)
      BY DEF IInv
    <3>2. live /\ Reported(w, "CONFIRMED") => Landed(w) # {}
      BY <3>1, Terminal DEF TaskInv, Truth, Landed
    <3>3. ~live => \A a \in Attempt : tx[w][a] = "none"
      BY <3>1 DEF TaskInv, Sending, Unsent, Attempt
    <3> QED
      BY <3>2, <3>3
  <2> QED
    BY <2>1 DEF IInv, Consistent, ConfirmedIsTrue
<1> QED
  BY <1>1, Invariance, PTL

\* After a terminal report the task neither reports nor sends.
THEOREM Silent == Spec => NothingSentAfter
<1> DEFINE Quiet == \A w \in Warrant :
         Len(reported[w]) = 2 =>
           /\ reported'[w] = reported[w]
           /\ \A a \in Attempt : tx[w][a] = "none" => tx'[w][a] = "none"
<1>1. IInv /\ [Next]_vars => [Quiet]_vars
  <2> SUFFICES ASSUME IInv, Next, NEW w \in Warrant, Len(reported[w]) = 2
               PROVE  /\ reported'[w] = reported[w]
                      /\ \A a \in Attempt : tx[w][a] = "none" => tx'[w][a] = "none"
    OBVIOUS
  <2>1. TypeOK /\ task[w] = "ended"
    BY Terminal DEF IInv
  <2>2. CASE \E s \in Wallet : Prepare(s) \/ Destroy(s)
    BY <2>2 DEF Prepare, Destroy
  <2>3. ASSUME NEW v \in Warrant, TaskStep(v)
        PROVE  reported'[w] = reported[w] /\ tx'[w] = tx[w]
    <3>1. v # w
      BY <2>1, <2>3
         DEF TaskStep, Receive, PlanFails, Plan, DryRun, Sign, Unsigned, Send,
             NotSent, Confirmed, Unconfirmed, Rejected, Step
    <3> QED
      BY <2>1, <2>3, <3>1
         DEF TypeOK, TaskStep, Receive, PlanFails, Plan, DryRun, Sign, Unsigned,
             Send, NotSent, Confirmed, Unconfirmed, Rejected, Report, Failed,
             Retry, GiveUp
  <2>4. ASSUME NEW v \in Warrant, NEW a \in Attempt, NEW fate \in Fate,
               Decide(v, a, fate)
        PROVE  /\ reported'[w] = reported[w]
               /\ \A b \in Attempt : tx[w][b] = "none" => tx'[w][b] = "none"
    BY <2>1, <2>4 DEF TypeOK, Decide
  <2> QED
    BY <2>2, <2>3, <2>4 DEF Next
<1> QED
  BY <1>1, Invariance, PTL DEF Spec, NothingSentAfter

\* The task implements the promise of Execution.
THEOREM Refinement == Spec => ImplementsExecution
<1>1. Init => Promise!ExecInit
  <2> SUFFICES ASSUME Init PROVE Promise!ExecInit
    OBVIOUS
  <2>1. \A w \in Warrant : Landed(w) = {}
    BY DEF Init, Landed
  <2>2. \A w \in Warrant : Cardinality(Landed(w)) = 0
    BY <2>1, FS_EmptySet
  <2> QED
    BY <2>2 DEF Init, Promise!ExecInit
<1>2. IInv /\ [Next]_vars => [Promise!ExecNext]_(Promise!execVars)
  BY Simulates
<1> QED
  BY <1>1, <1>2, Invariance, PTL DEF Spec, ImplementsExecution, Promise!ExecSpec

-----------------------------------------------------------------------------
(* The plans of module Swap and what they do to the wallet.                *)

\* Instructions come in this order, whatever the order of execution is.
Rank(do) == CASE do = "extend" -> 1
              [] do = "createWsol" -> 2
              [] do = "wrap" -> 3
              [] do = "sync" -> 4
              [] do = "createAta" -> 5
              [] do = "buy" -> 6
              [] do = "sell" -> 6
              [] do = "close" -> 7
              [] do = "pay" -> 8

\* What an order has instructions for.
Has(o, do) ==
    \/ do = "extend"
    \/ do \in {"createWsol", "wrap", "sync", "close"} /\ o.protocol = "PumpSwap"
    \/ do \in {"createAta", "buy"} /\ o.buy
    \/ do = "sell" /\ ~o.buy
    \/ do = "pay" /\ o.fee > 0

InstructionFor(o, do) ==
    CASE do = "extend" -> Extend
      [] do = "createWsol" -> CreateWsol(o)
      [] do = "wrap" -> Wrap(o)
      [] do = "sync" -> Sync
      [] do = "createAta" -> CreateAta(o)
      [] do = "buy" -> Trade(o)
      [] do = "sell" -> Trade(o)
      [] do = "close" -> Close
      [] do = "pay" -> Pay(o)

Does == {"extend", "createWsol", "wrap", "sync", "createAta", "buy", "sell",
         "close", "pay"}

\* A part of a plan: the order's instructions of these ranks, in that order.
Part(p, o, low, high) ==
    /\ p \in Seq(Instruction)
    /\ \A i \in 1 .. Len(p) : /\ p[i].do \in Does
                              /\ Has(o, p[i].do)
                              /\ p[i] = InstructionFor(o, p[i].do)
                              /\ Rank(p[i].do) \in low .. high
    /\ \A do \in Does : Has(o, do) /\ Rank(do) \in low .. high
                          => \E i \in 1 .. Len(p) : p[i].do = do
    /\ \A i, j \in 1 .. Len(p) : i < j => Rank(p[i].do) < Rank(p[j].do)

LEMMA Ranks ==
  ASSUME NEW do \in Does
  PROVE  Rank(do) \in 1 .. 8
BY DEF Does, Rank

LEMMA InstructionTyped ==
  ASSUME NEW o \in Order, NEW do \in Does, Has(o, do)
  PROVE  /\ InstructionFor(o, do) \in Instruction
         /\ InstructionFor(o, do).do = do
<1>1. CASE do \in {"buy", "sell"}
  BY <1>1 DEF InstructionFor, Instruction, Order, Has, Trade, FeeAccount
<1>2. CASE do \in {"createWsol", "createAta"}
  BY <1>2 DEF InstructionFor, Instruction, Order, CreateWsol, CreateAta
<1>3. CASE do \in {"extend", "sync", "close"}
  BY <1>3 DEF InstructionFor, Instruction, Extend, Sync, Close
<1>4. CASE do \in {"wrap", "pay"}
  BY <1>4 DEF InstructionFor, Instruction, Order, Wrap, Pay
<1> QED
  BY <1>1, <1>2, <1>3, <1>4 DEF Does

LEMMA EmptyPart ==
  ASSUME NEW o \in Order, NEW low \in Nat, NEW high \in Nat,
         \A do \in Does : Has(o, do) => Rank(do) \notin low .. high
  PROVE  Part(<<>>, o, low, high)
<1>1. <<>> \in Seq(Instruction) /\ Len(<<>>) = 0
  OBVIOUS
<1> QED
  BY <1>1 DEF Part

LEMMA SinglePart ==
  ASSUME NEW o \in Order, NEW low \in Nat, NEW high \in Nat,
         NEW do \in Does, Has(o, do), Rank(do) \in low .. high,
         \A d \in Does : Has(o, d) /\ Rank(d) \in low .. high => d = do,
         NEW e, e = InstructionFor(o, do)
  PROVE  Part(<<e>>, o, low, high)
<1>1. e \in Instruction /\ e.do = do
  BY InstructionTyped
<1>2. <<e>> \in Seq(Instruction) /\ Len(<<e>>) = 1 /\ <<e>>[1] = e
  BY <1>1
<1> QED
  BY <1>1, <1>2 DEF Part

\* Parts that follow each other make a longer part.
LEMMA JoinedParts ==
  ASSUME NEW o \in Order, NEW low \in Nat, NEW middle \in Nat, NEW high \in Nat,
         low <= middle + 1, middle <= high,
         NEW p, NEW q, Part(p, o, low, middle), Part(q, o, middle + 1, high)
  PROVE  Part(p \o q, o, low, high)
<1> DEFINE u == p \o q
<1>1. p \in Seq(Instruction) /\ q \in Seq(Instruction)
  BY DEF Part
<1>2. /\ u \in Seq(Instruction)
      /\ Len(p) \in Nat /\ Len(q) \in Nat /\ Len(u) = Len(p) + Len(q)
      /\ \A i \in 1 .. Len(p) : u[i] = p[i]
      /\ \A i \in 1 .. Len(q) : u[Len(p) + i] = q[i]
  BY <1>1, ConcatProperties, LenProperties
<1> HIDE DEF u
<1>3. \A i \in 1 .. Len(u) : \/ i \in 1 .. Len(p)
                             \/ i - Len(p) \in 1 .. Len(q) /\ u[i] = q[i - Len(p)]
  <2> TAKE i \in 1 .. Len(u)
  <2>1. CASE i > Len(p)
    <3>1. i - Len(p) \in 1 .. Len(q) /\ Len(p) + (i - Len(p)) = i
      BY <2>1, <1>2
    <3> QED
      BY <3>1, <1>2
  <2>2. CASE i <= Len(p)
    BY <2>2, <1>2
  <2> QED
    BY <2>1, <2>2, <1>2
<1>4. ASSUME NEW i \in 1 .. Len(u)
      PROVE  /\ u[i].do \in Does /\ Has(o, u[i].do)
             /\ u[i] = InstructionFor(o, u[i].do)
             /\ i \in 1 .. Len(p) => Rank(u[i].do) \in low .. middle
             /\ i \notin 1 .. Len(p) => Rank(u[i].do) \in (middle + 1) .. high
  <2>1. CASE i \in 1 .. Len(p)
    <3>1. u[i] = p[i]
      BY <2>1, <1>2
    <3> QED
      BY <2>1, <3>1 DEF Part
  <2>2. CASE i \notin 1 .. Len(p)
    <3>1. PICK k \in 1 .. Len(q) : u[i] = q[k]
      BY <2>2, <1>3
    <3> QED
      BY <2>2, <3>1 DEF Part
  <2> QED
    BY <2>1, <2>2
<1>5. ASSUME NEW do \in Does, Has(o, do), Rank(do) \in low .. high
      PROVE  \E i \in 1 .. Len(u) : u[i].do = do
  <2>1. CASE Rank(do) <= middle
    <3>1. PICK i \in 1 .. Len(p) : p[i].do = do
      BY <2>1, <1>5 DEF Part
    <3> QED
      BY <3>1, <1>2
  <2>2. CASE Rank(do) > middle
    <3>1. Rank(do) \in (middle + 1) .. high
      BY <2>2, <1>5
    <3>2. PICK i \in 1 .. Len(q) : q[i].do = do
      BY <3>1, <1>5 DEF Part
    <3>3. Len(p) + i \in 1 .. Len(u)
      BY <1>2
    <3> QED
      BY <3>2, <3>3, <1>2
  <2> QED
    BY <2>1, <2>2, <1>5
<1>6. ASSUME NEW i \in 1 .. Len(u), NEW j \in 1 .. Len(u), i < j
      PROVE  Rank(u[i].do) < Rank(u[j].do)
  <2>1. CASE j \in 1 .. Len(p)
    <3>1. i \in 1 .. Len(p) /\ u[i] = p[i] /\ u[j] = p[j]
      BY <2>1, <1>6, <1>2
    <3> QED
      BY <2>1, <3>1, <1>6 DEF Part
  <2>2. CASE i \notin 1 .. Len(p)
    <3>1. /\ i - Len(p) \in 1 .. Len(q) /\ u[i] = q[i - Len(p)]
          /\ j - Len(p) \in 1 .. Len(q) /\ u[j] = q[j - Len(p)]
          /\ i - Len(p) < j - Len(p)
      <4>1. j \notin 1 .. Len(p)
        BY <2>2, <1>6, <1>2
      <4>2. i - Len(p) < j - Len(p)
        BY <1>6, <1>2
      <4> QED
        BY <2>2, <4>1, <4>2, <1>3
    <3> QED
      BY <3>1 DEF Part
  <2>3. CASE i \in 1 .. Len(p) /\ j \notin 1 .. Len(p)
    BY <2>3, <1>4
  <2> QED
    BY <2>1, <2>2, <2>3, <1>6, <1>2
<1>7. \A i \in 1 .. Len(u) : Rank(u[i].do) \in low .. high
  BY <1>4
<1> QED
  BY <1>2, <1>4, <1>5, <1>6, <1>7 DEF Part, u

LEMMA PairJoined ==
  ASSUME NEW S, NEW a \in S, NEW b \in S
  PROVE  <<a>> \o <<b>> = <<a, b>>
<1> DEFINE u == <<a>> \o <<b>>
<1>1. /\ <<a>> \in Seq(S) /\ Len(<<a>>) = 1 /\ <<a>>[1] = a
      /\ <<b>> \in Seq(S) /\ Len(<<b>>) = 1 /\ <<b>>[1] = b
  OBVIOUS
<1>2. u \in Seq(S) /\ Len(u) = 2 /\ u[1] = a /\ u[2] = b
  <2>1. u \in Seq(S) /\ Len(u) = Len(<<a>>) + Len(<<b>>)
    BY <1>1, ConcatProperties
  <2>2. \A i \in 1 .. Len(u) : u[i] = IF i <= Len(<<a>>) THEN <<a>>[i] ELSE <<b>>[i - Len(<<a>>)]
    BY <1>1, ConcatProperties
  <2> HIDE DEF u
  <2> QED
    BY <1>1, <2>1, <2>2
<1> HIDE DEF u
<1>3. u = <<a, b>>
  BY <1>2
<1> QED
  BY <1>3 DEF u

\* A plan has the order's instructions in the order of their ranks.
LEMMA PlanOrdered ==
  ASSUME NEW o \in Order
  PROVE  Part(PlanOf(o), o, 1, 8)
<1> DEFINE opening == IF o.protocol = "PumpFun" THEN <<Extend>>
                      ELSE <<Extend, CreateWsol(o), Wrap(o), Sync>>
           trade == IF o.protocol = "PumpFun" THEN <<Trade(o)>>
                    ELSE <<Trade(o), Close>>
<1>1. Part(opening, o, 1, 4)
  <2>1. CASE o.protocol = "PumpFun"
    <3>1. Part(<<Extend>>, o, 1, 4)
      <4>1. Has(o, "extend") /\ Rank("extend") = 1 /\ "extend" \in Does
        BY DEF Has, Rank, Does
      <4>2. \A d \in Does : Has(o, d) /\ Rank(d) \in 1 .. 4 => d = "extend"
        BY <2>1 DEF Has, Rank, Does
      <4>3. Extend = InstructionFor(o, "extend")
        BY DEF InstructionFor
      <4> QED
        BY <4>1, <4>2, <4>3, SinglePart
    <3> QED
      BY <2>1, <3>1
  <2>2. CASE o.protocol # "PumpFun"
    <3> DEFINE s == <<Extend, CreateWsol(o), Wrap(o), Sync>>
    <3>1. o.protocol = "PumpSwap"
      BY <2>2 DEF Order
    <3>2. /\ Extend = InstructionFor(o, "extend")
          /\ CreateWsol(o) = InstructionFor(o, "createWsol")
          /\ Wrap(o) = InstructionFor(o, "wrap")
          /\ Sync = InstructionFor(o, "sync")
      BY DEF InstructionFor
    <3>3. \A d \in {"extend", "createWsol", "wrap", "sync"} : d \in Does /\ Has(o, d)
      BY <3>1 DEF Does, Has
    <3>4. /\ Extend \in Instruction /\ Extend.do = "extend"
          /\ CreateWsol(o) \in Instruction /\ CreateWsol(o).do = "createWsol"
          /\ Wrap(o) \in Instruction /\ Wrap(o).do = "wrap"
          /\ Sync \in Instruction /\ Sync.do = "sync"
      BY <3>2, <3>3, InstructionTyped
    <3>5. s \in Seq(Instruction) /\ Len(s) = 4
      BY <3>4
    <3>6. s[1] = Extend /\ s[2] = CreateWsol(o) /\ s[3] = Wrap(o) /\ s[4] = Sync
      OBVIOUS
    <3> HIDE DEF s
    <3>7. Rank("extend") = 1 /\ Rank("createWsol") = 2 /\ Rank("wrap") = 3 /\ Rank("sync") = 4
      BY DEF Rank
    <3>8. \A i \in 1 .. 4 : /\ s[i].do \in Does /\ Has(o, s[i].do)
                            /\ s[i] = InstructionFor(o, s[i].do)
                            /\ Rank(s[i].do) = i
      BY <3>2, <3>3, <3>4, <3>6, <3>7
    <3>9. \A d \in Does : Rank(d) \in 1 .. 4 => d = s[Rank(d)].do
      BY <3>4, <3>6 DEF Does, Rank
    <3>10. Part(s, o, 1, 4)
      BY <3>5, <3>8, <3>9 DEF Part
    <3> QED
      BY <2>2, <3>10 DEF s
  <2> QED
    BY <2>1, <2>2
<1>2. Part(Only(o.buy, CreateAta(o)), o, 5, 5)
  <2>1. CASE o.buy
    <3>1. Has(o, "createAta") /\ Rank("createAta") = 5 /\ "createAta" \in Does
      BY <2>1 DEF Has, Rank, Does
    <3>2. \A d \in Does : Has(o, d) /\ Rank(d) \in 5 .. 5 => d = "createAta"
      BY DEF Has, Rank, Does
    <3>3. CreateAta(o) = InstructionFor(o, "createAta")
      BY DEF InstructionFor
    <3>4. Part(<<CreateAta(o)>>, o, 5, 5)
      BY <3>1, <3>2, <3>3, SinglePart
    <3> QED
      BY <2>1, <3>4 DEF Only
  <2>2. CASE ~o.buy
    <3>1. \A d \in Does : Has(o, d) => Rank(d) \notin 5 .. 5
      BY <2>2 DEF Has, Rank, Does
    <3>2. Part(<<>>, o, 5, 5)
      BY <3>1, EmptyPart
    <3> QED
      BY <2>2, <3>2 DEF Only
  <2> QED
    BY <2>1, <2>2
<1>3. Part(trade, o, 6, 7)
  <2> DEFINE do == IF o.buy THEN "buy" ELSE "sell"
  <2>1. Has(o, do) /\ Rank(do) = 6 /\ do \in Does /\ Trade(o) = InstructionFor(o, do)
    BY DEF Has, Rank, Does, InstructionFor
  <2>2. \A d \in Does : Has(o, d) /\ Rank(d) = 6 => d = do
    BY DEF Has, Rank, Does
  <2>3. Trade(o) \in Instruction /\ Trade(o).do = do
    BY <2>1, InstructionTyped
  <2> HIDE DEF do
  <2>4. CASE o.protocol = "PumpFun"
    <3>1. \A d \in Does : Has(o, d) => Rank(d) # 7
      BY <2>4 DEF Has, Rank, Does
    <3>2. \A d \in Does : Has(o, d) /\ Rank(d) \in 6 .. 7 => d = do
      BY <3>1, <2>2
    <3>3. Part(<<Trade(o)>>, o, 6, 7)
      BY <3>2, <2>1, SinglePart
    <3> QED
      BY <2>4, <3>3
  <2>5. CASE o.protocol # "PumpFun"
    <3>1. Has(o, "close") /\ "close" \in Does /\ Rank("close") = 7 /\ Close = InstructionFor(o, "close")
      BY <2>5 DEF Has, Rank, Does, InstructionFor, Order
    <3>2. \A d \in Does : Has(o, d) /\ Rank(d) \in 7 .. 7 => d = "close"
      BY DEF Has, Rank, Does
    <3>3. Part(<<Close>>, o, 7, 7)
      BY <3>1, <3>2, SinglePart
    <3>4. Part(<<Trade(o)>>, o, 6, 6)
      BY <2>1, <2>2, SinglePart
    <3>5. Part(<<Trade(o)>> \o <<Close>>, o, 6, 7)
      BY <3>3, <3>4, JoinedParts
    <3>6. <<Trade(o)>> \o <<Close>> = <<Trade(o), Close>>
      BY <3>1, <2>3, InstructionTyped, PairJoined
    <3> QED
      BY <2>5, <3>5, <3>6
  <2> QED
    BY <2>4, <2>5
<1>4. Part(Only(o.fee > 0, Pay(o)), o, 8, 8)
  <2>1. CASE o.fee > 0
    <3>1. Has(o, "pay") /\ Rank("pay") = 8 /\ "pay" \in Does
      BY <2>1 DEF Has, Rank, Does
    <3>2. \A d \in Does : Has(o, d) /\ Rank(d) \in 8 .. 8 => d = "pay"
      BY DEF Has, Rank, Does
    <3>3. Pay(o) = InstructionFor(o, "pay")
      BY DEF InstructionFor
    <3>4. Part(<<Pay(o)>>, o, 8, 8)
      BY <3>1, <3>2, <3>3, SinglePart
    <3> QED
      BY <2>1, <3>4 DEF Only
  <2>2. CASE ~(o.fee > 0)
    <3>1. \A d \in Does : Has(o, d) => Rank(d) \notin 8 .. 8
      BY <2>2 DEF Has, Rank, Does
    <3>2. Part(<<>>, o, 8, 8)
      BY <3>1, EmptyPart
    <3> QED
      BY <2>2, <3>2 DEF Only
  <2> QED
    BY <2>1, <2>2
<1>5. PlanOf(o) = (opening \o Only(o.buy, CreateAta(o)) \o trade) \o Only(o.fee > 0, Pay(o))
  BY DEF PlanOf, PumpFunPlan, PumpSwapPlan
<1> HIDE DEF opening, trade
<1>6. Part(opening \o Only(o.buy, CreateAta(o)), o, 1, 5)
  BY <1>1, <1>2, JoinedParts
<1>7. Part(opening \o Only(o.buy, CreateAta(o)) \o trade, o, 1, 7)
  BY <1>3, <1>6, JoinedParts
<1> QED
  BY <1>4, <1>5, <1>7, JoinedParts

-----------------------------------------------------------------------------
(* How far a transaction is.                                               *)

LEMMA ExecutingTyped ==
  ASSUME Executing
  PROVE  /\ plan \in Seq(Instruction) /\ Len(plan) \in Nat
         /\ pc \in Nat /\ pc >= 1
         /\ order # NoOrder /\ plan # <<>>
         /\ order.sol \in Nat /\ order.fee \in Nat /\ order.tokens \in Nat
         /\ order.sol > 0 /\ order.buy \in BOOLEAN
         /\ order.protocol \in {"PumpFun", "PumpSwap"}
<1>1. Part(plan, order, 1, 8)
  BY PlanOrdered DEF Executing
<1>2. plan \in Seq(Instruction) /\ Len(plan) \in Nat
  BY <1>1 DEF Part
<1>3. \E i \in 1 .. Len(plan) : plan[i].do = "extend"
  BY <1>1 DEF Part, Does, Has, Rank
<1>4. plan # <<>>
  BY <1>3
<1>5. order # NoOrder
  BY DEF Executing, Order, NoOrder
<1>6. /\ order.sol \in Lamports /\ order.fee \in Fee /\ order.tokens \in Microtokens
      /\ order.buy \in BOOLEAN /\ order.protocol \in {"PumpFun", "PumpSwap"}
  BY DEF Executing, Order
<1>7. order.sol \in Nat /\ order.sol > 0 /\ order.fee \in Nat /\ order.tokens \in Nat
  <2>1. order.sol \in Nat /\ order.sol # 0 /\ order.fee \in Nat /\ order.tokens \in Nat
    BY <1>6, SwapAssumption
  <2> QED
    BY <2>1
<1>8. pc \in Nat /\ pc >= 1
  BY <1>2 DEF Executing
<1> QED
  BY <1>2, <1>4, <1>5, <1>6, <1>7, <1>8

\* What has been executed are the instructions that come before this one.
LEMMA PassedBefore ==
  ASSUME Executing, Running
  PROVE  /\ This.do \in Does /\ Has(order, This.do)
         /\ This = InstructionFor(order, This.do)
         /\ \A do \in Does : Passed(do) <=> Has(order, do) /\ Rank(do) < Rank(This.do)
<1>1. Part(plan, order, 1, 8)
  BY PlanOrdered DEF Executing
<1>2. /\ This.do \in Does /\ Has(order, This.do)
      /\ This = InstructionFor(order, This.do)
  BY <1>1 DEF Part, Running, This
<1>3. Len(plan) \in Nat /\ pc \in 1 .. Len(plan)
  BY ExecutingTyped DEF Running
<1>4. ASSUME NEW do \in Does, Has(order, do), Rank(do) < Rank(This.do)
      PROVE  Passed(do)
  <2>1. Rank(do) \in 1 .. 8
    BY Ranks
  <2>2. PICK i \in 1 .. Len(plan) : plan[i].do = do
    BY <1>1, <1>4, <2>1 DEF Part
  <2>3. Rank(plan[pc].do) \in 1 .. 8 /\ Rank(plan[i].do) < Rank(plan[pc].do)
    BY <1>2, <1>4, <2>2, Ranks DEF This
  <2>4. pc # i
    BY <2>1, <2>2, <2>3
  <2>5. ~(pc < i)
    <3>1. pc < i => Rank(plan[pc].do) < Rank(plan[i].do)
      BY <1>1, <1>3, <2>2 DEF Part
    <3> QED
      BY <3>1, <2>1, <2>2, <2>3
  <2> QED
    BY <1>3, <2>2, <2>4, <2>5 DEF Passed
<1>5. ASSUME NEW do \in Does, Passed(do)
      PROVE  Has(order, do) /\ Rank(do) < Rank(This.do)
  <2>1. PICK i \in 1 .. pc - 1 : plan[i].do = do
    BY <1>5 DEF Passed
  <2>2. i \in 1 .. Len(plan) /\ i < pc
    BY <1>3
  <2> QED
    BY <1>1, <1>3, <2>1, <2>2 DEF Part, This
<1> QED
  BY <1>2, <1>4, <1>5

\* At the end all of them have been.
LEMMA PassedAll ==
  ASSUME Executing, ~Running
  PROVE  /\ Done
         /\ \A do \in Does : Passed(do) <=> Has(order, do)
<1>1. Part(plan, order, 1, 8)
  BY PlanOrdered DEF Executing
<1>2. Len(plan) \in Nat /\ pc = Len(plan) + 1 /\ plan # <<>>
  BY ExecutingTyped DEF Running, Executing
<1>3. ASSUME NEW do \in Does
      PROVE  Passed(do) <=> Has(order, do)
  <2>1. Rank(do) \in 1 .. 8
    BY Ranks
  <2>2. Has(order, do) => \E i \in 1 .. Len(plan) : plan[i].do = do
    BY <1>1, <2>1 DEF Part
  <2>3. \A i \in 1 .. Len(plan) : Has(order, plan[i].do)
    BY <1>1 DEF Part
  <2>4. 1 .. pc - 1 = 1 .. Len(plan)
    BY <1>2
  <2> QED
    BY <2>2, <2>3, <2>4 DEF Passed
<1> QED
  BY <1>2, <1>3 DEF Done

LEMMA PassedNext ==
  ASSUME Executing, Running, pc' = pc + 1, plan' = plan
  PROVE  \A do \in Does : Passed(do)' <=> Passed(do) \/ do = This.do
<1>1. pc \in Nat /\ pc >= 1
  BY ExecutingTyped
<1>2. \A i : i \in 1 .. pc' - 1 <=> i \in 1 .. pc - 1 \/ i = pc
  BY <1>1
<1> QED
  BY <1>2 DEF Passed, This

\* A wallet for which there is no plan, or whose transaction has not begun.
LEMMA Begun ==
  ASSUME pc = 1
  PROVE  \A do : ~Passed(do)
BY DEF Passed

-----------------------------------------------------------------------------
(* What each instruction leaves of the invariant.                          *)

LEMMA Runs ==
  ASSUME SwapInv, Running
  PROVE  Executing
<1>1. CASE Unplanned
  <2>1. Len(plan) = 0
    BY <1>1 DEF Unplanned
  <2> QED
    BY <2>1 DEF Running
<1> QED
  BY <1>1 DEF SwapInv

\* The parts of the invariant that no instruction changes.
LEMMA Continues ==
  ASSUME SwapInv, Running, NEW w \in Accounts, w.synced <= w.lamports, Becomes(w),
         AccountsOpened', Wrapped', TokensMoved', FundsMoved', SolLeft'
  PROVE  SwapInv'
<1>1. Executing
  BY Runs
<1>2. pc' \in 1 .. Len(plan') + 1
  BY <1>1, ExecutingTyped DEF Becomes, Running
<1>3. Executing'
  BY <1>1, <1>2 DEF Executing, Becomes
<1> QED
  BY <1>3 DEF SwapInv, Becomes

LEMMA ExtendingKeeps ==
  ASSUME SwapInv, Extending
  PROVE  SwapInv'
<1>1. Running /\ Executing /\ This.do = "extend" /\ Becomes(wallet)
  BY Runs DEF Extending, Run, Is
<1>2. \A do \in Does : ~Passed(do)
  BY <1>1, PassedBefore, Ranks DEF Rank, Does
<1>3. \A do \in Does : Passed(do)' <=> do = "extend"
  BY <1>1, <1>2, PassedNext DEF Becomes
<1>4. UNCHANGED <<wallet, before, order>>
  BY <1>1 DEF Becomes
<1>5. \A do \in Does \ {"extend"} : Passed(do)' <=> Passed(do)
  BY <1>2, <1>3
<1>6. Charged' = Charged /\ SetAside' = SetAside /\ Funds(wallet)' = Funds(wallet)
  BY <1>4, <1>5 DEF Charged, SetAside, AmountIf, Does
<1>7. AccountsOpened' /\ Wrapped' /\ TokensMoved'
  BY <1>1, <1>4, <1>5 DEF AccountsOpened, Wrapped, TokensMoved, TradePassed, Does, Executing
<1>8. FundsMoved' /\ SolLeft'
  BY <1>1, <1>4, <1>5, <1>6 DEF FundsMoved, SolLeft, TradePassed, Does, Executing
<1> QED
  BY <1>1, <1>7, <1>8, Continues DEF SwapInv

\* What the invariant says of an executing transaction, for arithmetic.
LEMMA Amounts ==
  ASSUME SwapInv
  PROVE  /\ wallet \in Accounts /\ before \in Accounts
         /\ wallet.sol \in Nat /\ wallet.lamports \in Nat /\ wallet.synced \in Nat
         /\ wallet.tokens \in Nat /\ wallet.wsol \in BOOLEAN /\ wallet.ata \in BOOLEAN
         /\ wallet.synced <= wallet.lamports
         /\ before.sol \in Nat /\ before.tokens \in Nat
         /\ before.wsol \in BOOLEAN /\ before.ata \in BOOLEAN
         /\ Funds(wallet) \in Nat /\ Funds(before) \in Nat
BY DEF SwapInv, Accounts, Funds, Rent

LEMMA Sums ==
  ASSUME Executing
  PROVE  Charged \in Nat /\ SetAside \in Nat
<1>1. order.sol \in Nat /\ order.fee \in Nat /\ Rent \in Nat
  BY ExecutingTyped DEF Rent
<1>2. \A n \in Nat : /\ AmountIf(Passed("createAta") /\ ~before.ata, n) \in Nat
                     /\ AmountIf(Passed("pay"), n) \in Nat
                     /\ AmountIf(Passed("createWsol") /\ ~before.wsol, n) \in Nat
                     /\ AmountIf(Passed("wrap"), n) \in Nat
  BY DEF AmountIf
<1> QED
  BY <1>1, <1>2 DEF Charged, SetAside

LEMMA OpenWsolKeeps ==
  ASSUME SwapInv, OpenWsol
  PROVE  SwapInv'
<1> DEFINE w == IF wallet.wsol THEN wallet
                ELSE [wallet EXCEPT !.sol = @ - Rent, !.wsol = TRUE]
<1>1. Running /\ Executing /\ This.do = "createWsol" /\ Becomes(w) /\ Runnable
  BY Runs DEF OpenWsol, Run, Is
<1>2. /\ wallet.wsol \/ wallet.sol >= Rent
  BY <1>1 DEF Runnable
<1>3. \A do \in Does : Passed(do) <=> do = "extend"
  BY <1>1, PassedBefore, Ranks DEF Rank, Does, Has
<1>4. /\ \A do \in Does \ {"createWsol"} : Passed(do)' <=> Passed(do)
      /\ Passed("createWsol")'
  BY <1>1, PassedNext DEF Becomes, Does
<1>5. before' = before /\ order' = order /\ wallet' = w
  BY <1>1 DEF Becomes
<1>6. /\ w.wsol = TRUE /\ w.ata = wallet.ata /\ w.tokens = wallet.tokens
      /\ w.lamports = wallet.lamports /\ w.synced = wallet.synced
      /\ w.sol + AmountIf(~wallet.wsol, Rent) = wallet.sol
      /\ w \in Accounts /\ Funds(w) = Funds(wallet)
  <2>1. CASE wallet.wsol
    BY <2>1, Amounts DEF AmountIf, Rent
  <2>2. CASE ~wallet.wsol
    <3>1. w = [wallet EXCEPT !.sol = @ - Rent, !.wsol = TRUE]
      BY <2>2
    <3>2. wallet.sol - Rent \in Nat /\ AmountIf(~wallet.wsol, Rent) = Rent
      BY <1>2, <2>2, Amounts DEF Rent, AmountIf
    <3>3. w \in Accounts
      BY <3>1, <3>2, Amounts DEF Accounts
    <3>4. /\ w.wsol = TRUE /\ w.ata = wallet.ata /\ w.tokens = wallet.tokens
          /\ w.lamports = wallet.lamports /\ w.synced = wallet.synced
          /\ w.sol = wallet.sol - Rent
      BY <3>1, Amounts DEF Accounts
    <3> QED
      BY <2>2, <3>2, <3>3, <3>4, Amounts DEF Funds, Rent
  <2> QED
    BY <2>1, <2>2
<1> HIDE DEF w
<1>7. Charged' = Charged /\ SetAside' = SetAside + AmountIf(~wallet.wsol, Rent)
  <2>1. wallet.wsol <=> before.wsol
    BY <1>1, <1>3, Amounts DEF AccountsOpened, Executing, Does
  <2>2. Charged' = Charged
    BY <1>4, <1>5 DEF Charged, AmountIf, Does
  <2>3. /\ AmountIf(Passed("createWsol") /\ ~before.wsol, Rent) = 0
        /\ AmountIf(Passed("createWsol") /\ ~before.wsol, Rent)' = AmountIf(~wallet.wsol, Rent)
        /\ AmountIf(Passed("wrap"), order.sol) = 0 /\ AmountIf(Passed("wrap"), order.sol)' = 0
    BY <2>1, <1>3, <1>4, <1>5 DEF AmountIf, Does, Rent
  <2>4. AmountIf(~wallet.wsol, Rent) \in Nat
    BY DEF AmountIf, Rent
  <2> QED
    BY <2>2, <2>3, <2>4 DEF SetAside
<1>8. AccountsOpened' /\ Wrapped' /\ TokensMoved'
  BY <1>1, <1>3, <1>4, <1>5, <1>6 DEF AccountsOpened, Wrapped, TokensMoved, TradePassed, Does, Executing
<1>9. FundsMoved'
  BY <1>1, <1>3, <1>4, <1>5, <1>6, <1>7 DEF FundsMoved, TradePassed, Does, Executing
<1>10. SolLeft'
  <2>1. wallet.sol + Charged + SetAside >= before.sol
    BY <1>1, <1>3, Amounts, Sums DEF SolLeft, Executing, AmountIf, Does
  <2>2. w.sol + Charged' + SetAside' >= before.sol
    BY <2>1, <1>1, <1>6, <1>7, Amounts, Sums DEF AmountIf, Rent, Accounts
  <2> QED
    BY <2>2, <1>1, <1>3, <1>4, <1>5, <1>6, <1>7, Sums DEF SolLeft, AmountIf, Does, Rent, Accounts
<1>11. w.synced <= w.lamports
  BY <1>6, Amounts
<1> QED
  BY <1>1, <1>6, <1>8, <1>9, <1>10, <1>11, Continues

LEMMA WrappingKeeps ==
  ASSUME SwapInv, Wrapping
  PROVE  SwapInv'
<1> DEFINE w == [wallet EXCEPT !.sol = @ - This.sol, !.lamports = @ + This.sol]
<1>1. Running /\ Executing /\ This.do = "wrap" /\ Becomes(w) /\ Runnable
  BY Runs DEF Wrapping, Run, Is
<1>2. This.sol = order.sol /\ wallet.sol >= order.sol /\ order.sol \in Nat
  BY <1>1, PassedBefore, ExecutingTyped DEF Runnable, InstructionFor, Wrap
<1>3. \A do \in Does : Passed(do) <=> do \in {"extend", "createWsol"}
  BY <1>1, PassedBefore, Ranks DEF Rank, Does, Has
<1>4. /\ \A do \in Does \ {"wrap"} : Passed(do)' <=> Passed(do)
      /\ Passed("wrap")'
  BY <1>1, PassedNext DEF Becomes, Does
<1>5. before' = before /\ order' = order /\ wallet' = w
  BY <1>1 DEF Becomes
<1>6. /\ w.wsol = wallet.wsol /\ w.ata = wallet.ata /\ w.tokens = wallet.tokens
      /\ w.lamports = wallet.lamports + order.sol /\ w.synced = wallet.synced
      /\ w.sol + order.sol = wallet.sol
      /\ w \in Accounts /\ Funds(w) = Funds(wallet)
  <2>1. wallet.sol - order.sol \in Nat /\ wallet.lamports + order.sol \in Nat
    BY <1>2, Amounts
  <2>2. w = [wallet EXCEPT !.sol = wallet.sol - order.sol, !.lamports = wallet.lamports + order.sol]
    BY <1>2, Amounts DEF Accounts
  <2>3. w \in Accounts
    BY <2>1, <2>2, Amounts DEF Accounts
  <2>4. /\ w.wsol = wallet.wsol /\ w.ata = wallet.ata /\ w.tokens = wallet.tokens
        /\ w.lamports = wallet.lamports + order.sol /\ w.synced = wallet.synced
        /\ w.sol = wallet.sol - order.sol
    BY <2>2, Amounts DEF Accounts
  <2> QED
    BY <2>1, <2>3, <2>4, <1>2, Amounts DEF Funds, Rent
<1> HIDE DEF w
<1>7. Charged' = Charged /\ SetAside' = SetAside + order.sol
  BY <1>1, <1>2, <1>3, <1>4, <1>5 DEF Charged, SetAside, AmountIf, Does, Rent
<1>8. AccountsOpened' /\ Wrapped' /\ TokensMoved'
  BY <1>1, <1>2, <1>3, <1>4, <1>5, <1>6, Amounts DEF AccountsOpened, Wrapped, TokensMoved, TradePassed, Does, Executing
<1>9. FundsMoved'
  BY <1>1, <1>3, <1>4, <1>5, <1>6, <1>7 DEF FundsMoved, TradePassed, Does, Executing
<1>10. SolLeft'
  <2>1. wallet.sol + Charged + SetAside >= before.sol
    BY <1>1, <1>3, Amounts, Sums DEF SolLeft, Executing, AmountIf, Does
  <2>2. w.sol + Charged' + SetAside' >= before.sol
    BY <2>1, <1>1, <1>2, <1>6, <1>7, Amounts, Sums DEF Accounts
  <2> QED
    BY <2>2, <1>1, <1>2, <1>3, <1>4, <1>5, <1>6, <1>7, Sums DEF SolLeft, AmountIf, Does, Accounts
<1>11. w.synced <= w.lamports
  BY <1>2, <1>6, Amounts
<1> QED
  BY <1>1, <1>6, <1>8, <1>9, <1>10, <1>11, Continues

LEMMA SyncingKeeps ==
  ASSUME SwapInv, Syncing
  PROVE  SwapInv'
<1> DEFINE w == [wallet EXCEPT !.synced = wallet.lamports]
<1>1. Running /\ Executing /\ This.do = "sync" /\ Becomes(w)
  BY Runs DEF Syncing, Run, Is
<1>2. order.sol \in Nat
  BY <1>1, ExecutingTyped
<1>3. \A do \in Does : Passed(do) <=> do \in {"extend", "createWsol", "wrap"}
  BY <1>1, PassedBefore, Ranks DEF Rank, Does, Has
<1>4. /\ \A do \in Does \ {"sync"} : Passed(do)' <=> Passed(do)
      /\ Passed("sync")'
  BY <1>1, PassedNext DEF Becomes, Does
<1>5. before' = before /\ order' = order /\ wallet' = w
  BY <1>1 DEF Becomes
<1>6. /\ w.wsol = wallet.wsol /\ w.ata = wallet.ata /\ w.tokens = wallet.tokens
      /\ w.lamports = wallet.lamports /\ w.synced = wallet.lamports
      /\ w.sol = wallet.sol
      /\ w \in Accounts /\ Funds(w) = Funds(wallet)
  BY <1>2, Amounts DEF Accounts, Funds, Rent
<1> HIDE DEF w
<1>7. Charged' = Charged /\ SetAside' = SetAside
  BY <1>4, <1>5 DEF Charged, SetAside, AmountIf, Does
<1>8. AccountsOpened' /\ Wrapped' /\ TokensMoved'
  BY <1>1, <1>3, <1>4, <1>5, <1>6, Amounts DEF AccountsOpened, Wrapped, TokensMoved, TradePassed, Does, Executing
<1>9. FundsMoved'
  BY <1>1, <1>3, <1>4, <1>5, <1>6, <1>7 DEF FundsMoved, TradePassed, Does, Executing
<1>10. SolLeft'
  BY <1>1, <1>4, <1>5, <1>6, <1>7 DEF SolLeft, AmountIf, Does, Executing
<1>11. w.synced <= w.lamports
  BY <1>6, Amounts
<1> QED
  BY <1>1, <1>6, <1>8, <1>9, <1>10, <1>11, Continues

LEMMA OpenAtaKeeps ==
  ASSUME SwapInv, OpenAta
  PROVE  SwapInv'
<1> DEFINE w == IF wallet.ata THEN wallet
                ELSE [wallet EXCEPT !.sol = @ - Rent, !.ata = TRUE]
<1>1. Running /\ Executing /\ This.do = "createAta" /\ Becomes(w) /\ Runnable
  BY Runs DEF OpenAta, Run, Is
<1>2. wallet.ata \/ wallet.sol >= Rent
  BY <1>1 DEF Runnable
<1>3. /\ \A do \in Does : Passed(do) => do \in {"extend", "createWsol", "wrap", "sync"}
      /\ order.protocol = "PumpFun" => ~Passed("wrap") /\ ~Passed("createWsol")
  BY <1>1, PassedBefore, Ranks DEF Rank, Does, Has
<1>4. /\ \A do \in Does \ {"createAta"} : Passed(do)' <=> Passed(do)
      /\ Passed("createAta")'
  BY <1>1, PassedNext DEF Becomes, Does
<1>5. before' = before /\ order' = order /\ wallet' = w
  BY <1>1 DEF Becomes
<1>6. /\ w.wsol = wallet.wsol /\ w.ata = TRUE /\ w.tokens = wallet.tokens
      /\ w.lamports = wallet.lamports /\ w.synced = wallet.synced
      /\ w.sol + AmountIf(~wallet.ata, Rent) = wallet.sol
      /\ w \in Accounts /\ Funds(w) + AmountIf(~wallet.ata, Rent) = Funds(wallet)
  <2>1. CASE wallet.ata
    BY <2>1, Amounts DEF AmountIf, Rent
  <2>2. CASE ~wallet.ata
    <3>1. w = [wallet EXCEPT !.sol = @ - Rent, !.ata = TRUE]
      BY <2>2
    <3>2. wallet.sol - Rent \in Nat /\ AmountIf(~wallet.ata, Rent) = Rent
      BY <1>2, <2>2, Amounts DEF Rent, AmountIf
    <3>3. w \in Accounts
      BY <3>1, <3>2, Amounts DEF Accounts
    <3>4. /\ w.wsol = wallet.wsol /\ w.ata = TRUE /\ w.tokens = wallet.tokens
          /\ w.lamports = wallet.lamports /\ w.synced = wallet.synced
          /\ w.sol = wallet.sol - Rent
      BY <3>1, Amounts DEF Accounts
    <3> QED
      BY <2>2, <3>2, <3>3, <3>4, Amounts DEF Funds, Rent
  <2> QED
    BY <2>1, <2>2
<1> HIDE DEF w
<1>7. /\ Charged' = Charged + AmountIf(~wallet.ata, Rent)
      /\ SetAside' = SetAside
      /\ AmountIf(~wallet.ata, Rent) \in Nat
  <2>1. wallet.ata <=> before.ata
    BY <1>1, <1>3, Amounts DEF AccountsOpened, Executing, Does
  <2>2. SetAside' = SetAside
    BY <1>4, <1>5 DEF SetAside, AmountIf, Does
  <2>3. /\ AmountIf(Passed("createAta") /\ ~before.ata, Rent) = 0
        /\ AmountIf(Passed("createAta") /\ ~before.ata, Rent)' = AmountIf(~wallet.ata, Rent)
        /\ AmountIf(Passed("pay"), order.fee) = 0 /\ AmountIf(Passed("pay"), order.fee)' = 0
    BY <2>1, <1>3, <1>4, <1>5 DEF AmountIf, Does, Rent
  <2>4. AmountIf(~wallet.ata, Rent) \in Nat
    BY DEF AmountIf, Rent
  <2> QED
    BY <2>2, <2>3, <2>4 DEF Charged
<1>8. AccountsOpened' /\ Wrapped' /\ TokensMoved'
  BY <1>1, <1>3, <1>4, <1>5, <1>6 DEF AccountsOpened, Wrapped, TokensMoved, TradePassed, Does, Executing
<1>9. FundsMoved'
  <2>1. ~TradePassed /\ ~TradePassed' /\ ~Passed("buy")' /\ ~Passed("sell")'
    BY <1>3, <1>4 DEF TradePassed, Does
  <2>2. Funds(wallet) + Charged = Funds(before)
    BY <2>1, <1>1 DEF FundsMoved, Executing
  <2>3. Funds(w) \in Nat
    BY <1>6 DEF Funds, Accounts, Rent
  <2>4. Funds(w) + Charged' = Funds(before)
    BY <2>2, <2>3, <1>1, <1>6, <1>7, Amounts, Sums
  <2> QED
    BY <2>1, <2>4, <1>5 DEF FundsMoved
<1>10. SolLeft'
  <2>1. wallet.sol + Charged + SetAside >= before.sol
    BY <1>1, <1>3, Amounts, Sums DEF SolLeft, Executing, AmountIf, Does
  <2>2. w.sol + Charged' + SetAside' >= before.sol
    BY <2>1, <1>1, <1>6, <1>7, Amounts, Sums DEF Accounts
  <2>3. AmountIf(Passed("buy") /\ order.protocol = "PumpFun", order.sol)' = 0
    BY <1>3, <1>4 DEF AmountIf, Does
  <2>4. w.sol + Charged' + SetAside' \in Nat
    BY <1>1, <1>6, <1>7, Sums DEF Accounts
  <2> QED
    BY <2>2, <2>3, <2>4, <1>5 DEF SolLeft
<1>11. w.synced <= w.lamports
  BY <1>6, Amounts
<1> QED
  BY <1>1, <1>6, <1>8, <1>9, <1>10, <1>11, Continues

LEMMA ClosingKeeps ==
  ASSUME SwapInv, Closing
  PROVE  SwapInv'
<1> DEFINE w == [wallet EXCEPT !.sol = @ + wallet.lamports + Rent, !.wsol = FALSE,
                               !.lamports = 0, !.synced = 0]
<1>1. Running /\ Executing /\ This.do = "close" /\ Becomes(w) /\ Runnable
  BY Runs DEF Closing, Run, Is
<1>2. wallet.wsol
  BY <1>1 DEF Runnable
<1>3. /\ \A do \in Does : Passed(do) => do # "close" /\ do # "pay"
      /\ TradePassed
  <2>1. \A do \in Does : Passed(do) => do # "close" /\ do # "pay"
    BY <1>1, PassedBefore, Ranks DEF Rank, Does
  <2>2. Passed("buy") \/ Passed("sell")
    BY <1>1, PassedBefore DEF Rank, Does, Has
  <2> QED
    BY <2>1, <2>2 DEF TradePassed
<1>4. /\ \A do \in Does \ {"close"} : Passed(do)' <=> Passed(do)
      /\ Passed("close")'
  BY <1>1, PassedNext DEF Becomes, Does
<1>5. before' = before /\ order' = order /\ wallet' = w
  BY <1>1 DEF Becomes
<1>6. /\ w.wsol = FALSE /\ w.ata = wallet.ata /\ w.tokens = wallet.tokens
      /\ w.lamports = 0 /\ w.synced = 0
      /\ w.sol = wallet.sol + wallet.lamports + Rent
      /\ w \in Accounts
  <2>1. wallet.sol + wallet.lamports + Rent \in Nat
    BY Amounts DEF Rent
  <2>2. w = [wallet EXCEPT !.sol = wallet.sol + wallet.lamports + Rent, !.wsol = FALSE,
                           !.lamports = 0, !.synced = 0]
    BY Amounts DEF Accounts
  <2>3. w \in Accounts
    BY <2>1, <2>2, Amounts DEF Accounts
  <2> QED
    BY <2>2, <2>3, Amounts DEF Accounts
<1> HIDE DEF w
<1>7. Funds(w) = Funds(wallet)
  BY <1>2, <1>6, Amounts DEF Funds, Rent
<1>8. Charged' = Charged /\ SetAside' = SetAside
  BY <1>4, <1>5 DEF Charged, SetAside, AmountIf, Does
<1>9. AccountsOpened' /\ Wrapped' /\ TokensMoved'
  BY <1>1, <1>3, <1>4, <1>5, <1>6 DEF AccountsOpened, Wrapped, TokensMoved, TradePassed, Does, Executing
<1>10. FundsMoved'
  BY <1>1, <1>3, <1>4, <1>5, <1>7, <1>8 DEF FundsMoved, TradePassed, Does, Executing
<1>11. SolLeft'
  <2> DEFINE a == AmountIf(Passed("buy") /\ order.protocol = "PumpFun", order.sol)
  <2>1. a' = a /\ a \in Nat
    BY <1>1, <1>4, <1>5, ExecutingTyped DEF AmountIf, Does
  <2>2. wallet.sol + Charged + SetAside + a >= before.sol
    BY <1>1 DEF SolLeft, Executing
  <2> HIDE DEF a
  <2>3. w.sol + Charged + SetAside + a >= before.sol
    BY <2>1, <2>2, <1>1, <1>6, Amounts, Sums DEF Rent
  <2> QED
    BY <2>1, <2>3, <1>5, <1>8 DEF SolLeft, a
<1>12. w.synced <= w.lamports
  BY <1>6
<1> QED
  BY <1>1, <1>6, <1>9, <1>10, <1>11, <1>12, Continues

LEMMA PayingKeeps ==
  ASSUME SwapInv, Paying
  PROVE  SwapInv'
<1> DEFINE w == [wallet EXCEPT !.sol = @ - This.sol]
<1>1. Running /\ Executing /\ This.do = "pay" /\ Becomes(w) /\ Runnable
  BY Runs DEF Paying, Run, Is
<1>2. This.sol = order.fee /\ wallet.sol >= order.fee /\ order.fee \in Nat
  BY <1>1, PassedBefore, ExecutingTyped DEF Runnable, InstructionFor, Pay
<1>3. ~Passed("pay") /\ TradePassed
  <2>1. ~Passed("pay")
    BY <1>1, PassedBefore DEF Rank, Does
  <2>2. Passed("buy") \/ Passed("sell")
    BY <1>1, PassedBefore DEF Rank, Does, Has
  <2> QED
    BY <2>1, <2>2 DEF TradePassed
<1>4. /\ \A do \in Does \ {"pay"} : Passed(do)' <=> Passed(do)
      /\ Passed("pay")'
  BY <1>1, PassedNext DEF Becomes, Does
<1>5. before' = before /\ order' = order /\ wallet' = w
  BY <1>1 DEF Becomes
<1>6. /\ w.wsol = wallet.wsol /\ w.ata = wallet.ata /\ w.tokens = wallet.tokens
      /\ w.lamports = wallet.lamports /\ w.synced = wallet.synced
      /\ w.sol + order.fee = wallet.sol
      /\ w \in Accounts
  <2>1. wallet.sol - order.fee \in Nat
    BY <1>2, Amounts
  <2>2. w = [wallet EXCEPT !.sol = wallet.sol - order.fee]
    BY <1>2, Amounts DEF Accounts
  <2>3. w \in Accounts
    BY <2>1, <2>2, Amounts DEF Accounts
  <2>4. /\ w.wsol = wallet.wsol /\ w.ata = wallet.ata /\ w.tokens = wallet.tokens
        /\ w.lamports = wallet.lamports /\ w.synced = wallet.synced
        /\ w.sol = wallet.sol - order.fee
    BY <2>2, Amounts DEF Accounts
  <2> QED
    BY <2>1, <2>3, <2>4, <1>2, Amounts
<1> HIDE DEF w
<1>7. Funds(w) + order.fee = Funds(wallet) /\ Funds(w) \in Nat
  <2>1. w.sol \in Nat
    BY <1>6 DEF Accounts
  <2> QED
    BY <2>1, <1>2, <1>6, Amounts DEF Funds, Rent
<1>8. Charged' = Charged + order.fee /\ SetAside' = SetAside
  <2>1. SetAside' = SetAside
    BY <1>4, <1>5 DEF SetAside, AmountIf, Does
  <2> DEFINE a == AmountIf(Passed("createAta") /\ ~before.ata, Rent)
  <2>2. a' = a /\ a \in Nat
    BY <1>4, <1>5 DEF AmountIf, Does, Rent
  <2>3. AmountIf(Passed("pay"), order.fee) = 0 /\ AmountIf(Passed("pay"), order.fee)' = order.fee
    BY <1>3, <1>4, <1>5 DEF AmountIf
  <2>4. Charged = a + AmountIf(Passed("pay"), order.fee)
    BY DEF Charged
  <2>5. Charged' = a' + AmountIf(Passed("pay"), order.fee)'
    BY DEF Charged
  <2> HIDE DEF a
  <2> QED
    BY <2>1, <2>2, <2>3, <2>4, <2>5, <1>2
<1>9. AccountsOpened' /\ Wrapped' /\ TokensMoved'
  BY <1>1, <1>3, <1>4, <1>5, <1>6 DEF AccountsOpened, Wrapped, TokensMoved, TradePassed, Does, Executing
<1>10. FundsMoved'
  <2>1. Funds(w) + Charged' = Funds(wallet) + Charged
    BY <1>1, <1>2, <1>7, <1>8, Amounts, Sums
  <2>2. /\ Passed("buy") => Funds(before) <= Funds(wallet) + Charged + order.sol
        /\ Passed("sell") => Funds(wallet) + Charged >= Funds(before) + order.sol
    BY <1>1 DEF FundsMoved, Executing
  <2>3. /\ Passed("buy")' <=> Passed("buy")
        /\ Passed("sell")' <=> Passed("sell")
        /\ TradePassed'
    BY <1>3, <1>4 DEF TradePassed, Does
  <2> QED
    BY <2>1, <2>2, <2>3, <1>5 DEF FundsMoved
<1>11. SolLeft'
  <2> DEFINE a == AmountIf(Passed("buy") /\ order.protocol = "PumpFun", order.sol)
  <2>1. a' = a /\ a \in Nat
    BY <1>1, <1>4, <1>5, ExecutingTyped DEF AmountIf, Does
  <2>2. wallet.sol + Charged + SetAside + a >= before.sol
    BY <1>1 DEF SolLeft, Executing
  <2> HIDE DEF a
  <2>3. w.sol + Charged' + SetAside + a >= before.sol
    BY <2>1, <2>2, <1>1, <1>2, <1>6, <1>8, Amounts, Sums DEF Accounts
  <2> QED
    BY <2>1, <2>3, <1>5, <1>8 DEF SolLeft, a
<1>12. w.synced <= w.lamports
  BY <1>6, Amounts
<1> QED
  BY <1>1, <1>6, <1>9, <1>10, <1>11, <1>12, Continues

\* What a trade moves of the wallet, n SOL one way and the tokens the other.
LEMMA TradedPay ==
  ASSUME SwapInv, Running, NEW n \in Nat, This.tokens \in Nat,
         IF This.via = "PumpSwap" THEN wallet.synced >= n ELSE wallet.sol >= n
  PROVE  /\ Traded(n, FALSE) \in Accounts
         /\ Traded(n, FALSE).tokens = wallet.tokens + This.tokens
         /\ Traded(n, FALSE).wsol = wallet.wsol /\ Traded(n, FALSE).ata = wallet.ata
         /\ This.via = "PumpSwap" =>
              /\ Traded(n, FALSE).sol = wallet.sol
              /\ Traded(n, FALSE).lamports + n = wallet.lamports
              /\ Traded(n, FALSE).synced + n = wallet.synced
         /\ This.via # "PumpSwap" =>
              /\ Traded(n, FALSE).sol + n = wallet.sol
              /\ Traded(n, FALSE).lamports = wallet.lamports
              /\ Traded(n, FALSE).synced = wallet.synced
<1>w. PICK w : w = Traded(n, FALSE)
  OBVIOUS
<1>1. CASE This.via = "PumpSwap"
  <2>1. /\ wallet.lamports - n \in Nat /\ wallet.synced - n \in Nat
        /\ wallet.tokens + This.tokens \in Nat
    BY <1>1, Amounts
  <2>2. w = [wallet EXCEPT !.lamports = wallet.lamports - n,
                             !.synced = wallet.synced - n,
                             !.tokens = wallet.tokens + This.tokens]
    BY <1>w, <1>1, Amounts DEF Traded, Accounts
  <2>3. w \in Accounts
    BY <2>1, <2>2, Amounts DEF Accounts
  <2>4. /\ w.tokens = wallet.tokens + This.tokens
        /\ w.wsol = wallet.wsol /\ w.ata = wallet.ata
        /\ w.sol = wallet.sol
        /\ w.lamports = wallet.lamports - n
        /\ w.synced = wallet.synced - n
    BY <2>2, Amounts DEF Accounts
  <2>5. /\ w.lamports + n = wallet.lamports
        /\ w.synced + n = wallet.synced
    BY <2>1, <2>4, Amounts
  <2> QED
    BY <1>w, <1>1, <2>3, <2>4, <2>5
<1>2. CASE This.via # "PumpSwap"
  <2>1. wallet.sol - n \in Nat /\ wallet.tokens + This.tokens \in Nat
    BY <1>2, Amounts
  <2>2. w = [wallet EXCEPT !.sol = wallet.sol - n,
                             !.tokens = wallet.tokens + This.tokens]
    BY <1>w, <1>2, Amounts DEF Traded, Accounts
  <2>3. w \in Accounts
    BY <2>1, <2>2, Amounts DEF Accounts
  <2>4. /\ w.tokens = wallet.tokens + This.tokens
        /\ w.wsol = wallet.wsol /\ w.ata = wallet.ata
        /\ w.sol = wallet.sol - n
        /\ w.lamports = wallet.lamports
        /\ w.synced = wallet.synced
    BY <2>2, Amounts DEF Accounts
  <2>5. w.sol + n = wallet.sol
    BY <2>1, <2>4, Amounts
  <2> QED
    BY <1>w, <1>2, <2>3, <2>4, <2>5
<1> QED
  BY <1>1, <1>2, <1>w

LEMMA TradedReceive ==
  ASSUME SwapInv, Running, NEW n \in Nat, This.tokens \in Nat, wallet.tokens >= This.tokens
  PROVE  /\ Traded(n, TRUE) \in Accounts
         /\ Traded(n, TRUE).tokens + This.tokens = wallet.tokens
         /\ Traded(n, TRUE).wsol = wallet.wsol /\ Traded(n, TRUE).ata = wallet.ata
         /\ This.via = "PumpSwap" =>
              /\ Traded(n, TRUE).sol = wallet.sol
              /\ Traded(n, TRUE).lamports = wallet.lamports + n
              /\ Traded(n, TRUE).synced = wallet.synced + n
         /\ This.via # "PumpSwap" =>
              /\ Traded(n, TRUE).sol = wallet.sol + n
              /\ Traded(n, TRUE).lamports = wallet.lamports
              /\ Traded(n, TRUE).synced = wallet.synced
<1>w. PICK w : w = Traded(n, TRUE)
  OBVIOUS
<1>0. wallet.tokens - This.tokens \in Nat
  BY Amounts
<1>1. CASE This.via = "PumpSwap"
  <2>1. wallet.lamports + n \in Nat /\ wallet.synced + n \in Nat
    BY Amounts
  <2>2. w = [wallet EXCEPT !.lamports = wallet.lamports + n,
                             !.synced = wallet.synced + n,
                             !.tokens = wallet.tokens - This.tokens]
    BY <1>w, <1>1, Amounts DEF Traded, Accounts
  <2>3. w \in Accounts
    BY <1>0, <2>1, <2>2, Amounts DEF Accounts
  <2>4. /\ w.tokens = wallet.tokens - This.tokens
        /\ w.wsol = wallet.wsol /\ w.ata = wallet.ata
        /\ w.sol = wallet.sol
        /\ w.lamports = wallet.lamports + n
        /\ w.synced = wallet.synced + n
    BY <2>2, Amounts DEF Accounts
  <2>5. w.tokens + This.tokens = wallet.tokens
    BY <2>4, Amounts
  <2> QED
    BY <1>w, <1>1, <2>3, <2>4, <2>5
<1>2. CASE This.via # "PumpSwap"
  <2>1. wallet.sol + n \in Nat
    BY Amounts
  <2>2. w = [wallet EXCEPT !.sol = wallet.sol + n,
                             !.tokens = wallet.tokens - This.tokens]
    BY <1>w, <1>2, Amounts DEF Traded, Accounts
  <2>3. w \in Accounts
    BY <1>0, <2>1, <2>2, Amounts DEF Accounts
  <2>4. /\ w.tokens = wallet.tokens - This.tokens
        /\ w.wsol = wallet.wsol /\ w.ata = wallet.ata
        /\ w.sol = wallet.sol + n
        /\ w.lamports = wallet.lamports
        /\ w.synced = wallet.synced
    BY <2>2, Amounts DEF Accounts
  <2>5. w.tokens + This.tokens = wallet.tokens
    BY <2>4, Amounts
  <2> QED
    BY <1>w, <1>2, <2>3, <2>4, <2>5
<1> QED
  BY <1>1, <1>2, <1>w

LEMMA TradeInHand ==
  ASSUME Executing, Running, This.do \in {"buy", "sell"}
  PROVE  /\ This = Trade(order)
         /\ This.via = order.protocol /\ This.sol = order.sol /\ This.tokens = order.tokens
         /\ This.do = "buy" <=> order.buy
         /\ ~TradePassed /\ ~Passed("close") /\ ~Passed("pay")
         /\ \A do \in Does \ {"buy", "sell", "close", "pay"} : Passed(do) <=> Has(order, do)
<1>1. This = Trade(order)
  BY PassedBefore DEF InstructionFor
<1>2. ~TradePassed /\ ~Passed("close") /\ ~Passed("pay")
  BY PassedBefore DEF Rank, Does, TradePassed
<1>3. \A do \in Does \ {"buy", "sell", "close", "pay"} : Passed(do) <=> Has(order, do)
  BY PassedBefore DEF Rank, Does
<1> QED
  BY <1>1, <1>2, <1>3 DEF Trade

LEMMA BuyingKeeps ==
  ASSUME SwapInv, NEW cost \in Amount, Buying(cost)
  PROVE  SwapInv'
<1> DEFINE w == Traded(cost, FALSE)
<1>1. Running /\ Executing /\ This.do = "buy" /\ Becomes(w) /\ cost <= This.sol /\ Affords(cost)
  BY Runs DEF Buying, Is
<1>2. /\ order.sol \in Nat /\ order.tokens \in Nat /\ cost \in Nat
      /\ order.protocol \in {"PumpFun", "PumpSwap"}
      /\ This.via = order.protocol /\ This.sol = order.sol /\ This.tokens = order.tokens
  BY <1>1, TradeInHand, ExecutingTyped DEF Amount
<1>3. ~TradePassed /\ ~Passed("buy") /\ ~Passed("sell") /\ ~Passed("close") /\ ~Passed("pay")
  BY <1>1, TradeInHand DEF TradePassed
<1>4. /\ \A do \in Does \ {"buy"} : Passed(do)' <=> Passed(do)
      /\ Passed("buy")' /\ TradePassed'
  BY <1>1, PassedNext DEF Becomes, Does, TradePassed
<1>5. before' = before /\ order' = order /\ wallet' = w
  BY <1>1 DEF Becomes
<1>6. /\ w \in Accounts
      /\ w.tokens = wallet.tokens + order.tokens
      /\ w.wsol = wallet.wsol /\ w.ata = wallet.ata
      /\ order.protocol = "PumpSwap" => /\ w.sol = wallet.sol
                                        /\ w.lamports + cost = wallet.lamports
                                        /\ w.synced + cost = wallet.synced
      /\ order.protocol = "PumpFun" => /\ w.sol + cost = wallet.sol
                                       /\ w.lamports = wallet.lamports
                                       /\ w.synced = wallet.synced
  BY <1>1, <1>2, TradedPay DEF Affords
<1>7. w.sol \in Nat /\ w.lamports \in Nat /\ w.synced \in Nat
  BY <1>6 DEF Accounts
<1> HIDE DEF w
<1>8. Charged' = Charged /\ SetAside' = SetAside
  BY <1>4, <1>5 DEF Charged, SetAside, AmountIf, Does
<1>9. AccountsOpened' /\ Wrapped' /\ TokensMoved'
  BY <1>1, <1>3, <1>4, <1>5, <1>6 DEF AccountsOpened, Wrapped, TokensMoved, TradePassed, Does, Executing
<1>10. FundsMoved'
  <2>1. Funds(w) + cost = Funds(wallet) /\ Funds(w) \in Nat
    BY <1>2, <1>6, <1>7, Amounts DEF Funds, Rent
  <2>2. Funds(wallet) + Charged = Funds(before)
    BY <1>1, <1>3 DEF FundsMoved, Executing
  <2>3. Funds(before) <= Funds(w) + Charged + order.sol
    BY <2>1, <2>2, <1>1, <1>2, Amounts, Sums
  <2>4. ~Passed("sell")'
    BY <1>3, <1>4 DEF Does
  <2> QED
    BY <2>3, <2>4, <1>4, <1>5, <1>8 DEF FundsMoved
<1>11. SolLeft'
  <2> DEFINE a == AmountIf(Passed("buy") /\ order.protocol = "PumpFun", order.sol)
  <2>1. a = 0 /\ a' = AmountIf(order.protocol = "PumpFun", order.sol)
    BY <1>3, <1>4, <1>5 DEF AmountIf
  <2>2. wallet.sol + Charged + SetAside + a >= before.sol
    BY <1>1 DEF SolLeft, Executing
  <2> DEFINE b == AmountIf(order.protocol = "PumpFun", order.sol)
  <2>3. b \in Nat /\ w.sol + b >= wallet.sol
    BY <1>1, <1>2, <1>6, <1>7, Amounts DEF AmountIf
  <2> HIDE DEF a, b
  <2>4. w.sol + Charged + SetAside + b >= before.sol
    BY <2>1, <2>2, <2>3, <1>1, <1>7, Amounts, Sums
  <2> QED
    BY <2>1, <2>4, <1>5, <1>8 DEF SolLeft, a, b
<1>12. w.synced <= w.lamports
  BY <1>2, <1>6, <1>7, Amounts
<1> QED
  BY <1>1, <1>6, <1>9, <1>10, <1>11, <1>12, Continues

LEMMA SellingKeeps ==
  ASSUME SwapInv, NEW proceeds \in Amount, Selling(proceeds)
  PROVE  SwapInv'
<1> DEFINE w == Traded(proceeds, TRUE)
<1>1. Running /\ Executing /\ This.do = "sell" /\ Becomes(w) /\ proceeds >= This.sol /\ Runnable
  BY Runs DEF Selling, Is
<1>2. /\ order.sol \in Nat /\ order.tokens \in Nat /\ proceeds \in Nat
      /\ order.protocol \in {"PumpFun", "PumpSwap"}
      /\ This.via = order.protocol /\ This.sol = order.sol /\ This.tokens = order.tokens
      /\ wallet.tokens >= order.tokens
  BY <1>1, TradeInHand, ExecutingTyped DEF Amount, Runnable
<1>3. ~TradePassed /\ ~Passed("buy") /\ ~Passed("sell") /\ ~Passed("close") /\ ~Passed("pay")
  BY <1>1, TradeInHand DEF TradePassed
<1>4. /\ \A do \in Does \ {"sell"} : Passed(do)' <=> Passed(do)
      /\ Passed("sell")' /\ TradePassed'
  BY <1>1, PassedNext DEF Becomes, Does, TradePassed
<1>5. before' = before /\ order' = order /\ wallet' = w
  BY <1>1 DEF Becomes
<1>6. /\ w \in Accounts
      /\ w.tokens + order.tokens = wallet.tokens
      /\ w.wsol = wallet.wsol /\ w.ata = wallet.ata
      /\ order.protocol = "PumpSwap" => /\ w.sol = wallet.sol
                                        /\ w.lamports = wallet.lamports + proceeds
                                        /\ w.synced = wallet.synced + proceeds
      /\ order.protocol = "PumpFun" => /\ w.sol = wallet.sol + proceeds
                                       /\ w.lamports = wallet.lamports
                                       /\ w.synced = wallet.synced
  BY <1>1, <1>2, TradedReceive
<1>7. w.sol \in Nat /\ w.lamports \in Nat /\ w.synced \in Nat
  BY <1>6 DEF Accounts
<1> HIDE DEF w
<1>8. Charged' = Charged /\ SetAside' = SetAside
  BY <1>4, <1>5 DEF Charged, SetAside, AmountIf, Does
<1>9. AccountsOpened' /\ Wrapped' /\ TokensMoved'
  BY <1>1, <1>3, <1>4, <1>5, <1>6 DEF AccountsOpened, Wrapped, TokensMoved, TradePassed, Does, Executing
<1>10. FundsMoved'
  <2>1. Funds(w) = Funds(wallet) + proceeds
    BY <1>2, <1>6, <1>7, Amounts DEF Funds, Rent
  <2>2. Funds(wallet) + Charged = Funds(before)
    BY <1>1, <1>3 DEF FundsMoved, Executing
  <2>3. Funds(w) + Charged >= Funds(before) + order.sol
    BY <2>1, <2>2, <1>1, <1>2, Amounts, Sums
  <2>4. ~Passed("buy")'
    BY <1>3, <1>4 DEF Does
  <2> QED
    BY <2>3, <2>4, <1>4, <1>5, <1>8 DEF FundsMoved
<1>11. SolLeft'
  <2> DEFINE a == AmountIf(Passed("buy") /\ order.protocol = "PumpFun", order.sol)
  <2>1. a = 0 /\ a' = 0
    BY <1>3, <1>4 DEF AmountIf, Does
  <2>2. wallet.sol + Charged + SetAside + a >= before.sol
    BY <1>1 DEF SolLeft, Executing
  <2>3. w.sol >= wallet.sol
    BY <1>2, <1>6, Amounts
  <2> HIDE DEF a
  <2>4. w.sol + Charged + SetAside + a >= before.sol
    BY <2>1, <2>2, <2>3, <1>1, <1>7, Amounts, Sums
  <2> QED
    BY <2>1, <2>4, <1>5, <1>8 DEF SolLeft, a
<1>12. w.synced <= w.lamports
  BY <1>2, <1>6, <1>7, Amounts
<1> QED
  BY <1>1, <1>6, <1>9, <1>10, <1>11, <1>12, Continues

-----------------------------------------------------------------------------
(* Between transactions.                                                   *)

LEMMA InitSwapInv == SwapInit => SwapInv
<1> SUFFICES ASSUME SwapInit
             PROVE  SwapInv
  OBVIOUS
<1>1. PICK s \in 0 .. MaxSol :
        wallet = [sol |-> s, wsol |-> FALSE, lamports |-> 0, synced |-> 0,
                  ata |-> FALSE, tokens |-> 0]
  BY DEF SwapInit
<1>2. s \in Nat
  BY SwapAssumption
<1>3. wallet \in Accounts /\ wallet.synced <= wallet.lamports
  BY <1>1, <1>2 DEF Accounts
<1> QED
  BY <1>3 DEF SwapInit, SwapInv, Unplanned

LEMMA Resting ==
  ASSUME wallet' \in Accounts, wallet'.synced <= wallet'.lamports,
         before' = wallet', order' = NoOrder, plan' = <<>>, pc' = 0
  PROVE  SwapInv'
BY DEF SwapInv, Unplanned

\* Without an order in hand nothing is planned.
LEMMA Rests ==
  ASSUME SwapInv, plan = <<>> \/ Idle
  PROVE  Unplanned
BY ExecutingTyped DEF SwapInv, Idle

LEMMA MoveKeeps ==
  ASSUME SwapInv, NEW sol \in Amount, NEW lamports \in Amount, NEW tokens \in Amount,
         Move(sol, lamports, tokens)
  PROVE  SwapInv'
<1>1. sol \in Nat /\ lamports \in Nat /\ tokens \in Nat
  BY SwapAssumption DEF Amount
<1>2. Unplanned /\ order = NoOrder
  BY Rests DEF Move, Idle
<1>3. (wallet.ata \/ tokens > 0) \in BOOLEAN
  BY Amounts
<1>4. wallet'= [sol |-> sol, wsol |-> lamports > 0, lamports |-> lamports,
                synced |-> lamports, ata |-> wallet.ata \/ tokens > 0,
                tokens |-> wallet.tokens + tokens]
  BY DEF Move
<1>5. wallet' \in Accounts /\ wallet'.synced <= wallet'.lamports
  BY <1>1, <1>4, Amounts DEF Accounts
<1> QED
  BY <1>2, <1>5, Resting DEF Move, Unplanned

LEMMA BuildKeeps ==
  ASSUME SwapInv, NEW o \in Order, Build(o)
  PROVE  SwapInv'
<1>1. Unplanned /\ order = NoOrder /\ wallet = before
  BY Rests DEF Build, Idle, Unplanned
<1>2. UNCHANGED <<wallet, before>> /\ order' = o /\ plan' = PlanOf(o) /\ pc' = 1 /\ Buildable(o)
  BY DEF Build
<1>3. /\ ~Passed("createWsol")' /\ ~Passed("close")' /\ ~Passed("createAta")'
      /\ ~Passed("wrap")' /\ ~Passed("sync")' /\ ~Passed("pay")'
      /\ ~Passed("buy")' /\ ~Passed("sell")' /\ ~TradePassed'
  BY <1>2 DEF Passed, TradePassed
<1>4. Charged' = 0 /\ SetAside' = 0
  BY <1>3 DEF Charged, SetAside, AmountIf
<1>5. AccountsOpened' /\ Wrapped' /\ TokensMoved'
  BY <1>1, <1>2, <1>3, Amounts DEF AccountsOpened, Wrapped, TokensMoved
<1>6. FundsMoved'
  BY <1>1, <1>2, <1>3, <1>4, Amounts DEF FundsMoved
<1>7. SolLeft'
  <2>1. AmountIf(Passed("buy") /\ order.protocol = "PumpFun", order.sol)' = 0
    BY <1>3 DEF AmountIf
  <2> QED
    BY <2>1, <1>1, <1>2, <1>4, Amounts DEF SolLeft
<1>8. pc' \in 1 .. Len(plan') + 1
  <2>1. PlanOf(o) \in Seq(Instruction)
    BY PlanOrdered DEF Part
  <2>2. Len(PlanOf(o)) \in Nat
    BY <2>1
  <2> QED
    BY <1>2, <2>2
<1>9. Executing'
  BY <1>2, <1>5, <1>6, <1>7, <1>8 DEF Executing
<1> QED
  BY <1>2, <1>9 DEF SwapInv

LEMMA BuildFailsKeeps ==
  ASSUME SwapInv, NEW o \in Order, BuildFails(o)
  PROVE  SwapInv'
<1>1. Unplanned
  BY Rests DEF BuildFails
<1> QED
  BY <1>1 DEF BuildFails, SwapInv, Unplanned

LEMMA LeaveKeeps ==
  ASSUME SwapInv, Commit \/ Abort \/ Forget
  PROVE  SwapInv'
<1>1. Leave /\ wallet' \in {wallet, before}
  BY DEF Commit, Abort, Forget
<1>2. wallet' \in Accounts /\ wallet'.synced <= wallet'.lamports
  BY <1>1 DEF SwapInv
<1> QED
  BY <1>1, <1>2, Resting DEF Leave

LEMMA StutterKeeps ==
  ASSUME SwapInv, UNCHANGED swapVars
  PROVE  SwapInv'
<1>1. UNCHANGED <<wallet, before, order, plan, pc>>
  BY DEF swapVars
<1>2. CASE Unplanned
  BY <1>1, <1>2 DEF Unplanned, SwapInv
<1>3. CASE Executing
  <2>1. \A do \in Does : Passed(do)' <=> Passed(do)
    BY <1>1 DEF Passed
  <2>2. Charged' = Charged /\ SetAside' = SetAside /\ (TradePassed' <=> TradePassed)
    BY <1>1, <2>1 DEF Charged, SetAside, TradePassed, AmountIf, Does
  <2>3. AccountsOpened' /\ Wrapped' /\ TokensMoved'
    BY <1>1, <1>3, <2>1, <2>2 DEF AccountsOpened, Wrapped, TokensMoved, Does, Executing
  <2>4. FundsMoved' /\ SolLeft'
    BY <1>1, <1>3, <2>1, <2>2 DEF FundsMoved, SolLeft, AmountIf, Does, Executing
  <2> QED
    BY <1>1, <1>3, <2>3, <2>4 DEF Executing, SwapInv
<1> QED
  BY <1>2, <1>3 DEF SwapInv

LEMMA SwapInvariance == SwapSpec => []SwapInv
<1>1. SwapInv /\ [SwapNext]_swapVars => SwapInv'
  <2> SUFFICES ASSUME SwapInv, [SwapNext]_swapVars
               PROVE  SwapInv'
    OBVIOUS
  <2>1. CASE Owner
    BY <2>1, MoveKeeps DEF Owner
  <2>2. CASE \E o \in Order : Build(o) \/ BuildFails(o)
    BY <2>2, BuildKeeps, BuildFailsKeeps
  <2>3. CASE Chain
    BY <2>3, ExtendingKeeps, OpenWsolKeeps, OpenAtaKeeps, WrappingKeeps, SyncingKeeps,
       BuyingKeeps, SellingKeeps, ClosingKeeps, PayingKeeps DEF Chain
  <2>4. CASE Commit \/ Abort \/ Forget
    BY <2>4, LeaveKeeps
  <2>5. CASE UNCHANGED swapVars
    BY <2>5, StutterKeeps
  <2> QED
    BY <2>1, <2>2, <2>3, <2>4, <2>5 DEF SwapNext
<1> QED
  BY <1>1, InitSwapInv, PTL DEF SwapSpec

-----------------------------------------------------------------------------
(* What follows.                                                           *)

\* NothingWrapped and the types: whatever the order and the wallet, a
\* transaction on the pool that went through leaves no SOL wrapped.
THEOREM NothingStaysWrapped == SwapSpec => []SwapConsistent
<1>1. SwapInv => SwapConsistent
  <2> SUFFICES ASSUME SwapInv
               PROVE  SwapConsistent
    OBVIOUS
  <2>1. SwapTypeOK
    <3>1. CASE Unplanned
      <4>1. <<>> \in Seq(Instruction) /\ Len(<<>>) = 0
        OBVIOUS
      <4> QED
        BY <3>1, <4>1 DEF Unplanned, SwapTypeOK, SwapInv
    <3>2. CASE Executing
      BY <3>2, ExecutingTyped DEF Executing, SwapTypeOK, SwapInv
    <3> QED
      BY <3>1, <3>2 DEF SwapInv
  <2>2. NothingWrapped
    <3> SUFFICES ASSUME Done, order.protocol = "PumpSwap"
                 PROVE  ~wallet.wsol /\ wallet.lamports = 0
      BY DEF NothingWrapped
    <3>1. Executing /\ ~Running
      BY ExecutingTyped DEF SwapInv, Unplanned, Done, Running
    <3>2. Passed("close")
      BY <3>1, PassedAll DEF Does, Has
    <3> QED
      BY <3>1, <3>2, Amounts DEF Executing, AccountsOpened, Wrapped
  <2> QED
    BY <2>1, <2>2 DEF SwapConsistent
<1> QED
  BY <1>1, SwapInvariance, PTL

\* A transaction that went through has cost no more, or brought no less, than
\* the order, its fee and the rent of a new token account say, for any amounts,
\* fees, wallets and prices of the market.
THEOREM PriceIsKept == SwapSpec => []PriceKept
<1>1. SwapInv => PriceKept
  <2> SUFFICES ASSUME SwapInv, Done
               PROVE  IF order.buy
                      THEN /\ Funds(before) <= Funds(wallet) + order.sol + order.fee
                                                 + (IF before.ata THEN 0 ELSE Rent)
                           /\ wallet.tokens = before.tokens + order.tokens
                      ELSE /\ Funds(wallet) + order.fee >= Funds(before) + order.sol
                           /\ wallet.tokens + order.tokens = before.tokens
    BY DEF PriceKept
  <2>1. Executing /\ ~Running
    BY ExecutingTyped DEF SwapInv, Unplanned, Done, Running
  <2>2. order.sol \in Nat /\ order.fee \in Nat /\ order.buy \in BOOLEAN
    BY <2>1, ExecutingTyped
  <2>3. /\ Passed("buy") <=> order.buy
        /\ Passed("sell") <=> ~order.buy
        /\ Passed("createAta") <=> order.buy
        /\ Passed("pay") <=> order.fee > 0
    BY <2>1, PassedAll DEF Does, Has
  <2>4. AmountIf(Passed("pay"), order.fee) = order.fee
    BY <2>2, <2>3 DEF AmountIf
  <2>5. CASE order.buy
    <3> DEFINE r == IF before.ata THEN 0 ELSE Rent
    <3>1. Charged = r + order.fee /\ r \in Nat
      BY <2>3, <2>4, <2>5 DEF Charged, AmountIf, Rent
    <3>2. Funds(before) <= Funds(wallet) + Charged + order.sol
      BY <2>1, <2>3, <2>5 DEF Executing, FundsMoved
    <3>3. wallet.tokens = before.tokens + order.tokens
      BY <2>1, <2>3, <2>5 DEF Executing, TokensMoved
    <3> HIDE DEF r
    <3>4. Funds(before) <= Funds(wallet) + order.sol + order.fee + r
      BY <2>2, <3>1, <3>2, Amounts
    <3> QED
      BY <2>5, <3>3, <3>4 DEF r
  <2>6. CASE ~order.buy
    <3>1. Charged = order.fee
      BY <2>2, <2>3, <2>4, <2>6 DEF Charged, AmountIf
    <3>2. Funds(wallet) + Charged >= Funds(before) + order.sol
      BY <2>1, <2>3, <2>6 DEF Executing, FundsMoved
    <3>3. wallet.tokens + order.tokens = before.tokens
      BY <2>1, <2>3, <2>6 DEF Executing, TokensMoved
    <3> QED
      BY <2>6, <3>1, <3>2, <3>3
  <2> QED
    BY <2>5, <2>6
<1> QED
  BY <1>1, SwapInvariance, PTL

\* A wallet that can pay for an order has no instruction of it refused, other
\* than by the market: each finds what the ones before it prepared.
THEOREM FundedRuns == SwapSpec => []RunsWhenFunded
<1>1. SwapInv => RunsWhenFunded
  <2> SUFFICES ASSUME SwapInv, Running, Payable(order, before),
                      order.protocol = "PumpSwap" => ~order.mayhem
               PROVE  Runnable
    BY DEF RunsWhenFunded
  <2>1. Executing
    BY Runs
  <2>2. /\ order.sol \in Nat /\ order.fee \in Nat /\ order.tokens \in Nat
        /\ order.buy \in BOOLEAN /\ order.protocol \in {"PumpFun", "PumpSwap"}
    BY <2>1, ExecutingTyped
  <2>3. /\ This.do \in Does /\ Has(order, This.do)
        /\ This = InstructionFor(order, This.do)
    BY <2>1, PassedBefore
  <2>4. /\ order.buy \/ order.protocol = "PumpSwap"
             => before.sol >= order.sol + order.fee + 2
        /\ before.sol >= order.fee + 2
        /\ order.buy \/ (before.ata /\ before.tokens >= order.tokens)
    BY <2>2, Amounts DEF Payable, Needs, Rent
  <2> DEFINE ata == AmountIf(Passed("createAta") /\ ~before.ata, Rent)
             fee == AmountIf(Passed("pay"), order.fee)
             wsol == AmountIf(Passed("createWsol") /\ ~before.wsol, Rent)
             sol == AmountIf(Passed("wrap"), order.sol)
             spent == AmountIf(Passed("buy") /\ order.protocol = "PumpFun", order.sol)
  <2>5. wallet.sol + (ata + fee) + (wsol + sol) + spent >= before.sol
    BY <2>1 DEF Executing, SolLeft, Charged, SetAside
  <2>6. ata \in 0 .. 1 /\ wsol \in 0 .. 1
    BY DEF AmountIf, Rent
  <2>7. fee \in Nat /\ sol \in Nat /\ spent \in Nat
    BY <2>2 DEF AmountIf
  <2>8. /\ wallet.wsol = ((before.wsol \/ Passed("createWsol")) /\ ~Passed("close"))
        /\ wallet.ata = (before.ata \/ Passed("createAta"))
    BY <2>1 DEF Executing, AccountsOpened
  <2>9. CASE This.do = "extend"
    BY <2>9 DEF Runnable
  <2>10. CASE This.do = "createWsol"
    <3>1. \A do \in Does : Passed(do) => do = "extend"
      BY <2>1, <2>10, PassedBefore, Ranks DEF Rank, Does
    <3>2. ata = 0 /\ fee = 0 /\ wsol = 0 /\ sol = 0 /\ spent = 0
      BY <3>1 DEF AmountIf, Does
    <3> HIDE DEF ata, fee, wsol, sol, spent
    <3>3. wallet.sol >= 1
      BY <3>2, <2>4, <2>5, <2>2, Amounts
    <3>4. This.program = "legacy"
      BY <2>1, <2>3, <2>10 DEF InstructionFor, CreateWsol, Has, Executing, Buildable
    <3> QED
      BY <2>10, <3>3, <3>4 DEF Runnable, Rent
  <2>11. CASE This.do = "wrap"
    <3>1. /\ \A do \in Does : Passed(do) => do \in {"extend", "createWsol"}
          /\ order.protocol = "PumpSwap"
      BY <2>1, <2>3, <2>11, PassedBefore, Ranks DEF Rank, Does, Has
    <3>2. ata = 0 /\ fee = 0 /\ sol = 0 /\ spent = 0
      BY <3>1 DEF AmountIf, Does
    <3>3. This.sol = order.sol
      BY <2>3, <2>11 DEF InstructionFor, Wrap
    <3> HIDE DEF ata, fee, wsol, sol, spent
    <3>4. wallet.sol >= order.sol
      BY <3>1, <3>2, <2>4, <2>5, <2>6, <2>2, Amounts
    <3> QED
      BY <2>11, <3>3, <3>4 DEF Runnable
  <2>12. CASE This.do = "sync"
    <3>1. Passed("createWsol") /\ ~Passed("close")
      BY <2>1, <2>3, <2>12, PassedBefore DEF Rank, Does, Has
    <3> QED
      BY <2>12, <3>1, <2>8 DEF Runnable
  <2>13. CASE This.do = "createAta"
    <3>1. /\ \A do \in Does : Passed(do) => do \in {"extend", "createWsol", "wrap", "sync"}
          /\ order.buy
      BY <2>1, <2>3, <2>13, PassedBefore, Ranks DEF Rank, Does, Has
    <3>2. ata = 0 /\ fee = 0 /\ spent = 0 /\ sol <= order.sol
      BY <3>1, <2>2 DEF AmountIf, Does
    <3> HIDE DEF ata, fee, wsol, sol, spent
    <3>3. wallet.sol >= 1
      BY <3>1, <3>2, <2>4, <2>5, <2>6, <2>7, <2>2, Amounts
    <3> QED
      BY <2>13, <3>3 DEF Runnable, Rent
  <2>14. CASE This.do \in {"buy", "sell"}
    <3>1. /\ This = Trade(order)
          /\ This.via = order.protocol /\ This.sol = order.sol /\ This.tokens = order.tokens
          /\ This.do = "buy" <=> order.buy
          /\ ~TradePassed /\ ~Passed("close") /\ ~Passed("pay")
          /\ \A do \in Does \ {"buy", "sell", "close", "pay"} : Passed(do) <=> Has(order, do)
      BY <2>1, <2>14, TradeInHand
    <3>2. FeeAccepted
      BY <3>1 DEF FeeAccepted, Trade, FeeAccount
    <3>3. order.protocol = "PumpSwap" =>
            Passed("createWsol") /\ Passed("wrap") /\ Passed("sync")
      BY <3>1 DEF Does, Has
    <3>4. order.protocol = "PumpSwap" => wallet.wsol /\ wallet.synced >= order.sol
      BY <3>1, <3>3, <2>1, <2>2, <2>8, Amounts DEF Executing, Wrapped
    <3>5. order.buy => wallet.ata
      BY <3>1, <2>8 DEF Does, Has
    <3>6. CASE order.buy
      <4>1. order.protocol = "PumpFun" => wallet.sol >= order.sol
        <5> SUFFICES ASSUME order.protocol = "PumpFun"
                     PROVE  wallet.sol >= order.sol
          OBVIOUS
        <5>1. fee = 0 /\ wsol = 0 /\ sol = 0 /\ spent = 0
          BY <3>1 DEF AmountIf, Does, Has, TradePassed
        <5> HIDE DEF ata, fee, wsol, sol, spent
        <5> QED
          BY <3>6, <5>1, <2>4, <2>5, <2>6, <2>2, Amounts
      <4>2. Affords(This.sol)
        BY <3>1, <3>4, <3>5, <3>6, <4>1, <2>2 DEF Affords
      <4> QED
        BY <3>1, <3>2, <3>6, <4>2, <2>14 DEF Runnable
    <3>7. CASE ~order.buy
      <4>1. wallet.ata
        BY <3>7, <2>4, <2>8
      <4>2. wallet.tokens >= order.tokens
        BY <3>1, <3>7, <2>1, <2>2, <2>4, Amounts DEF Executing, TokensMoved
      <4> QED
        BY <3>1, <3>2, <3>4, <3>7, <4>1, <4>2, <2>14 DEF Runnable
    <3> QED
      BY <3>6, <3>7
  <2>15. CASE This.do = "close"
    <3>1. Passed("createWsol") /\ ~Passed("close")
      BY <2>1, <2>3, <2>15, PassedBefore DEF Rank, Does, Has
    <3> QED
      BY <2>15, <3>1, <2>8 DEF Runnable
  <2>16. CASE This.do = "pay"
    <3>1. /\ ~Passed("pay")
          /\ Passed("createAta") <=> order.buy
          /\ Passed("buy") <=> order.buy
          /\ Passed("createWsol") <=> order.protocol = "PumpSwap"
          /\ Passed("wrap") <=> order.protocol = "PumpSwap"
      BY <2>1, <2>16, PassedBefore DEF Rank, Does, Has
    <3>2. /\ fee = 0
          /\ order.protocol = "PumpFun" => wsol = 0 /\ sol = 0
          /\ order.protocol = "PumpSwap" => sol = order.sol /\ spent = 0
          /\ order.protocol = "PumpFun" /\ ~order.buy => spent = 0
          /\ spent <= order.sol
      BY <3>1, <2>2 DEF AmountIf
    <3>3. This.sol = order.fee
      BY <2>3, <2>16 DEF InstructionFor, Pay
    <3> HIDE DEF ata, fee, wsol, sol, spent
    <3>4. wallet.sol >= order.fee
      <4>1. CASE order.protocol = "PumpSwap"
        BY <4>1, <3>2, <2>4, <2>5, <2>6, <2>7, <2>2, Amounts
      <4>2. CASE order.protocol = "PumpFun"
        BY <4>2, <3>2, <2>4, <2>5, <2>6, <2>7, <2>2, Amounts
      <4> QED
        BY <4>1, <4>2, <2>2
    <3> QED
      BY <2>16, <3>3, <3>4 DEF Runnable
  <2> QED
    BY <2>3, <2>9, <2>10, <2>11, <2>12, <2>13, <2>14, <2>15, <2>16 DEF Does
<1> QED
  BY <1>1, SwapInvariance, PTL
=============================================================================
