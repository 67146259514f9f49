------------------------------- MODULE Hermes -------------------------------
(***************************************************************************)
(* Hermes (hermes/src/lib.rs): the only writer of orders and transactions. *)
(* The trades queue their commands and go on; Hermes handles one command   *)
(* at a time, and a command whose query fails is logged and lost.          *)
(*                                                                         *)
(* A row of position_order is its status and the number of sales booked on *)
(* it; order_tx is keyed by signature, and a signature that is in use      *)
(* keeps its order and takes the new status.  The log table, and the       *)
(* second try of an update that finds no row, are left out: the API        *)
(* commits an order before it tells the backend.                           *)
(***************************************************************************)
EXTENDS Integers, Sequences

CONSTANTS Order,
          Signature,    \* of transactions, and the one that stands for none
          MaxRefused    \* bound: how many queries of an order fail by chance

\* Hermes inserts a slot, and the trigger on updates of the table sets
\* updated_at.
InsertColumns == {"slot"}
TriggerColumns == {"updated_at"}

ASSUME HermesAssumption == MaxRefused \in Nat

VARIABLES columns,    \* those of the columns above that order_tx really has
          queue,      \* commands that were sent and are not handled
          row,        \* position_order, by id
          txs,        \* order_tx, by signature
          refused     \* how many commands of each order were lost

hermesVars == <<columns, queue, row, txs, refused>>

Status == {"CREATED", "COMPLETED", "FAILED", "DELETED"}

UpdateOrderStatus(o, status) ==
    [kind |-> "status", order |-> o, status |-> status]
LogTransaction(sig, o, status) ==
    [kind |-> "tx", sig |-> sig, order |-> o, status |-> status]
IncrementOrderAmounts(o) == [kind |-> "amounts", order |-> o]

\* The table as api/db/tables.sql creates it has none; a database may have been
\* altered since.
HermesInit == /\ columns \in SUBSET (InsertColumns \cup TriggerColumns)
              /\ queue = <<>>
              /\ row = [o \in Order |-> [status |-> "CREATED", booked |-> 0]]
              /\ txs = <<>>
              /\ refused = [o \in Order |-> 0]

Tell(commands) == /\ queue' = queue \o commands
                  /\ UNCHANGED <<columns, row, txs, refused>>

Cmd == Head(queue)

TakeCommand(kind) == /\ queue # <<>>
                     /\ Cmd.kind = kind
                     /\ queue' = Tail(queue)

-----------------------------------------------------------------------------
HandleStatus == /\ TakeCommand("status")
                /\ row' = [row EXCEPT ![Cmd.order].status = Cmd.status]
                /\ UNCHANGED <<columns, txs, refused>>

\* The table takes the row: an INSERT needs its columns, and one that turns
\* into an UPDATE fires the trigger as well.
Fits(sig) == /\ InsertColumns \subseteq columns
             /\ sig \in DOMAIN txs => TriggerColumns \subseteq columns

Upsert(sig, o, status) ==
    [s \in DOMAIN txs \cup {sig} |->
       IF s # sig THEN txs[s]
       ELSE [order |-> IF sig \in DOMAIN txs THEN txs[sig].order ELSE o,
             status |-> status]]

HandleTransaction == /\ TakeCommand("tx")
                     /\ Fits(Cmd.sig)
                     /\ txs' = Upsert(Cmd.sig, Cmd.order, Cmd.status)
                     /\ UNCHANGED <<columns, row, refused>>

\* A one-shot's trade is all of its order (set_as_complete).
HandleAmounts == /\ TakeCommand("amounts")
                 /\ row' = [row EXCEPT ![Cmd.order] =
                              [status |-> "COMPLETED", booked |-> @.booked + 1]]
                 /\ UNCHANGED <<columns, txs, refused>>

\* The table does not fit, or the database does not answer.
Refuse == /\ queue # <<>>
          /\ \/ Cmd.kind = "tx" /\ ~Fits(Cmd.sig)
             \/ refused[Cmd.order] < MaxRefused
          /\ queue' = Tail(queue)
          /\ refused' = [refused EXCEPT ![Cmd.order] = @ + 1]
          /\ UNCHANGED <<columns, row, txs>>

HermesNext == HandleStatus \/ HandleTransaction \/ HandleAmounts \/ Refuse
=============================================================================
