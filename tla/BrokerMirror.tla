------------------------------ MODULE BrokerMirror ------------------------------
(***************************************************************************)
(* An account that mirrors a simulation terminal: orders and cancellations  *)
(* are files that the terminal picks up, and a synchronisation reads the    *)
(* files it writes, one after the other, into the local account             *)
(* (engine/broker_adapters.py: EastmoneyFileBroker;                         *)
(* engine/simulation_account.py: apply_external_snapshot).                  *)
(*                                                                         *)
(* The terminal is modelled from what the adapter reads.  An order is       *)
(* executed in up to Parts parts; a position is how many executions of each *)
(* order made it.                                                           *)
(***************************************************************************)
EXTENDS Naturals

CONSTANTS Orders, Syncs, Parts

Executions == Orders \X (1..Parts)

VARIABLES
    local,      \* the status of the order rows
    inbox,      \* the command files the terminal has not read
    remote,     \* the status of the orders at the terminal, "none" for unknown ones
    executed,   \* how many parts of an order are executed
    account,    \* the document: its position, and how often it has each execution
    sync        \* each synchronisation: where it is, what it read, the document it
                \* changes, and whether nothing else happened since it began
vars == <<local, inbox, remote, executed, account, sync>>

NoExecutions == [o \in Orders |-> 0]
Unread == [pc |-> "idle", position |-> NoExecutions, orders |-> [o \in Orders |-> "none"], done |-> {},
           seen |-> {}, trades |-> [e \in Executions |-> 0], alone |-> TRUE]
Init ==
    /\ local = [o \in Orders |-> "none"] /\ inbox = {}
    /\ remote = [o \in Orders |-> "none"] /\ executed = NoExecutions
    /\ account = [position |-> NoExecutions, trades |-> [e \in Executions |-> 0]]
    /\ sync = [s \in Syncs |-> Unread]

Disturbed == [s \in Syncs |-> [sync[s] EXCEPT !.alone = FALSE]]
DisturbedBy(c, next) ==
    [s \in Syncs |-> IF s = c THEN next ELSE [sync[s] EXCEPT !.alone = FALSE]]

-----------------------------------------------------------------------------
\* create_order: the row first, then the file; a broker that is not ready has its
\* order cancelled.
Create(o) ==
    /\ local[o] = "none" /\ local' = [local EXCEPT ![o] = "pending"]
    /\ sync' = Disturbed /\ UNCHANGED <<inbox, remote, executed, account>>
Submitted(o) == <<"order", o>> \in inbox \/ remote[o] # "none"
Submit(o) ==
    /\ local[o] = "pending" /\ ~Submitted(o) /\ inbox' = inbox \cup {<<"order", o>>}
    /\ sync' = Disturbed /\ UNCHANGED <<local, remote, executed, account>>
Unavailable(o) ==
    /\ local[o] = "pending" /\ ~Submitted(o) /\ local' = [local EXCEPT ![o] = "cancelled"]
    /\ sync' = Disturbed /\ UNCHANGED <<inbox, remote, executed, account>>
\* cancel_order: the file first, then the row if it is still pending.
CommandCancel(o) ==
    /\ local[o] # "none" /\ <<"cancel", o>> \notin inbox
    /\ inbox' = inbox \cup {<<"cancel", o>>}
    /\ sync' = Disturbed /\ UNCHANGED <<local, remote, executed, account>>
CancelRow(o) ==
    /\ local[o] = "pending" /\ local' = [local EXCEPT ![o] = "cancelled"]
    /\ sync' = Disturbed /\ UNCHANGED <<inbox, remote, executed, account>>

\* The terminal reads commands in any order and executes what is open.
Accept(o, status) ==
    /\ <<"order", o>> \in inbox /\ inbox' = inbox \ {<<"order", o>>}
    /\ remote' = [remote EXCEPT ![o] = status]
    /\ sync' = Disturbed /\ UNCHANGED <<local, executed, account>>
AcceptCancel(o) ==
    /\ <<"cancel", o>> \in inbox /\ inbox' = inbox \ {<<"cancel", o>>}
    /\ remote' = [remote EXCEPT ![o] = IF @ = "open" THEN "cancelled" ELSE @]
    /\ sync' = Disturbed /\ UNCHANGED <<local, executed, account>>
Execute(o) ==
    /\ remote[o] = "open" /\ executed' = [executed EXCEPT ![o] = @ + 1]
    /\ remote' = [remote EXCEPT ![o] = IF executed'[o] = Parts THEN "filled" ELSE @]
    /\ sync' = Disturbed /\ UNCHANGED <<local, inbox, account>>

-----------------------------------------------------------------------------
\* sync: cash and positions, then the statuses, then the executions.
At(s, pc) == sync[s].pc = pc
ReadPosition(s) ==
    /\ At(s, "idle")
    /\ sync' = DisturbedBy(s, [Unread EXCEPT !.pc = "orders", !.position = executed])
    /\ UNCHANGED <<local, inbox, remote, executed, account>>
ReadOrders(s) ==
    /\ At(s, "orders")
    /\ sync' = DisturbedBy(s, [sync[s] EXCEPT !.pc = "executions", !.orders = remote])
    /\ UNCHANGED <<local, inbox, remote, executed, account>>
NewTrade(before, reported) == before + reported
Traded(before, reported) == IF before > 0 THEN before ELSE reported
ReadExecutions(s) ==
    /\ At(s, "executions")
    /\ sync' = DisturbedBy(s, [sync[s] EXCEPT
          !.pc = "load", !.seen = {e \in Executions : e[2] <= executed[e[1]]}])
    /\ UNCHANGED <<local, inbox, remote, executed, account>>
\* apply_external_snapshot loads the document and adds the trades it lacks.
Load(s) ==
    /\ At(s, "load")
    /\ sync' = DisturbedBy(s, [sync[s] EXCEPT
          !.pc = "reconcile",
          !.trades = [e \in Executions |-> Traded(account.trades[e], IF e \in sync[s].seen THEN 1 ELSE 0)]])
    /\ UNCHANGED <<local, inbox, remote, executed, account>>

\* _reconcile_external_orders, one order after the other: status_map, and a row
\* takes the status it is told.
StatusOf(status) == IF status = "open" THEN "pending" ELSE status
Reconcile(s, o) ==
    /\ At(s, "reconcile") /\ o \notin sync[s].done
    /\ local' = IF sync[s].orders[o] = "none" THEN local
                ELSE [local EXCEPT ![o] = StatusOf(sync[s].orders[o])]
    /\ sync' = DisturbedBy(s, [sync[s] EXCEPT !.done = @ \cup {o}])
    /\ UNCHANGED <<inbox, remote, executed, account>>
Save(s) ==
    /\ At(s, "reconcile") /\ sync[s].done = Orders
    /\ account' = [position |-> sync[s].position, trades |-> sync[s].trades]
    /\ sync' = DisturbedBy(s, [sync[s] EXCEPT !.pc = "saved"])
    /\ UNCHANGED <<local, inbox, remote, executed>>
\* The end of a synchronisation, or its failure.
Over(s) ==
    /\ ~At(s, "idle") /\ sync' = [sync EXCEPT ![s] = Unread]
    /\ UNCHANGED <<local, inbox, remote, executed, account>>

Next ==
    \/ \E o \in Orders :
          \/ Create(o) \/ Submit(o) \/ Unavailable(o) \/ CommandCancel(o) \/ CancelRow(o)
          \/ \E status \in {"open", "rejected"} : Accept(o, status)
          \/ AcceptCancel(o) \/ Execute(o)
    \/ \E s \in Syncs :
          \/ ReadPosition(s) \/ ReadOrders(s) \/ ReadExecutions(s) \/ Load(s)
          \/ \E o \in Orders : Reconcile(s, o)
          \/ Save(s) \/ Over(s)

Spec == Init /\ [][Next]_vars

-----------------------------------------------------------------------------
\* Every variable has its type.
TypeOK ==
    /\ local \in [Orders -> {"none", "pending", "filled", "cancelled", "rejected"}]
    /\ inbox \subseteq {"order", "cancel"} \X Orders
    /\ remote \in [Orders -> {"none", "open", "filled", "cancelled", "rejected"}]
    /\ executed \in [Orders -> 0..Parts]

\* However synchronisations overlap, the account has no trade twice and none that
\* was not executed, and no order says it is filled that is not.
NothingInvented ==
    /\ \A e \in Executions : account.trades[e] <= (IF e[2] <= executed[e[1]] THEN 1 ELSE 0)
    /\ \A o \in Orders : account.position[o] <= executed[o]
    /\ \A o \in Orders : local[o] = "filled" => remote[o] = "filled"

\* A synchronisation that nothing interrupts leaves the mirror equal to the
\* terminal, whatever the ones before it left.
MirrorsTheTerminal ==
    \A s \in Syncs : At(s, "saved") /\ sync[s].alone =>
        /\ account.position = executed
        /\ \A e \in Executions : account.trades[e] = (IF e[2] <= executed[e[1]] THEN 1 ELSE 0)
        /\ \A o \in Orders : remote[o] # "none" => local[o] = StatusOf(remote[o])

\* A mirror invents nothing, and an undisturbed synchronisation makes it equal.
MirrorIsFaithful == NothingInvented /\ MirrorsTheTerminal
=============================================================================
