--------------------------- MODULE AutomationOrder ---------------------------
(***************************************************************************)
(* From an agent's decision to an order (application/automation.py,         *)
(* automation_store.py): a run records decisions and may order by itself,   *)
(* a user confirms or rejects them one by one or together, and a settlement *)
(* fills what waits for the next open.                                      *)
(*                                                                         *)
(* A decision is one JSON column: update_decision reads it and writes all   *)
(* of it.  Only runs and settlements take the account's lock, confirmations *)
(* and rejections do not.  create_order, fill_order and cancel_order are    *)
(* single steps here; SimulationAccount has what happens inside of them.    *)
(***************************************************************************)
EXTENDS Naturals, FiniteSets

CONSTANTS
    Decisions,      \* what the run decides, one per symbol
    Callers,        \* users and runs at work at once
    Deployed,       \* is the automation bound to a deployed strategy?
    Execution,      \* "paper", "external" (file broker) or "live"
    Mode,           \* "confirm" or "auto"
    FillTime,       \* "same_close", "next_open" or "manual"
    MaxOrders,      \* max_orders_per_run
    MaxAttempts,    \* bound on the orders with fresh identifiers per decision
    Limit           \* what a behaviour may contain: user requests, settlements, crashes

AutomationOrderAssumption ==
    /\ Deployed \in BOOLEAN /\ Execution \in {"paper", "external", "live"}
    /\ Mode \in {"confirm", "auto"} /\ FillTime \in {"same_close", "next_open", "manual"}
    /\ Deployed => Execution = "paper"
    /\ MaxOrders \in Nat /\ MaxAttempts \in Nat \ {0}
    /\ Limit \in [requests : Nat, settlements : Nat, crashes : Nat]

OrderIds == [decision : Decisions, attempt : 1..MaxAttempts]
NoOrder == {}
OrderStatuses == {"none", "pending", "filled", "cancelled", "rejected"}
Risks == {"approved", "rejected", "pending"}
Confirmations == {"none", "pending", "confirmed", "rejected", "expired"}
Audits == [there : BOOLEAN, proposed : BOOLEAN, risk : Risks, confirmation : Confirmations,
           order : SUBSET OrderIds]
Phases == {"idle", "work", "submit", "broker", "fill", "live", "update", "write", "add", "next", "settle"}

VARIABLES
    audit,      \* per decision, its row
    orders,     \* the status of each order
    sent,       \* per decision, the requests that may have reached the live broker
    made,       \* orders the run counted
    today,      \* is it still the day of the run?
    started,    \* has the run started?
    call,       \* the calls under way
    used        \* the spent part of Limit
vars == <<audit, orders, sent, made, today, started, call, used>>

NoAudit == [there |-> FALSE, proposed |-> FALSE, risk |-> "pending", confirmation |-> "none",
            order |-> NoOrder]
\* A call: where it stands, whose it is, the decision it is about, the row it
\* read, whether it carries out the proposal of a deployed strategy, what it
\* found out about risk and order, and what it has still to do.
Idle == [at |-> "idle", kind |-> "user", about |-> {}, row |-> NoAudit, planned |-> FALSE,
         risk |-> "approved", order |-> NoOrder, confirmation |-> "none", todo |-> {}]

Init ==
    /\ audit = [d \in Decisions |-> NoAudit]
    /\ orders = [o \in OrderIds |-> "none"]
    /\ sent = [d \in Decisions |-> 0]
    /\ made = 0 /\ today = TRUE /\ started = FALSE
    /\ call = [c \in Callers |-> Idle]
    /\ used = [requests |-> 0, settlements |-> 0, crashes |-> 0]

At(c, phase) == call[c].at = phase
To(c, next) == call' = [call EXCEPT ![c] = next]
Goes(c, phase) == To(c, [call[c] EXCEPT !.at = phase])
Spend(what) == used[what] < Limit[what] /\ used' = [used EXCEPT ![what] = @ + 1]
\* A call is done with a decision: a run and a confirm_run go on to the next.
Done(c) ==
    To(c, [call[c] EXCEPT !.at = IF call[c].kind = "run" THEN "work" ELSE "next", !.about = {}])
Outcome(c, risk, order) == [call[c] EXCEPT !.risk = risk, !.order = order]
Env == <<today, started, used>>

-----------------------------------------------------------------------------
\* The run.  A deployed strategy records the decision and then orders.
StartRun(c) ==
    /\ At(c, "idle") /\ ~started /\ started' = TRUE
    /\ To(c, [Idle EXCEPT !.at = "work", !.kind = "run", !.planned = Deployed,
                         !.todo = Decisions])
    /\ UNCHANGED <<audit, orders, sent, made, today, used>>
Add(d, row) == audit' = [audit EXCEPT ![d] = row]
PastLimit == made <= MaxOrders
WithinLimit == made < MaxOrders
Propose(c, d, approved, proposed) ==
    /\ Deployed /\ At(c, "work") /\ d \in call[c].todo
    /\ proposed => approved
    /\ Add(d, [there |-> TRUE, proposed |-> proposed, risk |-> IF approved THEN "approved" ELSE "rejected",
               confirmation |-> IF proposed /\ Mode = "confirm" THEN "pending" ELSE "none",
               order |-> NoOrder])
    /\ LET next == [call[c] EXCEPT !.about = {d}, !.todo = @ \ {d}]
       IN IF ~proposed \/ Mode # "auto" THEN To(c, [next EXCEPT !.about = {}])
          ELSE IF WithinLimit THEN To(c, [next EXCEPT !.at = "submit"])
          ELSE To(c, [next EXCEPT !.at = "update", !.risk = "rejected", !.order = NoOrder])
    /\ UNCHANGED <<orders, sent, made, Env>>
\* Without a deployment it orders first and records what became of it.
Decide(c, d) ==
    /\ ~Deployed /\ At(c, "work") /\ d \in call[c].todo
    /\ To(c, [call[c] EXCEPT !.about = {d}, !.todo = @ \ {d}, !.order = NoOrder,
                !.at = IF Mode = "auto" /\ WithinLimit THEN "submit" ELSE "add",
                !.risk = IF Mode = "auto" THEN "rejected" ELSE "approved"])
    /\ UNCHANGED <<audit, orders, sent, made, Env>>
AddDecision(c, d) ==
    /\ At(c, "add") /\ d \in call[c].about
    /\ Add(d, [NoAudit EXCEPT !.there = TRUE, !.risk = call[c].risk, !.order = call[c].order])
    /\ Done(c)
    /\ UNCHANGED <<orders, sent, made, Env>>
EndRun(c) ==
    /\ At(c, "work") /\ call[c].todo = {} /\ To(c, Idle)
    /\ UNCHANGED <<audit, orders, sent, made, Env>>

-----------------------------------------------------------------------------
\* The identifier of an order: drawn from the decision when a proposal is
\* carried out, otherwise a fresh one.
Attempts(d) == Cardinality({o \in OrderIds : o.decision = d /\ orders[o] # "none"})
FreshId(c, d) == [decision |-> d, attempt |-> Attempts(d) + 1]
IdOf(c, d) == IF call[c].planned THEN [decision |-> d, attempt |-> 1] ELSE FreshId(c, d)

\* What follows once risk and order are known.  A run counts its orders.
Known(c) == IF call[c].kind = "run" /\ ~Deployed THEN "add" ELSE "update"
Count(c) == made' = IF call[c].kind = "run" THEN made + 1 ELSE made

\* No order comes of it: the limits of the account refuse, or an agent said to
\* hold.  A user who confirms a proposal gets an error and nothing is recorded.
Refuse(c) ==
    /\ At(c, "submit")
    /\ IF call[c].planned /\ call[c].kind = "user" THEN Done(c)
       ELSE \E risk \in {"rejected", "approved"} :
              /\ call[c].planned => risk = "rejected"
              /\ To(c, [Outcome(c, risk, NoOrder) EXCEPT !.at = Known(c)])
    /\ UNCHANGED <<audit, orders, sent, made, Env>>

\* create_order, idempotent for a given identifier, and what follows it: the
\* file broker, a fill at the close, or a fill by hand on confirmation.
FillsAtOnce(c) ==
    \/ FillTime = "same_close"
    \/ FillTime = "manual" /\ call[c].kind = "user" /\ ~call[c].planned
CreateOrder(c, d) ==
    /\ Execution # "live" /\ At(c, "submit") /\ d \in call[c].about
    /\ IdOf(c, d) \in OrderIds
    /\ LET o == IdOf(c, d)
           fills == FillsAtOnce(c) /\ orders[o] \in {"none", "pending"}
       IN /\ orders' = [orders EXCEPT ![o] = IF @ = "none" THEN "pending" ELSE @]
          /\ To(c, [Outcome(c, IF orders[o] \in {"cancelled", "rejected"} THEN "rejected" ELSE "approved", {o})
                      EXCEPT !.at = IF Execution = "external" THEN "broker"
                                    ELSE IF fills THEN "fill" ELSE Known(c)])
          /\ IF fills /\ Execution = "paper" THEN UNCHANGED made ELSE Count(c)
    /\ UNCHANGED <<audit, sent, Env>>
SubmitToBroker(c, o) ==
    /\ At(c, "broker") /\ o \in call[c].order
    /\ \/ Goes(c, Known(c)) /\ UNCHANGED orders
       \/ /\ orders' = [orders EXCEPT ![o] = IF @ = "pending" THEN "cancelled" ELSE @]
          /\ To(c, [call[c] EXCEPT !.at = Known(c), !.risk = "rejected"])
    /\ UNCHANGED <<audit, sent, made, Env>>
\* fill_order raises unless the order is pending; of the callers, only the run
\* of a deployed strategy records that.
Fill(c, o) ==
    /\ At(c, "fill") /\ o \in call[c].order /\ orders[o] = "pending"
    /\ \E s \in {"filled", "rejected"} :
          /\ orders' = [orders EXCEPT ![o] = s]
          /\ To(c, [call[c] EXCEPT !.at = Known(c), !.risk = IF s = "filled" THEN @ ELSE s])
    /\ Count(c)
    /\ UNCHANGED <<audit, sent, Env>>
FillRaises(c, o) ==
    /\ At(c, "fill") /\ o \in call[c].order /\ orders[o] # "pending"
    /\ IF Deployed /\ call[c].kind = "run"
       THEN To(c, [Outcome(c, "rejected", NoOrder) EXCEPT !.at = "update"]) ELSE Done(c)
    /\ UNCHANGED <<audit, orders, sent, made, Env>>

\* _execute_live_decision: a request that may have reached the broker keeps its
\* identifier in the decision, also when its outcome is unknown.
ForgetsUnknown(d, risk) == IF risk = "pending" THEN NoOrder ELSE {[decision |-> d, attempt |-> 1]}
LiveId(d, risk) == {[decision |-> d, attempt |-> 1]}
SubmitLive(c, d) ==
    /\ Execution = "live" /\ At(c, "submit") /\ d \in call[c].about
    /\ \/ To(c, [Outcome(c, "rejected", NoOrder) EXCEPT !.at = Known(c)]) /\ UNCHANGED <<sent, made>>
       \/ /\ sent' = [sent EXCEPT ![d] = @ + 1]
          /\ \E risk \in Risks :
                To(c, [Outcome(c, risk, LiveId(d, risk)) EXCEPT !.at = Known(c)])
          /\ Count(c)
    /\ UNCHANGED <<audit, orders, Env>>

\* update_decision.
Update(c, d) ==
    /\ At(c, "update") /\ d \in call[c].about
    /\ To(c, [call[c] EXCEPT !.at = "write", !.row = audit[d]])
    /\ UNCHANGED <<audit, orders, sent, made, Env>>
ConfirmedAlways(c) ==
    [call[c].row EXCEPT !.risk = "confirmed", !.order = call[c].order]
DropsOrder(c) == [call[c].row EXCEPT !.risk = call[c].risk, !.confirmation = "confirmed"]
Written(c) ==
    CASE call[c].kind = "reject" -> [call[c].row EXCEPT !.confirmation = "rejected"]
      [] call[c].kind # "reject" /\ call[c].planned /\ call[c].order # NoOrder ->
            [call[c].row EXCEPT !.risk = call[c].risk, !.order = call[c].order, !.confirmation = "confirmed"]
      [] call[c].kind # "reject" /\ call[c].planned /\ call[c].order = NoOrder ->
            [call[c].row EXCEPT !.risk = call[c].risk, !.confirmation =
                IF call[c].confirmation = "expired" THEN "expired" ELSE @]
      [] OTHER -> [call[c].row EXCEPT !.risk = call[c].risk, !.order = call[c].order]
Write(c, d) ==
    /\ At(c, "write") /\ d \in call[c].about
    /\ Add(d, Written(c)) /\ Done(c)
    /\ UNCHANGED <<orders, sent, made, Env>>

-----------------------------------------------------------------------------
\* confirm_decision: refused for a rejected decision, answered with the row
\* once there is an order, expired when its close has passed.
Reorderable(row) == row.risk # "rejected" /\ row.confirmation # "rejected"
Orderable(row) == row.risk # "rejected" /\ row.confirmation # "rejected" /\ row.order = NoOrder
Expired(d) == Deployed /\ audit[d].proposed /\ FillTime = "same_close" /\ ~today
Confirmed(c, d) ==
    [call[c] EXCEPT !.about = {d}, !.planned = Deployed /\ audit[d].proposed, !.order = NoOrder,
        !.at = IF Expired(d) THEN "update" ELSE "submit",
        !.risk = IF Expired(d) THEN "rejected" ELSE "approved",
        !.confirmation = IF Expired(d) THEN "expired" ELSE "none"]
Confirm(c, d) ==
    /\ At(c, "idle") /\ audit[d].there /\ Orderable(audit[d])
    /\ Spend("requests")
    /\ call' = [call EXCEPT ![c] = Confirmed(c, d)]
    /\ UNCHANGED <<audit, orders, sent, made, today, started>>
\* confirm_run: one after the other, what was pending when it looked.
Waiting == {d \in Decisions : audit[d].proposed /\ audit[d].confirmation = "pending" /\ audit[d].order = NoOrder}
ConfirmRun(c) ==
    /\ At(c, "idle") /\ Spend("requests")
    /\ \E todo \in SUBSET Waiting :
          /\ Cardinality(todo) = IF Cardinality(Waiting) < MaxOrders THEN Cardinality(Waiting) ELSE MaxOrders
          /\ To(c, [Idle EXCEPT !.at = "next", !.todo = todo])
    /\ UNCHANGED <<audit, orders, sent, made, today, started>>
NextOfRun(c) ==
    /\ At(c, "next")
    /\ \/ call[c].todo = {} /\ To(c, Idle)
       \/ \E d \in call[c].todo :
            To(c, [(IF Orderable(audit[d]) THEN Confirmed(c, d) ELSE call[c]) EXCEPT !.todo = @ \ {d}])
    /\ UNCHANGED <<audit, orders, sent, made, Env>>

\* reject_decision.
Rejectable(row) == row.order = NoOrder /\ row.confirmation = "pending"
Reject(c, d) ==
    /\ At(c, "idle") /\ audit[d].there /\ Rejectable(audit[d]) /\ Spend("requests")
    /\ To(c, [Idle EXCEPT !.at = "update", !.kind = "reject", !.about = {d}])
    /\ UNCHANGED <<audit, orders, sent, made, today, started>>

\* _settle_account: the orders that waited for the open when it looked; one that
\* was decided since ends the settlement.
Settle(c) ==
    /\ Execution = "paper" /\ FillTime = "next_open"
    /\ At(c, "idle") /\ Spend("settlements")
    /\ To(c, [Idle EXCEPT !.at = "settle", !.order = {o \in OrderIds : orders[o] = "pending"}])
    /\ UNCHANGED <<audit, orders, sent, made, today, started>>
SettleNext(c) ==
    /\ At(c, "settle")
    /\ \/ call[c].order = {} /\ To(c, Idle) /\ UNCHANGED orders
       \/ \E o \in call[c].order :
            \/ /\ orders[o] = "pending"
               /\ \E s \in {"filled", "rejected"} : orders' = [orders EXCEPT ![o] = s]
               /\ To(c, [call[c] EXCEPT !.order = @ \ {o}])
            \/ orders[o] # "pending" /\ To(c, Idle) /\ UNCHANGED orders
    /\ UNCHANGED <<audit, sent, made, Env>>

\* The user cancels an order; the day of the run ends; a process dies.
CancelOrder(o) ==
    /\ orders[o] = "pending" /\ Spend("requests")
    /\ orders' = [orders EXCEPT ![o] = "cancelled"]
    /\ UNCHANGED <<audit, sent, made, today, started, call>>
DayEnds ==
    /\ today /\ today' = FALSE
    /\ UNCHANGED <<audit, orders, sent, made, started, call, used>>
Crash(c) ==
    /\ ~At(c, "idle") /\ Spend("crashes") /\ To(c, Idle)
    /\ UNCHANGED <<audit, orders, sent, made, today, started>>

Next ==
    \/ \E c \in Callers :
         \/ StartRun(c) \/ EndRun(c) \/ Refuse(c) \/ ConfirmRun(c) \/ NextOfRun(c)
         \/ Settle(c) \/ SettleNext(c) \/ Crash(c)
         \/ \E d \in Decisions :
              \/ \E approved, proposed \in BOOLEAN : Propose(c, d, approved, proposed)
              \/ Decide(c, d) \/ AddDecision(c, d) \/ CreateOrder(c, d) \/ SubmitLive(c, d)
              \/ Update(c, d) \/ Write(c, d) \/ Confirm(c, d) \/ Reject(c, d)
         \/ \E o \in OrderIds : SubmitToBroker(c, o) \/ Fill(c, o) \/ FillRaises(c, o)
    \/ \E o \in OrderIds : CancelOrder(o)
    \/ DayEnds

Spec == Init /\ [][Next]_vars

-----------------------------------------------------------------------------
\* Every variable has its type.
TypeOK ==
    /\ audit \in [Decisions -> Audits]
    /\ orders \in [OrderIds -> OrderStatuses]
    /\ sent \in [Decisions -> Nat] /\ made \in Nat
    /\ today \in BOOLEAN /\ started \in BOOLEAN
    /\ \A c \in Callers : call[c].at \in Phases /\ call[c].row \in Audits
    /\ used \in [requests : Nat, settlements : Nat, crashes : Nat]

\* The identifier of _submit_proposal: a proposal gets one order at most,
\* however often it is confirmed, at once or again after a crash.
OneOrder == Deployed => \A d \in Decisions : audit[d].proposed => Attempts(d) <= 1

\* As long as calls take turns and none is cut short, an order that is open or
\* filled is named by its decision, or will be by the call that created it.
Alive(o) == orders[o] \in {"pending", "filled"}
OrderIsRecorded ==
    \A o \in OrderIds : Alive(o) =>
        o \in audit[o.decision].order \/ \E c \in Callers : o \in call[c].order

\* As long as calls take turns and none is cut short, a run that orders by
\* itself leaves max_orders_per_run orders at most, whatever a user does with
\* its decisions.
WithinOrderLimit ==
    Deployed /\ Mode = "auto" =>
        Cardinality({d \in Decisions : audit[d].proposed /\ \E o \in OrderIds : o.decision = d /\ Alive(o)})
            <= MaxOrders

\* As long as calls take turns and none is cut short, a decision is sent to the
\* live broker once, also when the outcome of the request is unknown.
SentOnce == \A d \in Decisions : sent[d] <= 1

-----------------------------------------------------------------------------
\* What a message of the code says and two users at once refute: a decision
\* that has an order "cannot be rejected" (reject_decision), and one that was
\* rejected "cannot be confirmed" (confirm_decision).
RejectedHasNoOrder ==
    \A d \in Decisions : audit[d].confirmation = "rejected" => \A o \in OrderIds : o.decision = d => ~Alive(o)
=============================================================================
