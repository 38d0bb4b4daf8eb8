-------------------------- MODULE SimulationAccount --------------------------
(***************************************************************************)
(* One simulated account of the internal broker                             *)
(* (engine/simulation_account.py, api/routers/portfolio.py): a document     *)
(* that every request reads, changes and writes back whole, and a row per   *)
(* order.  A call is suspended between any two statements, where other      *)
(* calls, or the end of its process, come in between.                       *)
(*                                                                         *)
(* A portfolio is how often each order is booked in it.  What the limits of *)
(* an account, its cash and the trading rules decide is a choice here       *)
(* (TradingEngine has the rules).                                           *)
(***************************************************************************)
EXTENDS Naturals

CONSTANTS
    Orders,     \* order identifiers, chosen by the caller or drawn
    Callers,    \* calls under way at once
    LastDate,   \* dates are 0..LastDate; 0 is the empty date
    Limit       \* what a behaviour may contain: calls, resets, crashes

Dates == 0..LastDate
Capitals == {"default", "changed"}    \* config.initial_cash
AccountStatuses == {"active", "paused", "archived"}
Outcomes == {"filled", "cancelled", "rejected"}
RowStatuses == {"none", "pending"} \cup Outcomes    \* "none": there is no row
Phases == {"idle", "account", "insert", "fill", "save", "row", "purge", "list", "next"}

VARIABLES
    doc,    \* the saved account
    rows,   \* the status of each order's row
    call,   \* the calls, with what they read and have still to write
    used    \* the spent part of Limit
vars == <<doc, rows, call, used>>

Accounts == [status : AccountStatuses, date : Dates, capital : Capitals,
             booked : [Orders -> Nat]]
NoBookings == [o \in Orders |-> 0]
Fresh == [status |-> "active", date |-> 0, capital |-> "default", booked |-> NoBookings]

\* A call: where it stands, where it goes after it saved the account, the
\* order it is about, the account and the status it will save, its date, and
\* whether it is a mark, with the orders that one has still to fill.
Idle == [at |-> "idle", then |-> "idle", about |-> {}, doc |-> Fresh, outcome |-> "filled",
         date |-> 0, mark |-> FALSE, todo |-> {}]

Init ==
    /\ doc = Fresh
    /\ rows = [o \in Orders |-> "none"]
    /\ call = [c \in Callers |-> Idle]
    /\ used = [calls |-> 0, resets |-> 0, crashes |-> 0]

Spend(what) == used[what] < Limit[what] /\ used' = [used EXCEPT ![what] = @ + 1]
Begins(c) == call[c].at = "idle" /\ Spend("calls")
IsAt(c, at) == call[c].at = at /\ UNCHANGED used
To(c, next) == call' = [call EXCEPT ![c] = next]
Ends(c) == To(c, Idle)

-----------------------------------------------------------------------------
\* The changes of the document: get_account, a change of the copy, save.
HasTrades(account) == \E o \in Orders : account.booked[o] > 0
WithStatus(status) == [doc EXCEPT !.status = status]
WithDate(date) == [doc EXCEPT !.date = date]
\* update_config refuses a new capital once there are trades.
MayChange(capital) == HasTrades(doc) => capital = doc.capital
WithCapital(capital) == [doc EXCEPT !.capital = capital]
ForgetsTrade(account, o, date) == [account EXCEPT !.date = date]
Booked(account, o, date) == [account EXCEPT !.booked[o] = @ + 1, !.date = date]

Edit(c, copy, then) ==
    /\ To(c, [Idle EXCEPT !.at = "save", !.then = then, !.doc = copy])
    /\ UNCHANGED <<doc, rows>>
SetStatus(c) == Begins(c) /\ \E s \in AccountStatuses : Edit(c, WithStatus(s), "idle")
AdvanceDate(c) == Begins(c) /\ \E date \in Dates \ {0} : Edit(c, WithDate(date), "idle")
UpdateConfig(c) ==
    Begins(c) /\ \E k \in Capitals : MayChange(k) /\ Edit(c, WithCapital(k), "idle")

SaveAccount(c) ==
    /\ IsAt(c, "save")
    /\ doc' = call[c].doc
    /\ To(c, [call[c] EXCEPT !.at = call[c].then])
    /\ UNCHANGED rows

\* reset_account: the document, then the rows.
Reset(c) ==
    /\ call[c].at = "idle" /\ Spend("resets")
    /\ Edit(c, [Fresh EXCEPT !.capital = doc.capital], "purge")
DeleteOrders(c) ==
    /\ IsAt(c, "purge") /\ Ends(c)
    /\ rows' = [o \in Orders |-> "none"]
    /\ UNCHANGED doc

-----------------------------------------------------------------------------
\* create_order: an identifier that has a row is answered with that row, and
\* an insertion that finds one fails.
Vacant(o) == rows[o] = "none"
Create(c, o) ==
    /\ Begins(c) /\ Vacant(o)
    /\ To(c, [Idle EXCEPT !.at = "account", !.about = {o}])
    /\ UNCHANGED <<doc, rows>>
CreateAllowed(c) ==
    /\ IsAt(c, "account")
    /\ IF doc.status = "active" THEN To(c, [call[c] EXCEPT !.at = "insert"]) ELSE Ends(c)
    /\ UNCHANGED <<doc, rows>>
Upsert(c, o) ==
    /\ IsAt(c, "insert") /\ o \in call[c].about /\ Ends(c)
    /\ rows' = [rows EXCEPT ![o] = "pending"]
    /\ UNCHANGED doc
Insert(c, o) ==
    /\ IsAt(c, "insert") /\ o \in call[c].about /\ Ends(c)
    /\ rows' = [rows EXCEPT ![o] = IF Vacant(o) THEN "pending" ELSE @]
    /\ UNCHANGED doc

\* fill_order, called for itself or by a mark: the row, the account, and the
\* two saves.  It does not ask whether the account is active.
FillAny(o) == rows[o] # "none"
Fillable(o) == rows[o] = "pending"
ReadOrder(c, o, date, mark, todo) ==
    /\ Fillable(o)
    /\ To(c, [Idle EXCEPT !.at = "fill", !.about = {o}, !.date = date, !.mark = mark, !.todo = todo])
    /\ UNCHANGED <<doc, rows>>
Fill(c, o) == Begins(c) /\ \E date \in Dates \ {0} : ReadOrder(c, o, date, FALSE, {})
Trade(c, o) ==
    /\ IsAt(c, "fill") /\ o \in call[c].about
    /\ \/ To(c, [call[c] EXCEPT !.at = "save", !.then = "row", !.outcome = "filled",
                                !.doc = Booked(doc, o, call[c].date)])
       \/ To(c, [call[c] EXCEPT !.at = "row", !.outcome = "rejected"])
    /\ UNCHANGED <<doc, rows>>

\* _save_order updates the row, if there still is one, whatever it says.
SaveOrder(c, o) ==
    /\ IsAt(c, "row") /\ o \in call[c].about
    /\ rows' = [rows EXCEPT ![o] = IF Vacant(o) THEN @ ELSE call[c].outcome]
    /\ IF call[c].mark THEN To(c, [call[c] EXCEPT !.at = "next"]) ELSE Ends(c)
    /\ UNCHANGED doc

\* cancel_order, also by create_order of the router when there is no price.
CancelAny(o) == rows[o] # "none"
Cancellable(o) == rows[o] = "pending"
MisspellCancelled(c, o) ==
    /\ Begins(c) /\ Cancellable(o)
    /\ To(c, [Idle EXCEPT !.at = "row", !.about = {o}, !.outcome = "canceled"])
    /\ UNCHANGED <<doc, rows>>
Cancel(c, o) ==
    /\ Begins(c) /\ Cancellable(o)
    /\ To(c, [Idle EXCEPT !.at = "row", !.about = {o}, !.outcome = "cancelled"])
    /\ UNCHANGED <<doc, rows>>

-----------------------------------------------------------------------------
\* mark_account: mark_to_market, then one fill after another.  A fill that
\* finds its order decided raises, and the rest is not filled.
Mark(c) ==
    /\ Begins(c)
    /\ \E date \in Dates \ {0} :
          To(c, [Idle EXCEPT !.at = "save", !.then = "list", !.doc = WithDate(date),
                             !.date = date, !.mark = TRUE])
    /\ UNCHANGED <<doc, rows>>
ListOrders(c) ==
    /\ IsAt(c, "list")
    /\ \E matching \in SUBSET {o \in Orders : Fillable(o)} :
          To(c, [call[c] EXCEPT !.at = "next", !.todo = matching])
    /\ UNCHANGED <<doc, rows>>
FillNext(c) ==
    /\ IsAt(c, "next")
    /\ \/ \E o \in call[c].todo : ReadOrder(c, o, call[c].date, TRUE, call[c].todo \ {o})
       \/ /\ call[c].todo = {} \/ \E o \in call[c].todo : ~Fillable(o)
          /\ Ends(c) /\ UNCHANGED <<doc, rows>>

\* The process dies in the middle of a call.
Crash(c) ==
    /\ call[c].at # "idle" /\ Spend("crashes") /\ Ends(c)
    /\ UNCHANGED <<doc, rows>>

Next == \E c \in Callers :
    \/ SetStatus(c) \/ AdvanceDate(c) \/ UpdateConfig(c) \/ SaveAccount(c)
    \/ Reset(c) \/ DeleteOrders(c) \/ CreateAllowed(c)
    \/ Mark(c) \/ ListOrders(c) \/ FillNext(c) \/ Crash(c)
    \/ \E o \in Orders : Create(c, o) \/ Insert(c, o) \/ Fill(c, o) \/ Trade(c, o)
                         \/ SaveOrder(c, o) \/ Cancel(c, o)

Spec == Init /\ [][Next]_vars

-----------------------------------------------------------------------------
\* Every variable has its type.
Calls == [at : Phases, then : Phases, about : SUBSET Orders, doc : Accounts,
          outcome : Outcomes, date : Dates, mark : BOOLEAN, todo : SUBSET Orders]
TypeOK ==
    /\ doc \in Accounts
    /\ rows \in [Orders -> RowStatuses]
    /\ call \in [Callers -> Calls]
    /\ used \in [calls : Nat, resets : Nat, crashes : Nat]

\* As long as calls take turns, an order is booked once, and once more at most
\* for every crash: fill_order saves the account before it saves the order.
BookedOnce == \A o \in Orders : doc.booked[o] <= 1 + used.crashes

\* As long as calls take turns and none is cut short, an order that says it is
\* filled is among the trades of the account, unless a reset is about to
\* delete it.
Purging == \E c \in Callers : call[c].at = "purge"
FilledIsBooked ==
    ~Purging => \A o \in Orders : rows[o] = "filled" => doc.booked[o] > 0

\* Without crashes and resets, an order among the trades is no longer open
\* unless its own fill is about to say so, whatever calls run at once: no
\* document that was read earlier brings a booking back.
BookedIsDecided ==
    \A o \in Orders : doc.booked[o] > 0 /\ Fillable(o)
        => \E c \in Callers : o \in call[c].about /\ call[c].at = "row"

\* Calls that take turns and are not cut short keep the promise of OrderBook;
\* what counts is the trades of the account (MCPlatform has the refinement).
FateOf(o) ==
    IF doc.booked[o] > 0 THEN "filled" ELSE IF rows[o] = "filled" THEN "none" ELSE rows[o]
-----------------------------------------------------------------------------
(***************************************************************************)
(* What messages of the code say and calls that run at once refute.         *)
(***************************************************************************)

\* An order that is not pending "cannot be filled" (fill_order): when a trade
\* is booked, its order is still open.
OnlyPendingFills ==
    [][\A o \in Orders : doc'.booked[o] > doc.booked[o] => Fillable(o)]_vars
=============================================================================
