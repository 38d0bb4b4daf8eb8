----------------------------- MODULE PoolBacktest -----------------------------
(***************************************************************************)
(* The backtest of a pool of symbols (engine/backtester.py:                 *)
(* run_pool_backtest): which symbol is held when each of them has bars of   *)
(* its own, decisions that wait for the next open, and targets that are     *)
(* chosen among decisions and traded together (engine/portfolio_allocator.py,*)
(* engine/strategy_runtime.py).                                             *)
(*                                                                         *)
(* How much is held is left out.  A purchase may come to nothing, a target  *)
(* may be too small for one lot, and exits by price sell what they may.     *)
(***************************************************************************)
EXTENDS Naturals, FiniteSets

CONSTANTS
    Symbols,
    Modes,          \* "pool": decisions are traded one by one; "portfolio": as the
                    \* target of an allocation; "strategy": as the exposures of one
    FillTimes,
    Interval, Frequency, MaxPositions,
    LastDay

PoolBacktestAssumption ==
    /\ IsFiniteSet(Symbols) /\ Modes \subseteq {"pool", "portfolio", "strategy"}
    /\ FillTimes \subseteq {"next_open", "same_close"}
    /\ Interval \in Nat \ {0} /\ Frequency \in Nat \ {0} /\ MaxPositions \in Nat /\ LastDay \in Nat

VARIABLES
    mode, fill,     \* of this backtest
    day,
    bars,       \* the symbols that had a bar on the last day
    held,       \* the symbols with a position
    pending,    \* of each symbol, the decision that waits for its next bar
    asked,      \* and the day of that decision
    target,     \* the selection that waits for the next day, if there is one
    stranded    \* what a target gave up but no bar allowed to sell
vars == <<mode, fill, day, bars, held, pending, asked, target, stranded>>

Decisions == {"buy", "hold", "sell"}

Init ==
    /\ mode \in Modes /\ fill \in FillTimes
    /\ day = 0 /\ bars = {} /\ held = {} /\ target = {} /\ stranded = {}
    /\ pending = [s \in Symbols |-> "none"] /\ asked = [s \in Symbols |-> 0]

-----------------------------------------------------------------------------
\* _execute_decision, of several symbols: what may be held after it.
Executed(before, what) ==
    {after \in SUBSET (before \cup DOMAIN what) :
        /\ after \ before \subseteq {s \in DOMAIN what : what[s] = "buy"}
        /\ before \ after \subseteq {s \in DOMAIN what : what[s] = "sell"}}

\* rebalance_portfolio (plan_rebalance): without a bar nothing is sold or bought.
Rebalanced(before, selection, rows) ==
    {(before \ rows) \cup kept : kept \in SUBSET (selection \cap rows)}
Unsold(before, selection, rows) == (before \ selection) \ rows

\* target_weights: buys before what is held and not sold.
Room(n) == IF n < MaxPositions THEN n ELSE MaxPositions
Allocations(before, decision) ==
    LET buys == {s \in DOMAIN decision : decision[s] = "buy"}
        holds == {s \in before : s \notin DOMAIN decision \/ decision[s] = "hold"}
    IN {selection \in SUBSET (buys \cup holds) :
           /\ Cardinality(selection) = Room(Cardinality(buys \cup holds))
           /\ selection \cap holds # {} => buys \subseteq selection}
\* normalize_target_exposures: the greatest exposures, of symbols without a bar
\* the one they have.
Exposed(before, rows) ==
    {selection \in SUBSET (rows \cup before) : Cardinality(selection) <= MaxPositions}
Selections(before, decision) ==
    IF mode = "strategy" THEN Exposed(before, DOMAIN decision) ELSE Allocations(before, decision)

-----------------------------------------------------------------------------
\* The open: the target, or else the decisions whose symbol has a bar.
Ripe(rows) == {s \in rows : pending[s] # "none"}
Opened(rows) ==
    IF target = {} THEN Executed(held, [s \in Ripe(rows) |-> pending[s]])
    ELSE UNION {Rebalanced(held, selection, rows) : selection \in target}
OnlyToday(rows) ==
    [s \in Symbols |-> IF s \in Ripe(rows) /\ asked[s] = day - 1 THEN "none" ELSE pending[s]]
StillPending(rows) ==
    [s \in Symbols |-> IF target = {} /\ s \in Ripe(rows) THEN "none" ELSE pending[s]]

\* One day: the open, exits by price, and the decisions on the symbols with a
\* bar (an error decides nothing), which are traded at the close or wait.
Evaluates == day % Interval = 0
Rebalances == mode # "pool" /\ Evaluates /\ day % Frequency = 0
Decided(s, decision) == s \in DOMAIN decision /\ decision[s] # "hold"
Waits(rows, decision) ==
    IF mode = "pool" /\ Evaluates /\ fill = "next_open" THEN {s \in rows : Decided(s, decision)} ELSE {}
AtClose(kept, selection, rows, decision) ==
    IF fill = "next_open" THEN {kept}
    ELSE IF Rebalances THEN Rebalanced(kept, selection, rows)
    ELSE IF mode = "pool" /\ Evaluates THEN Executed(kept, decision) ELSE {kept}
\* enforce_max_position_weight: what is too large may be less than one lot.
Trimmed(after, rows) ==
    IF mode = "pool" THEN {after} ELSE {after \ cut : cut \in SUBSET (after \cap held \cap rows)}
Stranded(kept, selection, rows) ==
    IF Rebalances /\ fill = "same_close" THEN Unsold(kept, selection, rows)
    ELSE kept \cap IF target = {} THEN stranded ELSE UNION {Unsold(held, t, rows) : t \in target}
Day(rows, decision) ==
    /\ day <= LastDay /\ day' = day + 1 /\ bars' = rows
    /\ \E opened \in Opened(rows) : \E exits \in SUBSET (opened \cap held \cap rows) :
       \E selection \in Selections(opened \ exits, decision) :
          /\ held' \in UNION {Trimmed(after, rows) : after \in AtClose(opened \ exits, selection, rows, decision)}
          /\ target' = IF Rebalances /\ fill = "next_open" THEN {selection} ELSE {}
          /\ stranded' = held' \cap Stranded(opened \ exits, selection, rows)
    /\ pending' = [s \in Symbols |->
          IF s \in Waits(rows, decision) THEN decision[s] ELSE StillPending(rows)[s]]
    /\ asked' = [s \in Symbols |-> IF s \in Waits(rows, decision) THEN day ELSE asked[s]]
Next ==
    /\ UNCHANGED <<mode, fill>>
    /\ \E rows \in SUBSET Symbols : \E decision \in [rows -> Decisions] : Day(rows, decision)

Spec == Init /\ [][Next]_vars

-----------------------------------------------------------------------------
\* Every variable has its type.
TypeOK ==
    /\ bars \subseteq Symbols /\ held \subseteq Symbols /\ stranded \subseteq held
    /\ pending \in [Symbols -> Decisions \cup {"none"}] /\ asked \in [Symbols -> 0..LastDay]
    /\ target \subseteq SUBSET Symbols

\* A decision of a pool is traded, or replaced, at the next bar of its symbol,
\* however many days that takes: what still waits after a bar was decided on it.
TradedAtNextBar ==
    \A s \in bars : pending[s] # "none" => asked[s] = day - 1

\* An allocation holds no more symbols than it may, but for those that it gave
\* up on a day without a bar of theirs.
WithinPositions ==
    mode # "pool" => Cardinality(held \ stranded) <= MaxPositions
=============================================================================
