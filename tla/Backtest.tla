------------------------------- MODULE Backtest -------------------------------
(***************************************************************************)
(* The backtest of one executable strategy (engine/backtester.py:           *)
(* run_backtest) and the strategy's own memory                              *)
(* (engine/strategy_runtime.py: evaluate_strategy_intent): when it enters,  *)
(* leaves and rests, and when its targets are traded.                       *)
(*                                                                         *)
(* An exposure is the part of the account that is invested, in steps of     *)
(* 1/Full.  What components, routers and fusion make of a bar is a choice:  *)
(* a score, a conflict of its components, and the exposure they ask for.    *)
(***************************************************************************)
EXTENDS Integers

CONSTANTS
    Policies,   \* of strategies: entry and exit thresholds of the score, conflict
                \* policy, cooldown, bounds of exposures and their changes,
                \* stop-loss and take-profit distances
    Runs,       \* of backtests: interval of decisions, frequency of rebalancing,
                \* fill time, warm-up days, and whether one starts with a position
    Full, Scores, Prices,
    LastDay

\* The bounds of the schemas, exposures and prices as whole numbers.
BacktestAssumption ==
    /\ Full \in Nat /\ LastDay \in Nat /\ Scores \subseteq Int /\ Prices \subseteq Nat
    /\ Policies \subseteq
         [entry : Int, exit : Int, conflict : {"hold", "reduce", "exit", "score"},
          cooldown : Nat, min : 0..Full, max : 0..Full, increase : Nat, decrease : Nat,
          change : Nat, loss : Nat, gain : Nat]
    /\ Runs \subseteq
         [interval : Nat \ {0}, frequency : Nat \ {0}, fill : {"next_open", "same_close"},
          warmup : Nat, seeded : BOOLEAN]

NoPrice == -1

VARIABLES
    policy, run,    \* the strategy, and the backtest it is given to
    day,
    exposure,   \* what is invested
    memory,     \* of the strategy: entry price, rest of its cooldown, target
    pending,    \* the target that waits for the next open
    calm,       \* evaluations since the last exit, up to the cooldown and one more
    stop,       \* did the last bar hit the stop-loss or the take-profit?
    due         \* should such an exit have been traded by now?
vars == <<policy, run, day, exposure, memory, pending, calm, stop, due>>

Init ==
    /\ policy \in Policies /\ run \in Runs
    /\ day = 0 /\ exposure = (IF run.seeded THEN Full ELSE 0)
    /\ memory = [entry |-> NoPrice, cooldown |-> 0, target |-> 0]
    /\ pending = {} /\ calm = policy.cooldown + 1 /\ stop = FALSE /\ due = FALSE

Lower(a, b) == IF a < b THEN a ELSE b
Upper(a, b) == IF a > b THEN a ELSE b

-----------------------------------------------------------------------------
\* evaluate_strategy_intent.  A bar: its price and what the components say.
Bars == [price : Prices, score : Scores, conflict : BOOLEAN, raw : 0..Full]

Stopped(held, bar) ==
    /\ held > 0 /\ memory.entry # NoPrice
    /\ bar.price <= memory.entry - policy.loss \/ bar.price >= memory.entry + policy.gain
Holding(bar) == bar.conflict /\ policy.conflict = "hold"
Exiting(held, bar) ==
    /\ held > 0
    /\ \/ Stopped(held, bar)
       \/ bar.conflict /\ policy.conflict = "exit"
       \/ ~Holding(bar) /\ bar.score <= policy.exit
Entering(held, bar) == held = 0 /\ ~bar.conflict /\ bar.score >= policy.entry

Wanted(held, bar) ==
    IF ~bar.conflict THEN bar.raw
    ELSE CASE policy.conflict = "hold" -> held
           [] policy.conflict = "reduce" -> Lower(bar.raw, held \div 2)
           [] policy.conflict = "exit" -> 0
           [] OTHER -> bar.raw
Sized(held, bar) ==
    LET bounded == Lower(Upper(Wanted(held, bar), policy.min), policy.max)
        raised == Lower(bounded, held + policy.increase)
        target == Upper(raised, held - policy.decrease)
    IN IF Upper(target - held, held - target) < policy.change THEN held ELSE target
Target(held, bar) ==
    IF memory.cooldown > 0 \/ Exiting(held, bar) \/ (held = 0 /\ ~Entering(held, bar)) THEN 0
    ELSE Lower(Upper(Sized(held, bar), 0), policy.max)

RestBySignal(held, bar) ==
    IF memory.cooldown > 0 THEN memory.cooldown - 1
    ELSE IF Exiting(held, bar) /\ ~Stopped(held, bar) THEN policy.cooldown ELSE 0
RestAfter(held, bar) ==
    IF memory.cooldown > 0 THEN memory.cooldown - 1
    ELSE IF Exiting(held, bar) THEN policy.cooldown ELSE 0
EntryAfter(held, bar) ==
    IF held = 0 /\ Target(held, bar) > 0 THEN bar.price
    ELSE IF Target(held, bar) = 0 THEN NoPrice ELSE memory.entry
Evaluated(held, bar) ==
    [entry |-> EntryAfter(held, bar), cooldown |-> RestAfter(held, bar), target |-> Target(held, bar)]

-----------------------------------------------------------------------------
\* rebalance_portfolio for one position: a sale leaves whole lots of at most the
\* target, a purchase may come to less than the target or to nothing.
Traded(held, target) ==
    IF target > held THEN held..target ELSE IF target < held THEN 0..target ELSE {held}
\* What is invested moves with the prices.
Drifted(held) == IF held = 0 THEN {0} ELSE 1..Full

\* One row of the loop: what was pending is traded at the open, the strategy is
\* evaluated at the close, and its target is traded or becomes pending.
Evaluates == day >= run.warmup /\ (day - run.warmup) % run.interval = 0
Rebalances == (day - run.warmup) % run.frequency = 0
Held ==
    UNION {Drifted(opened) : opened \in
        IF pending = {} \/ day < run.warmup THEN {exposure}
        ELSE UNION {Traded(exposure, target) : target \in pending}}
\* A bar that is not evaluated, or whose evaluation fails.
Skip(held) ==
    /\ day <= LastDay /\ day' = day + 1
    /\ exposure' = held
    /\ pending' = IF day < run.warmup THEN pending ELSE {}
    /\ stop' = FALSE /\ due' = (stop /\ run.fill = "next_open")
    /\ UNCHANGED <<memory, calm>>
Evaluate(held, bar) ==
    /\ day <= LastDay /\ day' = day + 1 /\ Evaluates
    /\ LET target == Target(held, bar)
       IN /\ memory' = Evaluated(held, bar)
          /\ calm' = IF memory.cooldown = 0 /\ Exiting(held, bar) THEN 0
                     ELSE Lower(calm + 1, policy.cooldown + 1)
          /\ exposure' \in IF Rebalances /\ run.fill = "same_close"
                           THEN Traded(held, target) ELSE {held}
          /\ pending' = IF Rebalances /\ run.fill = "next_open" THEN {target} ELSE {}
          /\ stop' = Stopped(held, bar)
          /\ due' = IF run.fill = "same_close" THEN stop' ELSE stop
Next ==
    /\ UNCHANGED <<policy, run>>
    /\ \E held \in Held : Skip(held) \/ \E bar \in Bars : Evaluate(held, bar)

Spec == Init /\ [][Next]_vars

-----------------------------------------------------------------------------
\* Targets are traded on the bars that are evaluated only if no frequency is
\* coarser than the interval of the decisions.
Aligned == run.interval % run.frequency = 0

\* Every variable has its type.
TypeOK ==
    /\ exposure \in 0..Full /\ pending \subseteq 0..Full
    /\ memory \in [entry : Prices \cup {NoPrice}, cooldown : 0..policy.cooldown, target : 0..Full]

\* A position that was bought has its stop-loss armed until its sale is under
\* way.
StaysArmed ==
    Aligned /\ ~run.seeded /\ exposure > 0 => memory.entry # NoPrice \/ pending = {0}

\* An exit by price is traded on its bar or at the next open, and nothing is
\* bought until the cooldown is over.
ExitsAreCarriedOut ==
    /\ Aligned /\ due => exposure = 0
    /\ memory.target > 0 => calm > policy.cooldown
=============================================================================
