---------------------------- MODULE TradingEngine ----------------------------
(***************************************************************************)
(* The trading rules of simulated accounts and backtests                    *)
(* (engine/trading_engine.py): cash, positions, the lots a trade is rounded *)
(* to, fees, stored exit levels, and T+1 settlement, by which shares bought *)
(* on a day are frozen until the date changes.                              *)
(*                                                                         *)
(* Money is an integer and a rate is a numerator over Scale.  The price of  *)
(* a trade is its execution price, slippage included.  The list of trades   *)
(* is kept as its length and the shares bought per ticker and trade date.   *)
(***************************************************************************)
EXTENDS Integers

CONSTANTS
    Tickers,
    InitialCash,
    Lot,                \* AssetTradingRules.min_lot
    TPlusOne,           \* AssetTradingRules.t_plus_one
    AutoExit,           \* AssetTradingRules.auto_exit_levels
    MinimumCommission,  \* AssetTradingRules.minimum_commission
    Scale, BuyRate, SellRate, StampRate, TransferRate,
    LastDate,           \* dates are 0..LastDate; 0 is the empty date
    Backdating,         \* may a caller set an earlier date than the current one?
    Sizes, Prices,      \* what callers ask for
    MaxTrades           \* bound on the length of the list of trades

ASSUME TradingEngineAssumption ==
    /\ InitialCash \in Nat /\ MinimumCommission \in Nat
    /\ Lot \in Nat \ {0} /\ Scale \in Nat \ {0}
    /\ BuyRate \in Nat /\ SellRate \in Nat /\ StampRate \in Nat /\ TransferRate \in Nat
    /\ TPlusOne \in BOOLEAN /\ AutoExit \in BOOLEAN /\ Backdating \in BOOLEAN
    /\ LastDate \in Nat /\ MaxTrades \in Nat
    /\ Sizes \subseteq Nat /\ Prices \subseteq Nat \ {0}

Dates == 0..LastDate
NoLevel == 0
Levels == Prices \cup {NoLevel}

VARIABLES
    cash,
    date,       \* _current_date
    shares,     \* per ticker, Position.shares; 0: there is no position
    available,  \* Position.available_shares
    frozen,     \* Position.frozen_shares
    stop,       \* Position.stop_loss
    target,     \* Position.take_profit
    trades,     \* how many trades there are
    bought      \* shares bought per ticker and trade date
position == <<shares, available, frozen, stop, target>>
vars == <<cash, date, position, trades, bought>>

Init ==
    /\ cash = InitialCash
    /\ date = 0
    /\ shares = [t \in Tickers |-> 0]
    /\ available = [t \in Tickers |-> 0]
    /\ frozen = [t \in Tickers |-> 0]
    /\ stop = [t \in Tickers |-> NoLevel]
    /\ target = [t \in Tickers |-> NoLevel]
    /\ trades = 0
    /\ bought = [t \in Tickers |-> [d \in Dates |-> 0]]

-----------------------------------------------------------------------------
\* Fees and the sizes of trades.
LotsOf(n) == (n \div Lot) * Lot
Least(m, n) == IF m < n THEN m ELSE n
Part(amount, rate) == (amount * rate) \div Scale
Commission(amount, rate) ==
    IF Part(amount, rate) < MinimumCommission THEN MinimumCommission ELSE Part(amount, rate)
BuyCost(n, price) ==
    n * price + Commission(n * price, BuyRate) + Part(n * price, TransferRate)
SellProceeds(n, price) ==
    n * price - Commission(n * price, SellRate) - Part(n * price, StampRate)
              - Part(n * price, TransferRate)

\* What the cash pays for, by the rates alone.
IgnoresRates(money, price) == LotsOf(money \div price)
Affordable(money, price) == LotsOf((money * Scale) \div (price * (Scale + BuyRate + TransferRate)))

\* The shares a buy order of n shares gets; none when there are less than a lot.
BuyShares(n, price, money) ==
    IF LotsOf(n) < Lot \/ BuyCost(LotsOf(n), price) <= money
    THEN LotsOf(n) ELSE Affordable(money, price)

\* The shares a sell order of n shares gets, of those that are available.
SellsFrozen(n, sellable) == IF sellable <= 0 THEN 0 ELSE LotsOf(n)
SellShares(n, sellable) ==
    IF sellable <= 0 THEN 0
    ELSE LET m == LotsOf(Least(n, sellable))
         IN IF m < Lot /\ m # sellable THEN 0
            ELSE IF m < Lot THEN sellable ELSE m

-----------------------------------------------------------------------------
\* set_date: whenever the date changes, whatever was frozen is released.
AlwaysReleases(d) == TRUE
ReleasesOn(d) == d # date
Forgets(t) == frozen[t]
Released(t) == available[t] + frozen[t]
SetDate(d) ==
    /\ Backdating \/ d >= date
    /\ date' = d
    /\ IF ReleasesOn(d)
       THEN /\ available' = [t \in Tickers |-> Released(t)]
            /\ frozen' = [t \in Tickers |-> 0]
       ELSE UNCHANGED <<available, frozen>>
    /\ UNCHANGED <<cash, shares, stop, target, trades, bought>>

Record == trades < MaxTrades /\ trades' = trades + 1

\* buy.  New shares are frozen; levels that are not given stay as they are.
Buy(t, n, price, loss, profit) ==
    /\ date # 0
    /\ LET m == BuyShares(n, price, cash)
       IN /\ m >= Lot
          /\ cash' = cash - BuyCost(m, price)
          /\ shares' = [shares EXCEPT ![t] = @ + m]
          /\ available' = [available EXCEPT ![t] = IF TPlusOne THEN @ ELSE @ + m]
          /\ frozen' = [frozen EXCEPT ![t] = IF TPlusOne THEN @ + m ELSE @]
          /\ bought' = [bought EXCEPT ![t][date] = @ + m]
    /\ stop' = [stop EXCEPT ![t] = IF loss = NoLevel THEN @ ELSE loss]
    /\ target' = [target EXCEPT ![t] = IF profit = NoLevel THEN @ ELSE profit]
    /\ Record /\ UNCHANGED date

\* The part of sell that carries the trade out.  A position without shares is
\* removed, and its levels with it.
Settle(t, m, price) ==
    /\ m > 0
    /\ cash' = cash + SellProceeds(m, price)
    /\ shares' = [shares EXCEPT ![t] = @ - m]
    /\ available' = [available EXCEPT ![t] = @ - m]
    /\ stop' = [stop EXCEPT ![t] = IF shares[t] = m THEN NoLevel ELSE @]
    /\ target' = [target EXCEPT ![t] = IF shares[t] = m THEN NoLevel ELSE @]
    /\ Record /\ UNCHANGED <<date, frozen, bought>>

Sell(t, n, price) ==
    /\ date # 0
    /\ Settle(t, SellShares(n, available[t]), price)

\* update_prices visits one position after another; a price at one of the
\* stored levels sells what is available.
Reached(t, price) ==
    \/ stop[t] # NoLevel /\ price <= stop[t]
    \/ target[t] # NoLevel /\ price >= target[t]
UpdatePrice(t, price) ==
    /\ date # 0 /\ AutoExit /\ Reached(t, price)
    /\ Settle(t, SellShares(available[t], available[t]), price)

\* seed_position: a holding from before the first day, at its price.
SeedPosition(t, n, price) ==
    /\ date = 0 /\ shares[t] = 0
    /\ n > 0 /\ n * price <= cash
    /\ cash' = cash - n * price
    /\ shares' = [shares EXCEPT ![t] = n]
    /\ available' = [available EXCEPT ![t] = n]
    /\ UNCHANGED <<date, frozen, stop, target, trades, bought>>

Next ==
    \/ \E d \in Dates \ {0} : SetDate(d)
    \/ \E t \in Tickers, price \in Prices :
         \/ \E n \in Sizes : SeedPosition(t, n, price) \/ Sell(t, n, price)
         \/ \E n \in Sizes, loss, profit \in Levels : Buy(t, n, price, loss, profit)
         \/ UpdatePrice(t, price)

Spec == Init /\ [][Next]_vars

-----------------------------------------------------------------------------
\* Every variable has its type.
TypeOK ==
    /\ cash \in Int /\ date \in Dates /\ trades \in Nat
    /\ shares \in [Tickers -> Nat]
    /\ available \in [Tickers -> Nat]
    /\ frozen \in [Tickers -> Nat]
    /\ stop \in [Tickers -> Levels]
    /\ target \in [Tickers -> Levels]
    /\ bought \in [Tickers -> [Dates -> Nat]]

\* "total = available + frozen" (Position): buys, partial sales, exits and
\* releases never lose or invent sellable shares.
SharesAccounted == \A t \in Tickers : shares[t] = available[t] + frozen[t]

\* Without earlier dates, what was bought on the current date is still frozen
\* and nothing is booked for later dates.
BoughtIsFrozen ==
    /\ \A t \in Tickers, d \in Dates : d > date => bought[t][d] = 0
    /\ TPlusOne => \A t \in Tickers : bought[t][date] <= frozen[t]

\* "can only sell shares bought before today" (sell): a sale leaves at least
\* the shares bought on its date, whether a caller or an exit level sells.
SellsSettledShares ==
    [][\A t \in Tickers : TPlusOne /\ shares'[t] < shares[t] => shares'[t] >= bought[t][date]]_vars

\* "Adjust shares to fit budget" (buy): the buyer may fall short of the
\* commission's minimum, never of more.
OverdraftBounded ==
    [][\A t \in Tickers : bought'[t] # bought[t] => cash' >= -MinimumCommission]_vars

-----------------------------------------------------------------------------
(***************************************************************************)
(* What a comment of the code says and its runs refute.                     *)
(***************************************************************************)

\* "Odd-lot cleanup is allowed only when closing the entire holding" (sell):
\* a settled holding of less than a lot can be sold whole.
HoldingCanBeClosed ==
    \A t \in Tickers : shares[t] \in 1..(Lot - 1) /\ frozen[t] = 0
        => SellShares(shares[t], available[t]) = shares[t]
=============================================================================
