------------------------- MODULE TradingEngineProofs -------------------------
(***************************************************************************)
(* Positions stay accounted for, whatever is traded; without earlier dates  *)
(* T+1 holds; and a purchase overdraws the cash by the minimum commission   *)
(* at most: for all rates, lots, prices and sizes.  The decisions of the    *)
(* research workflow, and the orders that follow from them, are sound;      *)
(* backtests trade what they decided, when they should; and the verdicts of *)
(* the strategy laboratory are earned.                                      *)
(***************************************************************************)
EXTENDS TradingEngine, FiniteSetTheorems, SequenceTheorems, WellFoundedInduction, TLAPS

\* Rounding to lots never rounds up.
LEMMA LotsBound ==
    ASSUME NEW n \in Int
    PROVE  LotsOf(n) \in Int /\ LotsOf(n) <= n
<1>1. Lot \in Nat \ {0}  BY TradingEngineAssumption
<1>2. n \div Lot \in Int /\ (n \div Lot) * Lot <= n  BY <1>1
<1> QED  BY <1>1, <1>2 DEF LotsOf

LEMMA LotsNat ==
    ASSUME NEW n \in Nat
    PROVE  LotsOf(n) \in Nat
<1>1. Lot \in Nat \ {0}  BY TradingEngineAssumption
<1>2. n \div Lot \in Nat  BY <1>1
<1> QED  BY <1>1, <1>2 DEF LotsOf

\* A sell order gets no more than what is available.
LEMMA SellBound ==
    ASSUME NEW n \in Nat, NEW sellable \in Nat
    PROVE  SellShares(n, sellable) \in 0..sellable
<1>1. Least(n, sellable) \in Nat /\ Least(n, sellable) <= sellable  BY DEF Least
<1>2. LotsOf(Least(n, sellable)) \in 0..sellable  BY <1>1, LotsBound, LotsNat
<1>3. Lot \in Nat  BY TradingEngineAssumption
<1> QED  BY <1>2, <1>3 DEF SellShares

\* Fees are whole numbers, and rounded down.
LEMMA PartBound ==
    ASSUME NEW a \in Int, NEW r \in Nat
    PROVE  Part(a, r) \in Int /\ Part(a, r) * Scale <= a * r
<1>1. Scale \in Nat \ {0}  BY TradingEngineAssumption
<1>2. a * r \in Int  OBVIOUS
<1> QED  BY <1>1, <1>2 DEF Part

LEMMA CommissionBound ==
    ASSUME NEW a \in Int, a >= 0, NEW r \in Nat
    PROVE  Commission(a, r) \in Int /\ Commission(a, r) <= Part(a, r) + MinimumCommission
<1>1. Scale \in Nat \ {0} /\ MinimumCommission \in Nat  BY TradingEngineAssumption
<1>2. a * r \in Nat  OBVIOUS
<1>3. Part(a, r) \in Nat  BY <1>1, <1>2 DEF Part
<1> QED  BY <1>1, <1>3 DEF Commission

\* What is affordable costs no more than the cash, but for the minimum of the
\* commission.
LEMMA AffordableBound ==
    ASSUME NEW money \in Int, NEW price \in Nat \ {0},
           Affordable(money, price) >= 0
    PROVE  /\ Affordable(money, price) \in Int
           /\ BuyCost(Affordable(money, price), price) \in Int
           /\ BuyCost(Affordable(money, price), price) <= money + MinimumCommission
<1> DEFINE weight == Scale + BuyRate + TransferRate
           quotient == (money * Scale) \div (price * weight)
           m == Affordable(money, price)
           amount == m * price
           x == Part(amount, BuyRate)
           y == Part(amount, TransferRate)
<1>1. /\ Scale \in Nat \ {0} /\ BuyRate \in Nat /\ TransferRate \in Nat
      /\ MinimumCommission \in Nat
  BY TradingEngineAssumption
<1>2. weight \in Nat \ {0}  BY <1>1
<1>3. price * weight \in Nat \ {0}
  <2>1. \A i, j \in Nat \ {0} : i * j \in Nat \ {0}  OBVIOUS
  <2> QED  BY <1>2, <2>1
<1>4. quotient \in Int /\ quotient * (price * weight) <= money * Scale
  <2>1. \A a \in Int, b \in Nat \ {0} : a \div b \in Int /\ (a \div b) * b <= a  OBVIOUS
  <2>2. money * Scale \in Int  BY <1>1
  <2> QED  BY <1>3, <2>1, <2>2
<1>5. m \in Int /\ m <= quotient  BY <1>4, LotsBound DEF Affordable
<1>6. amount \in Int /\ amount >= 0
  <2>1. \A i \in Nat, j \in Nat : i * j \in Nat  OBVIOUS
  <2> QED  BY <1>5, <2>1
<1>7. amount * weight <= money * Scale
  <2>1. \A i, j \in Int, k \in Nat : i <= j => i * k <= j * k  OBVIOUS
  <2>2. m * (price * weight) <= quotient * (price * weight)  BY <1>3, <1>4, <1>5, <2>1
  <2>3. \A i, j, k \in Int : i * (j * k) = (i * j) * k  OBVIOUS
  <2>4. m * (price * weight) = amount * weight  BY <1>2, <1>5, <2>3
  <2>5. m * (price * weight) \in Int /\ quotient * (price * weight) \in Int /\ money * Scale \in Int
    BY <1>1, <1>3, <1>4, <1>5
  <2> HIDE DEF weight, quotient, m, amount
  <2> QED  BY <1>4, <2>2, <2>4, <2>5
<1>8. /\ x \in Int /\ x * Scale <= amount * BuyRate
      /\ y \in Int /\ y * Scale <= amount * TransferRate
  BY <1>1, <1>6, PartBound
<1>9. amount + x + y <= money
  <2> HIDE DEF quotient, m, amount, x, y
  <2>1. (amount + x + y) * Scale <= amount * weight
    <3>1. (amount + x + y) * Scale = amount * Scale + x * Scale + y * Scale
      BY <1>1, <1>6, <1>8
    <3>2. amount * weight = amount * Scale + amount * BuyRate + amount * TransferRate
      BY <1>1, <1>6
    <3>3. /\ amount * Scale \in Int /\ x * Scale \in Int /\ y * Scale \in Int
          /\ amount * BuyRate \in Int /\ amount * TransferRate \in Int
      BY <1>1, <1>6, <1>8
    <3> QED  BY <1>8, <3>1, <3>2, <3>3
  <2>2. (amount + x + y) * Scale <= money * Scale
    <3>1. (amount + x + y) * Scale \in Int /\ amount * weight \in Int /\ money * Scale \in Int
      BY <1>1, <1>2, <1>6, <1>8
    <3> HIDE DEF weight
    <3> QED  BY <1>7, <2>1, <3>1
  <2>3. \A i, j \in Int, k \in Nat \ {0} : i * k <= j * k => i <= j  OBVIOUS
  <2>4. amount + x + y \in Int  BY <1>6, <1>8
  <2> QED  BY <1>1, <2>2, <2>3, <2>4
<1>10. /\ Commission(amount, BuyRate) \in Int
       /\ Commission(amount, BuyRate) <= x + MinimumCommission
  BY <1>1, <1>6, CommissionBound
<1>11. BuyCost(m, price) = amount + Commission(amount, BuyRate) + y  BY DEF BuyCost
<1> HIDE DEF m, amount, x, y
<1>12. /\ BuyCost(m, price) \in Int
       /\ BuyCost(m, price) <= money + MinimumCommission
  BY <1>1, <1>6, <1>8, <1>9, <1>10, <1>11
<1> QED  BY <1>5, <1>12 DEF m

-----------------------------------------------------------------------------
\* What a trade costs or earns is a whole number.
LEMMA Amounts ==
    ASSUME NEW n \in Nat, NEW price \in Nat
    PROVE  BuyCost(n, price) \in Int /\ SellProceeds(n, price) \in Int
<1>1. n * price \in Nat  OBVIOUS
<1>2. /\ BuyRate \in Nat /\ SellRate \in Nat /\ StampRate \in Nat /\ TransferRate \in Nat
      /\ MinimumCommission \in Nat
  BY TradingEngineAssumption
<1>3. \A r \in Nat : Part(n * price, r) \in Int /\ Commission(n * price, r) \in Int
  BY <1>1, PartBound, CommissionBound
<1>4. BuyCost(n, price) \in Int
  <2> HIDE DEF Part, Commission
  <2>1. n * price \in Int /\ Commission(n * price, BuyRate) \in Int /\ Part(n * price, TransferRate) \in Int
    BY <1>1, <1>2, <1>3
  <2> QED  BY <2>1 DEF BuyCost
<1>5. SellProceeds(n, price) \in Int
  <2>1. /\ n * price \in Int /\ Commission(n * price, SellRate) \in Int
        /\ Part(n * price, StampRate) \in Int /\ Part(n * price, TransferRate) \in Int
    BY <1>1, <1>2, <1>3
  <2> QED  BY <2>1 DEF SellProceeds
<1> QED  BY <1>4, <1>5

\* The shares of a buy order are a whole number.
LEMMA BuySize ==
    ASSUME NEW n \in Nat, NEW price \in Nat \ {0}, NEW money \in Int
    PROVE  BuyShares(n, price, money) \in Int
<1>1. LotsOf(n) \in Int  BY LotsNat
<1>2. Affordable(money, price) \in Int
  <2>1. /\ Scale \in Nat \ {0} /\ BuyRate \in Nat /\ TransferRate \in Nat
    BY TradingEngineAssumption
  <2>2. \A i, j \in Nat \ {0} : i * j \in Nat \ {0}  OBVIOUS
  <2>3. price * (Scale + BuyRate + TransferRate) \in Nat \ {0}  BY <2>1, <2>2
  <2>4. (money * Scale) \div (price * (Scale + BuyRate + TransferRate)) \in Int
    <3>1. money * Scale \in Int  BY <2>1
    <3>2. \A a \in Int, b \in Nat \ {0} : a \div b \in Int  OBVIOUS
    <3> QED  BY <2>3, <3>1, <3>2
  <2> QED  BY <2>4, LotsBound DEF Affordable
<1> QED  BY <1>1, <1>2 DEF BuyShares

Accounted == TypeOK /\ SharesAccounted

\* What every sale preserves, whoever asks for it.
LEMMA SettleAccounted ==
    ASSUME Accounted, NEW t \in Tickers, NEW n \in Nat, NEW price \in Prices,
           Settle(t, SellShares(n, available[t]), price)
    PROVE  /\ Accounted'
           /\ shares' = [shares EXCEPT ![t] = shares'[t]]
           /\ shares'[t] >= frozen[t]
<1> DEFINE m == SellShares(n, available[t])
<1>1. m \in 0..available[t]  BY SellBound DEF Accounted, TypeOK
<1>2. price \in Nat  BY TradingEngineAssumption
<1>3. SellProceeds(m, price) \in Int  BY <1>1, <1>2, Amounts DEF Accounted, TypeOK
<1> HIDE DEF m
<1>4. /\ cash' = cash + SellProceeds(m, price)
      /\ shares' = [shares EXCEPT ![t] = @ - m]
      /\ available' = [available EXCEPT ![t] = @ - m]
      /\ frozen' = frozen /\ bought' = bought /\ date' = date
      /\ stop' = [stop EXCEPT ![t] = IF shares[t] = m THEN NoLevel ELSE @]
      /\ target' = [target EXCEPT ![t] = IF shares[t] = m THEN NoLevel ELSE @]
      /\ trades' = trades + 1
  BY DEF Settle, Record, m
<1>5. shares[t] = available[t] + frozen[t] /\ available[t] \in Nat /\ frozen[t] \in Nat
  BY DEF Accounted, TypeOK, SharesAccounted
<1>6. shares' \in [Tickers -> Nat] /\ available' \in [Tickers -> Nat]
  <2>1. m \in Int /\ available[t] - m \in Nat /\ shares[t] - m \in Nat  BY <1>1, <1>5
  <2> QED  BY <1>4, <2>1 DEF Accounted, TypeOK
<1>7. stop' \in [Tickers -> Levels] /\ target' \in [Tickers -> Levels]
  BY <1>4 DEF Accounted, TypeOK, Levels
<1>8. TypeOK'  BY <1>3, <1>4, <1>6, <1>7 DEF Accounted, TypeOK
<1>9. SharesAccounted'
  <2>1. m \in Int /\ shares[t] \in Int  BY <1>1, <1>5
  <2>2. shares'[t] = shares[t] - m /\ available'[t] = available[t] - m
    BY <1>4 DEF Accounted, TypeOK
  <2>3. \A u \in Tickers : u # t => shares'[u] = shares[u] /\ available'[u] = available[u]
    BY <1>4 DEF Accounted, TypeOK
  <2>4. shares'[t] = available'[t] + frozen'[t]  BY <1>4, <1>5, <2>1, <2>2
  <2> QED  BY <1>4, <2>3, <2>4 DEF Accounted, SharesAccounted
<1>10. shares'[t] >= frozen[t]
  <2>1. shares'[t] = available'[t] + frozen[t]  BY <1>4, <1>9 DEF SharesAccounted
  <2> QED  BY <1>5, <1>6, <2>1
<1>11. shares' = [shares EXCEPT ![t] = shares'[t]]  BY <1>4 DEF Accounted, TypeOK
<1> QED  BY <1>8, <1>9, <1>10, <1>11 DEF Accounted

LEMMA BuyAccounted ==
    ASSUME Accounted, NEW t \in Tickers, NEW n \in Sizes, NEW price \in Prices,
           NEW loss \in Levels, NEW profit \in Levels,
           Buy(t, n, price, loss, profit)
    PROVE  /\ Accounted'
           /\ shares'[t] >= shares[t]
           /\ \A u \in Tickers : u # t => shares'[u] = shares[u]
<1> DEFINE m == BuyShares(n, price, cash)
<1>1. Lot \in Nat /\ n \in Nat /\ price \in Nat \ {0} /\ TPlusOne \in BOOLEAN
  BY TradingEngineAssumption
<1>2. m \in Nat
  <2>1. m \in Int  BY <1>1, BuySize DEF Accounted, TypeOK
  <2>2. m >= Lot  BY DEF Buy
  <2> QED  BY <1>1, <2>1, <2>2
<1>3. BuyCost(m, price) \in Int  BY <1>1, <1>2, Amounts
<1> HIDE DEF m
<1>4. /\ cash' = cash - BuyCost(m, price)
      /\ shares' = [shares EXCEPT ![t] = @ + m]
      /\ available' = [available EXCEPT ![t] = IF TPlusOne THEN @ ELSE @ + m]
      /\ frozen' = [frozen EXCEPT ![t] = IF TPlusOne THEN @ + m ELSE @]
      /\ bought' = [bought EXCEPT ![t][date] = @ + m]
      /\ stop' = [stop EXCEPT ![t] = IF loss = NoLevel THEN @ ELSE loss]
      /\ target' = [target EXCEPT ![t] = IF profit = NoLevel THEN @ ELSE profit]
      /\ trades' = trades + 1 /\ date' = date
  BY DEF Buy, Record, m
<1>5. /\ shares' \in [Tickers -> Nat] /\ available' \in [Tickers -> Nat]
      /\ frozen' \in [Tickers -> Nat]
  BY <1>2, <1>4 DEF Accounted, TypeOK
<1>6. bought' \in [Tickers -> [Dates -> Nat]]
  <2>1. date \in Dates /\ bought[t] \in [Dates -> Nat]  BY DEF Accounted, TypeOK
  <2>2. [bought[t] EXCEPT ![date] = @ + m] \in [Dates -> Nat]  BY <1>2, <2>1
  <2> QED  BY <1>4, <2>2 DEF Accounted, TypeOK
<1>7. stop' \in [Tickers -> Levels] /\ target' \in [Tickers -> Levels]
  BY <1>4 DEF Accounted, TypeOK
<1>8. TypeOK'  BY <1>3, <1>4, <1>5, <1>6, <1>7 DEF Accounted, TypeOK
<1>9. SharesAccounted'
  BY <1>1, <1>2, <1>4 DEF Accounted, TypeOK, SharesAccounted
<1> QED  BY <1>2, <1>4, <1>8, <1>9 DEF Accounted, TypeOK

LEMMA AccountedStep == Accounted /\ [Next]_vars => Accounted'
<1> SUFFICES ASSUME Accounted, [Next]_vars  PROVE Accounted'  OBVIOUS
<1>1. ASSUME NEW d \in Dates, SetDate(d)  PROVE Accounted'
  BY <1>1 DEF SetDate, Released, Accounted, TypeOK, SharesAccounted
<1>2. ASSUME NEW t \in Tickers, NEW price \in Prices, NEW n \in Sizes,
             SeedPosition(t, n, price)
      PROVE  Accounted'
  <2>1. n \in Nat /\ price \in Nat  BY TradingEngineAssumption
  <2>2. n * price \in Int  BY <2>1
  <2>3. shares[t] = 0 /\ available[t] = 0 /\ frozen[t] = 0
    BY <1>2 DEF SeedPosition, Accounted, TypeOK, SharesAccounted
  <2> QED  BY <1>2, <2>1, <2>2, <2>3 DEF SeedPosition, Accounted, TypeOK, SharesAccounted
<1>3. ASSUME NEW t \in Tickers, NEW price \in Prices, NEW n \in Sizes, Sell(t, n, price)
      PROVE  Accounted'
  <2>1. n \in Nat  BY TradingEngineAssumption
  <2> QED  BY <1>3, <2>1, SettleAccounted DEF Sell
<1>4. ASSUME NEW t \in Tickers, NEW price \in Prices, NEW n \in Sizes,
             NEW loss \in Levels, NEW profit \in Levels, Buy(t, n, price, loss, profit)
      PROVE  Accounted'
  BY <1>4, BuyAccounted
<1>5. ASSUME NEW t \in Tickers, NEW price \in Prices, UpdatePrice(t, price)
      PROVE  Accounted'
  <2>1. available[t] \in Nat  BY DEF Accounted, TypeOK
  <2> QED  BY <1>5, <2>1, SettleAccounted DEF UpdatePrice
<1>6. CASE UNCHANGED vars
  BY <1>6 DEF vars, position, Accounted, TypeOK, SharesAccounted
<1> QED  BY <1>1, <1>2, <1>3, <1>4, <1>5, <1>6 DEF Next

\* Whatever is seeded, bought, sold, released or sold by exit levels, a
\* position's shares are its available and its frozen ones, and no count is
\* negative.
THEOREM SharesStayAccounted == Spec => [](TypeOK /\ SharesAccounted)
<1>1. Init => Accounted
  BY TradingEngineAssumption DEF Init, Accounted, TypeOK, SharesAccounted, Dates, Levels
<1>2. Accounted => TypeOK /\ SharesAccounted  BY DEF Accounted
<1> QED  BY <1>1, <1>2, AccountedStep, PTL DEF Spec

\* Every variable keeps its type: a trade books whole numbers of shares, none of
\* them negative, and dates and exit levels that callers may use.
COROLLARY TypeCorrect == Spec => []TypeOK
BY SharesStayAccounted, PTL

-----------------------------------------------------------------------------
\* The shares bought today stay frozen today.
LEMMA FrozenStep ==
    ASSUME ~Backdating, Accounted, BoughtIsFrozen, [Next]_vars
    PROVE  BoughtIsFrozen'
<1> USE DEF BoughtIsFrozen
<1>1. ASSUME NEW d \in Dates, SetDate(d)  PROVE BoughtIsFrozen'
  <2>1. date \in Nat /\ d \in Nat /\ d >= date  BY <1>1 DEF SetDate, Accounted, TypeOK, Dates
  <2>2. date' = d /\ bought' = bought  BY <1>1 DEF SetDate
  <2>3. CASE d = date
    BY <1>1, <2>2, <2>3 DEF SetDate, ReleasesOn
  <2>4. CASE d > date
    <3>1. \A t \in Tickers : bought[t][d] = 0  BY <2>4
    <3>2. \A t \in Tickers : frozen'[t] = 0
      BY <1>1, <2>1, <2>4 DEF SetDate, ReleasesOn
    <3>3. \A t \in Tickers, e \in Dates : e > d => bought[t][e] = 0
      BY <2>1, <2>4 DEF Dates
    <3> QED  BY <2>2, <3>1, <3>2, <3>3
  <2>5. d = date \/ d > date  BY <2>1
  <2> QED  BY <2>3, <2>4, <2>5
<1>2. ASSUME NEW t \in Tickers, NEW price \in Prices, NEW n \in Sizes,
             SeedPosition(t, n, price)
      PROVE  BoughtIsFrozen'
  BY <1>2 DEF SeedPosition
<1>3. ASSUME NEW t \in Tickers, NEW price \in Prices, NEW n \in Sizes, Sell(t, n, price)
      PROVE  BoughtIsFrozen'
  BY <1>3 DEF Sell, Settle
<1>4. ASSUME NEW t \in Tickers, NEW price \in Prices, NEW n \in Sizes,
             NEW loss \in Levels, NEW profit \in Levels, Buy(t, n, price, loss, profit)
      PROVE  BoughtIsFrozen'
  <2> DEFINE m == BuyShares(n, price, cash)
  <2>1. m \in Int
    <3>1. n \in Nat /\ price \in Nat \ {0}  BY TradingEngineAssumption
    <3> QED  BY <3>1, BuySize DEF Accounted, TypeOK
  <2> HIDE DEF m
  <2>2. /\ frozen' = [frozen EXCEPT ![t] = IF TPlusOne THEN @ + m ELSE @]
        /\ bought' = [bought EXCEPT ![t][date] = @ + m] /\ date' = date
    BY <1>4 DEF Buy, m
  <2>3. date \in Dates /\ date \in Nat  BY DEF Accounted, TypeOK, Dates
  <2>4. \A u \in Tickers, d \in Dates : d # date => bought'[u][d] = bought[u][d]
    BY <2>2, <2>3 DEF Accounted, TypeOK
  <2>5. \A u \in Tickers, d \in Dates : d > date => bought'[u][d] = 0
    BY <2>3, <2>4 DEF Dates
  <2>6. bought'[t][date] = bought[t][date] + m
    BY <2>2, <2>3 DEF Accounted, TypeOK
  <2>7. bought[t][date] \in Nat /\ frozen[t] \in Nat  BY <2>3 DEF Accounted, TypeOK
  <2>8. ASSUME TPlusOne  PROVE \A u \in Tickers : bought'[u][date] <= frozen'[u]
    <3>1. frozen'[t] = frozen[t] + m  BY <2>2, <2>8 DEF Accounted, TypeOK
    <3>2. bought'[t][date] <= frozen'[t]  BY <2>1, <2>6, <2>7, <2>8, <3>1
    <3>3. \A u \in Tickers : u # t => frozen'[u] = frozen[u] /\ bought'[u] = bought[u]
      BY <2>2 DEF Accounted, TypeOK
    <3> QED  BY <2>8, <3>2, <3>3
  <2> QED  BY <2>2, <2>5, <2>8
<1>5. ASSUME NEW t \in Tickers, NEW price \in Prices, UpdatePrice(t, price)
      PROVE  BoughtIsFrozen'
  BY <1>5 DEF UpdatePrice, Settle
<1>6. CASE UNCHANGED vars
  BY <1>6 DEF vars, position
<1> QED  BY <1>1, <1>2, <1>3, <1>4, <1>5, <1>6 DEF Next

\* As long as nobody sets an earlier date, shares bought on a date are frozen
\* on it.
THEOREM BoughtStaysFrozen ==
    ASSUME ~Backdating
    PROVE  Spec => []BoughtIsFrozen
<1>1. Init => BoughtIsFrozen
  BY TradingEngineAssumption DEF Init, BoughtIsFrozen, Dates
<1>2. Accounted /\ BoughtIsFrozen /\ [Next]_vars => BoughtIsFrozen'  BY FrozenStep
<1>3. Spec => []Accounted
  BY SharesStayAccounted, PTL DEF Accounted
<1> QED  BY <1>1, <1>2, <1>3, PTL DEF Spec

\* As long as nobody sets an earlier date, no sale, asked for or triggered by
\* an exit level, takes shares bought on the same date.
THEOREM TPlusOneHolds ==
    ASSUME ~Backdating
    PROVE  Spec => SellsSettledShares
<1>1. ASSUME Accounted, BoughtIsFrozen, [Next]_vars
      PROVE  [\A t \in Tickers : TPlusOne /\ shares'[t] < shares[t]
                => shares'[t] >= bought[t][date]]_vars
  <2> SUFFICES ASSUME NEW u \in Tickers, TPlusOne, shares'[u] < shares[u]
               PROVE  shares'[u] >= bought[u][date]
    OBVIOUS
  <2>1. /\ bought[u][date] <= frozen[u] /\ bought[u][date] \in Nat
        /\ frozen[u] \in Nat /\ shares[u] \in Nat
    BY <1>1 DEF BoughtIsFrozen, Accounted, TypeOK
  <2>2. ASSUME NEW t \in Tickers, NEW n \in Nat, NEW price \in Prices,
               Settle(t, SellShares(n, available[t]), price)
        PROVE  shares'[u] >= bought[u][date]
    <3>1. shares' = [shares EXCEPT ![t] = shares'[t]] /\ shares'[t] >= frozen[t] /\ Accounted'
      BY <1>1, <2>2, SettleAccounted
    <3>2. u = t  BY <1>1, <2>1, <3>1 DEF Accounted, TypeOK
    <3>3. shares'[u] \in Nat  BY <3>1 DEF Accounted, TypeOK
    <3> QED  BY <2>1, <3>1, <3>2, <3>3
  <2>3. ASSUME NEW d \in Dates, SetDate(d)  PROVE FALSE
    BY <2>1, <2>3 DEF SetDate
  <2>4. ASSUME NEW t \in Tickers, NEW price \in Prices, NEW n \in Sizes,
               SeedPosition(t, n, price)
        PROVE  FALSE
    <3>1. n \in Nat  BY TradingEngineAssumption
    <3> QED  BY <1>1, <2>1, <2>4, <3>1 DEF SeedPosition, Accounted, TypeOK
  <2>5. ASSUME NEW t \in Tickers, NEW price \in Prices, NEW n \in Sizes, Sell(t, n, price)
        PROVE  shares'[u] >= bought[u][date]
    <3>1. n \in Nat  BY TradingEngineAssumption
    <3> QED  BY <2>2, <2>5, <3>1 DEF Sell
  <2>6. ASSUME NEW t \in Tickers, NEW price \in Prices, NEW n \in Sizes,
               NEW loss \in Levels, NEW profit \in Levels, Buy(t, n, price, loss, profit)
        PROVE  FALSE
    <3>1. shares'[u] >= shares[u] /\ Accounted'  BY <1>1, <2>1, <2>6, BuyAccounted
    <3>2. shares'[u] \in Nat  BY <3>1 DEF Accounted, TypeOK
    <3> QED  BY <2>1, <3>1, <3>2
  <2>7. ASSUME NEW t \in Tickers, NEW price \in Prices, UpdatePrice(t, price)
        PROVE  shares'[u] >= bought[u][date]
    <3>1. available[t] \in Nat  BY <1>1 DEF Accounted, TypeOK
    <3> QED  BY <2>2, <2>7, <3>1 DEF UpdatePrice
  <2>8. ~UNCHANGED vars  BY <2>1 DEF vars, position
  <2> QED  BY <1>1, <2>3, <2>4, <2>5, <2>6, <2>7, <2>8 DEF Next
<1>2. Spec => []Accounted
  BY SharesStayAccounted, PTL DEF Accounted
<1>3. Spec => []BoughtIsFrozen  BY BoughtStaysFrozen
<1> QED  BY <1>1, <1>2, <1>3, PTL DEF Spec, SellsSettledShares

\* A purchase never leaves a debt greater than the minimum commission.
THEOREM OverdraftStaysBounded == Spec => OverdraftBounded
<1>1. ASSUME Accounted, [Next]_vars
      PROVE  [\A t \in Tickers : bought'[t] # bought[t] => cash' >= -MinimumCommission]_vars
  <2> SUFFICES ASSUME NEW u \in Tickers, bought'[u] # bought[u]
               PROVE  cash' >= -MinimumCommission
    OBVIOUS
  <2>1. PICK t \in Tickers, n \in Sizes, price \in Prices, loss \in Levels, profit \in Levels :
          Buy(t, n, price, loss, profit)
    BY <1>1 DEF Next, SetDate, SeedPosition, Sell, UpdatePrice, Settle, vars
  <2> DEFINE m == BuyShares(n, price, cash)
  <2>2. /\ Lot \in Nat \ {0} /\ n \in Nat /\ price \in Nat \ {0}
        /\ cash \in Int /\ MinimumCommission \in Nat
    BY <1>1, TradingEngineAssumption DEF Accounted, TypeOK
  <2>3. m >= Lot /\ cash' = cash - BuyCost(m, price)  BY <2>1 DEF Buy
  <2>4. m \in Nat
    <3>1. m \in Int  BY <2>2, BuySize
    <3> QED  BY <2>2, <2>3, <3>1
  <2>5. BuyCost(m, price) \in Int  BY <2>2, <2>4, Amounts
  <2>6. CASE m = LotsOf(n) /\ BuyCost(m, price) <= cash
    BY <2>2, <2>3, <2>5, <2>6
  <2>7. CASE m = Affordable(cash, price)
    <3>1. BuyCost(m, price) <= cash + MinimumCommission  BY <2>2, <2>4, <2>7, AffordableBound
    <3> HIDE DEF m
    <3> QED  BY <2>2, <2>3, <2>5, <3>1
  <2>8. CASE m = LotsOf(n) /\ LotsOf(n) < Lot
    BY <2>2, <2>3, <2>4, <2>8
  <2>9. \/ m = LotsOf(n) /\ LotsOf(n) < Lot
        \/ m = LotsOf(n) /\ BuyCost(m, price) <= cash
        \/ m = Affordable(cash, price)
    BY DEF BuyShares
  <2> QED  BY <2>6, <2>7, <2>8, <2>9
<1>2. Spec => []Accounted
  BY SharesStayAccounted, PTL DEF Accounted
<1> QED  BY <1>1, <1>2, PTL DEF Spec, OverdraftBounded

-----------------------------------------------------------------------------
(* What the research workflow decides, and the orders that follow. *)
CONSTANTS Today, Opens, Closes, Interval, MaxAge, Names, Answers, Risks, Accounts,
          DefaultSize, MaxSingle, MaxTotal, Limit
VARIABLES caller, graph, specs, order, used
Deciding == INSTANCE Analysis

Days == 1..Today
Strategies == Names \cup {"none"}
Contexts == [days : SUBSET Days, asof : 0..Today, news : BOOLEAN, web : {"none", "snippet_only", "full_text"}]
Roles == {"technical", "fundamentals", "sentiment", "debate", "risk"}
Reports == UNION {[some -> 0..Today] : some \in SUBSET Roles}
Works == [stage : {"data", "analysts", "debate", "risk", "failed"}, strategy : Strategies, asof : 0..Today,
          context : SUBSET Contexts, reports : Reports]
Managed == [stage : {"portfolio"}, strategy : Strategies, asof : 0..Today,
            context : SUBSET Contexts, reports : Reports, limit : Int]
Decided == [stage : {"done"}, side : {"buy", "sell", "hold"}, plan : Deciding!Plans,
            size : SUBSET Int, limit : Int, known : 0..Today, data : 0..Today, told : 0..Today,
            asof : 0..Today]
Backtests == [kind : {"backtest"}, strategy : Strategies, fill : {"next_open", "same_close"}, bars : SUBSET Days,
              day : Days, at : {"open", "close"}, pending : SUBSET Decided]
Lives == [kind : {"agent", "chat"}, day : Days]
Reviews == [kind : {"review"}, day : Days, side : {"buy", "sell"}]

\* What a context tells of a day: nothing later, and only then what is of today.
Dated(context, asof) ==
    /\ context.asof = asof
    /\ asof # 0 => /\ \A d \in context.days : d <= asof
                   /\ ~context.news /\ context.web = "none"

\* The workflow.
Informed ==
    /\ graph \in {Deciding!Rest} \cup Works \cup Managed \cup Decided
    /\ specs \in [Names -> [known : 0..Today, runs : BOOLEAN]] /\ used \in 0..Limit
    /\ graph \in Works \cup Managed =>
          /\ graph.stage # "data" => graph.context # {}
          /\ \A context \in graph.context : Dated(context, graph.asof)
          /\ graph.asof # 0 => \A n \in DOMAIN graph.reports : graph.reports[n] <= graph.asof
    /\ graph \in Decided /\ graph.asof # 0 => graph.known <= graph.asof

\* Of two numbers.
Greater(a, b) == Deciding!Max({a, b})
Lesser(a, b) == Deciding!Min({a, b})

\* A size is within the limit that was set with it.
Within(decision) ==
    /\ \A s \in decision.size : 0 <= s /\ s <= Greater(decision.limit, 0)
    /\ \A s, t \in decision.size : s = t
Justified ==
    graph \in Decided =>
        /\ Within(graph)
        /\ graph.side = "buy" => /\ 0 < graph.plan.stop /\ Deciding!Ordered(graph.plan)
                                 /\ graph.plan.explained /\ graph.plan.evidence = "dated"

\* The callers.
Asking ==
    /\ caller \in {Deciding!Nobody} \cup Backtests \cup Lives \cup Reviews
    /\ caller = Deciding!Nobody => graph = Deciding!Rest
    /\ caller \in Lives /\ graph # Deciding!Rest => graph.asof = 0
    /\ caller \in Backtests =>
          /\ graph # Deciding!Rest => /\ graph.asof = caller.day
                                      /\ caller.at = "close" /\ caller.day \in caller.bars
          /\ \A d \in caller.pending :
                /\ d.asof \in Days /\ d.asof < caller.day /\ Within(d) /\ d.side # "hold"
                /\ \A b \in caller.bars : ~(d.asof < b /\ b < caller.day)
                /\ caller.at = "close" => caller.day \notin caller.bars
OrderTyped == order.side \in {"hold", "buy", "sell", "approved"}

-----------------------------------------------------------------------------
\* The greatest of some days is one of them.
LEMMA GreatestIs ==
    ASSUME NEW b \in Nat, NEW S \in SUBSET (0..b), S # {}
    PROVE  Deciding!Max(S) \in S /\ \A x \in S : x <= Deciding!Max(S)
<1> DEFINE T == {b - x : x \in S}
<1>1. T \subseteq Nat /\ T # {}
  <2>1. \A x \in S : x \in Int /\ x <= b  OBVIOUS
  <2>2. \A x \in S : b - x \in Nat  BY <2>1
  <2> QED  BY <2>2
<1>2. PICK t \in T : \A u \in T : ~(<<u, t>> \in OpToRel(<, Nat))
  BY <1>1, NatLessThanWellFounded, WFMin
<1>3. PICK m \in S : t = b - m  OBVIOUS
<1>4. \A x \in S : m >= x
  <2> TAKE x \in S
  <2>1. ~(b - x < b - m)  BY <1>1, <1>2, <1>3 DEF OpToRel
  <2> QED  BY <2>1
<1>5. \E x \in S : \A y \in S : x >= y  BY <1>4
<1>6. Deciding!Max(S) \in S /\ \A y \in S : Deciding!Max(S) >= y  BY <1>5 DEF Deciding!Max
<1> QED  BY <1>6

LEMMA NewestIs ==
    ASSUME NEW b \in Nat, NEW S \in SUBSET (0..b)
    PROVE  Deciding!Newest(S) \in 0..b
<1>1. S \cup {0} \in SUBSET (0..b) /\ S \cup {0} # {}  OBVIOUS
<1>2. Deciding!Max(S \cup {0}) \in S \cup {0}  BY <1>1, GreatestIs
<1> QED  BY <1>1, <1>2 DEF Deciding!Newest

\* Of two numbers.
LEMMA GreaterIs ==
    ASSUME NEW a \in Int, NEW b \in Int
    PROVE  /\ Greater(a, b) \in Int /\ (Greater(a, b) = a \/ Greater(a, b) = b)
           /\ a <= Greater(a, b) /\ b <= Greater(a, b)
<1>1. \E x \in {a, b} : \A y \in {a, b} : x >= y  OBVIOUS
<1>2. Greater(a, b) \in {a, b} /\ \A y \in {a, b} : Greater(a, b) >= y  BY <1>1 DEF Greater, Deciding!Max
<1> QED  BY <1>2

LEMMA LesserIs ==
    ASSUME NEW a \in Int, NEW b \in Int
    PROVE  /\ Lesser(a, b) \in Int /\ (Lesser(a, b) = a \/ Lesser(a, b) = b)
           /\ Lesser(a, b) <= a /\ Lesser(a, b) <= b
<1>1. \E x \in {a, b} : \A y \in {a, b} : x =< y  OBVIOUS
<1>2. Lesser(a, b) \in {a, b} /\ \A y \in {a, b} : Lesser(a, b) =< y  BY <1>1 DEF Lesser, Deciding!Min
<1> QED  BY <1>2

LEMMA OfOne ==
    ASSUME NEW a \in Int
    PROVE  Deciding!Max({a}) = a
BY DEF Deciding!Max

-----------------------------------------------------------------------------
\* Orders.
LEMMA InLotsIs ==
    ASSUME Deciding!AnalysisAssumption, NEW n \in Int
    PROVE  Deciding!InLots(n) \in Int /\ Deciding!InLots(n) <= n /\ Deciding!InLots(n) % Lot = 0
<1>1. Lot \in Nat \ {0}  BY DEF Deciding!AnalysisAssumption
<1> DEFINE q == n \div Lot
           m == q * Lot
<1>2. q \in Int /\ m <= n  BY <1>1
<1> HIDE DEF q
<1>3. m \in Int  BY <1>1, <1>2
<1> HIDE DEF m
<1> DEFINE k == m \div Lot
           r == m % Lot
<1>4. k \in Int /\ r \in 0..(Lot - 1) /\ m = k * Lot + r  BY <1>1, <1>3
<1> HIDE DEF k, r
<1>5. q * Lot = k * Lot + r  BY <1>4 DEF m
<1>6. r = (q - k) * Lot  BY <1>1, <1>2, <1>4, <1>5
<1>7. \A i \in Int, l \in Nat \ {0} : i * l >= 0 /\ i * l < l => i = 0  OBVIOUS
<1>8. q - k = 0  BY <1>1, <1>2, <1>4, <1>6, <1>7
<1>9. r = 0  BY <1>1, <1>6, <1>8
<1> QED  BY <1>2, <1>3, <1>9 DEF m, q, r, Deciding!InLots

LEMMA BudgetIs ==
    ASSUME NEW a \in Int, NEW b \in Nat \ {0}
    PROVE  a \div b \in Int /\ (a \div b) * b <= a
OBVIOUS

LEMMA PercentIs ==
    ASSUME Deciding!AnalysisAssumption, NEW size \in SUBSET Int, \A s, t \in size : s = t
    PROVE  Deciding!Percent(size) \in Int /\ \A s \in size \ {0} : Deciding!Percent(size) = s
<1>1. DefaultSize \in Int  BY DEF Deciding!AnalysisAssumption
<1>2. CASE size = {} \/ size = {0}  BY <1>1, <1>2 DEF Deciding!Percent
<1>3. CASE ~(size = {} \/ size = {0})
  <2>1. PICK s \in size : TRUE  BY <1>3
  <2>2. size = {s}  BY <2>1
  <2>3. Deciding!Percent(size) = Deciding!Max({s})  BY <1>3, <2>2 DEF Deciding!Percent
  <2> QED  BY <2>2, <2>3, OfOne
<1> QED  BY <1>2, <1>3

\* A purchase takes its part of the cash, of the account, and of what the risk
\* manager allowed.
LEMMA PurchaseFits ==
    ASSUME Deciding!AnalysisAssumption, NEW account \in Accounts, NEW decision \in Decided, Within(decision),
           decision.side = "buy", NEW price \in Nat \ {0}, NEW n, n = Deciding!Shares(account, decision, price), n > 0
    PROVE  LET cost == n * price
           IN /\ n \in Int /\ n % Lot = 0 /\ cost * 100 <= account.cash * MaxSingle
              /\ (account.invested + cost) * 100 <= (account.cash + account.invested) * MaxTotal
              /\ \A s \in decision.size \ {0} : cost * 100 <= account.cash * Greater(decision.limit, 0)
<1> DEFINE money == account.cash
           invested == account.invested
           asked == Deciding!Percent(decision.size)
           floor == Greater(asked, 0)
           percent == Lesser(floor, MaxSingle)
           total == money + invested
           first == (money * percent) \div 100
           room == (total * MaxTotal) \div 100 - invested
           free == Greater(room, 0)
           budget == Lesser(first, free)
           lots == budget \div price
           limit == Greater(decision.limit, 0)
<1>1. money \in Nat /\ invested \in Nat /\ MaxSingle \in Nat /\ MaxTotal \in Nat
  BY DEF Deciding!AnalysisAssumption
<1>2. asked \in Int /\ \A s \in decision.size \ {0} : asked = s
  BY PercentIs DEF Decided, Within
<1>3. decision.limit \in Int  BY DEF Decided
<1>4. n = Deciding!InLots(lots)
  BY DEF Deciding!Shares, Deciding!Investable, Greater, Lesser
<1>5. floor \in Nat /\ (floor = asked \/ floor = 0) /\ asked <= floor
  <2> HIDE DEF asked
  <2>0. asked \in Int /\ 0 \in Int  BY <1>2
  <2>a. floor \in Int  BY <2>0, GreaterIs
  <2>b. floor = asked \/ floor = 0  BY <2>0, GreaterIs
  <2>1. floor \in Int /\ (floor = asked \/ floor = 0)  BY <2>a, <2>b
  <2>2. asked <= floor  BY <1>2, GreaterIs
  <2>3. 0 <= floor  BY <1>2, GreaterIs
  <2> HIDE DEF floor
  <2> QED  BY <2>1, <2>2, <2>3
<1> HIDE DEF asked, floor
<1>6. percent \in Nat /\ percent <= floor /\ percent <= MaxSingle
  <2>1. floor \in Int /\ MaxSingle \in Int  BY <1>1, <1>5
  <2>2. percent \in Int /\ (percent = floor \/ percent = MaxSingle)  BY <2>1, LesserIs
  <2>3. percent <= floor  BY <2>1, LesserIs
  <2>4. percent <= MaxSingle  BY <2>1, LesserIs
  <2> HIDE DEF percent
  <2> QED  BY <1>1, <1>5, <2>2, <2>3, <2>4
<1> HIDE DEF percent
<1>7. money * percent \in Int /\ total * MaxTotal \in Int  BY <1>1, <1>6
<1>8. first \in Int /\ first * 100 <= money * percent  BY <1>7, BudgetIs
<1>9. room \in Int /\ (room + invested) * 100 <= total * MaxTotal
  <2>1. (total * MaxTotal) \div 100 \in Int /\ ((total * MaxTotal) \div 100) * 100 <= total * MaxTotal
    BY <1>7, BudgetIs
  <2> QED  BY <1>1, <2>1
<1> HIDE DEF first, room
<1>10. free \in {room, 0}  BY <1>9, GreaterIs
<1> HIDE DEF free
<1>11. budget \in Int /\ budget <= first /\ budget <= free
  <2>1. first \in Int /\ free \in Int  BY <1>8, <1>9, <1>10
  <2>2. budget \in Int  BY <2>1, LesserIs
  <2>3. budget <= first  BY <2>1, LesserIs
  <2>4. budget <= free  BY <2>1, LesserIs
  <2> QED  BY <2>2, <2>3, <2>4
<1> HIDE DEF budget
<1>12. lots \in Int /\ lots * price <= budget  BY <1>11, BudgetIs
<1> HIDE DEF lots
<1>13. n \in Int /\ n <= lots /\ n % Lot = 0  BY <1>4, <1>12, InLotsIs
<1> DEFINE cost == n * price
<1>14. cost \in Int /\ cost > 0 /\ cost <= budget
  <2>1. \A i \in Int, j \in Int, p \in Nat \ {0} : i <= j => i * p <= j * p  OBVIOUS
  <2>2. \A i \in Int, p \in Nat \ {0} : i > 0 => i * p \in Int /\ i * p > 0  OBVIOUS
  <2>3. n * price <= lots * price  BY <1>12, <1>13, <2>1
  <2>4. n * price \in Int /\ n * price > 0  BY <1>13, <2>2
  <2>5. lots * price \in Int  BY <1>12
  <2> QED  BY <1>11, <1>12, <2>3, <2>4, <2>5
<1> HIDE DEF cost
<1>15. cost * 100 <= money * percent
  <2>1. cost * 100 <= first * 100  BY <1>8, <1>11, <1>14
  <2> QED  BY <1>7, <1>8, <1>14, <2>1
<1>16. \A a \in Nat, b \in Int, c \in Int : b <= c => a * b \in Int /\ a * c \in Int /\ a * b <= a * c  OBVIOUS
<1>17. cost * 100 <= money * MaxSingle
  BY <1>1, <1>6, <1>7, <1>14, <1>15, <1>16
<1>18. (invested + cost) * 100 <= total * MaxTotal
  <2>1. free = room /\ cost <= room  BY <1>9, <1>10, <1>11, <1>14
  <2> QED  BY <1>1, <1>7, <1>9, <1>14, <2>1
<1>19. \A s \in decision.size \ {0} : cost * 100 <= money * limit
  <2> TAKE s \in decision.size \ {0}
  <2>1. limit \in Int /\ 0 <= s /\ s <= limit /\ s \in Int  BY <1>3, GreaterIs DEF Within, Decided
  <2> HIDE DEF limit
  <2>2. percent <= limit  BY <1>2, <1>5, <1>6, <2>1
  <2> QED  BY <1>1, <1>6, <1>7, <1>14, <1>15, <1>16, <2>1, <2>2
<1> QED  BY <1>13, <1>17, <1>18, <1>19 DEF cost

\* What an order is, made of a decision.
LEMMA OrderIs ==
    ASSUME Deciding!AnalysisAssumption, NEW account \in Accounts, NEW decision \in Decided, Within(decision),
           NEW price \in Nat \ {0}, NEW day, Deciding!Execute(decision, account, price, day)
    PROVE  \/ order' = Deciding!NoOrder
           \/ /\ order' = [side |-> decision.side, shares |-> Deciding!Shares(account, decision, price),
                           price |-> price, day |-> day, account |-> account, decision |-> decision]
              /\ Deciding!Shares(account, decision, price) > 0
<1>1. Deciding!Shares(account, decision, price) \in Int
  <2>0. account.available \in Nat /\ account.cash \in Nat /\ account.invested \in Nat /\ MaxSingle \in Nat
        /\ MaxTotal \in Nat
    BY DEF Deciding!AnalysisAssumption
  <2>1. Deciding!InLots(account.available) \in Int  BY <2>0, InLotsIs
  <2>2. Deciding!Investable(account, decision.size) \in Int
    <3> DEFINE asked == Deciding!Percent(decision.size)
               floor == Greater(asked, 0)
               percent == Lesser(floor, MaxSingle)
               room == ((account.cash + account.invested) * MaxTotal) \div 100 - account.invested
               free == Greater(room, 0)
    <3>1. asked \in Int  BY PercentIs DEF Decided, Within
    <3> HIDE DEF asked
    <3>2. floor \in Int  BY <3>1, GreaterIs
    <3> HIDE DEF floor
    <3>3. percent \in Int  BY <2>0, <3>2, LesserIs
    <3> HIDE DEF percent
    <3>4. (account.cash * percent) \div 100 \in Int  BY <2>0, <3>3, BudgetIs
    <3>5. room \in Int  BY <2>0, BudgetIs
    <3> HIDE DEF room
    <3>6. free \in Int  BY <3>5, GreaterIs
    <3> HIDE DEF free
    <3>7. Lesser((account.cash * percent) \div 100, free) \in Int  BY <3>4, <3>6, LesserIs
    <3> QED  BY <3>7 DEF Deciding!Investable, Greater, Lesser, asked, floor, percent, room, free
  <2>3. Deciding!Investable(account, decision.size) \div price \in Int  BY <2>2, BudgetIs
  <2>4. Deciding!InLots(Deciding!Investable(account, decision.size) \div price) \in Int  BY <2>3, InLotsIs
  <2> QED  BY <2>0, <2>1, <2>4 DEF Deciding!Shares
<1> QED  BY <1>1 DEF Deciding!Execute

-----------------------------------------------------------------------------
(* The workflow. *)

LEMMA StageIs ==
    ASSUME Informed
    PROVE  /\ graph.stage \in {"data", "analysts", "debate", "risk", "failed"} => graph \in Works
           /\ graph.stage = "portfolio" => graph \in Managed
           /\ graph.stage = "done" => graph \in Decided
           /\ graph # Deciding!Rest => graph.stage # "none"
BY DEF Informed, Works, Managed, Decided, Deciding!Rest

\* The last day an analysis may know of.
Horizon == IF graph.asof = 0 THEN Today ELSE graph.asof

LEMMA FactsAre ==
    ASSUME Deciding!AnalysisAssumption, Informed, graph \in Works \cup Managed
    PROVE  /\ Horizon \in 0..Today /\ graph.asof \in 0..Today
           /\ graph.reports \in Reports /\ \A n \in DOMAIN graph.reports : graph.reports[n] \in 0..Horizon
           /\ graph.context \in SUBSET Contexts
           /\ graph.stage # "data" =>
                 /\ Deciding!Facts \in Contexts /\ Dated(Deciding!Facts, graph.asof)
                 /\ Deciding!Facts.days \in SUBSET (0..Horizon)
<1>1. Today \in Nat  BY DEF Deciding!AnalysisAssumption
<1>2. graph.asof \in 0..Today /\ graph.reports \in Reports /\ graph.context \in SUBSET Contexts
  BY DEF Works, Managed
<1>3. Horizon \in 0..Today  BY <1>1, <1>2 DEF Horizon
<1>4. \A n \in DOMAIN graph.reports : graph.reports[n] \in 0..Today  BY <1>2 DEF Reports
<1>5. \A n \in DOMAIN graph.reports : graph.reports[n] \in 0..Horizon
  BY <1>1, <1>2, <1>4 DEF Informed, Horizon
<1>6. ASSUME graph.stage # "data"
      PROVE  /\ Deciding!Facts \in Contexts /\ Dated(Deciding!Facts, graph.asof)
             /\ Deciding!Facts.days \in SUBSET (0..Horizon)
  <2>1. graph.context # {}  BY <1>6 DEF Informed
  <2>2. Deciding!Facts \in graph.context  BY <2>1 DEF Deciding!Facts
  <2>3. Deciding!Facts \in Contexts /\ Dated(Deciding!Facts, graph.asof)  BY <1>2, <2>2 DEF Informed
  <2>4. Deciding!Facts.days \in SUBSET Days  BY <2>3 DEF Contexts
  <2>5. \A d \in Deciding!Facts.days : d \in 0..Horizon
    BY <1>1, <1>2, <2>3, <2>4 DEF Dated, Days, Horizon
  <2> QED  BY <2>3, <2>5
<1> QED  BY <1>2, <1>3, <1>5, <1>6

LEMMA WithIs ==
    ASSUME graph.reports \in Reports, NEW name \in Roles, NEW b \in 0..Today, NEW known \in 0..b, Today \in Nat,
           \A n \in DOMAIN graph.reports : graph.reports[n] \in 0..b
    PROVE  LET reports == Deciding!With(name, known)
           IN reports \in Reports /\ \A n \in DOMAIN reports : reports[n] \in 0..b
<1> DEFINE some == DOMAIN graph.reports \cup {name}
           reports == Deciding!With(name, known)
<1>1. some \in SUBSET Roles  BY DEF Reports
<1>2. reports = [n \in some |-> IF n = name THEN known ELSE graph.reports[n]]  BY DEF Deciding!With
<1>3. \A n \in some : (IF n = name THEN known ELSE graph.reports[n]) \in 0..b  OBVIOUS
<1>4. 0..b \subseteq 0..Today  OBVIOUS
<1>5. reports \in [some -> 0..Today]  BY <1>2, <1>3, <1>4
<1> QED  BY <1>1, <1>2, <1>3, <1>5 DEF Reports

LEMMA KnownIs ==
    ASSUME NEW b \in Nat, \A n \in DOMAIN graph.reports : graph.reports[n] \in 0..b, NEW names
    PROVE  Deciding!Known(names) \in 0..b
<1>1. {graph.reports[n] : n \in names \cap DOMAIN graph.reports} \in SUBSET (0..b)  OBVIOUS
<1> QED  BY <1>1, NewestIs DEF Deciding!Known

\* A context says what its day knows.
LEMMA ContextIs ==
    ASSUME NEW rows \in SUBSET Days, NEW asof \in 0..Today, NEW news \in BOOLEAN,
           NEW web \in {"none", "snippet_only", "full_text"}
    PROVE  LET context == Deciding!Context(rows, asof, news, web)
           IN context \in Contexts /\ Dated(context, asof)
BY DEF Deciding!Context, Deciding!Normalised, Contexts, Dated, Days

LEMMA NoReports ==
    /\ [a \in {} |-> 0] \in Reports /\ DOMAIN [a \in {} |-> 0] = {}
    /\ <<>> \in Reports /\ DOMAIN <<>> = {}
<1>1. [a \in {} |-> 0] \in [{} -> 0..Today]  OBVIOUS
<1>2. <<>> \in [{} -> 0..Today] /\ DOMAIN <<>> = {}  OBVIOUS
<1> QED  BY <1>1, <1>2 DEF Reports

\* A workflow that goes on.
LEMMA GoesOn ==
    ASSUME Informed, NEW next \in Works \cup Managed, graph' = next, UNCHANGED <<specs, used>>,
           next.stage # "data" => next.context # {},
           \A context \in next.context : Dated(context, next.asof),
           next.asof # 0 => \A n \in DOMAIN next.reports : next.reports[n] <= next.asof
    PROVE  Informed' /\ Justified' /\ graph' # Deciding!Rest
<1>1. next.stage # "done" /\ next.stage # "none"  BY DEF Works, Managed
<1>2. next \notin Decided /\ next # Deciding!Rest  BY <1>1 DEF Decided, Deciding!Rest
<1>3. specs' \in [Names -> [known : 0..Today, runs : BOOLEAN]] /\ used' \in 0..Limit  BY DEF Informed
<1> QED  BY <1>2, <1>3 DEF Informed, Justified

Progress == graph # Deciding!Rest /\ graph' # Deciding!Rest /\ graph'.asof = graph.asof /\ UNCHANGED <<caller, order>>

LEMMA DataStep ==
    ASSUME Deciding!AnalysisAssumption, Informed, NEW rows \in {{}, 1..Today}, NEW news \in BOOLEAN,
           NEW web \in {"none", "snippet_only", "full_text"},
           Deciding!FetchMarketData(rows, news, web) \/ Deciding!TakeMarketData
    PROVE  Informed' /\ Justified' /\ Progress
<1>1. graph.stage = "data" /\ graph \in Works  BY StageIs DEF Deciding!FetchMarketData, Deciding!TakeMarketData
<1> DEFINE context == Deciding!Context(rows, graph.asof, news, web)
           fetched == [graph EXCEPT !.stage = "analysts", !.context = {context}, !.reports = [a \in {} |-> 0]]
           taken == [graph EXCEPT !.stage = "analysts", !.reports = [a \in {} |-> 0]]
<1>2. graph.asof \in 0..Today  BY <1>1 DEF Works
<1>3. context \in Contexts /\ Dated(context, graph.asof)
  <2>1. rows \in SUBSET Days  BY DEF Days
  <2> QED  BY <1>2, <2>1, ContextIs
<1> HIDE DEF context
<1>4. [a \in {} |-> 0] \in Reports /\ DOMAIN [a \in {} |-> 0] = {}  BY NoReports
<1> DEFINE none == [a \in {} |-> 0]
<1> HIDE DEF none
<1>5. none \in Reports /\ DOMAIN none = {}  BY <1>4 DEF none

\* The record after the step.
<1>6. ASSUME NEW contexts \in SUBSET Contexts, contexts # {}, \A k \in contexts : Dated(k, graph.asof),
             graph' = [graph EXCEPT !.stage = "analysts", !.context = contexts, !.reports = none],
             UNCHANGED <<specs, used>>
      PROVE  Informed' /\ Justified' /\ graph' # Deciding!Rest /\ graph'.asof = graph.asof
  <2> DEFINE next == [graph EXCEPT !.stage = "analysts", !.context = contexts, !.reports = none]
  <2>1. next \in Works /\ next.context = contexts /\ next.reports = none /\ next.asof = graph.asof
    BY <1>1, <1>5, <1>6 DEF Works
  <2>2. graph' = next  BY <1>6
  <2> HIDE DEF next
  <2> QED  BY <1>5, <1>6, <2>1, <2>2, GoesOn
<1>7. graph # Deciding!Rest  BY <1>1 DEF Deciding!Rest
<1>8. CASE Deciding!FetchMarketData(rows, news, web)
  <2>1. /\ graph' = [graph EXCEPT !.stage = "analysts", !.context = {context}, !.reports = none]
        /\ UNCHANGED <<caller, specs, order, used>>
    BY <1>8 DEF Deciding!FetchMarketData, none, context
  <2>2. {context} \in SUBSET Contexts /\ {context} # {} /\ \A k \in {context} : Dated(k, graph.asof)
    BY <1>3
  <2>3. Informed' /\ Justified' /\ graph' # Deciding!Rest /\ graph'.asof = graph.asof
    BY <1>6, <2>1, <2>2
  <2> QED  BY <1>7, <2>1, <2>3 DEF Progress
<1>9. CASE Deciding!TakeMarketData
  <2>1. /\ graph' = [graph EXCEPT !.stage = "analysts", !.reports = none]
        /\ graph.context # {} /\ UNCHANGED <<caller, specs, order, used>>
    BY <1>9 DEF Deciding!TakeMarketData, none
  <2>2. graph.context \in SUBSET Contexts  BY <1>1 DEF Works
  <2>3. graph' = [graph EXCEPT !.stage = "analysts", !.context = graph.context, !.reports = none]
    BY <1>1, <1>5, <2>1 DEF Works
  <2> QED  BY <1>1, <1>6, <1>7, <2>1, <2>2, <2>3 DEF Progress, Informed
<1> QED  BY <1>8, <1>9

LEMMA AnalystStep ==
    ASSUME Deciding!AnalysisAssumption, Informed, NEW analyst \in Deciding!Analysts, NEW answered \in BOOLEAN,
           Deciding!Analyse(analyst, answered) \/ Deciding!Break \/ Deciding!Debate(answered)
    PROVE  Informed' /\ Justified' /\ Progress
<1>1. /\ graph \in Works /\ graph.stage \in {"analysts", "debate"} /\ graph # Deciding!Rest
      /\ UNCHANGED <<caller, specs, order, used>> /\ Today \in Nat
  <2>1. graph.stage \in {"analysts", "debate"} /\ UNCHANGED <<caller, specs, order, used>>
    BY DEF Deciding!Analyse, Deciding!Break, Deciding!Debate
  <2> QED  BY <2>1, StageIs DEF Deciding!Rest, Deciding!AnalysisAssumption
<1>2. /\ Horizon \in 0..Today /\ graph.asof \in 0..Today /\ graph.reports \in Reports
      /\ \A n \in DOMAIN graph.reports : graph.reports[n] \in 0..Horizon
      /\ Deciding!Facts \in Contexts /\ Dated(Deciding!Facts, graph.asof)
      /\ Deciding!Facts.days \in SUBSET (0..Horizon)
  BY <1>1, FactsAre
<1>3. \A name \in Roles, known \in 0..Horizon :
        /\ Deciding!With(name, known) \in Reports
        /\ \A n \in DOMAIN Deciding!With(name, known) : Deciding!With(name, known)[n] \in 0..Horizon
  BY <1>1, <1>2, WithIs

\* The record after the step.
<1>4. ASSUME NEW stage \in {"analysts", "debate", "risk", "failed"}, NEW reports \in Reports,
             \A n \in DOMAIN reports : reports[n] \in 0..Horizon,
             graph' = [graph EXCEPT !.reports = reports, !.stage = stage]
      PROVE  Informed' /\ Justified' /\ Progress
  <2> DEFINE next == [graph EXCEPT !.reports = reports, !.stage = stage]
  <2>1. next \in Works /\ next.context = graph.context /\ next.reports = reports /\ next.asof = graph.asof
    BY <1>1 DEF Works
  <2>2. graph' = next  BY <1>4
  <2> HIDE DEF next
  <2>3. next.asof # 0 => \A n \in DOMAIN next.reports : next.reports[n] <= next.asof
    BY <1>2, <1>4, <2>1 DEF Horizon
  <2>4. next.context # {} /\ \A context \in next.context : Dated(context, next.asof)
    BY <1>1, <2>1 DEF Informed
  <2>5. Informed' /\ Justified' /\ graph' # Deciding!Rest  BY <1>1, <2>1, <2>2, <2>3, <2>4, GoesOn
  <2> QED  BY <1>1, <2>1, <2>2, <2>5 DEF Progress
<1>5. CASE Deciding!Analyse(analyst, answered)
  <2> DEFINE known == IF Deciding!Material(analyst) /\ answered THEN Deciding!Basis(analyst) ELSE 0
             reports == Deciding!With(analyst, known)
             stage == IF Deciding!Analysts \subseteq DOMAIN reports THEN "debate" ELSE graph.stage
  <2>1. Deciding!Material(analyst) => Deciding!Basis(analyst) \in 0..Horizon
    <3>1. Deciding!Newest(Deciding!Facts.days) \in 0..Horizon  BY <1>1, <1>2, NewestIs
    <3>2. Deciding!Quoted(Deciding!Facts) \in 0..Horizon
      BY <1>1, <1>2, <3>1 DEF Deciding!Quoted, Dated, Horizon
    <3>3. graph.asof = 0 => Today \in 0..Horizon  BY <1>1 DEF Horizon
    <3>4. analyst = "sentiment" /\ Deciding!Material(analyst) => graph.asof = 0
      BY <1>2 DEF Deciding!Material, Dated
    <3> QED  BY <3>1, <3>2, <3>3, <3>4 DEF Deciding!Basis, Deciding!Analysts
  <2>2. known \in 0..Horizon  BY <1>1, <1>2, <2>1
  <2>3. analyst \in Roles  BY DEF Roles, Deciding!Analysts
  <2>4. graph' = [graph EXCEPT !.reports = reports, !.stage = stage] /\ graph.stage = "analysts"
    BY <1>5 DEF Deciding!Analyse
  <2>5. stage \in {"analysts", "debate"}  BY <2>4
  <2> HIDE DEF known, stage
  <2>6. reports \in Reports /\ \A n \in DOMAIN reports : reports[n] \in 0..Horizon  BY <1>3, <2>2, <2>3
  <2> HIDE DEF reports
  <2> QED  BY <1>4, <2>4, <2>5, <2>6
<1>6. CASE Deciding!Break
  <2>1. graph' = [graph EXCEPT !.stage = "failed"]  BY <1>6 DEF Deciding!Break
  <2>2. graph' = [graph EXCEPT !.reports = graph.reports, !.stage = "failed"]  BY <1>1, <2>1 DEF Works
  <2> QED  BY <1>2, <1>4, <2>2
<1>7. CASE Deciding!Debate(answered)
  <2> DEFINE known == IF answered THEN Deciding!Known(Deciding!Analysts) ELSE 0
             reports == Deciding!With("debate", known)
  <2>1. graph' = [graph EXCEPT !.stage = "risk", !.reports = reports]  BY <1>7 DEF Deciding!Debate
  <2>2. known \in 0..Horizon  BY <1>1, <1>2, KnownIs
  <2> HIDE DEF known
  <2>3. reports \in Reports /\ \A n \in DOMAIN reports : reports[n] \in 0..Horizon  BY <1>3, <2>2 DEF Roles
  <2> HIDE DEF reports
  <2>4. graph' = [graph EXCEPT !.reports = reports, !.stage = "risk"]  BY <1>1, <2>1, <2>3 DEF Works
  <2> QED  BY <1>4, <2>3, <2>4
<1> QED  BY <1>5, <1>6, <1>7

LEMMA RiskStep ==
    ASSUME Deciding!AnalysisAssumption, Informed, NEW answered \in BOOLEAN, NEW limit \in Risks,
           Deciding!Assess(answered, limit)
    PROVE  Informed' /\ Justified' /\ Progress
<1>1. /\ graph \in Works /\ graph.stage = "risk" /\ graph # Deciding!Rest
      /\ UNCHANGED <<caller, specs, order, used>> /\ Today \in Nat /\ limit \in Int
  <2>1. graph.stage = "risk" /\ UNCHANGED <<caller, specs, order, used>>
    BY DEF Deciding!Assess
  <2> QED  BY <2>1, StageIs DEF Deciding!Rest, Deciding!AnalysisAssumption
<1>2. /\ Horizon \in 0..Today /\ graph.asof \in 0..Today /\ graph.reports \in Reports
      /\ \A n \in DOMAIN graph.reports : graph.reports[n] \in 0..Horizon
      /\ Deciding!Facts.days \in SUBSET (0..Horizon)
  BY <1>1, FactsAre
<1> DEFINE all == {Deciding!Known(Deciding!Analysts), Deciding!Known({"debate"}), Deciding!Newest(Deciding!Facts.days)}
           known == IF answered THEN Deciding!Newest(all) ELSE 0
           reports == Deciding!With("risk", known)
           most == IF answered THEN limit ELSE Deciding!CautiousLimit
           next == [stage |-> "portfolio", strategy |-> graph.strategy, asof |-> graph.asof,
                    context |-> graph.context, reports |-> reports, limit |-> most]
<1>3. graph' = next  BY DEF Deciding!Assess
<1>4. known \in 0..Horizon
  <2>1. \A names : Deciding!Known(names) \in 0..Horizon  BY <1>1, <1>2, KnownIs
  <2>2. Deciding!Newest(Deciding!Facts.days) \in 0..Horizon  BY <1>1, <1>2, NewestIs
  <2>3. all \in SUBSET (0..Horizon)  BY <2>1, <2>2
  <2> HIDE DEF all
  <2>4. Deciding!Newest(all) \in 0..Horizon  BY <1>1, <1>2, <2>3, NewestIs
  <2> QED  BY <1>1, <1>2, <2>4
<1>5. most \in Int  BY <1>1 DEF Deciding!CautiousLimit
<1> HIDE DEF known, most
<1>6. reports \in Reports /\ \A n \in DOMAIN reports : reports[n] \in 0..Horizon
  BY <1>1, <1>2, <1>4, WithIs DEF Roles
<1> HIDE DEF reports
<1>7. next \in Managed /\ next.asof = graph.asof /\ next.reports = reports /\ next.context = graph.context
  BY <1>1, <1>5, <1>6 DEF Works, Managed
<1> HIDE DEF next
<1>8. next.asof # 0 => \A n \in DOMAIN next.reports : next.reports[n] <= next.asof
  BY <1>2, <1>6, <1>7 DEF Horizon
<1>9. next.context # {} /\ \A context \in next.context : Dated(context, next.asof)
  BY <1>1, <1>7 DEF Informed
<1>10. Informed' /\ Justified' /\ graph' # Deciding!Rest  BY <1>1, <1>3, <1>7, <1>8, <1>9, GoesOn
<1> QED  BY <1>1, <1>3, <1>7, <1>10 DEF Progress

\* What the portfolio manager lets pass, in its two checks and after the prices
\* beside the plan are merged into it.
LEMMA PlanIs ==
    ASSUME Deciding!AnalysisAssumption, NEW answer \in Answers
    PROVE  /\ Deciding!Merged(answer) \in Deciding!Plans
           /\ Deciding!Side(answer) \in {"buy", "sell", "hold", "unreadable"}
           /\ answer.side # "unreadable" => Deciding!Side(answer) # "unreadable"
           /\ Deciding!Side(answer) = "buy" =>
                 LET plan == Deciding!Merged(answer)
                 IN 0 < plan.stop /\ Deciding!Ordered(plan) /\ plan.explained /\ plan.evidence = "dated"
<1> DEFINE Level(level) == IF answer.top[level] # 0 THEN answer.top[level] ELSE answer.plan[level]
           plan == [answer.plan EXCEPT !.entry = Level("entry"), !.stop = Level("stop"), !.take = Level("take")]
<1>1. /\ answer.plan \in Deciding!Plans /\ answer.top \in [entry : Nat, stop : Nat, take : Nat]
      /\ answer.side \in {"buy", "sell", "hold", "unreadable"}
  BY DEF Deciding!AnalysisAssumption
<1>2. Level("entry") \in Nat /\ Level("stop") \in Nat /\ Level("take") \in Nat  BY <1>1 DEF Deciding!Plans
<1>3. Deciding!Merged(answer) = plan  BY DEF Deciding!Merged
<1> HIDE DEF Level
<1>4. plan \in Deciding!Plans /\ plan.evidence = answer.plan.evidence
  BY <1>1, <1>2 DEF Deciding!Plans
<1> HIDE DEF plan
<1>5. Deciding!Side(answer) = "buy" => Deciding!BuyPlanHasEvidence(answer.plan) /\ ~Deciding!Issues(plan)
  BY <1>3 DEF Deciding!Side
<1>6. Deciding!Side(answer) = "buy" => 0 < plan.stop /\ Deciding!Ordered(plan) /\ plan.explained
  BY <1>4, <1>5 DEF Deciding!Issues, Deciding!Complete, Deciding!Ordered, Deciding!Plans
<1>7. Deciding!Side(answer) = "buy" => plan.evidence = "dated"
  BY <1>4, <1>5 DEF Deciding!BuyPlanHasEvidence
<1>8. Deciding!Side(answer) \in {answer.side, "hold"}  BY DEF Deciding!Side
<1> QED  BY <1>1, <1>3, <1>4, <1>6, <1>7, <1>8

LEMMA SizeIs ==
    ASSUME NEW size \in SUBSET Int, \A s, t \in size : s = t, NEW limit \in Int
    PROVE  LET clamped == Deciding!Clamped(size, limit)
           IN /\ clamped \in SUBSET Int /\ \A s, t \in clamped : s = t
              /\ \A s \in clamped : 0 <= s /\ s <= Greater(limit, 0)
<1>1. Deciding!Clamped(size, limit) = {Lesser(Greater(s, 0), Greater(limit, 0)) : s \in size}
  BY DEF Deciding!Clamped, Lesser, Greater
<1>2. \A s \in size : LET c == Lesser(Greater(s, 0), Greater(limit, 0))
                      IN c \in Int /\ 0 <= c /\ c <= Greater(limit, 0)
  <2> TAKE s \in size
  <2> DEFINE a == Greater(s, 0)
             b == Greater(limit, 0)
             c == Lesser(a, b)
  <2>1. a \in Int /\ 0 <= a  BY GreaterIs
  <2>2. b \in Int /\ 0 <= b  BY GreaterIs
  <2> HIDE DEF a, b
  <2>3. c \in Int  BY <2>1, <2>2, LesserIs
  <2>4. c = a \/ c = b  BY <2>1, <2>2, LesserIs
  <2>5. c <= b  BY <2>1, <2>2, LesserIs
  <2> HIDE DEF c
  <2>6. 0 <= c  BY <2>1, <2>2, <2>3, <2>4
  <2> QED  BY <2>3, <2>5, <2>6 DEF a, b, c
<1> QED  BY <1>1, <1>2

LEMMA ManagerStep ==
    ASSUME Deciding!AnalysisAssumption, Informed,
           (\E answer \in Answers : Deciding!Decide(answer)) \/ Deciding!ManagerFails
    PROVE  Informed' /\ Justified' /\ Progress
<1>1. /\ graph \in Managed /\ graph.stage = "portfolio" /\ graph # Deciding!Rest /\ Today \in Nat
      /\ UNCHANGED <<caller, order, used>>
  <2>1. graph.stage = "portfolio" /\ UNCHANGED <<caller, order, used>>
    BY DEF Deciding!Decide, Deciding!ManagerFails
  <2> QED  BY <2>1, StageIs DEF Deciding!Rest, Deciding!AnalysisAssumption
<1>2. /\ Horizon \in 0..Today /\ graph.asof \in 0..Today
      /\ \A n \in DOMAIN graph.reports : graph.reports[n] \in 0..Horizon
      /\ Deciding!Facts \in Contexts /\ Dated(Deciding!Facts, graph.asof)
      /\ Deciding!Facts.days \in SUBSET (0..Horizon)
  BY <1>1, FactsAre
<1>3. graph.limit \in Int  BY <1>1 DEF Managed
<1> DEFINE both == {Deciding!Known(DOMAIN graph.reports), Deciding!Quoted(Deciding!Facts)}
           known == Deciding!Newest(both)
           data == Deciding!Newest(Deciding!Facts.days)
           told == Deciding!Told(graph.strategy)
           made(side, plan, size, rests) ==
               [stage |-> "done", side |-> side, plan |-> plan, size |-> size, limit |-> graph.limit,
                known |-> rests, data |-> data, told |-> told, asof |-> graph.asof]
<1>4. data \in 0..Horizon  BY <1>1, <1>2, NewestIs
<1>5. known \in 0..Horizon
  <2>1. Deciding!Known(DOMAIN graph.reports) \in 0..Horizon  BY <1>1, <1>2, KnownIs
  <2>2. Deciding!Quoted(Deciding!Facts) \in 0..Horizon  BY <1>1, <1>2, <1>4 DEF Deciding!Quoted, Dated, Horizon
  <2>3. both \in SUBSET (0..Horizon)  BY <2>1, <2>2
  <2> HIDE DEF both
  <2> QED  BY <1>1, <1>2, <2>3, NewestIs
<1>6. told \in 0..Today  BY <1>1 DEF Deciding!Told, Informed
<1>7. 0..Horizon \subseteq 0..Today  BY <1>1, <1>2
<1> HIDE DEF known, data, told

\* The decision.
<1>8. ASSUME NEW side \in {"buy", "sell", "hold"}, NEW plan \in Deciding!Plans, NEW size \in SUBSET Int,
             \A s, t \in size : s = t, \A s \in size : 0 <= s /\ s <= Greater(graph.limit, 0),
             side = "buy" => 0 < plan.stop /\ Deciding!Ordered(plan) /\ plan.explained /\ plan.evidence = "dated",
             NEW rests \in 0..Horizon, graph' = made(side, plan, size, rests),
             specs' \in [Names -> [known : 0..Today, runs : BOOLEAN]]
      PROVE  Informed' /\ Justified' /\ Progress
  <2> DEFINE next == made(side, plan, size, rests)
  <2>1. next \in Decided  BY <1>2, <1>3, <1>4, <1>6, <1>7, <1>8 DEF Decided
  <2>2. /\ next.asof = graph.asof /\ next.known = rests /\ next.side = side /\ next.plan = plan
        /\ next.stage = "done" /\ next.size = size /\ next.limit = graph.limit
    OBVIOUS
  <2>3. graph' = next  BY <1>8
  <2> HIDE DEF next
  <2>4. next \notin Works \cup Managed  BY <2>2 DEF Works, Managed
  <2>5. next.asof # 0 => next.known <= next.asof  BY <1>8, <2>2 DEF Horizon
  <2>6. used' \in 0..Limit  BY <1>1 DEF Informed
  <2>7. Informed'  BY <1>8, <2>1, <2>3, <2>4, <2>5, <2>6 DEF Informed
  <2>8. Within(next)  BY <1>8, <2>2 DEF Within
  <2>9. Justified'  BY <1>8, <2>2, <2>3, <2>8 DEF Justified, Within
  <2> QED  BY <1>1, <2>2, <2>3, <2>7, <2>9 DEF Progress, Deciding!Rest
<1>9. Deciding!NoPlan \in Deciding!Plans  BY DEF Deciding!NoPlan, Deciding!Plans
<1>10. specs \in [Names -> [known : 0..Today, runs : BOOLEAN]] /\ 0 \in 0..Horizon
  BY <1>2 DEF Informed
<1>11. CASE Deciding!ManagerFails
  <2>1. graph' = made("hold", Deciding!NoPlan, {}, 0) /\ UNCHANGED specs
    BY <1>11 DEF Deciding!ManagerFails, Deciding!Decision, data, told
  <2> QED  BY <1>8, <1>9, <1>10, <2>1
<1>12. ASSUME NEW answer \in Answers, Deciding!Decide(answer)
       PROVE  Informed' /\ Justified' /\ Progress
  <2>0. answer.size \in SUBSET Int /\ (\A s, t \in answer.size : s = t) /\ answer.runs \in BOOLEAN
    BY DEF Deciding!AnalysisAssumption
  <2>1. specs' \in [Names -> [known : 0..Today, runs : BOOLEAN]]
    <3> DEFINE kept == Deciding!Newest({known, told})
    <3>1. {known, told} \in SUBSET (0..Today)  BY <1>5, <1>6, <1>7
    <3>2. kept \in 0..Today  BY <1>1, <3>1, NewestIs
    <3>3. specs' = [n \in Names |-> IF answer.names = n THEN [known |-> kept, runs |-> answer.runs] ELSE specs[n]]
      BY <1>12 DEF Deciding!Decide, Deciding!Keep, known, told
    <3> HIDE DEF kept
    <3> QED  BY <1>10, <2>0, <3>2, <3>3
  <2> DEFINE size == Deciding!Clamped(answer.size, graph.limit)
  <2>2. /\ size \in SUBSET Int /\ \A s, t \in size : s = t
        /\ \A s \in size : 0 <= s /\ s <= Greater(graph.limit, 0)
    BY <1>3, <2>0, SizeIs
  <2> HIDE DEF size
  <2>3. CASE answer.side = "unreadable"
    <3>1. graph' = made("hold", Deciding!NoPlan, {}, 0)
      BY <1>12, <2>3 DEF Deciding!Decide, Deciding!Decision, data, told
    <3> QED  BY <1>8, <1>9, <1>10, <2>1, <3>1
  <2>4. CASE answer.side # "unreadable"
    <3> DEFINE side == Deciding!Side(answer)
               plan == Deciding!Merged(answer)
    <3>1. graph' = made(side, plan, size, known)
      BY <1>12, <2>4 DEF Deciding!Decide, Deciding!Decision, data, told, known, size
    <3>2. /\ plan \in Deciding!Plans /\ side \in {"buy", "sell", "hold"}
          /\ side = "buy" => 0 < plan.stop /\ Deciding!Ordered(plan) /\ plan.explained /\ plan.evidence = "dated"
      BY <2>4, PlanIs
    <3> HIDE DEF side, plan
    <3> QED  BY <1>5, <1>8, <2>1, <2>2, <3>1, <3>2
  <2> QED  BY <2>3, <2>4
<1> QED  BY <1>11, <1>12

-----------------------------------------------------------------------------
(* The callers. *)
Ordering == OrderTyped /\ Deciding!OrdersFollow

LEMMA NothingOrdered ==
    ASSUME order' = Deciding!NoOrder
    PROVE  Ordering'
BY DEF Ordering, OrderTyped, Deciding!OrdersFollow, Deciding!NoOrder

\* What is traded follows from its decision.
LEMMA Follows ==
    ASSUME Deciding!AnalysisAssumption, NEW account \in Accounts, NEW decision \in Decided, Within(decision),
           decision.side # "hold", NEW price \in Nat \ {0}, NEW day,
           Deciding!Execute(decision, account, price, day),
           decision.asof # 0 =>
               /\ price = IF decision.asof = day THEN Closes[decision.asof] ELSE Opens[day]
               /\ caller'.kind = "backtest" => ~\E d \in caller'.bars : decision.asof < d /\ d < day
    PROVE  Ordering'
<1> DEFINE n == Deciding!Shares(account, decision, price)
<1>1. CASE order' = Deciding!NoOrder  BY <1>1, NothingOrdered
<1>2. CASE /\ order' = [side |-> decision.side, shares |-> n, price |-> price, day |-> day,
                        account |-> account, decision |-> decision]
           /\ n > 0
  <2>1. /\ order'.side = decision.side /\ order'.shares = n /\ order'.price = price /\ order'.day = day
        /\ order'.account = account /\ order'.decision = decision
    BY <1>2
  <2>2. decision.side \in {"buy", "sell"}  BY DEF Decided
  <2>3. decision.side = "sell" => n <= account.available
    <3>1. account.available \in Nat  BY DEF Deciding!AnalysisAssumption
    <3>2. Deciding!InLots(account.available) <= account.available  BY <3>1, InLotsIs
    <3> QED  BY <3>1, <3>2 DEF Deciding!Shares
  <2>4. decision.side = "buy" =>
          /\ n % Lot = 0 /\ (n * price) * 100 <= account.cash * MaxSingle
          /\ (account.invested + n * price) * 100 <= (account.cash + account.invested) * MaxTotal
          /\ \A s \in decision.size \ {0} :
                (n * price) * 100 <= account.cash * Deciding!Max({decision.limit, 0})
    BY <1>2, PurchaseFits DEF Greater
  <2> HIDE DEF n
  <2> QED  BY <2>1, <2>2, <2>3, <2>4 DEF Ordering, OrderTyped, Deciding!OrdersFollow
<1> QED  BY <1>1, <1>2, OrderIs

LEMMA KindIs ==
    ASSUME Asking
    PROVE  /\ caller.kind = "backtest" => caller \in Backtests
           /\ caller.kind \in {"agent", "chat"} => caller \in Lives
           /\ caller.kind = "review" => caller \in Reviews
           /\ caller.kind \in {"none", "backtest", "agent", "chat", "review"}
BY DEF Asking, Backtests, Lives, Reviews, Deciding!Nobody

LEMMA ProgressKeeps ==
    ASSUME Asking, Ordering, Progress
    PROVE  Asking' /\ Ordering'
<1>1. UNCHANGED caller /\ UNCHANGED order  BY DEF Progress
<1>2. Asking'
  BY <1>1 DEF Asking, Progress, Within
<1>3. Ordering'
  BY <1>1 DEF Ordering, OrderTyped, Deciding!OrdersFollow
<1> QED  BY <1>2, <1>3

\* The workflow begins.
LEMMA Begins ==
    ASSUME Deciding!AnalysisAssumption, Informed, NEW strategy \in Strategies, NEW asof \in 0..Today,
           NEW contexts \in SUBSET Contexts, \A context \in contexts : Dated(context, asof),
           Deciding!Begin(strategy, asof, contexts), UNCHANGED specs, used' \in 0..Limit
    PROVE  Informed' /\ Justified' /\ graph' # Deciding!Rest /\ graph'.asof = asof
<1> DEFINE next == [stage |-> "data", strategy |-> strategy, asof |-> asof, context |-> contexts, reports |-> <<>>]
<1>1. graph' = next  BY DEF Deciding!Begin
<1>2. <<>> \in Reports /\ DOMAIN <<>> = {}  BY NoReports
<1> DEFINE none == <<>>
<1> HIDE DEF none
<1>3. next = [stage |-> "data", strategy |-> strategy, asof |-> asof, context |-> contexts, reports |-> none]
      /\ none \in Reports /\ DOMAIN none = {}
  BY <1>2 DEF none
<1>4. next \in Works /\ next.stage = "data" /\ next.context = contexts /\ next.reports = none /\ next.asof = asof
  BY <1>3 DEF Works
<1> HIDE DEF next
<1>5. next \notin Decided /\ next # Deciding!Rest  BY <1>4 DEF Decided, Deciding!Rest
<1>6. specs' \in [Names -> [known : 0..Today, runs : BOOLEAN]]  BY DEF Informed
<1>7. Informed'
  BY <1>1, <1>3, <1>4, <1>5, <1>6 DEF Informed
<1> QED  BY <1>1, <1>4, <1>5, <1>7 DEF Justified

LEMMA Ends ==
    ASSUME Informed, graph' = Deciding!Rest, UNCHANGED specs, used' \in 0..Limit
    PROVE  Informed' /\ Justified'
<1>1. Deciding!Rest \notin Works \cup Managed \cup Decided
  BY DEF Works, Managed, Decided, Deciding!Rest
<1>2. specs' \in [Names -> [known : 0..Today, runs : BOOLEAN]]  BY DEF Informed
<1> QED  BY <1>1, <1>2 DEF Informed, Justified

Sound == Informed /\ Justified /\ Asking /\ Ordering

\* Record of a backtest after the step.
LEMMA BacktestGoesOn ==
    ASSUME Asking, caller \in Backtests, Today \in Nat, caller.day # Today,
           caller.at = "close", NEW pending \in SUBSET Decided,
           caller' = [caller EXCEPT !.day = @ + 1, !.at = "open", !.pending = pending],
           graph' = Deciding!Rest,
           \A d \in pending : \/ d \in caller.pending
                              \/ d.asof = caller.day /\ Within(d) /\ d.side # "hold"
    PROVE  Asking'
<1> DEFINE next == [caller EXCEPT !.day = caller.day + 1, !.at = "open", !.pending = pending]
<1>1. caller.day \in Days /\ caller.day + 1 \in Days  BY DEF Backtests, Days
<1>2. /\ next \in Backtests /\ next.day = caller.day + 1 /\ next.bars = caller.bars /\ next.pending = pending
      /\ next.at = "open" /\ next.kind = "backtest"
  BY <1>1 DEF Backtests
<1>3. caller' = next  OBVIOUS
<1> HIDE DEF next
<1>4. next # Deciding!Nobody /\ next \notin Lives  BY <1>2 DEF Deciding!Nobody, Lives
<1>5. caller.bars \in SUBSET Days  BY DEF Backtests
<1>6. \A d \in pending :
        /\ d.asof \in Days /\ d.asof < next.day /\ Within(d) /\ d.side # "hold"
        /\ \A b \in next.bars : ~(d.asof < b /\ b < next.day)
  <2> TAKE d \in pending
  <2>1. CASE d.asof = caller.day /\ Within(d) /\ d.side # "hold"
    BY <1>1, <1>2, <1>5, <2>1 DEF Days
  <2>2. CASE d \in caller.pending
    <3>1. /\ d.asof \in Days /\ d.asof < caller.day /\ Within(d) /\ d.side # "hold"
          /\ \A b \in caller.bars : ~(d.asof < b /\ b < caller.day)
          /\ caller.day \notin caller.bars
      BY <2>2 DEF Asking
    <3> QED  BY <1>1, <1>2, <1>5, <3>1 DEF Days
  <2> QED  BY <2>1, <2>2
<1> QED  BY <1>2, <1>3, <1>4, <1>6 DEF Asking, Within

LEMMA NobodyAsks ==
    ASSUME caller' = Deciding!Nobody, graph' = Deciding!Rest
    PROVE  Asking'
<1>1. Deciding!Nobody \notin Backtests /\ Deciding!Nobody \notin Lives
  BY DEF Deciding!Nobody, Backtests, Lives
<1> QED  BY <1>1 DEF Asking

LEMMA StartStep ==
    ASSUME Deciding!AnalysisAssumption, Sound, NEW strategy \in Strategies, NEW fill \in {"next_open", "same_close"},
           NEW bars \in {1..Today, {1, Today}}, Deciding!StartBacktest(strategy, fill, bars)
    PROVE  Sound'
<1>1. Today \in Nat \ {0} /\ caller = Deciding!Nobody /\ graph = Deciding!Rest /\ used' \in 0..Limit
      /\ UNCHANGED <<graph, specs>> /\ order' = Deciding!NoOrder
  BY DEF Deciding!AnalysisAssumption, Deciding!StartBacktest, Sound, Asking, Informed
<1> DEFINE next == [kind |-> "backtest", strategy |-> strategy, fill |-> fill, bars |-> bars,
                    day |-> 1, at |-> "open", pending |-> {}]
<1>2. caller' = next  BY DEF Deciding!StartBacktest
<1>3. next \in Backtests  BY <1>1 DEF Backtests, Days
<1>4. next.kind = "backtest" /\ next.pending = {}  OBVIOUS
<1> HIDE DEF next
<1>5. next # Deciding!Nobody /\ next \notin Lives  BY <1>4 DEF Deciding!Nobody, Lives
<1>6. Asking'  BY <1>1, <1>2, <1>3, <1>4, <1>5 DEF Asking
<1>7. Informed' /\ Justified'  BY <1>1, Ends DEF Sound
<1>8. Ordering'  BY <1>1, NothingOrdered
<1> QED  BY <1>6, <1>7, <1>8 DEF Sound

LEMMA OpenStep ==
    ASSUME Deciding!AnalysisAssumption, Sound, NEW account \in Accounts, Deciding!Open(account)
    PROVE  Sound'
<1>1. caller \in Backtests /\ caller.at = "open" /\ UNCHANGED <<graph, specs, used>>
  BY KindIs DEF Deciding!Open, Sound
<1>2. graph = Deciding!Rest  BY <1>1 DEF Sound, Asking
<1>3. Informed' /\ Justified'  BY <1>1, <1>2, Ends DEF Sound, Informed
<1> DEFINE executes == caller.day \in caller.bars /\ caller.pending # {}
           pending == IF executes THEN {} ELSE caller.pending
           next == [caller EXCEPT !.at = "close", !.pending = pending]
<1>4. caller' = next  BY DEF Deciding!Open
<1>5. pending \in SUBSET caller.pending /\ (pending # {} => caller.day \notin caller.bars)  OBVIOUS
<1> HIDE DEF pending
<1>6. /\ next \in Backtests /\ next.bars = caller.bars /\ next.day = caller.day /\ next.pending = pending
      /\ next.kind = "backtest"
  BY <1>1, <1>5 DEF Backtests
<1> HIDE DEF next
<1>7. next # Deciding!Nobody /\ next \notin Lives  BY <1>6 DEF Deciding!Nobody, Lives
<1>8. \A d \in caller.pending :
        /\ d.asof \in Days /\ d.asof < caller.day /\ Within(d) /\ d.side # "hold"
        /\ \A b \in caller.bars : ~(d.asof < b /\ b < caller.day)
  BY <1>1 DEF Sound, Asking
<1>9. Asking'
  BY <1>1, <1>2, <1>4, <1>5, <1>6, <1>7, <1>8 DEF Asking, Within
<1>10. Ordering'
  <2>1. CASE ~executes
    <3>1. order' = Deciding!NoOrder  BY <2>1 DEF Deciding!Open
    <3> QED  BY <3>1, NothingOrdered
  <2>2. CASE executes
    <3> DEFINE d == CHOOSE d \in caller.pending : TRUE
               price == Opens[caller.day]
    <3>1. d \in caller.pending  BY <2>2
    <3>2. Deciding!Execute(d, account, price, caller.day)  BY <2>2 DEF Deciding!Open
    <3> HIDE DEF d
    <3>3. d \in Decided /\ caller.day \in Days  BY <1>1, <3>1 DEF Backtests
    <3>4. price \in Nat \ {0}  BY <3>3 DEF Deciding!AnalysisAssumption, Days
    <3>5. d.asof \in Days /\ d.asof < caller.day /\ Within(d) /\ d.side # "hold"
          /\ \A b \in caller.bars : ~(d.asof < b /\ b < caller.day)
      BY <1>8, <3>1
    <3>6. d.asof # caller.day /\ caller'.bars = caller.bars  BY <1>4, <1>6, <3>3, <3>5 DEF Days
    <3>7. price = IF d.asof = caller.day THEN Closes[d.asof] ELSE Opens[caller.day]  BY <3>6
    <3>8. ~\E b \in caller'.bars : d.asof < b /\ b < caller.day  BY <3>5, <3>6
    <3> HIDE DEF price
    <3> QED  BY <3>2, <3>3, <3>4, <3>5, <3>7, <3>8, Follows
  <2> QED  BY <2>1, <2>2
<1> QED  BY <1>3, <1>9, <1>10 DEF Sound

LEMMA AskStep ==
    ASSUME Deciding!AnalysisAssumption, Sound, Deciding!Ask
    PROVE  Sound'
<1>1. /\ caller \in Backtests /\ caller.at = "close" /\ graph = Deciding!Rest /\ order' = Deciding!NoOrder
      /\ UNCHANGED <<specs, used>> /\ Today \in Nat
  BY KindIs DEF Deciding!Ask, Sound, Deciding!AnalysisAssumption
<1>2. used' \in 0..Limit /\ Informed /\ Asking  BY <1>1 DEF Sound, Informed
<1>3. Ordering'  BY <1>1, NothingOrdered
<1>4. caller.day \in Days /\ caller.bars \in SUBSET Days /\ caller.strategy \in Strategies
      /\ caller.pending \in SUBSET Decided
  BY <1>1 DEF Backtests
<1> DEFINE asks == caller.day \in caller.bars /\ (caller.day - 1) % Interval = 0
<1>5. CASE asks
  <2> DEFINE rows == {d \in caller.bars : d <= caller.day}
             context == Deciding!Context(rows, caller.day, TRUE, "full_text")
  <2>1. Deciding!Begin(caller.strategy, caller.day, {context}) /\ UNCHANGED caller
    BY <1>5 DEF Deciding!Ask
  <2>2. caller.day \in 0..Today /\ rows \in SUBSET Days  BY <1>1, <1>4 DEF Days
  <2> HIDE DEF rows
  <2>3. context \in Contexts /\ Dated(context, caller.day)  BY <2>2, ContextIs
  <2> HIDE DEF context
  <2>4. {context} \in SUBSET Contexts /\ \A k \in {context} : Dated(k, caller.day)  BY <2>3
  <2>5. Informed' /\ Justified' /\ graph' # Deciding!Rest /\ graph'.asof = caller.day
    BY <1>1, <1>2, <1>4, <2>1, <2>2, <2>4, Begins
  <2>6. caller # Deciding!Nobody /\ caller \notin Lives
    BY <1>1 DEF Backtests, Deciding!Nobody, Lives
  <2>7. Asking'
    BY <1>1, <1>2, <1>5, <2>1, <2>5, <2>6 DEF Asking, Within
  <2> QED  BY <1>3, <2>5, <2>7 DEF Sound
<1>6. CASE ~asks
  <2>1. graph' = Deciding!Rest
        /\ caller' = IF caller.day = Today THEN Deciding!Nobody ELSE [caller EXCEPT !.day = @ + 1, !.at = "open"]
    BY <1>1, <1>6 DEF Deciding!Ask
  <2>2. Informed' /\ Justified'  BY <1>1, <1>2, <2>1, Ends
  <2>3. CASE caller.day = Today
    BY <1>3, <2>1, <2>2, <2>3, NobodyAsks DEF Sound
  <2>4. CASE caller.day # Today
    <3>1. caller' = [caller EXCEPT !.day = @ + 1, !.at = "open", !.pending = caller.pending]
      BY <1>1, <2>1, <2>4 DEF Backtests
    <3>2. Asking'  BY <1>1, <1>2, <1>4, <2>1, <2>4, <3>1, BacktestGoesOn
    <3> QED  BY <1>3, <2>2, <3>2 DEF Sound
  <2> QED  BY <2>3, <2>4
<1> QED  BY <1>5, <1>6

LEMMA HearStep ==
    ASSUME Deciding!AnalysisAssumption, Sound, NEW account \in Accounts, Deciding!Hear(account)
    PROVE  Sound'
<1>1. /\ caller \in Backtests /\ graph.stage \in {"done", "failed"} /\ graph # Deciding!Rest
      /\ graph' = Deciding!Rest /\ UNCHANGED <<specs, used>> /\ Today \in Nat
  BY KindIs DEF Deciding!Hear, Sound, Deciding!AnalysisAssumption, Deciding!Rest
<1>2. /\ used' \in 0..Limit /\ Informed /\ Asking /\ Justified
      /\ graph.asof = caller.day /\ caller.at = "close" /\ caller.day \in caller.bars
  BY <1>1 DEF Sound, Informed, Asking
<1>3. Informed' /\ Justified'  BY <1>1, <1>2, Ends
<1>4. caller.day \in Days /\ caller.bars \in SUBSET Days /\ caller.pending \in SUBSET Decided
  BY <1>1 DEF Backtests
<1> DEFINE acts == graph.stage = "done" /\ graph.side # "hold"
<1>5. acts => graph \in Decided /\ Within(graph)  BY <1>2, StageIs DEF Justified
<1>6. Asking'
  <2> DEFINE pending == IF acts /\ caller.fill = "next_open" THEN {graph} ELSE caller.pending
  <2>1. caller' = IF caller.day = Today THEN Deciding!Nobody
                  ELSE [caller EXCEPT !.day = @ + 1, !.at = "open", !.pending = pending]
    BY DEF Deciding!Hear
  <2>2. CASE caller.day = Today
    BY <1>1, <2>1, <2>2, NobodyAsks
  <2>3. CASE caller.day # Today
    <3>1. pending \in SUBSET Decided  BY <1>4, <1>5
    <3>2. \A d \in pending : d \in caller.pending \/ (d.asof = caller.day /\ Within(d) /\ d.side # "hold")
      BY <1>2, <1>5
    <3>3. caller' = [caller EXCEPT !.day = @ + 1, !.at = "open", !.pending = pending]  BY <2>1, <2>3
    <3> HIDE DEF pending
    <3> QED  BY <1>1, <1>2, <2>3, <3>1, <3>2, <3>3, BacktestGoesOn
  <2> QED  BY <2>2, <2>3
<1>7. caller'.kind = "backtest" => caller'.bars = caller.bars
  <2> DEFINE pending == IF acts /\ caller.fill = "next_open" THEN {graph} ELSE caller.pending
             next == [caller EXCEPT !.day = caller.day + 1, !.at = "open", !.pending = pending]
  <2>1. caller' \in {Deciding!Nobody, next}  BY DEF Deciding!Hear
  <2> HIDE DEF pending
  <2>2. next.bars = caller.bars  BY <1>1 DEF Backtests
  <2> HIDE DEF next
  <2> QED  BY <2>1, <2>2 DEF Deciding!Nobody
<1>8. Ordering'
  <2>1. CASE acts /\ caller.fill = "same_close"
    <3> DEFINE price == Closes[caller.day]
    <3>1. Deciding!Execute(graph, account, price, caller.day)  BY <2>1 DEF Deciding!Hear
    <3>2. price \in Nat \ {0}  BY <1>4 DEF Deciding!AnalysisAssumption, Days
    <3>3. price = IF graph.asof = caller.day THEN Closes[graph.asof] ELSE Opens[caller.day]  BY <1>2
    <3>4. ~\E b \in caller.bars : graph.asof < b /\ b < caller.day  BY <1>2, <1>4 DEF Days
    <3> HIDE DEF price
    <3> QED  BY <1>5, <1>7, <2>1, <3>1, <3>2, <3>3, <3>4, Follows
  <2>2. CASE ~(acts /\ caller.fill = "same_close")
    <3>1. UNCHANGED order  BY <2>2 DEF Deciding!Hear
    <3>2. caller.kind = "backtest"  BY <1>1 DEF Backtests
    <3> QED  BY <1>7, <3>1, <3>2 DEF Sound, Ordering, OrderTyped, Deciding!OrdersFollow
  <2> QED  BY <2>1, <2>2
<1> QED  BY <1>3, <1>6, <1>8 DEF Sound

LEMMA LiveStep ==
    ASSUME Deciding!AnalysisAssumption, Sound, NEW kind \in {"agent", "chat"}, NEW strategy \in Strategies,
           NEW day \in 1..Today, Deciding!StartLive(kind, strategy, day)
    PROVE  Sound'
<1>1. /\ Today \in Nat /\ Today \in Days /\ Informed /\ used' \in 0..Limit /\ UNCHANGED specs
      /\ order' = Deciding!NoOrder /\ Deciding!Begin(strategy, 0, {})
  BY DEF Deciding!AnalysisAssumption, Deciding!StartLive, Sound, Informed, Days
<1>2. Informed' /\ Justified' /\ graph' # Deciding!Rest /\ graph'.asof = 0
  <2>1. {} \in SUBSET Contexts /\ \A k \in {} : Dated(k, 0)  OBVIOUS
  <2>2. 0 \in 0..Today  BY <1>1
  <2> QED  BY <1>1, <2>1, <2>2, Begins
<1>3. caller' \in Lives  BY <1>1 DEF Deciding!StartLive, Lives, Days
<1>4. caller' # Deciding!Nobody /\ caller' \notin Backtests
  BY <1>3 DEF Lives, Deciding!Nobody, Backtests
<1>5. Asking'  BY <1>2, <1>3, <1>4 DEF Asking
<1> QED  BY <1>1, <1>2, <1>5, NothingOrdered DEF Sound

LEMMA ReviewBegins ==
    ASSUME Deciding!AnalysisAssumption, Sound, NEW strategy \in Strategies, NEW day \in 1..Today,
           NEW side \in {"buy", "sell"}, Deciding!StartReview(strategy, day, side)
    PROVE  Sound'
<1> DEFINE context == Deciding!Context(1..day, day, TRUE, "full_text")
<1>1. /\ Today \in Nat /\ Informed /\ used' \in 0..Limit /\ UNCHANGED specs
      /\ order' = Deciding!NoOrder /\ Deciding!Begin(strategy, day, {context})
  BY DEF Deciding!AnalysisAssumption, Deciding!StartReview, Sound, Informed
<1>2. context \in Contexts /\ Dated(context, day) /\ day \in 0..Today
  <2>1. 1..day \in SUBSET Days /\ day \in 0..Today  BY <1>1 DEF Days
  <2> QED  BY <2>1, ContextIs
<1> HIDE DEF context
<1>3. Informed' /\ Justified' /\ graph' # Deciding!Rest /\ graph'.asof = day
  <2>1. {context} \in SUBSET Contexts /\ \A k \in {context} : Dated(k, day)  BY <1>2
  <2> QED  BY <1>1, <1>2, <2>1, Begins
<1>4. caller' \in Reviews  BY <1>1 DEF Deciding!StartReview, Reviews, Days
<1>5. caller' # Deciding!Nobody /\ caller' \notin Backtests /\ caller' \notin Lives
  BY <1>4 DEF Lives, Deciding!Nobody, Backtests, Reviews
<1>6. Asking'  BY <1>3, <1>4, <1>5 DEF Asking
<1> QED  BY <1>1, <1>3, <1>6, NothingOrdered DEF Sound

LEMMA LiveEnds ==
    ASSUME Deciding!AnalysisAssumption, Sound,
           (\E account \in Accounts : Deciding!TradeLive(account)) \/ Deciding!Review \/ Deciding!Show
    PROVE  Sound'
<1>1. /\ graph' = Deciding!Rest /\ caller' = Deciding!Nobody /\ UNCHANGED <<specs, used>>
      /\ graph.stage \in {"done", "failed"} /\ graph # Deciding!Rest /\ Today \in Nat \ {0}
  BY DEF Deciding!TradeLive, Deciding!Review, Deciding!Show, Deciding!Rest, Deciding!AnalysisAssumption
<1>2. used' \in 0..Limit /\ Informed /\ Asking /\ Justified /\ Ordering  BY <1>1 DEF Sound, Informed
<1>3. Informed' /\ Justified' /\ Asking'  BY <1>1, <1>2, Ends, NobodyAsks
<1>4. caller'.kind # "backtest"  BY <1>1 DEF Deciding!Nobody
<1>5. UNCHANGED order => Ordering'
  BY <1>2, <1>4 DEF Ordering, OrderTyped, Deciding!OrdersFollow
<1>6. ASSUME NEW account \in Accounts, Deciding!TradeLive(account)
      PROVE  Sound'
  <2> DEFINE price == Closes[Today]
             acts == graph.stage = "done" /\ graph.side # "hold" /\ graph.data # 0
                     /\ caller.day - graph.data <= MaxAge
  <2>1. graph.asof = 0  BY <1>1, <1>2, <1>6, KindIs DEF Deciding!TradeLive, Asking
  <2>2. CASE acts
    <3>1. Deciding!Execute(graph, account, price, caller.day)  BY <1>6, <2>2 DEF Deciding!TradeLive
    <3>2. graph \in Decided /\ Within(graph) /\ graph.side # "hold"  BY <1>2, <2>2, StageIs DEF Justified
    <3>3. price \in Nat \ {0}  BY <1>1 DEF Deciding!AnalysisAssumption
    <3> HIDE DEF price
    <3> QED  BY <1>3, <2>1, <3>1, <3>2, <3>3, Follows DEF Sound
  <2>3. CASE ~acts
    <3>1. UNCHANGED order  BY <1>6, <2>3 DEF Deciding!TradeLive
    <3> QED  BY <1>3, <1>5, <3>1 DEF Sound
  <2> QED  BY <2>2, <2>3
<1>7. CASE Deciding!Review
  <2>1. order' = Deciding!NoOrder \/ order'.side = "approved"  BY <1>7 DEF Deciding!Review
  <2>2. order'.side = "approved" => Ordering'  BY DEF Ordering, OrderTyped, Deciding!OrdersFollow
  <2> QED  BY <1>3, <2>1, <2>2, NothingOrdered DEF Sound
<1>8. CASE Deciding!Show
  BY <1>3, <1>5, <1>8 DEF Deciding!Show, Sound
<1> QED  BY <1>6, <1>7, <1>8

\* A decision to buy has a plan in order, explained and dated, and a size within the
\* limit of the risk review (decision_policy.py); an order follows the decision it is
\* made for, at a price that could be had, within the cash, the account and the
\* limit; and what is decided as of a day rests on no later one (market_context.py).
THEOREM DecisionsAreSoundHolds ==
    ASSUME Deciding!AnalysisAssumption
    PROVE  Deciding!Spec => []Deciding!DecisionsAreSound
<1>1. Deciding!Init => Sound
  <2> SUFFICES ASSUME Deciding!Init PROVE Sound
    OBVIOUS
  <2>1. /\ caller = Deciding!Nobody /\ graph = Deciding!Rest /\ order = Deciding!NoOrder /\ used = 0
        /\ specs = [n \in Names |-> [known |-> 0, runs |-> TRUE]] /\ Today \in Nat /\ Limit \in Nat
    BY DEF Deciding!Init, Deciding!AnalysisAssumption
  <2>2. Deciding!Rest \notin Works \cup Managed \cup Decided
    BY DEF Works, Managed, Decided, Deciding!Rest
  <2>3. Deciding!Nobody \notin Backtests /\ Deciding!Nobody \notin Lives
    BY DEF Deciding!Nobody, Backtests, Lives
  <2>4. specs \in [Names -> [known : 0..Today, runs : BOOLEAN]] /\ used \in 0..Limit  BY <2>1
  <2>5. Informed /\ Justified  BY <2>1, <2>2, <2>4 DEF Informed, Justified
  <2>6. Asking  BY <2>1, <2>3 DEF Asking
  <2>7. Ordering  BY <2>1 DEF Ordering, OrderTyped, Deciding!OrdersFollow, Deciding!NoOrder
  <2> QED  BY <2>5, <2>6, <2>7 DEF Sound
<1>2. Sound /\ [Deciding!Next]_(Deciding!vars) => Sound'
  <2> SUFFICES ASSUME Sound, [Deciding!Next]_(Deciding!vars) PROVE Sound'
    OBVIOUS
  <2>a. Informed' /\ Justified' /\ Progress => Sound'  BY ProgressKeeps DEF Sound
  <2>b. Informed  BY DEF Sound
  <2>1. ASSUME NEW rows \in {{}, 1..Today}, NEW news \in BOOLEAN, NEW web \in {"none", "snippet_only", "full_text"},
               Deciding!FetchMarketData(rows, news, web)
        PROVE  Sound'
    BY <2>1, <2>a, <2>b, DataStep
  <2>2. CASE Deciding!TakeMarketData
    <3>1. {} \in {{}, 1..Today} /\ TRUE \in BOOLEAN /\ "none" \in {"none", "snippet_only", "full_text"}  OBVIOUS
    <3> QED  BY <2>2, <2>a, <2>b, <3>1, DataStep
  <2>3. ASSUME NEW analyst \in Deciding!Analysts, NEW answered \in BOOLEAN, Deciding!Analyse(analyst, answered)
        PROVE  Sound'
    BY <2>3, <2>a, <2>b, AnalystStep
  <2>4. CASE Deciding!Break
    <3>1. "technical" \in Deciding!Analysts /\ TRUE \in BOOLEAN  BY DEF Deciding!Analysts
    <3> QED  BY <2>4, <2>a, <2>b, <3>1, AnalystStep
  <2>5. ASSUME NEW answered \in BOOLEAN, Deciding!Debate(answered) PROVE Sound'
    <3>1. "technical" \in Deciding!Analysts  BY DEF Deciding!Analysts
    <3> QED  BY <2>5, <2>a, <2>b, <3>1, AnalystStep
  <2>6. ASSUME NEW answered \in BOOLEAN, NEW limit \in Risks, Deciding!Assess(answered, limit) PROVE Sound'
    BY <2>6, <2>a, <2>b, RiskStep
  <2>7. ASSUME NEW answer \in Answers, Deciding!Decide(answer) PROVE Sound'
    BY <2>7, <2>a, <2>b, ManagerStep
  <2>8. CASE Deciding!ManagerFails
    BY <2>8, <2>a, <2>b, ManagerStep
  <2>9. ASSUME NEW strategy \in Strategies, NEW fill \in {"next_open", "same_close"},
               NEW bars \in {1..Today, {1, Today}}, Deciding!StartBacktest(strategy, fill, bars)
        PROVE  Sound'
    BY <2>9, StartStep
  <2>10. ASSUME NEW account \in Accounts,
                Deciding!Open(account) \/ Deciding!Hear(account) \/ Deciding!TradeLive(account)
         PROVE  Sound'
    BY <2>10, OpenStep, HearStep, LiveEnds
  <2>11. CASE Deciding!Ask
    BY <2>11, AskStep
  <2>12. CASE Deciding!Review \/ Deciding!Show
    BY <2>12, LiveEnds
  <2>13. ASSUME NEW kind \in {"agent", "chat"}, NEW strategy \in Strategies, NEW day \in 1..Today,
                Deciding!StartLive(kind, strategy, day)
         PROVE  Sound'
    BY <2>13, LiveStep
  <2>14. ASSUME NEW strategy \in Strategies, NEW day \in 1..Today, NEW side \in {"buy", "sell"},
                Deciding!StartReview(strategy, day, side)
         PROVE  Sound'
    BY <2>14, ReviewBegins
  <2>15. CASE UNCHANGED Deciding!vars
    <3>1. UNCHANGED <<caller, graph, specs, order, used>>  BY <2>15 DEF Deciding!vars
    <3>2. Informed'  BY <3>1 DEF Sound, Informed
    <3>3. Justified'  BY <3>1 DEF Sound, Justified
    <3>4. Asking'  BY <3>1 DEF Sound, Asking
    <3>5. Ordering'  BY <3>1 DEF Sound, Ordering, OrderTyped, Deciding!OrdersFollow
    <3> QED  BY <3>2, <3>3, <3>4, <3>5 DEF Sound
  <2>16. Deciding!Strategies = Strategies  BY DEF Deciding!Strategies, Strategies
  <2> QED
    BY <2>1, <2>2, <2>3, <2>4, <2>5, <2>6, <2>7, <2>8, <2>9, <2>10, <2>11, <2>12, <2>13, <2>14, <2>15, <2>16
    DEF Deciding!Next
<1>3. Sound => Deciding!DecisionsAreSound
  <2> SUFFICES ASSUME Sound PROVE Deciding!DecisionsAreSound
    OBVIOUS
  <2>1. Informed /\ Justified /\ Asking /\ Ordering  BY DEF Sound
  <2>2. graph.stage = "done" => graph \in Decided  BY <2>1, StageIs
  <2>3. Deciding!TypeOK
    <3>1. graph.stage \in {"none", "data", "analysts", "debate", "risk", "portfolio", "done", "failed"}
      BY <2>1 DEF Informed, Works, Managed, Decided, Deciding!Rest
    <3> QED  BY <2>1, <3>1, KindIs DEF Deciding!TypeOK, Informed, Ordering, OrderTyped
  <2>4. Deciding!BuysArePlanned
    BY <2>1, <2>2 DEF Deciding!BuysArePlanned, Justified, Within, Greater
  <2>5. Deciding!KnowsNothingLater
    <3>1. graph.stage = "done" /\ graph.asof # 0 => graph.known <= graph.asof
      BY <2>1, <2>2 DEF Informed
    <3>2. caller.kind = "backtest" => \A d \in caller.pending : d.asof < caller.day
      BY <2>1, KindIs DEF Asking
    <3> QED  BY <3>1, <3>2 DEF Deciding!KnowsNothingLater
  <2> QED  BY <2>1, <2>3, <2>4, <2>5 DEF Ordering, Deciding!DecisionsAreSound
<1> QED  BY <1>1, <1>2, <1>3, PTL DEF Deciding!Spec

-----------------------------------------------------------------------------
(* The backtest of one strategy: its days, and the memory of the strategy. *)
CONSTANTS Policies, Runs, Full, Scores, Quotes, LastDay
VARIABLES policy, run, day, exposure, memory, waits, calm, hit, due
Testing == INSTANCE Backtest WITH Prices <- Quotes, pending <- waits, stop <- hit

Memories == [entry : Quotes \cup {-1}, cooldown : 0..policy.cooldown, target : 0..Full]
Tested ==
    /\ policy \in Policies /\ run \in Runs
    /\ day \in Nat /\ exposure \in 0..Full /\ memory \in Memories
    /\ waits = {} \/ \E t \in 0..Full : waits = {t}
    /\ calm \in Nat /\ hit \in BOOLEAN /\ due \in BOOLEAN
\* Nothing waits before the first evaluation, nor if decisions are traded at once.
Waiting ==
    waits # {} => run.warmup < day /\ run.fill = "next_open"
\* What is bought, or waits to be, has an entry price; an exit waits to be sold.
Armed ==
    Testing!Aligned =>
        /\ ~run.seeded => /\ exposure > 0 => memory.entry # -1 \/ waits = {0}
                          /\ \A t \in waits : t > 0 => memory.entry # -1
        /\ hit /\ run.fill = "next_open" => waits = {0}
        /\ due => exposure = 0
\* The rest of a cooldown and the calm of it come to the whole of it.
Rested ==
    /\ policy.cooldown <= calm + memory.cooldown
    /\ memory.target > 0 => calm > policy.cooldown
Tests == Tested /\ Waiting /\ Armed /\ Rested

-----------------------------------------------------------------------------
\* A goal is an exposure.
LEMMA TargetIs ==
    ASSUME Testing!BacktestAssumption, Tested, NEW h \in 0..Full, NEW bar \in Testing!Bars
    PROVE  /\ Testing!Target(h, bar) \in 0..Full
           /\ (memory.cooldown > 0 \/ Testing!Exiting(h, bar)) => Testing!Target(h, bar) = 0
<1>1. /\ policy.max \in 0..Full /\ policy.min \in 0..Full /\ policy.increase \in Nat /\ policy.decrease \in Nat
      /\ Full \in Nat /\ bar.raw \in 0..Full /\ bar.conflict \in BOOLEAN
      /\ policy.conflict \in {"hold", "reduce", "exit", "score"}
  <2>1. policy \in Policies  BY DEF Tested
  <2> QED  BY <2>1 DEF Testing!BacktestAssumption, Testing!Bars
<1>2. Testing!Wanted(h, bar) \in Int
  <2>1. h \div 2 \in Int  OBVIOUS
  <2>2. Testing!Lower(bar.raw, h \div 2) \in Int  BY <1>1, <2>1 DEF Testing!Lower, Testing!Upper
  <2> QED  BY <1>1, <2>2 DEF Testing!Wanted
<1>3. Testing!Sized(h, bar) \in Int
  <2> DEFINE wanted == Testing!Wanted(h, bar)
             above == Testing!Upper(wanted, policy.min)
             bounded == Testing!Lower(above, policy.max)
             raised == Testing!Lower(bounded, h + policy.increase)
             goal == Testing!Upper(raised, h - policy.decrease)
  <2>1. wanted \in Int  BY <1>2
  <2> HIDE DEF wanted
  <2>2. above \in Int  BY <1>1, <2>1 DEF Testing!Lower, Testing!Upper
  <2> HIDE DEF above
  <2>3. bounded \in Int  BY <1>1, <2>2 DEF Testing!Lower, Testing!Upper
  <2> HIDE DEF bounded
  <2>4. raised \in Int  BY <1>1, <2>3 DEF Testing!Lower, Testing!Upper
  <2> HIDE DEF raised
  <2>5. goal \in Int  BY <1>1, <2>4 DEF Testing!Lower, Testing!Upper
  <2>6. Testing!Sized(h, bar) \in {h, goal}
    BY DEF Testing!Sized, goal, raised, bounded, above, wanted
  <2> QED  BY <2>5, <2>6
<1>4. Testing!Upper(Testing!Sized(h, bar), 0) \in Int /\ Testing!Upper(Testing!Sized(h, bar), 0) >= 0
  BY <1>3 DEF Testing!Upper
<1>5. Testing!Lower(Testing!Upper(Testing!Sized(h, bar), 0), policy.max) \in 0..Full
  BY <1>1, <1>4 DEF Testing!Lower
<1> QED  BY <1>1, <1>5 DEF Testing!Target

\* What was traded towards a goal, and then moved with the prices.
LEMMA TradedIs ==
    ASSUME Testing!BacktestAssumption, NEW h \in 0..Full, NEW t \in 0..Full, NEW n \in Testing!Traded(h, t)
    PROVE  n \in 0..Full /\ (t = 0 => n = 0) /\ (n > 0 => t > 0)
BY DEF Testing!Traded, Testing!BacktestAssumption

\* What is held when the strategy is evaluated.
LEMMA HeldIs ==
    ASSUME Testing!BacktestAssumption, Tests, NEW h \in Testing!Held
    PROVE  /\ h \in 0..Full
           /\ run.warmup <= day /\ waits = {0} => h = 0
           /\ exposure = 0 /\ waits \in {{}, {0}} => h = 0
           /\ Testing!Aligned /\ ~run.seeded /\ h > 0 => memory.entry # -1
<1>1. Full \in Nat /\ exposure \in 0..Full /\ waits \in SUBSET (0..Full)
  BY DEF Testing!BacktestAssumption, Tests, Tested
<1>0. waits # {} => ~(waits = {} \/ day < run.warmup)
  <2>1. run.warmup \in Nat /\ day \in Nat /\ (waits # {} => run.warmup < day)
    BY DEF Testing!BacktestAssumption, Tests, Tested, Waiting
  <2> QED  BY <2>1
<1> DEFINE Opened == IF waits = {} \/ day < run.warmup THEN {exposure}
                     ELSE UNION {Testing!Traded(exposure, goal) : goal \in waits}
<1>2. PICK o \in Opened : h \in Testing!Drifted(o)
  BY DEF Testing!Held
<1>3. CASE waits = {}
  <2>1. o = exposure  BY <1>2, <1>3
  <2>2. h \in 0..Full /\ (h > 0 => exposure > 0)  BY <1>1, <1>2, <2>1 DEF Testing!Drifted
  <2> QED  BY <1>1, <1>3, <2>2 DEF Tests, Armed
<1>4. CASE waits # {}
  <2>a. ~(waits = {} \/ day < run.warmup)  BY <1>0, <1>4
  <2>b. Opened = UNION {Testing!Traded(exposure, goal) : goal \in waits}  BY <2>a
  <2>0. o \in UNION {Testing!Traded(exposure, goal) : goal \in waits}  BY <1>2, <2>b
  <2> HIDE DEF Opened
  <2>1. PICK t \in waits : o \in Testing!Traded(exposure, t)  BY <2>0
  <2>2. o \in 0..Full /\ (t = 0 => o = 0) /\ (o > 0 => t > 0)  BY <1>1, <2>1, TradedIs
  <2>3. h \in 0..Full /\ (h > 0 => o > 0)  BY <1>1, <1>2, <2>2 DEF Testing!Drifted
  <2> QED  BY <1>1, <1>4, <2>1, <2>2, <2>3 DEF Tests, Armed
<1> QED  BY <1>3, <1>4

\* Aligned, every evaluation trades.
LEMMA AlignedTrades ==
    ASSUME Testing!BacktestAssumption, Tests, Testing!Aligned, Testing!Evaluates
    PROVE  Testing!Rebalances
<1>1. /\ run.interval \in Nat \ {0} /\ run.frequency \in Nat \ {0} /\ run.warmup \in Nat /\ day \in Nat
      /\ run.warmup <= day /\ (day - run.warmup) % run.interval = 0 /\ run.interval % run.frequency = 0
  BY DEF Testing!BacktestAssumption, Tests, Tested, Testing!Aligned, Testing!Evaluates
<1> DEFINE n == day - run.warmup
           i == run.interval
           f == run.frequency
<1>2. n \in Nat /\ i \in Nat \ {0} /\ f \in Nat \ {0} /\ n % i = 0 /\ i % f = 0  BY <1>1
<1> HIDE DEF n, i, f
<1>3. PICK a \in Nat : n = a * i  BY <1>2
<1>4. PICK b \in Nat : i = b * f  BY <1>2
<1> DEFINE m == a * b
<1>5. m \in Nat  OBVIOUS
<1>6. n = m * f  BY <1>2, <1>3, <1>4
<1> HIDE DEF m
<1>7. (m * f) % f = 0  BY <1>2, <1>5
<1> QED  BY <1>6, <1>7 DEF Testing!Rebalances, n, f

\* A bar without an evaluation.
LEMMA SkipStep ==
    ASSUME Testing!BacktestAssumption, Tests, NEW h \in Testing!Held, Testing!Skip(h),
           policy' = policy, run' = run
    PROVE  Tests'
<1>1. /\ h \in 0..Full /\ (run.warmup <= day /\ waits = {0} => h = 0)
      /\ (exposure = 0 /\ waits \in {{}, {0}} => h = 0)
      /\ Testing!Aligned /\ ~run.seeded /\ h > 0 => memory.entry # -1
  BY HeldIs
<1>2. /\ day' = day + 1 /\ exposure' = h /\ memory' = memory /\ calm' = calm /\ hit' = FALSE
      /\ waits' = (IF day < run.warmup THEN waits ELSE {}) /\ due' = (hit /\ run.fill = "next_open")
  BY DEF Testing!Skip
<1>3. run.warmup \in Nat /\ day \in Nat /\ Full \in Nat /\ (waits # {} => run.warmup < day)
  BY DEF Testing!BacktestAssumption, Tests, Tested, Waiting
<1>4. waits' = {}  BY <1>2, <1>3
<1>5. Tested'
  <2>1. hit' \in BOOLEAN /\ due' \in BOOLEAN  BY <1>2 DEF Tests, Tested
  <2>2. memory' \in Memories'  BY <1>2 DEF Tests, Tested, Memories
  <2>3. policy \in Policies /\ run \in Runs /\ calm \in Nat  BY DEF Tests, Tested
  <2> QED  BY <1>1, <1>2, <1>3, <1>4, <2>1, <2>2, <2>3 DEF Tested
<1>6. Waiting'  BY <1>4 DEF Waiting
<1>7. Armed'
  <2>1. Testing!Aligned' = Testing!Aligned  BY DEF Testing!Aligned
  <2>2. ASSUME Testing!Aligned, due' PROVE exposure' = 0
    <3>1. hit /\ run.fill = "next_open"  BY <1>2, <2>2
    <3>2. waits = {0}  BY <2>2, <3>1 DEF Tests, Armed
    <3> QED  BY <1>1, <1>2, <1>3, <3>2
  <2> QED  BY <1>1, <1>2, <1>4, <2>1, <2>2 DEF Armed
<1>8. Rested'  BY <1>2 DEF Tests, Rested
<1> QED  BY <1>5, <1>6, <1>7, <1>8 DEF Tests

\* An evaluation.
LEMMA EvaluateStep ==
    ASSUME Testing!BacktestAssumption, Tests, NEW h \in Testing!Held, NEW bar \in Testing!Bars,
           Testing!Evaluate(h, bar), policy' = policy, run' = run
    PROVE  Tests'
<1> DEFINE goal == Testing!Target(h, bar)
<1>1. /\ h \in 0..Full /\ (run.warmup <= day /\ waits = {0} => h = 0)
      /\ Testing!Aligned /\ ~run.seeded /\ h > 0 => memory.entry # -1
  BY HeldIs
<1>2. /\ goal \in 0..Full /\ ((memory.cooldown > 0 \/ Testing!Exiting(h, bar)) => goal = 0)
  BY <1>1, TargetIs DEF Tests
<1>3. /\ run.warmup \in Nat /\ day \in Nat /\ Full \in Nat /\ policy.cooldown \in Nat /\ Quotes \subseteq Nat
      /\ memory \in Memories /\ calm \in Nat /\ bar.price \in Quotes
      /\ run.fill \in {"next_open", "same_close"} /\ run.warmup <= day
  BY DEF Testing!BacktestAssumption, Tests, Tested, Testing!Bars, Testing!Evaluate, Testing!Evaluates
<1>4. /\ day' = day + 1 /\ Testing!Evaluates /\ hit' = Testing!Stopped(h, bar)
      /\ memory' = [entry |-> Testing!EntryAfter(h, bar), cooldown |-> Testing!RestAfter(h, bar), target |-> goal]
      /\ calm' = (IF memory.cooldown = 0 /\ Testing!Exiting(h, bar) THEN 0
                  ELSE Testing!Lower(calm + 1, policy.cooldown + 1))
      /\ exposure' \in (IF Testing!Rebalances /\ run.fill = "same_close"
                        THEN Testing!Traded(h, goal) ELSE {h})
      /\ waits' = (IF Testing!Rebalances /\ run.fill = "next_open" THEN {goal} ELSE {})
      /\ due' = (IF run.fill = "same_close" THEN hit' ELSE hit)
  BY DEF Testing!Evaluate, Testing!Evaluated
<1>5. Testing!Stopped(h, bar) => Testing!Exiting(h, bar)
  BY DEF Testing!Exiting, Testing!Stopped
<1>6. /\ Testing!EntryAfter(h, bar) \in Quotes \cup {-1}
      /\ h = 0 /\ goal > 0 => Testing!EntryAfter(h, bar) # -1
      /\ h # 0 /\ goal > 0 => Testing!EntryAfter(h, bar) = memory.entry
  BY <1>3 DEF Testing!EntryAfter, Testing!NoPrice, Memories
<1>7. /\ Testing!RestAfter(h, bar) \in 0..policy.cooldown
      /\ memory.cooldown > 0 => Testing!RestAfter(h, bar) = memory.cooldown - 1
      /\ memory.cooldown = 0 /\ Testing!Exiting(h, bar) => Testing!RestAfter(h, bar) = policy.cooldown
  BY <1>3 DEF Testing!RestAfter, Memories
<1> HIDE DEF goal
<1>8. exposure' \in 0..Full /\ (exposure' = h \/ (exposure' > 0 => goal > 0))
      /\ (Testing!Rebalances /\ run.fill = "same_close" => (exposure' > 0 => goal > 0))
  BY <1>1, <1>2, <1>4, TradedIs
<1>9. calm' \in Nat /\ (calm' = 0 \/ (calm' = calm + 1 \/ calm' = policy.cooldown + 1))
  BY <1>3, <1>4 DEF Testing!Lower
<1>10. Tested'
  <2>1. memory' \in Memories'  BY <1>2, <1>4, <1>6, <1>7 DEF Memories
  <2>4. policy \in Policies /\ run \in Runs  BY DEF Tests, Tested
  <2>2. hit' \in BOOLEAN  BY <1>4 DEF Testing!Stopped
  <2>3. due' \in BOOLEAN  BY <1>4, <2>2 DEF Tests, Tested
  <2> QED  BY <1>2, <1>3, <1>4, <1>8, <1>9, <2>1, <2>2, <2>3, <2>4 DEF Tested
<1>11. Waiting'  BY <1>3, <1>4 DEF Waiting
<1>12. Armed'
  <2> SUFFICES ASSUME Testing!Aligned PROVE Armed'
    BY DEF Armed, Testing!Aligned
  <2>1. Testing!Rebalances  BY <1>4, AlignedTrades
  <2>2. memory'.entry = Testing!EntryAfter(h, bar)  BY <1>4
  <2>3. ~run.seeded /\ goal > 0 => memory'.entry # -1  BY <1>1, <1>2, <1>3, <1>6, <2>2
  <2>4. CASE run.fill = "same_close"
    <3>1. waits' = {} /\ (exposure' > 0 => goal > 0)  BY <1>4, <1>8, <2>1, <2>4
    <3>2. due' => goal = 0  BY <1>2, <1>4, <1>5, <2>4
    <3> QED  BY <1>2, <1>8, <2>3, <2>4, <3>1, <3>2 DEF Armed
  <2>5. CASE run.fill = "next_open"
    <3>1. waits' = {goal} /\ exposure' = h  BY <1>4, <2>1, <2>5
    <3>2. hit' => goal = 0  BY <1>2, <1>4, <1>5
    <3>3. due' => h = 0  BY <1>1, <1>3, <1>4, <2>5 DEF Tests, Armed
    <3> QED  BY <1>2, <1>8, <2>3, <2>5, <3>1, <3>2, <3>3 DEF Armed
  <2> QED  BY <1>3, <2>4, <2>5
<1>13. Rested'
  <2>1. memory.cooldown \in 0..policy.cooldown /\ policy.cooldown <= calm + memory.cooldown
    BY <1>3 DEF Memories, Tests, Rested
  <2>2. memory'.cooldown = Testing!RestAfter(h, bar) /\ memory'.target = goal  BY <1>4
  <2>3. CASE memory.cooldown = 0 /\ Testing!Exiting(h, bar)
    BY <1>2, <1>3, <1>4, <1>7, <2>2, <2>3 DEF Rested
  <2>4. CASE ~(memory.cooldown = 0 /\ Testing!Exiting(h, bar))
    <3>1. calm' = Testing!Lower(calm + 1, policy.cooldown + 1)  BY <1>4, <2>4
    <3>2. calm' \in {calm + 1, policy.cooldown + 1}  BY <1>3, <3>1 DEF Testing!Lower
    <3>3. memory.cooldown > 0 => goal = 0  BY <1>2
    <3> QED  BY <1>2, <1>3, <1>7, <2>1, <2>2, <3>2, <3>3 DEF Rested
  <2> QED  BY <2>3, <2>4
<1> QED  BY <1>10, <1>11, <1>12, <1>13 DEF Tests

\* The backtest of a strategy (engine/backtester.py: run_backtest): its exposures
\* and its memory are of their types; a position that was bought has its stop-loss
\* armed until its sale is under way; an exit by price is traded on its bar or at the
\* next open, and nothing is bought until the cooldown is over.
THEOREM ExitsAreCarriedOutHolds ==
    ASSUME Testing!BacktestAssumption
    PROVE  Testing!Spec => [](Testing!TypeOK /\ Testing!StaysArmed /\ Testing!ExitsAreCarriedOut)
<1>1. Testing!Init => Tests
  <2> SUFFICES ASSUME Testing!Init PROVE Tests
    OBVIOUS
  <2>1. /\ policy \in Policies /\ run \in Runs
        /\ day = 0 /\ exposure = (IF run.seeded THEN Full ELSE 0)
        /\ memory = [entry |-> -1, cooldown |-> 0, target |-> 0]
        /\ waits = {} /\ calm = policy.cooldown + 1 /\ hit = FALSE /\ due = FALSE
    BY DEF Testing!Init, Testing!NoPrice
  <2>2. Full \in Nat /\ policy.cooldown \in Nat  BY <2>1 DEF Testing!BacktestAssumption
  <2>3. memory \in Memories  BY <2>1, <2>2 DEF Memories
  <2>a. day \in Nat /\ exposure \in 0..Full /\ calm \in Nat  BY <2>1, <2>2
  <2>b. hit \in BOOLEAN /\ due \in BOOLEAN  BY <2>1
  <2>4. Tested /\ Waiting  BY <2>1, <2>3, <2>a, <2>b DEF Tested, Waiting
  <2>5. Armed  BY <2>1, <2>2 DEF Armed
  <2>6. Rested  BY <2>1, <2>2 DEF Rested
  <2> QED  BY <2>4, <2>5, <2>6 DEF Tests
<1>2. Tests /\ [Testing!Next]_(Testing!vars) => Tests'
  <2> SUFFICES ASSUME Tests, [Testing!Next]_(Testing!vars) PROVE Tests'
    OBVIOUS
  <2>1. ASSUME NEW h \in Testing!Held, Testing!Skip(h), policy' = policy, run' = run PROVE Tests'
    BY <2>1, SkipStep
  <2>2. ASSUME NEW h \in Testing!Held, NEW bar \in Testing!Bars, Testing!Evaluate(h, bar),
               policy' = policy, run' = run
        PROVE  Tests'
    BY <2>2, EvaluateStep
  <2>3. CASE UNCHANGED Testing!vars
    BY <2>3 DEF Testing!vars, Tests, Tested, Memories, Waiting, Armed, Rested, Testing!Aligned
  <2> QED  BY <2>1, <2>2, <2>3 DEF Testing!Next
<1>3. Tests => Testing!TypeOK /\ Testing!StaysArmed /\ Testing!ExitsAreCarriedOut
  BY DEF Tests, Tested, Armed, Rested, Memories, Testing!TypeOK, Testing!StaysArmed,
         Testing!ExitsAreCarriedOut, Testing!NoPrice
<1> QED  BY <1>1, <1>2, <1>3, PTL DEF Testing!Spec

-----------------------------------------------------------------------------
(* The backtest of a pool, over the same days. *)
CONSTANTS Symbols, Modes, FillTimes, Frequency, MaxPositions
VARIABLES mode, fill, bars, held, decided, asked, chosen, stranded
Pooling == INSTANCE PoolBacktest WITH pending <- decided, target <- chosen

\* Only the decisions of a pool wait for the bars of their symbols, and only what
\* is traded at the next open is a target; it is within the positions.
Pooled ==
    /\ mode \in Modes /\ fill \in FillTimes
    /\ day \in Nat /\ bars \in SUBSET Symbols /\ held \in SUBSET Symbols /\ stranded \in SUBSET held
    /\ decided \in [Symbols -> Pooling!Decisions \cup {"none"}] /\ asked \in [Symbols -> 0..LastDay]
    /\ chosen \in SUBSET (SUBSET Symbols)
Selecting ==
    /\ mode = "pool" => chosen = {}
    /\ mode # "pool" => \A s \in Symbols : decided[s] = "none"
    /\ fill = "same_close" => chosen = {}
    /\ \A selection \in chosen : Cardinality(selection) <= MaxPositions
Pools == Pooled /\ Selecting /\ Pooling!TradedAtNextBar /\ Pooling!WithinPositions

-----------------------------------------------------------------------------
\* The sets of the instance are counted as sets are.
LEMMA Counts ==
    ASSUME NEW S
    PROVE  Pooling!Cardinality(S) = Cardinality(S) /\ Pooling!IsFiniteSet(S) = IsFiniteSet(S)
BY DEF Pooling!Cardinality, Cardinality, Pooling!IsFiniteSet, IsFiniteSet

\* A set of symbols is finite.
LEMMA SymbolsAreFinite ==
    ASSUME Pooling!PoolBacktestAssumption, NEW S \in SUBSET Symbols
    PROVE  IsFiniteSet(S)
<1>1. Pooling!IsFiniteSet(Symbols)  BY DEF Pooling!PoolBacktestAssumption
<1>2. IsFiniteSet(Symbols)  BY <1>1, Counts
<1> QED  BY <1>2, FS_Subset

\* What is not among the symbols of a selection, the selection being small enough.
LEMMA SmallPart ==
    ASSUME Pooling!PoolBacktestAssumption, NEW S \in SUBSET Symbols, NEW T \in SUBSET S, Cardinality(S) <= MaxPositions
    PROVE  Cardinality(T) <= MaxPositions
<1>1. IsFiniteSet(S)  BY SymbolsAreFinite
<1>2. Cardinality(T) <= Cardinality(S) /\ Cardinality(T) \in Nat /\ Cardinality(S) \in Nat
  BY <1>1, FS_Subset, FS_CardinalityType
<1> QED  BY <1>2 DEF Pooling!PoolBacktestAssumption

\* A selection is of symbols, and within the positions.
LEMMA SelectionIs ==
    ASSUME Pooling!PoolBacktestAssumption, NEW before \in SUBSET Symbols, NEW rows \in SUBSET Symbols,
           NEW decision \in [rows -> Pooling!Decisions], NEW selection \in Pooling!Selections(before, decision)
    PROVE  selection \in SUBSET Symbols /\ Cardinality(selection) <= MaxPositions
<1>1. CASE mode = "strategy"
  <2>1. selection \in SUBSET (rows \cup before) /\ Pooling!Cardinality(selection) <= MaxPositions
    BY <1>1 DEF Pooling!Selections, Pooling!Exposed
  <2>2. Pooling!Cardinality(selection) = Cardinality(selection)  BY Counts
  <2> QED  BY <2>1, <2>2
<1>2. CASE mode # "strategy"
  <2> DEFINE buys == {s \in DOMAIN decision : decision[s] = "buy"}
             holds == {s \in before : s \notin DOMAIN decision \/ decision[s] = "hold"}
  <2>1. /\ selection \in SUBSET (buys \cup holds)
        /\ Pooling!Cardinality(selection) = Pooling!Room(Pooling!Cardinality(buys \cup holds))
    BY <1>2 DEF Pooling!Selections, Pooling!Allocations
  <2>2. buys \cup holds \in SUBSET Symbols  OBVIOUS
  <2>3. IsFiniteSet(buys \cup holds)  BY <2>2, SymbolsAreFinite
  <2>4. Cardinality(buys \cup holds) \in Nat  BY <2>3, FS_CardinalityType
  <2> HIDE DEF buys, holds
  <2>5. /\ Pooling!Cardinality(selection) = Cardinality(selection)
        /\ Pooling!Cardinality(buys \cup holds) = Cardinality(buys \cup holds)
    BY Counts
  <2> QED  BY <2>1, <2>2, <2>4, <2>5 DEF Pooling!Room, Pooling!PoolBacktestAssumption
<1> QED  BY <1>1, <1>2

\* The open of an allocation: nothing but its target is traded.
LEMMA OpenedIs ==
    ASSUME Pooling!PoolBacktestAssumption, Pools, mode # "pool", NEW rows \in SUBSET Symbols,
           NEW opened \in Pooling!Opened(rows)
    PROVE  \/ chosen = {} /\ opened = held
           \/ \E selection \in chosen : \E kept \in SUBSET (selection \cap rows) : opened = (held \ rows) \cup kept
<1>1. Pooling!Ripe(rows) = {}  BY DEF Pools, Selecting, Pooling!Ripe
<1>2. CASE chosen = {}
  <2>1. opened \in Pooling!Executed(held, [s \in {} |-> decided[s]])  BY <1>1, <1>2 DEF Pooling!Opened
  <2>2. opened = held  BY <2>1 DEF Pooling!Executed
  <2> QED  BY <1>2, <2>2
<1>3. CASE chosen # {}
  <2>1. PICK selection \in chosen : opened \in Pooling!Rebalanced(held, selection, rows)
    BY <1>3 DEF Pooling!Opened
  <2> QED  BY <2>1 DEF Pooling!Rebalanced
<1> QED  BY <1>2, <1>3

\* What is opened, of symbols.
LEMMA OpenedOf ==
    ASSUME Pools, NEW rows \in SUBSET Symbols, NEW opened \in Pooling!Opened(rows)
    PROVE  opened \in SUBSET Symbols
<1>1. held \in SUBSET Symbols /\ chosen \in SUBSET (SUBSET Symbols)  BY DEF Pools, Pooled
<1>2. CASE chosen = {}
  <2>1. Pooling!Ripe(rows) \in SUBSET Symbols  BY DEF Pooling!Ripe
  <2>2. opened \in Pooling!Executed(held, [s \in Pooling!Ripe(rows) |-> decided[s]])  BY <1>2 DEF Pooling!Opened
  <2> QED  BY <1>1, <2>1, <2>2 DEF Pooling!Executed
<1>3. CASE chosen # {}
  <2>1. PICK selection \in chosen : opened \in Pooling!Rebalanced(held, selection, rows)
    BY <1>3 DEF Pooling!Opened
  <2> QED  BY <1>1, <2>1 DEF Pooling!Rebalanced
<1> QED  BY <1>2, <1>3

\* The close trades symbols.
LEMMA ClosedOf ==
    ASSUME NEW rows \in SUBSET Symbols, NEW decision \in [rows -> Pooling!Decisions], NEW left \in SUBSET Symbols,
           NEW selection \in SUBSET Symbols, NEW after \in Pooling!AtClose(left, selection, rows, decision)
    PROVE  after \in SUBSET Symbols
<1>1. after \in {left} \/ after \in Pooling!Rebalanced(left, selection, rows)
      \/ after \in Pooling!Executed(left, decision)
  BY DEF Pooling!AtClose
<1> QED  BY <1>1 DEF Pooling!Rebalanced, Pooling!Executed

\* The decisions that wait: those of a bar of today, or of no bar since.
LEMMA WaitStep ==
    ASSUME Pools, NEW rows \in SUBSET Symbols, NEW decision \in [rows -> Pooling!Decisions], day <= LastDay,
           LastDay \in Nat, Pooling!Day(rows, decision)
    PROVE  /\ decided' \in [Symbols -> Pooling!Decisions \cup {"none"}] /\ asked' \in [Symbols -> 0..LastDay]
           /\ Pooling!TradedAtNextBar'
           /\ mode # "pool" => \A s \in Symbols : decided'[s] = "none"
<1> DEFINE kept == Pooling!Waits(rows, decision)
           still == Pooling!StillPending(rows)
<1>1. /\ decided \in [Symbols -> Pooling!Decisions \cup {"none"}] /\ asked \in [Symbols -> 0..LastDay]
      /\ day \in Nat /\ (mode = "pool" => chosen = {}) /\ (mode # "pool" => \A s \in Symbols : decided[s] = "none")
  BY DEF Pools, Pooled, Selecting
<1>2. /\ decided' = [s \in Symbols |-> IF s \in kept THEN decision[s] ELSE still[s]]
      /\ asked' = [s \in Symbols |-> IF s \in kept THEN day ELSE asked[s]]
      /\ bars' = rows /\ day' = day + 1
  BY DEF Pooling!Day
<1>3. kept \in SUBSET rows /\ (mode # "pool" => kept = {})  BY DEF Pooling!Waits
<1>4. /\ still \in [Symbols -> Pooling!Decisions \cup {"none"}]
      /\ \A s \in Symbols : still[s] \in {"none", decided[s]}
      /\ mode = "pool" => \A s \in rows : still[s] = "none"
  BY <1>1 DEF Pooling!StillPending, Pooling!Ripe
<1> HIDE DEF kept, still
<1>5. decided' \in [Symbols -> Pooling!Decisions \cup {"none"}]  BY <1>2, <1>3, <1>4
<1>6. asked' \in [Symbols -> 0..LastDay]  BY <1>1, <1>2
<1>7. mode # "pool" => \A s \in Symbols : decided'[s] = "none"  BY <1>1, <1>2, <1>3, <1>4
<1>8. Pooling!TradedAtNextBar'
  <2> SUFFICES ASSUME NEW s \in rows, decided'[s] # "none" PROVE asked'[s] = day' - 1
    BY <1>2 DEF Pooling!TradedAtNextBar
  <2>1. mode = "pool"  BY <1>7
  <2>2. s \in kept  BY <1>2, <1>4, <2>1
  <2> QED  BY <1>1, <1>2, <2>2
<1> QED  BY <1>5, <1>6, <1>7, <1>8

\* The positions of an allocation after a day.
LEMMA PositionStep ==
    ASSUME Pooling!PoolBacktestAssumption, Pools, mode # "pool", NEW rows \in SUBSET Symbols,
           NEW decision \in [rows -> Pooling!Decisions],
           NEW opened \in Pooling!Opened(rows), NEW exits \in SUBSET (opened \cap held \cap rows),
           NEW selection \in SUBSET Symbols, Cardinality(selection) <= MaxPositions,
           NEW after \in Pooling!AtClose(opened \ exits, selection, rows, decision),
           held' \in SUBSET after,
           stranded' = held' \cap Pooling!Stranded(opened \ exits, selection, rows)
    PROVE  Cardinality(held' \ stranded') <= MaxPositions
<1> DEFINE left == opened \ exits
<1>0. Cardinality(held \ stranded) <= MaxPositions
  <2>1. Pooling!Cardinality(held \ stranded) <= MaxPositions  BY DEF Pools, Pooling!WithinPositions
  <2>2. Pooling!Cardinality(held \ stranded) = Cardinality(held \ stranded)  BY Counts
  <2> QED  BY <2>1, <2>2
<1>1. held \in SUBSET Symbols /\ chosen \in SUBSET (SUBSET Symbols) /\ fill \in {"next_open", "same_close"}
      /\ (fill = "same_close" => chosen = {}) /\ \A s \in chosen : Cardinality(s) <= MaxPositions
  BY DEF Pools, Pooled, Selecting, Pooling!PoolBacktestAssumption
<1>2. \/ chosen = {} /\ opened = held
      \/ \E s \in chosen : \E kept \in SUBSET (s \cap rows) : opened = (held \ rows) \cup kept
  BY OpenedIs
<1>3. CASE fill = "same_close" /\ Pooling!Rebalances
  <2>1. after \in Pooling!Rebalanced(left, selection, rows)  BY <1>3 DEF Pooling!AtClose
  <2>2. PICK kept \in SUBSET (selection \cap rows) : after = (left \ rows) \cup kept
    BY <2>1 DEF Pooling!Rebalanced
  <2>3. stranded' = held' \cap ((left \ selection) \ rows)  BY <1>3 DEF Pooling!Stranded, Pooling!Unsold
  <2>4. held' \ stranded' \in SUBSET selection  BY <2>2, <2>3
  <2> QED  BY <2>4, SmallPart
<1>4. CASE ~(fill = "same_close" /\ Pooling!Rebalances)
  <2>1. after = left  BY <1>1, <1>4 DEF Pooling!AtClose
  <2>2. stranded' = held' \cap left \cap (IF chosen = {} THEN stranded
                                          ELSE UNION {Pooling!Unsold(held, t, rows) : t \in chosen})
    BY <1>4 DEF Pooling!Stranded
  <2>3. CASE chosen = {} /\ opened = held
    <3>1. held' \ stranded' \in SUBSET (held \ stranded)  BY <2>1, <2>2, <2>3
    <3>2. held \ stranded \in SUBSET Symbols  BY <1>1
    <3> QED  BY <1>0, <3>1, <3>2, SmallPart
  <2>4. ASSUME NEW s \in chosen, NEW kept \in SUBSET (s \cap rows), opened = (held \ rows) \cup kept
        PROVE  Cardinality(held' \ stranded') <= MaxPositions
    <3>1. stranded' = held' \cap left \cap UNION {Pooling!Unsold(held, t, rows) : t \in chosen}
      BY <2>2, <2>4
    <3>2. held' \cap left \cap ((held \ s) \ rows) \in SUBSET stranded'
      BY <3>1 DEF Pooling!Unsold
    <3>3. held' \in SUBSET left  BY <2>1
    <3>4. held' \ stranded' \in SUBSET s  BY <2>4, <3>2, <3>3
    <3>5. s \in SUBSET Symbols  BY <1>1
    <3> QED  BY <1>1, <3>4, <3>5, SmallPart
  <2> QED  BY <1>2, <2>3, <2>4
<1> QED  BY <1>3, <1>4

\* One day.
LEMMA DayStep ==
    ASSUME Pooling!PoolBacktestAssumption, Pools, NEW rows \in SUBSET Symbols,
           NEW decision \in [rows -> Pooling!Decisions], Pooling!Day(rows, decision),
           mode' = mode, fill' = fill
    PROVE  Pools'
<1>1. /\ day \in Nat /\ day <= LastDay /\ day' = day + 1 /\ bars' = rows /\ LastDay \in Nat
  BY DEF Pools, Pooled, Pooling!Day, Pooling!PoolBacktestAssumption
<1>2. /\ decided' \in [Symbols -> Pooling!Decisions \cup {"none"}] /\ asked' \in [Symbols -> 0..LastDay]
      /\ Pooling!TradedAtNextBar' /\ (mode # "pool" => \A s \in Symbols : decided'[s] = "none")
  BY <1>1, WaitStep
<1>3. PICK opened \in Pooling!Opened(rows) : \E exits \in SUBSET (opened \cap held \cap rows) :
       \E selection \in Pooling!Selections(opened \ exits, decision) :
          /\ held' \in UNION {Pooling!Trimmed(after, rows) :
                                after \in Pooling!AtClose(opened \ exits, selection, rows, decision)}
          /\ chosen' = IF Pooling!Rebalances /\ fill = "next_open" THEN {selection} ELSE {}
          /\ stranded' = held' \cap Pooling!Stranded(opened \ exits, selection, rows)
  BY DEF Pooling!Day
<1>4. PICK exits \in SUBSET (opened \cap held \cap rows) :
       \E selection \in Pooling!Selections(opened \ exits, decision) :
          /\ held' \in UNION {Pooling!Trimmed(after, rows) :
                                after \in Pooling!AtClose(opened \ exits, selection, rows, decision)}
          /\ chosen' = IF Pooling!Rebalances /\ fill = "next_open" THEN {selection} ELSE {}
          /\ stranded' = held' \cap Pooling!Stranded(opened \ exits, selection, rows)
  BY <1>3
<1>5. PICK selection \in Pooling!Selections(opened \ exits, decision) :
          /\ held' \in UNION {Pooling!Trimmed(after, rows) :
                                after \in Pooling!AtClose(opened \ exits, selection, rows, decision)}
          /\ chosen' = IF Pooling!Rebalances /\ fill = "next_open" THEN {selection} ELSE {}
          /\ stranded' = held' \cap Pooling!Stranded(opened \ exits, selection, rows)
  BY <1>4
<1>6. PICK after \in Pooling!AtClose(opened \ exits, selection, rows, decision) : held' \in Pooling!Trimmed(after, rows)
  BY <1>5
<1>7. opened \in SUBSET Symbols /\ opened \ exits \in SUBSET Symbols  BY OpenedOf
<1>8. selection \in SUBSET Symbols /\ Cardinality(selection) <= MaxPositions  BY <1>7, SelectionIs
<1>9. held' \in SUBSET after  BY <1>6 DEF Pooling!Trimmed
<1>10. after \in SUBSET Symbols  BY <1>7, <1>8, ClosedOf
<1>11. Pooled'
  <2>1. mode \in Modes /\ fill \in FillTimes  BY DEF Pools, Pooled
  <2> QED  BY <1>1, <1>2, <1>5, <1>8, <1>9, <1>10, <2>1 DEF Pooled
<1>12. Selecting'  BY <1>2, <1>5, <1>8 DEF Selecting, Pooling!Rebalances
<1>13. Pooling!WithinPositions'
  <2>1. mode # "pool" => Cardinality(held' \ stranded') <= MaxPositions
    BY <1>5, <1>8, <1>9, PositionStep
  <2>2. Pooling!Cardinality(held' \ stranded') = Cardinality(held' \ stranded')  BY Counts
  <2> QED  BY <2>1, <2>2 DEF Pooling!WithinPositions
<1> QED  BY <1>2, <1>11, <1>12, <1>13 DEF Pools

\* The backtest of a pool (engine/backtester.py: run_pool_backtest): what still
\* waits after a bar of its symbol was decided on it, and an allocation holds no
\* more symbols than it may, but for those it gave up on a day without a bar.
THEOREM PoolsTradeHolds ==
    ASSUME Pooling!PoolBacktestAssumption
    PROVE  Pooling!Spec => [](Pooling!TypeOK /\ Pooling!TradedAtNextBar /\ Pooling!WithinPositions)
<1>1. Pooling!Init => Pools
  <2> SUFFICES ASSUME Pooling!Init PROVE Pools
    OBVIOUS
  <2>1. /\ mode \in Modes /\ fill \in FillTimes
        /\ day = 0 /\ bars = {} /\ held = {} /\ chosen = {} /\ stranded = {}
        /\ decided = [s \in Symbols |-> "none"] /\ asked = [s \in Symbols |-> 0]
        /\ LastDay \in Nat /\ MaxPositions \in Nat
    BY DEF Pooling!Init, Pooling!PoolBacktestAssumption
  <2>2. Pooled /\ Selecting  BY <2>1 DEF Pooled, Selecting
  <2>3. Pooling!TradedAtNextBar  BY <2>1 DEF Pooling!TradedAtNextBar
  <2>4. Pooling!WithinPositions
    <3>1. held \ stranded = {}  BY <2>1
    <3>2. Pooling!Cardinality({}) = 0  BY Counts, FS_EmptySet
    <3> QED  BY <2>1, <3>1, <3>2 DEF Pooling!WithinPositions
  <2> QED  BY <2>2, <2>3, <2>4 DEF Pools
<1>2. Pools /\ [Pooling!Next]_(Pooling!vars) => Pools'
  <2> SUFFICES ASSUME Pools, [Pooling!Next]_(Pooling!vars) PROVE Pools'
    OBVIOUS
  <2>1. ASSUME NEW rows \in SUBSET Symbols, NEW decision \in [rows -> Pooling!Decisions],
               Pooling!Day(rows, decision), mode' = mode, fill' = fill
        PROVE  Pools'
    BY <2>1, DayStep
  <2>2. CASE UNCHANGED Pooling!vars
    BY <2>2 DEF Pooling!vars, Pools, Pooled, Selecting, Pooling!TradedAtNextBar, Pooling!WithinPositions
  <2> QED  BY <2>1, <2>2 DEF Pooling!Next
<1>3. Pools => Pooling!TypeOK /\ Pooling!TradedAtNextBar /\ Pooling!WithinPositions
  BY DEF Pools, Pooled, Pooling!TypeOK
<1> QED  BY <1>1, <1>2, <1>3, PTL DEF Pooling!Spec

-----------------------------------------------------------------------------
(* The laboratory of strategies: what a request leaves behind. *)
CONSTANTS Titles, Histories, Period, MinRows, EnoughRows, EnoughDays, MinPrefix, Peeks, Bounds
VARIABLES job, registry, files, experiments, candidates, saved, spent
Laboratory == INSTANCE StrategyLab WITH Names <- Titles, Limit <- Bounds, kept <- saved, used <- spent

\* Of numbers that differ, each has its place.
LEMMA PlacesAreTaken ==
    ASSUME NEW S, IsFiniteSet(S), NEW d \in [S -> Nat], \A i, k \in S : i # k => d[i] # d[k]
    PROVE  /\ \A n \in 1..Cardinality(S) : \E i \in S : Cardinality({k \in S : d[k] < d[i]}) = n - 1
           /\ \A i, k \in S : Cardinality({l \in S : d[l] < d[i]}) < Cardinality({l \in S : d[l] < d[k]}) => d[i] < d[k]
<1> DEFINE Below(i) == {k \in S : d[k] < d[i]}
           place == [i \in S |-> Cardinality(Below(i))]
           N == Cardinality(S)
<1>1. N \in Nat  BY FS_CardinalityType
<1>2. ASSUME NEW i \in S
      PROVE  IsFiniteSet(Below(i)) /\ Cardinality(Below(i)) \in Nat /\ Cardinality(Below(i)) < N
  <2>1. Below(i) \in SUBSET S /\ i \notin Below(i)  OBVIOUS
  <2>2. /\ IsFiniteSet(Below(i)) /\ Cardinality(Below(i)) <= N /\ (Cardinality(Below(i)) = N => Below(i) = S)
    BY <2>1, FS_Subset
  <2>3. Cardinality(Below(i)) \in Nat  BY <2>2, FS_CardinalityType
  <2>4. Cardinality(Below(i)) # N  BY <2>1, <2>2
  <2> HIDE DEF Below, N
  <2> QED  BY <1>1, <2>2, <2>3, <2>4
<1>3. ASSUME NEW i \in S, NEW k \in S, d[i] < d[k]
      PROVE  Cardinality(Below(i)) < Cardinality(Below(k))
  <2>1. Below(i) \in SUBSET Below(k) /\ i \in Below(k) /\ i \notin Below(i)  BY <1>3
  <2>2. IsFiniteSet(Below(k)) /\ Cardinality(Below(k)) \in Nat /\ Cardinality(Below(i)) \in Nat  BY <1>2
  <2>3. Cardinality(Below(i)) <= Cardinality(Below(k))
        /\ (Cardinality(Below(i)) = Cardinality(Below(k)) => Below(i) = Below(k))
    BY <2>1, <2>2, FS_Subset
  <2>4. Cardinality(Below(i)) # Cardinality(Below(k))  BY <2>1, <2>3
  <2> HIDE DEF Below
  <2> QED  BY <2>2, <2>3, <2>4
<1>4. place \in Injection(S, 0..(N - 1))
  <2>1. place \in [S -> 0..(N - 1)]
    <3> SUFFICES ASSUME NEW i \in S PROVE Cardinality(Below(i)) \in 0..(N - 1)
      OBVIOUS
    <3>1. Cardinality(Below(i)) \in Nat /\ Cardinality(Below(i)) < N  BY <1>2
    <3> HIDE DEF Below, N
    <3> QED  BY <1>1, <3>1
  <2>2. ASSUME NEW i \in S, NEW k \in S, place[i] = place[k] PROVE i = k
    <3> SUFFICES ASSUME i # k PROVE FALSE
      OBVIOUS
    <3>1. d[i] \in Nat /\ d[k] \in Nat /\ d[i] # d[k]  OBVIOUS
    <3>2. d[i] < d[k] \/ d[k] < d[i]  BY <3>1
    <3>3. Cardinality(Below(i)) < Cardinality(Below(k)) \/ Cardinality(Below(k)) < Cardinality(Below(i))
      BY <1>3, <3>2
    <3>4. Cardinality(Below(i)) = Cardinality(Below(k)) /\ Cardinality(Below(i)) \in Nat  BY <1>2, <2>2
    <3> HIDE DEF Below
    <3> QED  BY <3>3, <3>4
  <2> HIDE DEF place
  <2> QED  BY <2>1, <2>2 DEF Injection, IsInjective
<1>5. IsFiniteSet(0..(N - 1)) /\ Cardinality(0..(N - 1)) = N
  <2>1. /\ IsFiniteSet(0..(N - 1)) /\ Cardinality(0..(N - 1)) = IF 0 > N - 1 THEN 0 ELSE (N - 1) - 0 + 1
    <3>1. 0 \in Int /\ N - 1 \in Int  BY <1>1
    <3> HIDE DEF N
    <3> QED  BY <3>1, FS_Interval
  <2> HIDE DEF N
  <2> QED  BY <1>1, <2>1
<1>6. place \in Surjection(S, 0..(N - 1))  BY <1>4, <1>5, FS_Injection
<1>7. ASSUME NEW n \in 1..N PROVE \E i \in S : Cardinality(Below(i)) = n - 1
  <2>1. n - 1 \in 0..(N - 1)  BY <1>1
  <2>2. PICK i \in S : place[i] = n - 1  BY <1>6, <2>1 DEF Surjection
  <2> QED  BY <2>2
<1>8. ASSUME NEW i \in S, NEW k \in S, Cardinality(Below(i)) < Cardinality(Below(k)) PROVE d[i] < d[k]
  <2>1. d[i] \in Nat /\ d[k] \in Nat  OBVIOUS
  <2>2. CASE d[k] < d[i]
    <3>1. Cardinality(Below(k)) < Cardinality(Below(i))  BY <1>3, <2>2
    <3>2. Cardinality(Below(i)) \in Nat /\ Cardinality(Below(k)) \in Nat  BY <1>2
    <3> HIDE DEF Below
    <3> QED  BY <1>8, <3>1, <3>2
  <2>3. CASE d[k] = d[i]
    <3>1. Below(k) = Below(i)  BY <2>3
    <3>2. Cardinality(Below(i)) \in Nat  BY <1>2
    <3> HIDE DEF Below
    <3> QED  BY <1>8, <3>1, <3>2
  <2> QED  BY <2>1, <2>2, <2>3
<1> QED  BY <1>7, <1>8

\* Rows that are prepared are clean, and not more than there were.
LEMMA PreparedIs ==
    ASSUME Laboratory!StrategyLabAssumption, NEW rows \in Histories, Laboratory!Prepared(rows) # <<>>
    PROVE  /\ Laboratory!Prepared(rows) \in Seq(Laboratory!Rows)
           /\ Laboratory!Clean(Laboratory!Prepared(rows))
           /\ Len(Laboratory!Prepared(rows)) <= Len(rows)
<1> DEFINE listed == {i \in DOMAIN rows : rows[i].day \in Period}
           Before(i) == Cardinality({k \in listed : rows[k].day < rows[i].day})
           N == Cardinality(listed)
           Nth(n) == CHOOSE i \in listed : Before(i) = n - 1
           p == [n \in 1..N |-> rows[Nth(n)]]
<1>1. /\ rows \in Seq(Laboratory!Rows) /\ Len(rows) \in Nat /\ DOMAIN rows = 1..Len(rows)
      /\ \A i \in DOMAIN rows : rows[i] \in Laboratory!Rows /\ rows[i].day \in Nat
  <2>1. rows \in Seq(Laboratory!Rows)  BY DEF Laboratory!StrategyLabAssumption
  <2>2. Len(rows) \in Nat /\ DOMAIN rows = 1..Len(rows) /\ \A i \in 1..Len(rows) : rows[i] \in Laboratory!Rows
    BY <2>1, LenProperties, ElementOfSeq
  <2> QED  BY <2>1, <2>2 DEF Laboratory!Rows
<1>2. /\ \A i, k \in listed : i # k => rows[i].day # rows[k].day
      /\ \A i \in listed : rows[i].sound
      /\ Laboratory!Prepared(rows) = p
  <2> DEFINE Usable == /\ Len(rows) >= MinRows
                       /\ \A i \in DOMAIN rows : rows[i].day # 0
                       /\ listed # {}
                       /\ \A i, k \in listed : i # k => rows[i].day # rows[k].day
                       /\ \A i \in listed : rows[i].sound
  <2>1. Laboratory!Prepared(rows) = IF Usable THEN p ELSE <<>>
    BY DEF Laboratory!Prepared, Laboratory!Cardinality, Cardinality
  <2> HIDE DEF p
  <2> QED  BY <2>1
<1>3. IsFiniteSet(listed) /\ N \in Nat /\ N <= Len(rows)
  <2>1. IsFiniteSet(1..Len(rows)) /\ Cardinality(1..Len(rows)) = Len(rows)
    <3>1. /\ IsFiniteSet(1..Len(rows))
          /\ Cardinality(1..Len(rows)) = IF 1 > Len(rows) THEN 0 ELSE Len(rows) - 1 + 1
      BY <1>1, FS_Interval
    <3> QED  BY <1>1, <3>1
  <2>2. listed \in SUBSET (1..Len(rows))  BY <1>1
  <2>3. IsFiniteSet(listed) /\ Cardinality(listed) <= Len(rows)  BY <2>1, <2>2, FS_Subset
  <2> QED  BY <2>3, FS_CardinalityType
<1> DEFINE d == [i \in listed |-> rows[i].day]
<1>4. d \in [listed -> Nat]  BY <1>1
<1>5. /\ \A n \in 1..N : \E i \in listed : Cardinality({k \in listed : d[k] < d[i]}) = n - 1
      /\ \A i, k \in listed :
            Cardinality({l \in listed : d[l] < d[i]}) < Cardinality({l \in listed : d[l] < d[k]}) => d[i] < d[k]
  <2>1. \A i, k \in listed : i # k => d[i] # d[k]  BY <1>2
  <2> HIDE DEF listed, d
  <2> QED  BY <1>3, <1>4, <2>1, PlacesAreTaken
<1>6. \A i \in listed : {k \in listed : d[k] < d[i]} = {k \in listed : rows[k].day < rows[i].day}
  OBVIOUS
<1>7. /\ \A n \in 1..N : \E i \in listed : Before(i) = n - 1
      /\ \A i, k \in listed : Before(i) < Before(k) => rows[i].day < rows[k].day
  <2>1. \A i \in listed : Before(i) = Cardinality({k \in listed : d[k] < d[i]})  BY <1>6
  <2>2. \A i \in listed : d[i] = rows[i].day  OBVIOUS
  <2> HIDE DEF listed, d, Before
  <2> QED  BY <1>5, <2>1, <2>2
<1>8. \A n \in 1..N : Nth(n) \in listed /\ Before(Nth(n)) = n - 1
  <2> HIDE DEF listed, Before
  <2> QED  BY <1>7
<1> HIDE DEF Nth
<1>9. p \in [1..N -> Laboratory!Rows] /\ DOMAIN p = 1..N /\ \A n \in 1..N : p[n] = rows[Nth(n)]
  BY <1>1, <1>8
<1> HIDE DEF p
<1>10. p \in Seq(Laboratory!Rows) /\ Len(p) = N
  <2>1. p \in Seq(Laboratory!Rows)  BY <1>3, <1>9, SeqDef
  <2> QED  BY <1>3, <1>9, <2>1, LenProperties
<1>11. Laboratory!Clean(p)
  <2>1. ASSUME NEW n \in DOMAIN p, NEW m \in DOMAIN p, n < m PROVE p[n].day < p[m].day
    <3>1. Before(Nth(n)) = n - 1 /\ Before(Nth(m)) = m - 1 /\ Nth(n) \in listed /\ Nth(m) \in listed
      BY <1>8, <1>9
    <3>2. n \in Int /\ m \in Int  BY <1>3, <1>9
    <3>3. Before(Nth(n)) < Before(Nth(m))
      <4> HIDE DEF Before
      <4> QED  BY <2>1, <3>1, <3>2
    <3>4. rows[Nth(n)].day < rows[Nth(m)].day
      <4> HIDE DEF Before, listed
      <4> QED  BY <1>7, <3>1, <3>3
    <3> QED  BY <1>9, <3>4
  <2>2. ASSUME NEW n \in DOMAIN p PROVE p[n].day \in Period /\ p[n].sound
    BY <1>2, <1>8, <1>9
  <2> QED  BY <2>1, <2>2 DEF Laboratory!Clean, Laboratory!InOrder
<1> QED  BY <1>2, <1>3, <1>10, <1>11

-----------------------------------------------------------------------------
Ids == 1..Bounds.requests
\* An experiment on its way: what was validated, and what its mode goes with.
Stages == {"design", "repair", "fitting", "rules", "run", "publish", "save"}
Experimenting ==
    [stage : Stages, id : Ids, mode : {"single", "pool", "portfolio"}, count : 1..2, valid : BOOLEAN,
     rules : {"none", "given", "designed"}, data : SUBSET Seq(Laboratory!Rows)]
Proceeds(j) ==
    /\ j.count = 1 => j.mode = "single"
    /\ j.count >= 2 => j.mode \in {"pool", "portfolio"}
    /\ j.rules # "none" => j.mode = "portfolio"
    /\ j.stage \in {"fitting", "rules", "run", "publish", "save"} => j.valid
    /\ j.stage \in {"run", "publish", "save"} => (j.rules = "none" <=> j.mode # "portfolio")
    /\ \A rows \in j.data : Laboratory!Clean(rows)
    /\ j.stage = "save" => {j.id} \X Laboratory!FilesOf(j) \subseteq files

\* A candidate on its way: its rows are clean, its code looks ahead on all of them,
\* and each run of the sandbox is of the rows it is for.
Drawn == [seen : Int, lot : {0, 1}]
Sampled == Seq(Seq(Drawn))
Trying ==
    [stage : {"data", "try"}, id : Ids, code : Laboratory!Codes, strategy : {"same", "other", "unreadable"},
     data : Seq(Laboratory!Rows), runs : Sampled]
Tries(j) ==
    /\ Laboratory!Clean(j.data) /\ Len(j.runs) <= 4
    /\ j.stage = "data" => j.runs = <<>>
    /\ j.stage = "try" =>
         /\ j.data # <<>> /\ \A i \in 1..Len(j.data) : i \in DOMAIN j.code.peek /\ j.code.peek[i] \in Nat
         /\ \A n \in 1..Len(j.runs) : \E lot \in {0, 1} :
               j.runs[n] = Laboratory!Targets(j.code, Laboratory!Sizes(Len(j.data))[n], lot)

OnItsWay ==
    \/ job = Laboratory!Idle
    \/ job \in Experimenting /\ Proceeds(job)
    \/ job \in [stage : {"write"}, id : Ids]
    \/ job \in Trying /\ Tries(job)
Known ==
    /\ registry.memory \subseteq Titles /\ registry.torn \in BOOLEAN
    /\ registry = [memory |-> registry.memory, file |-> registry.file, torn |-> registry.torn]
    /\ registry.file = registry.memory /\ saved \subseteq registry.memory
    /\ registry.torn => registry.memory = {}
Counting ==
    /\ spent = [requests |-> spent.requests, deaths |-> spent.deaths]
    /\ spent.requests \in 0..Bounds.requests /\ spent.deaths \in 0..Bounds.deaths
Labelled ==
    /\ \A f \in files : f[1] \in Ids
    /\ \A e \in experiments : e.id \in Ids /\ e.mode \in Laboratory!Modes
    /\ \A c \in candidates : c.id \in Ids /\ c.status \in {"draft", "validated"}
Lab ==
    /\ OnItsWay /\ Known /\ Counting /\ Labelled
    /\ Laboratory!CandidatesAreEarned /\ Laboratory!ExperimentsAreWhole /\ Laboratory!StrategiesAreKept

\* Which job is at which stage.
LEMMA JobAt ==
    ASSUME OnItsWay
    PROVE  /\ job.stage \in Stages => job \in Experimenting /\ Proceeds(job)
           /\ job.stage = "write" => job \in [stage : {"write"}, id : Ids]
           /\ job.stage \in {"data", "try"} => job \in Trying /\ Tries(job)
           /\ job = Laboratory!Idle => job.stage = "none"
<1>1. job = Laboratory!Idle => job.stage = "none"  BY DEF Laboratory!Idle
<1>2. job \in Experimenting => job.stage \in Stages  BY DEF Experimenting
<1>3. job \in [stage : {"write"}, id : Ids] => job.stage = "write"  OBVIOUS
<1>4. job \in Trying => job.stage \in {"data", "try"}  BY DEF Trying
<1>5. {"none", "write", "data", "try"} \cap Stages = {}  BY DEF Stages
<1> QED  BY <1>1, <1>2, <1>3, <1>4, <1>5 DEF OnItsWay

\* Steps that leave candidates and experiments as they are.
LEMMA NothingSaved ==
    ASSUME Lab, files' = files, experiments' = experiments, candidates' = candidates
    PROVE  Laboratory!CandidatesAreEarned' /\ Laboratory!ExperimentsAreWhole' /\ Labelled'
BY DEF Lab, Laboratory!CandidatesAreEarned, Laboratory!ExperimentsAreWhole, Laboratory!Earned, Laboratory!Whole,
       Laboratory!Clean, Laboratory!InOrder, Laboratory!Prefix, Labelled, Ids, Laboratory!Modes

\* Steps that leave the registry as it is.
LEMMA NothingRegistered ==
    ASSUME Lab, registry' = registry, saved' = saved
    PROVE  Known' /\ Laboratory!StrategiesAreKept'
BY DEF Lab, Known, Laboratory!StrategiesAreKept

\* A request for an experiment, up to its run.
LEMMA LabAsks ==
    ASSUME Laboratory!StrategyLabAssumption, Lab, NEW mode1 \in Laboratory!Modes, NEW count \in 1..2, NEW given \in {"none", "valid", "invalid"},
           NEW rules \in BOOLEAN, Laboratory!AskExperiment(mode1, count, given, rules)
    PROVE  Lab'
<1> DEFINE actual == Laboratory!ModeFor(mode1, count)
           Started(stage) ==
               [stage |-> stage, id |-> spent'.requests, mode |-> actual, count |-> count, valid |-> given = "valid",
                rules |-> IF actual = "portfolio" /\ rules THEN "given" ELSE "none", data |-> {}]
<1>0. spent.requests < Bounds.requests /\ Bounds.requests \in Nat /\ spent.requests \in 0..Bounds.requests
      /\ spent.deaths \in 0..Bounds.deaths
  BY DEF Lab, Counting, Laboratory!StrategyLabAssumption, Laboratory!AskExperiment
<1>1. /\ spent' = [spent EXCEPT !.requests = @ + 1]
      /\ job' = IF ~Laboratory!ModeFits(actual, count) \/ given = "invalid" THEN Laboratory!Idle
                ELSE Started(IF given = "none" THEN "design" ELSE "rules")
      /\ registry' = registry /\ saved' = saved
      /\ files' = files /\ experiments' = experiments /\ candidates' = candidates
  BY DEF Laboratory!AskExperiment
<1>2. spent' = [requests |-> spent.requests + 1, deaths |-> spent.deaths]  BY <1>1 DEF Lab, Counting
<1>3. Counting' /\ spent'.requests \in Ids
  <2>1. spent.requests + 1 \in 0..Bounds.requests /\ spent.requests + 1 \in Ids  BY <1>0 DEF Ids
  <2> QED  BY <1>0, <1>2, <2>1 DEF Counting
<1>4. ASSUME Laboratory!ModeFits(actual, count), given # "invalid"
      PROVE  job' \in Experimenting /\ Proceeds(job')
  <2>1. actual \in {"single", "pool", "portfolio"}  BY <1>4 DEF Laboratory!ModeFor, Laboratory!Modes
  <2>2. /\ count = 1 => actual = "single"
        /\ count >= 2 => actual \in {"pool", "portfolio"}
    BY <1>4, <2>1 DEF Laboratory!ModeFits
  <2> HIDE DEF actual
  <2>3. spent'.requests \in Ids  BY <1>3
  <2>4. PICK stage \in {"design", "rules"} : job' = Started(stage) /\ (stage = "rules" => given = "valid")
    BY <1>1, <1>4
  <2>5. job' \in Experimenting  BY <2>1, <2>3, <2>4 DEF Experimenting, Stages
  <2>6. Proceeds(job')  BY <2>2, <2>4 DEF Proceeds
  <2> QED  BY <2>5, <2>6
<1>5. OnItsWay'  
  <2>1. job' = Laboratory!Idle \/ (job' \in Experimenting /\ Proceeds(job'))  BY <1>1, <1>4
  <2>2. files' = files  BY <1>1
  <2>3. Proceeds(job') => Proceeds(job)'  BY <2>2 DEF Proceeds, Laboratory!FilesOf, Laboratory!Clean, Laboratory!InOrder
  <2> QED  BY <2>1, <2>3 DEF OnItsWay, Laboratory!Idle
<1> QED  BY <1>1, <1>3, <1>5, NothingSaved, NothingRegistered DEF Lab

\* A step of the job alone.
LEMMA JobMoves ==
    ASSUME Lab, registry' = registry, files' = files, experiments' = experiments, candidates' = candidates,
           saved' = saved, spent' = spent,
           \/ job' = Laboratory!Idle
           \/ job' \in Experimenting /\ Proceeds(job')
           \/ job' \in [stage : {"write"}, id : Ids]
           \/ job' \in Trying /\ Tries(job')
    PROVE  Lab'
<1>1. Counting'  BY DEF Lab, Counting
<1>2. OnItsWay'
  <2>1. Proceeds(job') => Proceeds(job)'  BY DEF Proceeds, Laboratory!FilesOf, Laboratory!Clean, Laboratory!InOrder
  <2>2. Tries(job') => Tries(job)'
    BY DEF Tries, Laboratory!Clean, Laboratory!InOrder, Laboratory!Targets, Laboratory!Sizes, Laboratory!Prefix
  <2> QED  BY <2>1, <2>2 DEF OnItsWay, Laboratory!Idle
<1> QED  BY <1>1, <1>2, NothingSaved, NothingRegistered DEF Lab

LEMMA LabDesigns ==
    ASSUME Lab, NEW answer \in {"prose", "invalid", "valid"}, Laboratory!Design(answer)
    PROVE  Lab'
<1>1. job \in Experimenting /\ Proceeds(job) /\ job.stage \in {"design", "repair"}
  BY JobAt DEF Lab, Laboratory!Design, Stages
<1>2. \/ job' = Laboratory!Idle
      \/ job' = [job EXCEPT !.stage = "repair"]
      \/ job' = [job EXCEPT !.stage = "fitting", !.valid = TRUE]
  BY DEF Laboratory!Design
<1>3. job' = Laboratory!Idle \/ (job' \in Experimenting /\ Proceeds(job'))
  <2>1. CASE job' = [job EXCEPT !.stage = "repair"]
    BY <1>1, <2>1 DEF Experimenting, Proceeds, Stages
  <2>2. CASE job' = [job EXCEPT !.stage = "fitting", !.valid = TRUE]
    BY <1>1, <2>2 DEF Experimenting, Proceeds, Stages
  <2> QED  BY <1>2, <2>1, <2>2
<1> QED  BY <1>3, JobMoves DEF Laboratory!Design

LEMMA LabFinds ==
    ASSUME Lab, NEW answer \in {"valid", "invalid"}, Laboratory!Rules(answer)
    PROVE  Lab'
<1>1. job \in Experimenting /\ Proceeds(job) /\ job.stage = "rules" /\ job.valid
  BY JobAt DEF Lab, Laboratory!Rules, Stages, Proceeds
<1>2. \/ job' = Laboratory!Idle
      \/ (job.mode # "portfolio" \/ job.rules = "given") /\ job' = [job EXCEPT !.stage = "run"]
      \/ job.mode = "portfolio" /\ job' = [job EXCEPT !.stage = "run", !.rules = "designed"]
  BY DEF Laboratory!Rules
<1>3. job' = Laboratory!Idle \/ (job' \in Experimenting /\ Proceeds(job'))
  <2>1. CASE (job.mode # "portfolio" \/ job.rules = "given") /\ job' = [job EXCEPT !.stage = "run"]
    BY <1>1, <2>1 DEF Experimenting, Proceeds, Stages
  <2>2. CASE job.mode = "portfolio" /\ job' = [job EXCEPT !.stage = "run", !.rules = "designed"]
    BY <1>1, <2>2 DEF Experimenting, Proceeds, Stages
  <2> QED  BY <1>2, <2>1, <2>2
<1> QED  BY <1>3, JobMoves DEF Laboratory!Rules

LEMMA LabRuns ==
    ASSUME Laboratory!StrategyLabAssumption, Lab,
           NEW histories \in [1..1 -> Histories] \cup [1..2 -> Histories], Laboratory!Run(histories)
    PROVE  Lab'
<1> DEFINE data == {Laboratory!Prepared(histories[i]) : i \in DOMAIN histories} \ {<<>>}
<1>1. job \in Experimenting /\ Proceeds(job) /\ job.stage = "run"
  BY JobAt DEF Lab, Laboratory!Run, Stages
<1>2. job' = [job EXCEPT !.stage = "publish", !.data = data]
  BY DEF Laboratory!Run
<1>3. \A rows \in data : rows \in Seq(Laboratory!Rows) /\ Laboratory!Clean(rows)
  <2> SUFFICES ASSUME NEW i \in DOMAIN histories, Laboratory!Prepared(histories[i]) # <<>>
               PROVE  /\ Laboratory!Prepared(histories[i]) \in Seq(Laboratory!Rows)
                      /\ Laboratory!Clean(Laboratory!Prepared(histories[i]))
    OBVIOUS
  <2>1. histories[i] \in Histories  OBVIOUS
  <2> QED  BY <2>1, PreparedIs
<1> HIDE DEF data
<1>4. job' \in Experimenting /\ Proceeds(job')
  BY <1>1, <1>2, <1>3 DEF Experimenting, Proceeds, Stages
<1> QED  BY <1>4, JobMoves DEF Laboratory!Run

LEMMA LabPublishes ==
    ASSUME Lab, Laboratory!Publish
    PROVE  Lab'
<1>1. job \in Experimenting /\ Proceeds(job) /\ job.stage = "publish"
  BY JobAt DEF Lab, Laboratory!Publish, Stages
<1>2. /\ job' = [job EXCEPT !.stage = "save"] /\ files' = files \cup ({job.id} \X Laboratory!FilesOf(job))
      /\ registry' = registry /\ experiments' = experiments /\ candidates' = candidates
      /\ saved' = saved /\ spent' = spent
  BY DEF Laboratory!Publish
<1>3. job' \in Experimenting  BY <1>1, <1>2 DEF Experimenting, Stages
<1>4. job'.id = job.id /\ job'.data = job.data /\ job'.rules = job.rules /\ job'.mode = job.mode
      /\ job'.count = job.count /\ job'.valid = job.valid
  BY <1>1, <1>2 DEF Experimenting
<1>5. Laboratory!FilesOf(job') = Laboratory!FilesOf(job)  BY <1>4 DEF Laboratory!FilesOf
<1>6. Proceeds(job)'
  BY <1>1, <1>2, <1>4, <1>5 DEF Proceeds, Laboratory!Clean, Laboratory!InOrder
<1>7. OnItsWay'  BY <1>3, <1>6 DEF OnItsWay, Experimenting, Stages, Laboratory!Rows
<1>8. Counting' /\ Labelled'
  <2>1. job.id \in Ids  BY <1>1 DEF Experimenting
  <2> QED  BY <1>2, <2>1 DEF Lab, Counting, Labelled, Ids, Laboratory!Modes
<1>9. Laboratory!ExperimentsAreWhole'
  BY <1>2 DEF Lab, Laboratory!ExperimentsAreWhole, Laboratory!Whole, Laboratory!Clean, Laboratory!InOrder
<1>10. Laboratory!CandidatesAreEarned'
  BY <1>2 DEF Lab, Laboratory!CandidatesAreEarned, Laboratory!Earned, Laboratory!Clean, Laboratory!InOrder,
              Laboratory!Prefix
<1> QED  BY <1>2, <1>7, <1>8, <1>9, <1>10, NothingRegistered DEF Lab

LEMMA LabSaves ==
    ASSUME Lab, Laboratory!Save
    PROVE  Lab'
<1> DEFINE new == [id |-> job.id, mode |-> job.mode, count |-> job.count, valid |-> job.valid, rules |-> job.rules,
                   data |-> job.data, files |-> Laboratory!FilesOf(job)]
<1>1. job \in Experimenting /\ Proceeds(job) /\ job.stage = "save"
  BY JobAt DEF Lab, Laboratory!Save, Stages
<1>2. /\ job' = Laboratory!Idle /\ experiments' = experiments \cup {new}
      /\ registry' = registry /\ files' = files /\ candidates' = candidates
      /\ saved' = saved /\ spent' = spent
  BY DEF Laboratory!Save
<1>3. Laboratory!Whole(new) /\ {new.id} \X new.files \subseteq files
  <2>1. "history" \in Laboratory!FilesOf(job) <=> job.data # {}  BY DEF Laboratory!FilesOf
  <2> QED  BY <1>1, <2>1 DEF Laboratory!Whole, Proceeds, Experimenting
<1> HIDE DEF new
<1>4. Laboratory!ExperimentsAreWhole'
  BY <1>2, <1>3 DEF Lab, Laboratory!ExperimentsAreWhole, Laboratory!Whole, Laboratory!Clean, Laboratory!InOrder
<1>5. Laboratory!CandidatesAreEarned'
  BY <1>2 DEF Lab, Laboratory!CandidatesAreEarned, Laboratory!Earned, Laboratory!Clean, Laboratory!InOrder,
              Laboratory!Prefix
<1>6. OnItsWay' /\ Counting'  BY <1>2 DEF Lab, Counting, OnItsWay, Laboratory!Idle
<1>7. Labelled'
  <2>1. new.id \in Ids /\ new.mode \in Laboratory!Modes  BY <1>1 DEF new, Experimenting, Laboratory!Modes
  <2> QED  BY <1>2, <2>1 DEF Lab, Labelled, Ids, Laboratory!Modes
<1> QED  BY <1>2, <1>4, <1>5, <1>6, <1>7, NothingRegistered DEF Lab

\* Steps of the registry.
LEMMA LabRegisters ==
    ASSUME Lab, NEW name \in Titles, NEW fits \in BOOLEAN, Laboratory!Register(name, fits)
    PROVE  Lab'
<1>1. job \in Experimenting /\ Proceeds(job) /\ job.stage = "fitting"
  BY JobAt DEF Lab, Laboratory!Register, Stages
<1>2. CASE ~fits
  BY <1>2, JobMoves DEF Laboratory!Register
<1>3. CASE fits
  <2>1. /\ job' = [job EXCEPT !.stage = "rules"]
        /\ registry' = [memory |-> registry.memory \cup {name}, file |-> registry.memory \cup {name}, torn |-> FALSE]
        /\ saved' = saved \cup {name}
        /\ files' = files /\ experiments' = experiments /\ candidates' = candidates /\ spent' = spent
    BY <1>3 DEF Laboratory!Register
  <2>2. Known' /\ Laboratory!StrategiesAreKept'  BY <2>1 DEF Lab, Known, Laboratory!StrategiesAreKept
  <2>3. job' \in Experimenting /\ Proceeds(job)'
    <3>1. job.valid  BY <1>1 DEF Proceeds
    <3> QED  BY <1>1, <2>1, <3>1 DEF Experimenting, Proceeds, Stages, Laboratory!Clean, Laboratory!InOrder
  <2>4. OnItsWay'  BY <2>3 DEF OnItsWay, Experimenting, Stages, Laboratory!Rows
  <2>5. Counting'  BY <2>1 DEF Lab, Counting
  <2> QED  BY <2>1, <2>2, <2>4, <2>5, NothingSaved DEF Lab
<1> QED  BY <1>2, <1>3

-----------------------------------------------------------------------------
\* The lesser and the greater of two numbers, and the lengths of the prefixes.
LEMMA LesserOf ==
    ASSUME NEW a \in Int, NEW b \in Int
    PROVE  Laboratory!Min({a, b}) = IF a <= b THEN a ELSE b
BY DEF Laboratory!Min
LEMMA GreaterOf ==
    ASSUME NEW a \in Int, NEW b \in Int
    PROVE  Laboratory!Max({a, b}) = IF a >= b THEN a ELSE b
BY DEF Laboratory!Max
LEMMA PrefixBound ==
    ASSUME Laboratory!StrategyLabAssumption, NEW n \in Nat, NEW q \in Nat
    PROVE  Laboratory!Prefix(n, q) \in Nat /\ Laboratory!Prefix(n, q) <= n
<1>1. MinPrefix \in Nat  BY DEF Laboratory!StrategyLabAssumption
<1>2. n * q \in Nat  OBVIOUS
<1>3. (n * q) \div 4 \in Nat  BY <1>2
<1> DEFINE part == (n * q) \div 4
<1> HIDE DEF part
<1>4. part \in Nat  BY <1>3 DEF part
<1>5. Laboratory!Max({MinPrefix, part}) \in Nat  BY <1>1, <1>4, GreaterOf
<1> DEFINE most == Laboratory!Max({MinPrefix, part})
<1> HIDE DEF most
<1>6. most \in Nat  BY <1>5 DEF most
<1>7. Laboratory!Min({n, most}) \in Nat /\ Laboratory!Min({n, most}) <= n  BY <1>6, LesserOf
<1> QED  BY <1>7 DEF Laboratory!Prefix, most, part
LEMMA SizesBound ==
    ASSUME Laboratory!StrategyLabAssumption, NEW n \in Nat, NEW k \in 1..4
    PROVE  Laboratory!Sizes(n)[k] \in Nat /\ Laboratory!Sizes(n)[k] <= n
<1>1. \A q \in {2, 3} : Laboratory!Prefix(n, q) \in Nat /\ Laboratory!Prefix(n, q) <= n  BY PrefixBound
<1>2. k = 1 \/ k = 2 \/ k = 3 \/ k = 4  OBVIOUS
<1> QED  BY <1>1, <1>2 DEF Laboratory!Sizes

\* The targets of a run: one of each day, which looks no further than the rows.
LEMMA TargetsAre ==
    ASSUME NEW code \in Laboratory!Codes, NEW n \in Nat, NEW lot \in {0, 1},
           \A i \in 1..n : code.peek[i] \in Nat
    PROVE  /\ Laboratory!Targets(code, n, lot) \in Seq(Drawn)
           /\ Len(Laboratory!Targets(code, n, lot)) = n
           /\ \A i \in 1..n : Laboratory!Targets(code, n, lot)[i].seen <= n
<1> DEFINE t == Laboratory!Targets(code, n, lot)
           Day(i) == [seen |-> Laboratory!Min({i + code.peek[i], n}), lot |-> IF code.moody THEN lot ELSE 0]
<1>1. t = [i \in 1..n |-> Day(i)]  BY DEF Laboratory!Targets
<1>2. \A i \in 1..n : Day(i) \in Drawn /\ Day(i).seen <= n
  <2> SUFFICES ASSUME NEW i \in 1..n PROVE Day(i) \in Drawn /\ Day(i).seen <= n
    OBVIOUS
  <2>1. i + code.peek[i] \in Int /\ n \in Int  OBVIOUS
  <2>2. Laboratory!Min({i + code.peek[i], n}) \in Int /\ Laboratory!Min({i + code.peek[i], n}) <= n
    BY <2>1, LesserOf
  <2> QED  BY <2>2 DEF Drawn
<1> HIDE DEF Day
<1>3. t \in [1..n -> Drawn]  BY <1>1, <1>2
<1>4. t \in Seq(Drawn)
  <2> HIDE DEF t
  <2> QED  BY <1>3, SeqDef
<1>5. Len(t) = n
  <2> HIDE DEF t
  <2> QED  BY <1>3, <1>4, LenProperties
<1>6. \A i \in 1..n : t[i].seen <= n  BY <1>1, <1>2
<1> QED  BY <1>4, <1>5, <1>6

\* A request for a candidate, and the trial of its code.
LEMMA LabAsksForCode ==
    ASSUME Laboratory!StrategyLabAssumption, Lab, Laboratory!AskCandidate
    PROVE  Lab'
<1>0. spent.requests < Bounds.requests /\ Bounds.requests \in Nat /\ spent.requests \in 0..Bounds.requests
      /\ spent.deaths \in 0..Bounds.deaths
  BY DEF Lab, Counting, Laboratory!StrategyLabAssumption, Laboratory!AskCandidate
<1>1. /\ spent' = [spent EXCEPT !.requests = @ + 1] /\ job' = [stage |-> "write", id |-> spent'.requests]
      /\ registry' = registry /\ saved' = saved
      /\ files' = files /\ experiments' = experiments /\ candidates' = candidates
  BY DEF Laboratory!AskCandidate
<1>2. spent' = [requests |-> spent.requests + 1, deaths |-> spent.deaths]  BY <1>1 DEF Lab, Counting
<1>3. Counting' /\ spent'.requests \in Ids
  <2>1. spent.requests + 1 \in 0..Bounds.requests /\ spent.requests + 1 \in Ids  BY <1>0 DEF Ids
  <2> QED  BY <1>0, <1>2, <2>1 DEF Counting
<1>4. OnItsWay'  BY <1>1, <1>3 DEF OnItsWay, Ids
<1> QED  BY <1>1, <1>3, <1>4, NothingSaved, NothingRegistered DEF Lab

LEMMA LabWrites ==
    ASSUME Lab, NEW code \in Laboratory!Codes, NEW strategy \in {"same", "other", "unreadable"},
           Laboratory!Write(code, strategy)
    PROVE  Lab'
<1>1. job.id \in Ids  BY JobAt DEF Lab, Laboratory!Write
<1>2. job' = [stage |-> "data", id |-> job.id, code |-> code, strategy |-> strategy, data |-> <<>>, runs |-> <<>>]
  BY DEF Laboratory!Write
<1>3. <<>> \in Seq(Laboratory!Rows) /\ <<>> \in Sampled /\ Len(<<>>) = 0 /\ DOMAIN <<>> = {}
  BY DEF Sampled
<1>4. job' \in Trying  BY <1>1, <1>2, <1>3 DEF Trying
<1>5. Tries(job')  BY <1>2, <1>3 DEF Tries, Laboratory!Clean, Laboratory!InOrder
<1> QED  BY <1>4, <1>5, JobMoves DEF Laboratory!Write

LEMMA LabFetches ==
    ASSUME Laboratory!StrategyLabAssumption, Lab, NEW rows \in Histories, Laboratory!Fetch(rows)
    PROVE  Lab'
<1> DEFINE data == Laboratory!Prepared(rows)
<1>1. job \in Trying /\ Tries(job) /\ job.stage = "data"  BY JobAt DEF Lab, Laboratory!Fetch
<1>2. job' = Laboratory!Idle \/ (data # <<>> /\ job' = [job EXCEPT !.stage = "try", !.data = data])
  BY DEF Laboratory!Fetch
<1>3. CASE data # <<>> /\ job' = [job EXCEPT !.stage = "try", !.data = data]
  <2>1. data \in Seq(Laboratory!Rows) /\ Laboratory!Clean(data) /\ Len(data) <= Len(rows)  BY <1>3, PreparedIs
  <2>2. rows \in Seq(Laboratory!Rows)  BY DEF Laboratory!StrategyLabAssumption
  <2>3. job.code.peek \in Peeks  BY <1>1 DEF Trying, Laboratory!Codes
  <2>4. Len(rows) \in Nat /\ DOMAIN rows = 1..Len(rows) /\ Len(data) \in Nat  BY <2>1, <2>2, LenProperties
  <2>5. \A i \in 1..Len(data) : i \in DOMAIN job.code.peek /\ job.code.peek[i] \in Nat
    <3>1. \A i \in 1..Len(data) : i \in DOMAIN rows  BY <2>1, <2>4
    <3> QED  BY <2>3, <3>1 DEF Laboratory!StrategyLabAssumption
  <2>6. job.runs = <<>> /\ Len(<<>>) = 0  BY <1>1 DEF Tries
  <2> HIDE DEF data
  <2>7. job' \in Trying  BY <1>1, <1>3, <2>1 DEF Trying
  <2>8. /\ job'.stage = "try" /\ job'.data = data /\ job'.runs = <<>> /\ job'.code = job.code
    BY <1>1, <1>3, <2>6 DEF Trying
  <2>9. 1..Len(job'.runs) = {}  BY <2>6, <2>8
  <2>10. Tries(job')  BY <1>3, <2>1, <2>5, <2>6, <2>8, <2>9 DEF Tries
  <2> QED  BY <2>7, <2>10, JobMoves DEF Laboratory!Fetch
<1> QED  BY <1>2, <1>3, JobMoves DEF Laboratory!Fetch

LEMMA LabTries ==
    ASSUME Laboratory!StrategyLabAssumption, Lab, NEW lot \in {0, 1}, Laboratory!Try(lot)
    PROVE  Lab'
<1> DEFINE n == Len(job.data)
           k == Len(job.runs) + 1
           trial == Laboratory!Targets(job.code, Laboratory!Sizes(n)[k], lot)
<1>1. job \in Trying /\ Tries(job) /\ job.stage = "try"  BY JobAt DEF Lab, Laboratory!Try
<1>2. job.data \in Seq(Laboratory!Rows) /\ job.runs \in Sampled /\ job.code \in Laboratory!Codes
  BY <1>1 DEF Trying
<1>3. job' = [job EXCEPT !.runs = Append(job.runs, trial)]  BY <1>1 DEF Laboratory!Try, Trying
<1>4. Len(job.runs) \in Nat /\ Len(job.runs) <= 4 /\ Len(job.runs) # 4 /\ n \in Nat
  BY <1>1, <1>2, LenProperties DEF Laboratory!Try, Laboratory!Tried, Tries, Sampled
<1>5. k \in 1..4 /\ Laboratory!Sizes(n)[k] \in Nat /\ Laboratory!Sizes(n)[k] <= n
  <2>1. k \in 1..4
    <3> DEFINE length == Len(job.runs)
    <3>1. length \in Nat /\ length <= 4 /\ length # 4  BY <1>4
    <3> HIDE DEF length
    <3>2. length + 1 \in 1..4  BY <3>1
    <3> QED  BY <3>2 DEF length
  <2> HIDE DEF n, k
  <2> QED  BY <1>4, <2>1, SizesBound
<1>6. trial \in Seq(Drawn)
  <2>1. \A i \in 1..n : job.code.peek[i] \in Nat  BY <1>1 DEF Tries
  <2>2. \A i \in 1..Laboratory!Sizes(n)[k] : job.code.peek[i] \in Nat
    <3> HIDE DEF n, k
    <3> QED  BY <1>4, <1>5, <2>1
  <2> HIDE DEF n, k
  <2> QED  BY <1>2, <1>5, <2>2, TargetsAre
<1> DEFINE runs == Append(job.runs, trial)
<1>7. /\ runs \in Sampled /\ Len(runs) = k /\ runs[k] = trial
      /\ \A m \in 1..Len(job.runs) : runs[m] = job.runs[m]
  <2> HIDE DEF trial
  <2> QED  BY <1>2, <1>6, AppendProperties DEF Sampled
<1> HIDE DEF runs
<1>8. job' \in Trying  BY <1>1, <1>3, <1>7 DEF Trying, runs
<1>9. job'.data = job.data /\ job'.code = job.code /\ job'.stage = job.stage /\ job'.runs = runs
  BY <1>1, <1>3 DEF Trying, runs
<1>10. \A m \in 1..Len(runs) : \E drawn \in {0, 1} :
          runs[m] = Laboratory!Targets(job.code, Laboratory!Sizes(Len(job.data))[m], drawn)
  <2> SUFFICES ASSUME NEW m \in 1..Len(runs)
               PROVE  \E drawn \in {0, 1} :
                         runs[m] = Laboratory!Targets(job.code, Laboratory!Sizes(Len(job.data))[m], drawn)
    OBVIOUS
  <2>1. m \in 1..Len(job.runs) \/ m = k  BY <1>4, <1>7
  <2>2. CASE m = k  BY <1>7, <2>2
  <2>3. CASE m \in 1..Len(job.runs)  BY <1>1, <1>7, <2>3 DEF Tries
  <2> QED  BY <2>1, <2>2, <2>3
<1>11. Tries(job')
  <2>1. Len(job'.runs) = k  BY <1>7, <1>9
  <2> HIDE DEF k
  <2>2. Len(job'.runs) <= 4  BY <1>5, <2>1
  <2> QED  BY <1>1, <1>9, <1>10, <2>2 DEF Tries
<1> QED  BY <1>8, <1>11, JobMoves DEF Laboratory!Try

\* The sandbox's verdict.  A trial whose runs agree, and whose prefixes start as the
\* whole, ran all four.
LEMMA TrialIsWhole ==
    ASSUME Laboratory!StrategyLabAssumption, Lab, job \in Trying, Tries(job), job.stage = "try",
           Laboratory!Tried(job.runs), Laboratory!Causal(job.runs)
    PROVE  /\ Len(job.runs) = 4 /\ Len(job.data) \in Nat \ {0}
           /\ \A m \in 1..4 : /\ job.runs[m] \in Seq(Drawn)
                              /\ Len(job.runs[m]) = Laboratory!Sizes(Len(job.data))[m]
                              /\ \A i \in 1..Len(job.runs[m]) : job.runs[m][i].seen <= Len(job.runs[m])
<1> DEFINE n == Len(job.data)
<1>1. Len(job.runs) = 4  BY DEF Laboratory!Tried
<1>2. job.data \in Seq(Laboratory!Rows) /\ job.data # <<>> /\ job.code \in Laboratory!Codes
  BY DEF Trying, Tries
<1>3. n \in Nat \ {0}  BY <1>2, EmptySeq, LenProperties
<1>4. ASSUME NEW m \in 1..4
      PROVE  /\ job.runs[m] \in Seq(Drawn) /\ Len(job.runs[m]) = Laboratory!Sizes(n)[m]
             /\ \A i \in 1..Len(job.runs[m]) : job.runs[m][i].seen <= Len(job.runs[m])
  <2> DEFINE size == Laboratory!Sizes(n)[m]
  <2>1. PICK lot \in {0, 1} : job.runs[m] = Laboratory!Targets(job.code, size, lot)
    BY <1>1 DEF Tries
  <2>2. size \in Nat /\ size <= n
    <3> HIDE DEF n
    <3> QED  BY <1>3, SizesBound
  <2>3. \A i \in 1..n : job.code.peek[i] \in Nat  BY DEF Tries
  <2> HIDE DEF size, n
  <2>4. \A i \in 1..size : job.code.peek[i] \in Nat  BY <1>3, <2>2, <2>3
  <2>5. /\ Laboratory!Targets(job.code, size, lot) \in Seq(Drawn)
        /\ Len(Laboratory!Targets(job.code, size, lot)) = size
        /\ \A i \in 1..size : Laboratory!Targets(job.code, size, lot)[i].seen <= size
    BY <1>2, <2>2, <2>4, TargetsAre
  <2> QED  BY <2>1, <2>5 DEF size
<1> QED  BY <1>1, <1>3, <1>4

\* Code that passed knew, on the days before a prefix ends, nothing beyond it.
LEMMA PassedIsCausal ==
    ASSUME Laboratory!StrategyLabAssumption, Lab, job \in Trying, Tries(job), job.stage = "try",
           Laboratory!Tried(job.runs), Laboratory!Causal(job.runs), NEW q \in {2, 3}
    PROVE  \A i \in 1..Laboratory!Prefix(Len(job.data), q) :
              job.runs[1][i].seen <= Laboratory!Prefix(Len(job.data), q)
<1> DEFINE n == Len(job.data)
           cut == Laboratory!Prefix(n, q)
           trial == job.runs[q + 1]
           first == job.runs[1]
<1>1. /\ Len(job.runs) = 4 /\ n \in Nat
      /\ \A m \in 1..4 : /\ job.runs[m] \in Seq(Drawn)
                         /\ Len(job.runs[m]) = Laboratory!Sizes(n)[m]
                         /\ \A i \in 1..Len(job.runs[m]) : job.runs[m][i].seen <= Len(job.runs[m])
  BY TrialIsWhole
<1>2. q + 1 \in 3..4 /\ q + 1 \in 1..4 /\ 1 \in 1..4 /\ q \in Nat  OBVIOUS
<1>3. Laboratory!Sizes(n)[q + 1] = cut /\ Laboratory!Sizes(n)[1] = n  BY DEF Laboratory!Sizes
<1>4. cut \in Nat /\ cut <= n
  <2> HIDE DEF n
  <2> QED  BY <1>1, <1>2, PrefixBound
<1>5. trial = SubSeq(first, 1, Len(trial))  BY <1>1, <1>2 DEF Laboratory!Causal, Laboratory!SameStart
<1>6. Len(trial) = cut /\ first \in Seq(Drawn) /\ Len(first) = n /\ \A i \in 1..cut : trial[i].seen <= cut
  BY <1>1, <1>2, <1>3
<1> HIDE DEF n, cut, trial, first
<1>7. \A i \in 1..cut : trial[i] = first[i]
  <2> SUFFICES ASSUME NEW i \in 1..cut PROVE trial[i] = first[i]
    OBVIOUS
  <2>1. SubSeq(first, 1, cut)[i] = first[1 + i - 1]  BY <1>1, <1>4, <1>6, SubSeqProperties
  <2> QED  BY <1>4, <1>5, <1>6, <2>1
<1> QED  BY <1>6, <1>7 DEF n, cut, first

\* Code that does what the strategy with it means came with the same strategy.
LEMMA SameIsMeant ==
    ASSUME Laboratory!StrategyLabAssumption, Lab, job \in Trying, Tries(job), job.stage = "try",
           Laboratory!Tried(job.runs), Laboratory!Causal(job.runs),
           job.runs[1] = Laboratory!Meant(job.strategy, Len(job.data))
    PROVE  job.strategy = "same" /\ job.runs[1] = [i \in 1..Len(job.data) |-> [seen |-> i, lot |-> 0]]
<1> DEFINE n == Len(job.data)
           first == job.runs[1]
<1>1. n \in Nat \ {0} /\ first \in Seq(Drawn) /\ Len(first) = n
  <2>1. Laboratory!Sizes(n)[1] = n  BY DEF Laboratory!Sizes
  <2> QED  BY <2>1, TrialIsWhole
<1>2. n \in 1..n /\ first[n] \in Drawn
  <2> HIDE DEF n, first
  <2>1. n \in 1..n  BY <1>1
  <2> QED  BY <1>1, <2>1, ElementOfSeq
<1>3. CASE job.strategy = "other"
  <2>1. first = [i \in 1..n |-> [seen |-> i, lot |-> IF i = n THEN 2 ELSE 0]]  BY <1>3 DEF Laboratory!Meant
  <2>2. first[n].lot = 2  BY <1>2, <2>1
  <2>3. first[n].lot \in {0, 1}  BY <1>2 DEF Drawn
  <2> QED  BY <2>2, <2>3
<1>4. CASE job.strategy = "unreadable"
  <2>1. first = <<>>  BY <1>4 DEF Laboratory!Meant
  <2> HIDE DEF n, first
  <2> QED  BY <1>1, <2>1, EmptySeq
<1>5. CASE job.strategy = "same"  BY <1>5 DEF Laboratory!Meant
<1> QED  BY <1>3, <1>4, <1>5 DEF Trying

\* A verdict is earned.
LEMMA VerdictIsEarned ==
    ASSUME Laboratory!StrategyLabAssumption, Lab, job \in Trying, Tries(job), job.stage = "try",
           NEW runs, runs = <<>> \/ (runs = job.runs /\ Laboratory!Tried(job.runs)),
           Laboratory!Judge(runs)
    PROVE  Lab'
<1> DEFINE first == IF runs = <<>> THEN <<>> ELSE runs[1]
           passed == runs # <<>> /\ Laboratory!Deterministic(runs) /\ Laboratory!Causal(runs)
           equivalent == passed /\ first = Laboratory!Meant(job.strategy, Len(job.data))
           days == job.data[Len(job.data)].day - job.data[1].day
           sufficient == Len(job.data) >= EnoughRows /\ days >= EnoughDays
           new == [id |-> job.id, status |-> IF passed /\ equivalent /\ sufficient THEN "validated" ELSE "draft",
                   passed |-> passed, strategy |-> job.strategy, data |-> job.data, first |-> first,
                   traded |-> IF passed THEN Laboratory!Replayed(first) ELSE <<>>]
<1>1. /\ candidates' = candidates \cup {new} /\ job' = Laboratory!Idle
      /\ registry' = registry /\ files' = files /\ experiments' = experiments
      /\ saved' = saved /\ spent' = spent
  BY DEF Laboratory!Judge
<1>2. /\ new.status = (IF passed /\ equivalent /\ sufficient THEN "validated" ELSE "draft")
      /\ new.passed = passed /\ new.strategy = job.strategy /\ new.data = job.data /\ new.first = first
      /\ new.traded = IF passed THEN Laboratory!Replayed(first) ELSE <<>>
  <2> HIDE DEF first, passed, equivalent, sufficient
  <2> QED  OBVIOUS
<1>3. ASSUME passed
      PROVE  /\ first = job.runs[1] /\ Laboratory!Tried(job.runs) /\ Laboratory!Causal(job.runs)
  BY <1>3
<1>4. ASSUME new.status = "validated"
      PROVE  /\ new.passed /\ new.strategy = "same" /\ Len(new.data) >= EnoughRows
             /\ \A i \in DOMAIN new.first : new.first[i].seen <= i /\ new.first[i].lot = 0
             /\ \A i \in DOMAIN new.traded : new.traded[i].seen < i
  <2>1. passed /\ equivalent /\ sufficient
    <3> HIDE DEF new, passed, equivalent, sufficient
    <3> QED  BY <1>2, <1>4
  <2>2. job.strategy = "same" /\ first = [i \in 1..Len(job.data) |-> [seen |-> i, lot |-> 0]]
    <3>1. job.runs[1] = Laboratory!Meant(job.strategy, Len(job.data))  BY <1>3, <2>1
    <3> HIDE DEF first, passed, equivalent, sufficient, new
    <3> QED  BY <1>3, <2>1, <3>1, SameIsMeant
  <2>3. Len(job.data) \in Nat
    <3>1. job.data \in Seq(Laboratory!Rows)  BY DEF Trying
    <3> QED  BY <3>1, LenProperties
  <2>4. \A i \in DOMAIN first : first[i].seen = i /\ first[i].lot = 0
    <3> HIDE DEF first
    <3> QED  BY <2>2
  <2>5. Len(first) = Len(job.data)
    <3> DEFINE n == Len(job.data)
    <3> HIDE DEF first, n
    <3>1. n \in Nat /\ first = [i \in 1..n |-> [seen |-> i, lot |-> 0]]  BY <2>2, <2>3 DEF n
    <3>2. first \in [1..n -> [seen : Nat, lot : {0}]]  BY <3>1
    <3>3. first \in Seq([seen : Nat, lot : {0}])  BY <3>1, <3>2, SeqDef
    <3>4. Len(first) = n  BY <3>1, <3>2, <3>3, LenProperties
    <3> QED  BY <3>4 DEF n
  <2>6. \A i \in DOMAIN Laboratory!Replayed(first) : Laboratory!Replayed(first)[i].seen < i
    <3> HIDE DEF first
    <3>1. ASSUME NEW i \in 2..Len(first) PROVE Laboratory!Replayed(first)[i].seen < i
      <4>1. Laboratory!Replayed(first)[i] = first[i - 1]  BY DEF Laboratory!Replayed
      <4>2. i \in Int /\ i - 1 \in 1..Len(job.data)  BY <2>3, <2>5
      <4>3. first[i - 1].seen = i - 1  BY <2>2, <4>2
      <4> QED  BY <4>1, <4>2, <4>3
    <3>2. DOMAIN Laboratory!Replayed(first) = 2..Len(first)  BY DEF Laboratory!Replayed
    <3> QED  BY <3>1, <3>2
  <2>7. \A i \in DOMAIN first : first[i].seen <= i
    <3> HIDE DEF first
    <3>1. DOMAIN first = 1..Len(job.data)  BY <2>2
    <3> QED  BY <2>3, <2>4, <3>1
  <2> DEFINE size == Len(job.data)
  <2>8. sufficient => size >= EnoughRows  OBVIOUS
  <2> HIDE DEF first, passed, equivalent, sufficient, new
  <2> QED  BY <1>2, <2>1, <2>2, <2>4, <2>6, <2>7, <2>8
<1>5. ASSUME new.passed, NEW q \in {2, 3}
      PROVE  \A i \in 1..Laboratory!Prefix(Len(new.data), q) :
                new.first[i].seen <= Laboratory!Prefix(Len(new.data), q)
  <2>1. passed
    <3> HIDE DEF new, passed
    <3> QED  BY <1>2, <1>5
  <2> HIDE DEF first, passed, new
  <2> QED  BY <1>2, <1>3, <2>1, PassedIsCausal
<1>6. new.traded # <<>> => new.passed
  <2> HIDE DEF first, passed, new
  <2> QED  BY <1>2
<1>7. Laboratory!Clean(new.data)
  <2> HIDE DEF new
  <2> QED  BY <1>2 DEF Tries
<1> HIDE DEF new, first, passed, equivalent, sufficient
<1>8. Laboratory!Earned(new)  BY <1>4, <1>5, <1>6, <1>7 DEF Laboratory!Earned
<1>9. Laboratory!CandidatesAreEarned'
  <2>1. \A c \in candidates \cup {new} : Laboratory!Earned(c)  BY <1>8 DEF Lab, Laboratory!CandidatesAreEarned
  <2>2. (\A c \in candidates' : Laboratory!Earned(c)) => Laboratory!CandidatesAreEarned'
    BY DEF Laboratory!CandidatesAreEarned, Laboratory!Earned, Laboratory!Clean, Laboratory!InOrder, Laboratory!Prefix
  <2> QED  BY <1>1, <2>1, <2>2
<1>10. Laboratory!ExperimentsAreWhole'
  BY <1>1 DEF Lab, Laboratory!ExperimentsAreWhole, Laboratory!Whole, Laboratory!Clean, Laboratory!InOrder
<1>11. OnItsWay' /\ Counting'  BY <1>1 DEF Lab, OnItsWay, Counting, Laboratory!Idle
<1>12. Labelled'
  <2>1. job.id \in Ids  BY DEF Trying
  <2>2. new.id \in Ids /\ new.status \in {"draft", "validated"}  BY <2>1 DEF new
  <2> QED  BY <1>1, <2>2 DEF Lab, Labelled, Ids, Laboratory!Modes
<1> QED  BY <1>1, <1>9, <1>10, <1>11, <1>12, NothingRegistered DEF Lab

\* The process dies.
LEMMA LabDies ==
    ASSUME Laboratory!StrategyLabAssumption, Lab, Laboratory!DieInRegister \/ Laboratory!Die
    PROVE  Lab'
<1>1. job' = Laboratory!Idle /\ spent' = [spent EXCEPT !.deaths = @ + 1]
      /\ files' = files /\ experiments' = experiments /\ candidates' = candidates
  BY DEF Laboratory!DieInRegister, Laboratory!Die
<1>2. OnItsWay'  BY <1>1 DEF OnItsWay, Laboratory!Idle
<1>3. spent' = [requests |-> spent.requests, deaths |-> spent.deaths + 1]  BY <1>1 DEF Lab, Counting
<1>4. Counting'
  <2>1. spent.deaths < Bounds.deaths /\ Bounds.deaths \in Nat /\ spent.deaths \in 0..Bounds.deaths
    BY DEF Lab, Counting, Laboratory!StrategyLabAssumption, Laboratory!DieInRegister, Laboratory!Die
  <2>2. spent.deaths + 1 \in 0..Bounds.deaths  BY <2>1
  <2> QED  BY <1>3, <2>2 DEF Lab, Counting
<1>5. Known' /\ Laboratory!StrategiesAreKept'
  <2>1. CASE Laboratory!DieInRegister
    BY <2>1 DEF Laboratory!DieInRegister, Known, Laboratory!StrategiesAreKept
  <2>2. CASE Laboratory!Die
    <3>1. saved' = saved /\ registry' = [registry EXCEPT !.memory = IF registry.torn THEN {} ELSE registry.file]
      BY <2>2 DEF Laboratory!Die
    <3>2. registry' = [memory |-> IF registry.torn THEN {} ELSE registry.file, file |-> registry.file,
                       torn |-> registry.torn]
      BY <3>1 DEF Lab, Known
    <3> QED  BY <3>1, <3>2 DEF Lab, Known, Laboratory!StrategiesAreKept
  <2> QED  BY <2>1, <2>2
<1> QED  BY <1>1, <1>2, <1>4, <1>5, NothingSaved DEF Lab

\* Every step.
LEMMA LabStep ==
    ASSUME Laboratory!StrategyLabAssumption, Lab, [Laboratory!Next]_Laboratory!vars
    PROVE  Lab'
<1>1. CASE UNCHANGED Laboratory!vars
  <2>1. /\ job' = job /\ registry' = registry /\ files' = files /\ experiments' = experiments
        /\ candidates' = candidates /\ saved' = saved /\ spent' = spent
    BY <1>1 DEF Laboratory!vars
  <2>2. \/ job' = Laboratory!Idle
        \/ job' \in Experimenting /\ Proceeds(job')
        \/ job' \in [stage : {"write"}, id : Ids]
        \/ job' \in Trying /\ Tries(job')
    BY <2>1 DEF Lab, OnItsWay
  <2> QED  BY <2>1, <2>2, JobMoves
<1>2. ASSUME NEW mode1 \in Laboratory!Modes, NEW count \in 1..2, NEW given \in {"none", "valid", "invalid"},
             NEW rules \in BOOLEAN, Laboratory!AskExperiment(mode1, count, given, rules)
      PROVE  Lab'
  BY <1>2, LabAsks
<1>3. ASSUME NEW answer \in {"prose", "invalid", "valid"}, Laboratory!Design(answer)
      PROVE  Lab'
  BY <1>3, LabDesigns
<1>4. ASSUME NEW name \in Titles, NEW fits \in BOOLEAN, Laboratory!Register(name, fits)
      PROVE  Lab'
  BY <1>4, LabRegisters
<1>5. ASSUME NEW answer \in {"valid", "invalid"}, Laboratory!Rules(answer)
      PROVE  Lab'
  BY <1>5, LabFinds
<1>6. ASSUME NEW histories \in [1..1 -> Histories] \cup [1..2 -> Histories], Laboratory!Run(histories)
      PROVE  Lab'
  BY <1>6, LabRuns
<1>7. CASE Laboratory!Publish \/ Laboratory!Save
  BY <1>7, LabPublishes, LabSaves
<1>8. CASE Laboratory!AskCandidate
  BY <1>8, LabAsksForCode
<1>9. CASE Laboratory!NoText
  BY <1>9, JobMoves DEF Laboratory!NoText
<1>10. ASSUME NEW code \in Laboratory!Codes, NEW strategy \in {"same", "other", "unreadable"},
              Laboratory!Write(code, strategy)
       PROVE  Lab'
  BY <1>10, LabWrites
<1>11. ASSUME NEW rows \in Histories, Laboratory!Fetch(rows)
       PROVE  Lab'
  BY <1>11, LabFetches
<1>12. ASSUME NEW lot \in {0, 1}, Laboratory!Try(lot)
       PROVE  Lab'
  BY <1>12, LabTries
<1>13. CASE Laboratory!Conclude \/ Laboratory!ChildFails
  <2>1. job \in Trying /\ Tries(job) /\ job.stage = "try"
    BY <1>13, JobAt DEF Lab, Laboratory!Conclude, Laboratory!ChildFails
  <2>2. PICK runs : /\ runs = <<>> \/ (runs = job.runs /\ Laboratory!Tried(job.runs))
                    /\ Laboratory!Judge(runs)
    BY <1>13 DEF Laboratory!Conclude, Laboratory!ChildFails
  <2> QED  BY <2>1, <2>2, VerdictIsEarned
<1>14. CASE Laboratory!DieInRegister \/ Laboratory!Die
  BY <1>14, LabDies
<1> QED  BY <1>1, <1>2, <1>3, <1>4, <1>5, <1>6, <1>7, <1>8, <1>9, <1>10, <1>11, <1>12, <1>13, <1>14
         DEF Laboratory!Next

LEMMA LabStarts ==
    ASSUME Laboratory!StrategyLabAssumption, Laboratory!Init
    PROVE  Lab
<1>1. /\ job = Laboratory!Idle /\ registry = [memory |-> {}, file |-> {}, torn |-> FALSE]
      /\ files = {} /\ experiments = {} /\ candidates = {} /\ saved = {}
      /\ spent = [requests |-> 0, deaths |-> 0]
  BY DEF Laboratory!Init
<1>2. OnItsWay /\ Known /\ Counting /\ Labelled
  <2>1. 0 \in 0..Bounds.requests /\ 0 \in 0..Bounds.deaths  BY DEF Laboratory!StrategyLabAssumption
  <2> QED  BY <1>1, <2>1 DEF OnItsWay, Known, Counting, Labelled
<1> QED  BY <1>1, <1>2 DEF Lab, Laboratory!CandidatesAreEarned, Laboratory!ExperimentsAreWhole,
                          Laboratory!StrategiesAreKept

LEMMA LabIsTyped ==
    ASSUME Lab
    PROVE  Laboratory!TypeOK
<1>1. job.stage \in {"none", "write", "data", "try"} \cup Stages
  BY DEF Lab, OnItsWay, Laboratory!Idle, Experimenting, Trying
<1>2. registry \in [memory : SUBSET Titles, file : SUBSET Titles, torn : BOOLEAN] /\ saved \subseteq Titles
  BY DEF Lab, Known
<1> QED  BY <1>1, <1>2 DEF Lab, Counting, Labelled, Ids, Stages, Laboratory!TypeOK

\* What the laboratory keeps: types; a candidate is validated only when its code looked at
\* no day ahead of time, drew no lots and did what its strategy means; an experiment has its
\* files and a strategy that was validated (research_sandbox.py,
\* backtest_experiment.py, strategies/registry.py).
THEOREM VerdictsHold ==
    Laboratory!StrategyLabAssumption =>
        (Laboratory!Spec =>
            [](/\ Laboratory!TypeOK /\ Laboratory!CandidatesAreEarned
               /\ Laboratory!ExperimentsAreWhole /\ Laboratory!StrategiesAreKept))
<1> SUFFICES ASSUME Laboratory!StrategyLabAssumption
             PROVE  Laboratory!Spec =>
                       [](/\ Laboratory!TypeOK /\ Laboratory!CandidatesAreEarned
                          /\ Laboratory!ExperimentsAreWhole /\ Laboratory!StrategiesAreKept)
  OBVIOUS
<1>1. Laboratory!Init => Lab  BY LabStarts
<1>2. Lab /\ [Laboratory!Next]_Laboratory!vars => Lab'  BY LabStep
<1>3. Lab => /\ Laboratory!TypeOK /\ Laboratory!CandidatesAreEarned
             /\ Laboratory!ExperimentsAreWhole /\ Laboratory!StrategiesAreKept
  BY LabIsTyped DEF Lab
<1> QED  BY <1>1, <1>2, <1>3, PTL DEF Laboratory!Spec
=============================================================================
