------------------------------- MODULE MCTrading -------------------------------
(* The trading engine (TradingEngine), the language of the strategies it is given *)
(* (StrategyLanguage), and their comparison (Comparison), in one run of TLC.  A   *)
(* behaviour is of one of them.                                                 *)
EXTENDS MCTradingEngine, Sequences, FiniteSets

VARIABLES part, v1, v2, v3, v4, v5
Shared == <<v1, v2, v3, v4, v5>>

\* What the expressions of strategies say of five days.
Written == INSTANCE MCStrategies
Language == INSTANCE StrategyLanguage WITH
    Texts <- Written!Texts, Columns <- {{"close", "high", "low", "volume"}, {"close"}}, Closes <- {0, 1, 2, 3},
    LastDay <- 4, MaxDepth <- 3, Window <- Written!Windows, Plugins <- {"core.trend_score"},
    Measure <- Written!MeasureOf,
    stage <- v1, text <- v2, columns <- v3, frame <- v4, matched <- v5

\* Two strategies of the suite compared on six days that two sources may have.
Deal(way, size, at) == [action |-> way, shares |-> size, price |-> at]
Owned(list) == [i \in 0..Len(list) |->
    LET Total(way) == Cardinality({s \in (1..i) \X {1, 2} : list[s[1]].action = way /\ s[2] <= list[s[1]].shares})
    IN Total("buy") - Total("sell")]
TradeLists ==
    {list \in UNION {[1..n -> [action : {"buy", "sell"}, shares : {1, 2}, price : {1, 2}]] : n \in 0..4} :
        \A i \in 0..Len(list) : Owned(list)[i] >= 0}
\* Costs do not make a strategy better.
Measured ==
    {o \in [total : {{-1}, {1}}, sharpe : {{}, {-1}, {1}}, drawdown : {{1}, {2}}, oos : {{-1}, {1}},
            stress : {{-1}, {1}}, rolling : BOOLEAN, steady : BOOLEAN] : o.stress = {1} => o.total = {1}}
Comparison == INSTANCE Comparison WITH
    LastDay <- 6, Requested <- 3, Warmup <- 2, MinHistory <- 2,
    Prices <- {{}, 1..6, 2..6, 1..4, {1, 2, 4, 5, 6}, 5..6, 1..2, 3..6},
    Differ <- {[d \in 1..6 |-> n] : n \in {0, 2, 3, 20}} \cup {[d \in 1..6 |-> IF d = 4 THEN 20 ELSE 0]},
    Strategies <- <<"buy_hold", "ma_5_20">>,
    Outcomes <- [ma_5_20 |-> Measured,
                 buy_hold |-> {o \in Measured : o.steady /\ o.rolling /\ o.drawdown = {2} /\ o.oos = o.total}],
    Lists <- {<<>>, <<Deal("buy", 2, 1), Deal("sell", 1, 2), Deal("sell", 1, 2)>>,
              <<Deal("buy", 2, 1), Deal("sell", 1, 2), Deal("sell", 1, 1)>>,
              <<Deal("buy", 1, 2), Deal("sell", 1, 1)>>},
    Enough <- 2, Top <- 1, Lead <- 1, Samples <- TradeLists,
    stage <- v1, work <- v2, data <- v3, results <- v4, report <- v5

-----------------------------------------------------------------------------
TradingInit ==
    /\ Init
    /\ \/ part = "engine" /\ v1 = {} /\ v2 = {} /\ v3 = {} /\ v4 = {} /\ v5 = {}
       \/ part = "language" /\ Language!Init
       \/ part = "comparison" /\ Comparison!Init
TradingNext ==
    /\ UNCHANGED part
    /\ \/ part = "engine" /\ Next /\ UNCHANGED Shared
       \/ part = "language" /\ Language!Next /\ UNCHANGED vars
       \/ part = "comparison" /\ Comparison!Next /\ UNCHANGED vars
TradingSpec == TradingInit /\ [][TradingNext]_<<part, vars, Shared>>

\* An accepted expression says what it means, and its indicators have values.
StrategiesSayWhatTheyMean == part = "language" =>
    Language!TypeOK /\ Language!SaysWhatItMeans /\ Language!EveryNameHasAValue
\* Strategies are compared on data and over a period that favour none of them, and
\* what a person may review was earned by trades that were matched in order.
ComparisonsAreFair ==
    part = "comparison" =>
        /\ Comparison!TypeOK
        /\ Comparison!VerifiedIsIndependent /\ Comparison!PeriodIsFair
        /\ Comparison!NeighboursAreNear /\ Comparison!PartsHaveReturns
        /\ Comparison!MatchedInOrder /\ Comparison!EligibleIsEarned
=============================================================================
