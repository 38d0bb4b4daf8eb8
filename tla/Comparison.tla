------------------------------- MODULE Comparison -------------------------------
(***************************************************************************)
(* The formal comparison of strategies (application/strategy_comparison.py) *)
(* on data that two sources were asked for (data/history_validation.py):    *)
(* the choice of a source, the period, the measures of every strategy, the  *)
(* trades behind them, and the gate before a person may review one.         *)
(*                                                                         *)
(* Days are trading days.  Differences of returns are in tenths of a        *)
(* percent; a measure that may be missing is a set of at most one number.   *)
(* A backtest that raises ends the comparison without a result.             *)
(***************************************************************************)
EXTENDS Integers, Sequences, FiniteSets, FiniteSetsExt, SequencesExt, Functions

CONSTANTS
    LastDay,    \* the last day asked for
    Requested,  \* the first day of the period asked for
    Warmup,     \* bars before the period
    MinHistory, \* days of the period that make it official
    Prices,     \* the sets of days that a source may have
    Differ,     \* by how much returns may differ, by day
    Strategies, \* what is compared, in order
    Outcomes,   \* what the backtests of a strategy may measure, by strategy
    Lists,      \* the trades of the strategy that is looked at
    Enough, Top, Lead,  \* closed trades; of the best trades; ranks that lead
    Samples     \* lists of trades that the matching is checked on

VARIABLES stage, work, data, results, report
vars == <<stage, work, data, results, report>>

Init == stage = "fetch" /\ work = {} /\ data = {} /\ results = {} /\ report = {}

-----------------------------------------------------------------------------
(***************************************************************************)
(* Two sources: how far they agree, and which of them is better.            *)
(***************************************************************************)
\* Twice the median, to stay with whole numbers.
TwiceMedian(f) ==
    LET sorted == SetToSortSeq(DOMAIN f, LAMBDA a, b : f[a] < f[b] \/ (f[a] = f[b] /\ a < b))
        n == Len(sorted)
    IN IF n % 2 = 1 THEN 2 * f[sorted[(n + 1) \div 2]] ELSE f[sorted[n \div 2]] + f[sorted[n \div 2 + 1]]

Agreement(left, right, differ) ==
    LET common == left \cap right
        larger == Max({Cardinality(left), Cardinality(right)})
        returns == Restrict(differ, common \ {Min(common)})
        n == Cardinality(common) - 1
        close == Cardinality({d \in DOMAIN returns : returns[d] <= 10})
        lag == Cardinality({d \in left \cup right : d > Min({Max(left), Max(right)})})
    IN CASE Cardinality(common) < 3 -> "conflict"
         [] /\ 100 * (n + 1) >= 95 * larger /\ lag <= 1
            /\ TwiceMedian(returns) <= 2 /\ 100 * close >= 99 * n -> "verified"
         [] \/ 100 * (n + 1) < 80 * larger \/ lag > 3
            \/ TwiceMedian(returns) > 5 \/ 100 * close < 95 * n -> "conflict"
         [] OTHER -> "degraded"

\* A score of a hundred, times the larger number of rows.
Score(rows, larger, status) ==
    LET late == LastDay - Max(rows)
        recency == IF late <= 1 THEN 30 ELSE IF late <= 3 THEN 20 ELSE Max({0, 20 - late})
        consistency == CASE status = "verified" -> 20 [] status = "degraded" -> 10
                         [] status = "conflict" -> 0 [] OTHER -> 5
    IN (recency + 20 + consistency) * larger + 30 * Cardinality(rows)
Priority(source) == CASE source = "eastmoney" -> 0 [] source = "tencent" -> 1 [] OTHER -> 2

\* Both answers are asked for at once; the first one's source may have fallen
\* back on another one, and then the second is not a source of its own.
CountsTwice(primary, tencent) == {c \in {primary, tencent} : c.rows # {}}
Candidates(primary, tencent) ==
    {c \in {primary, tencent} : c.rows # {} /\ ~(c = tencent /\ primary.rows # {} /\ primary.source = "tencent")}

Fetch ==
    /\ stage = "fetch"
    /\ \E source \in {"eastmoney", "tencent", "sina"}, mine, theirs \in Prices, differ \in Differ :
          LET primary == [label |-> "primary", source |-> source, rows |-> mine]
              tencent == [label |-> "tencent", source |-> "tencent", rows |-> theirs]
              candidates == Candidates(primary, tencent)
              larger == Max({Cardinality(c.rows) : c \in candidates})
              status == IF Cardinality(candidates) < 2 THEN "unverified" ELSE Agreement(mine, theirs, differ)
              Points(c) == Score(c.rows, larger, status)
              Before(c, d) == \/ Points(c) > Points(d)
                              \/ Points(c) = Points(d) /\ Priority(c.source) <= Priority(d.source)
              selected == CHOOSE c \in candidates : \A d \in candidates : Before(c, d)
          IN IF \/ candidates = {}
                \/ status = "conflict" /\ (\A d \in candidates : Points(selected) - Points(d) < 10 * larger)
             THEN stage' = "failed" /\ work' = {}
             ELSE /\ stage' = "period"
                  /\ work' = [rows |-> selected.rows, asked |-> <<primary, tencent>>, found |-> status,
                              status |-> IF status = "conflict" THEN "degraded" ELSE status]
    /\ UNCHANGED <<data, results, report>>

-----------------------------------------------------------------------------
(***************************************************************************)
(* The period, and the backtests: on one set of rows, with the same costs.  *)
(***************************************************************************)
FirstBar == Warmup + 1
Evaluation(rows) ==
    LET sorted == SetToSortSeq(rows, <)
        candidate == IF Cardinality({d \in rows : d < Requested}) >= Warmup THEN Requested
                     ELSE IF Cardinality(rows) > Warmup THEN sorted[FirstBar] ELSE Max(rows)
        eligible == {d \in rows : d >= candidate}
    IN IF eligible = {} THEN Max(rows) ELSE Min(eligible)

Period ==
    /\ stage = "period" /\ stage' = "run"
    /\ LET start == Evaluation(work.rows)
       IN /\ data' = [status |-> work.status, official |-> Max(work.rows) - start >= MinHistory,
                      short |-> Cardinality({d \in work.rows : d >= start}) < 3]
          /\ work' = [work EXCEPT !.found = start]
    /\ UNCHANGED <<results, report>>

\* The standard strategies by their windows or levels, and the neighbours that
\* their parameters are tried with.
Suite ==
    [buy_hold |-> <<>>, ma_5_20 |-> <<5, 20>>, ma_20_60 |-> <<20, 60>>, momentum_20 |-> <<20>>,
     momentum_252 |-> <<252>>, rsi_reversal |-> <<30, 55>>, bollinger_reversal |-> <<20>>,
     breakout_20 |-> <<20>>, trend_pullback |-> <<20>>, volatility_target_15 |-> <<15>>,
     trend_volatility_target |-> <<15>>]
Variants ==
    [buy_hold |-> {}, ma_5_20 |-> {<<3, 15>>, <<5, 20>>, <<10, 30>>},
     ma_20_60 |-> {<<15, 50>>, <<20, 60>>, <<30, 90>>}, momentum_20 |-> {<<10>>, <<20>>, <<60>>},
     momentum_252 |-> {<<126>>, <<189>>, <<252>>}, rsi_reversal |-> {<<25, 50>>, <<30, 55>>, <<35, 60>>},
     bollinger_reversal |-> {<<15>>, <<20>>, <<30>>}, breakout_20 |-> {<<10>>, <<20>>, <<55>>},
     trend_pullback |-> {<<10>>, <<20>>, <<30>>}, volatility_target_15 |-> {<<10>>, <<15>>, <<20>>},
     trend_volatility_target |-> {<<10>>, <<15>>, <<20>>}]
WarmupBars == 252

\* Where in a curve of n days, counted from nought, the part out of sample begins.
Split(n) == Max({2, Min({n - 1, (7 * n) \div 10})})

Compared == Range(Strategies)
Run ==
    /\ stage = "run" /\ stage' = "attribute" /\ work' = {}
    /\ results' \in {f \in [Compared -> UNION Range(Outcomes)] : \A n \in Compared : f[n] \in Outcomes[n]}
    /\ UNCHANGED <<data, report>>

-----------------------------------------------------------------------------
(***************************************************************************)
(* Trades, matched first in, first out.  Prices of a share include its part *)
(* of the fees.                                                            *)
(***************************************************************************)
\* What a sale of n shares takes of each lot, the oldest first.
OldestFirst(lots, i) ==
    FoldFunctionOnSet(+, 0, [k \in DOMAIN lots |-> lots[k].shares], 1..(i - 1))
Taken(lots, n) ==
    [i \in DOMAIN lots |-> Max({0, Min({lots[i].shares, n - OldestFirst(lots, i)})})]
Left(lots, taken) ==
    SelectSeq([i \in DOMAIN lots |-> [lots[i] EXCEPT !.shares = @ - taken[i]]], LAMBDA lot : lot.shares > 0)
Segments(lots, taken, sale) ==
    SelectSeq([i \in DOMAIN lots |-> [bought |-> lots[i].price, sold |-> sale.price, shares |-> taken[i]]],
              LAMBDA segment : segment.shares > 0)
Fill(state, trade) ==
    IF trade.action = "buy" THEN [state EXCEPT !.lots = Append(@, [shares |-> trade.shares, price |-> trade.price])]
    ELSE LET taken == Taken(state.lots, trade.shares)
         IN [lots |-> Left(state.lots, taken), matched |-> state.matched \o Segments(state.lots, taken, trade)]
Attribution(trades) == FoldLeft(Fill, [lots |-> <<>>, matched |-> <<>>], trades)

Profit(segment) == (segment.sold - segment.bought) * segment.shares
Summary(trades) ==
    LET matched == Attribution(trades).matched
        gains == SelectSeq([i \in DOMAIN matched |-> Profit(matched[i])], LAMBDA gain : gain > 0)
        best == SubSeq(SortSeq(gains, >), 1, Min({Top, Len(gains)}))
    IN [closed |-> Len(matched),
        concentrated |-> Len(gains) > 0 /\ 2 * FoldSeq(+, 0, best) > FoldSeq(+, 0, gains)]

\* build_trade_attribution, of the strategy that the gate will look at.
Attribute ==
    /\ stage = "attribute" /\ stage' = "decide"
    /\ \E trades \in Lists : work' = Summary(trades)
    /\ UNCHANGED <<data, results, report>>

-----------------------------------------------------------------------------
(***************************************************************************)
(* Assessments of every strategy, the conclusion and the gate.              *)
(***************************************************************************)
Measures == {"total", "sharpe", "drawdown", "oos", "stress"}
Value(n, measure) == IF measure = "oos" /\ data.short THEN {} ELSE results[n][measure]
Better(measure, a, b) == IF measure = "drawdown" THEN a < b ELSE a > b
Place(n) == CHOOSE i \in DOMAIN Strategies : Strategies[i] = n
Ranked(measure, pool) == {n \in pool : Value(n, measure) # {}}
\* Those in front: better ones, and equal ones that come first.
InFront(measure, n, pool) ==
    {m \in Ranked(measure, pool) \ {n} : \E a \in Value(m, measure), b \in Value(n, measure) :
        Better(measure, a, b) \/ (a = b /\ Place(m) < Place(n))}
Leads(measure, n) ==
    n \in Ranked(measure, Compared) /\ Cardinality(InFront(measure, n, Compared)) < Min({Lead, Cardinality(Compared)})
Winners(measure, pool) == {n \in Ranked(measure, pool) : InFront(measure, n, pool) = {}}

Parameters(n) == IF Variants[n] = {} THEN "not_applicable" ELSE IF results[n].steady THEN "stable" ELSE "sensitive"
Positive(n, measure) == \E v \in Value(n, measure) : v > 0
IgnoresStress(n) ==
    {c \in {"out_of_sample_positive", "rolling_positive_majority", "parameters_stable", "stress_cost_positive"} :
        CASE c = "out_of_sample_positive" -> Positive(n, "oos")
          [] c = "rolling_positive_majority" -> results[n].rolling
          [] c = "parameters_stable" -> Parameters(n) \in {"stable", "not_applicable"}
          [] OTHER -> TRUE}
Robust(n) ==
    {c \in {"out_of_sample_positive", "rolling_positive_majority", "parameters_stable", "stress_cost_positive"} :
        CASE c = "out_of_sample_positive" -> Positive(n, "oos")
          [] c = "rolling_positive_majority" -> results[n].rolling
          [] c = "parameters_stable" -> Parameters(n) \in {"stable", "not_applicable"}
          [] OTHER -> Positive(n, "stress")}
Grade(n) == CASE Cardinality(Robust(n)) = 4 -> "strong" [] Cardinality(Robust(n)) >= 2 -> "moderate" [] OTHER -> "weak"

Verdict(n) ==
    LET leading == Cardinality({m \in Measures \ {"total"} : Leads(m, n)})
        loses == \E v \in Value(n, "total") : v < 0
    IN CASE loses /\ ~Positive(n, "sharpe") -> "not advised"
         [] leading >= 2 /\ ~loses /\ Grade(n) # "weak" -> "first choice"
         [] Leads("total", n) \/ leading >= 1 -> "conditional"
         [] OTHER -> "alternative"

\* The winners that a conclusion freezes, and the strategy the gate looks at.
Stable == {n \in Compared : Parameters(n) = "stable"}
Robustest == Winners("stress", IF Stable = {} THEN Compared ELSE Stable)
Favourite ==
    IF Winners("sharpe", Compared) # {} THEN Winners("sharpe", Compared) ELSE Robustest
Accepted ==
    /\ "buy_hold" \in Compared /\ data.official
    /\ \A n \in Compared : Value(n, "oos") # {}
Missing(n) ==
    {c \in {"task_acceptance", "official_sample", "data_cross_validation", "robust", "trade_sample_sufficient",
            "profit_not_over_concentrated"} :
        ~ CASE c = "task_acceptance" -> Accepted
            [] c = "official_sample" -> data.official
            [] c = "data_cross_validation" -> data.status = "verified"
            [] c = "robust" -> Cardinality(Robust(n)) = 4
            [] c = "trade_sample_sufficient" -> n = "buy_hold" \/ work.closed >= Enough
            [] OTHER -> ~work.concentrated}

\* The index of the market has too few days, or a strategy fails on it: that is
\* said, and nothing else depends on it.
Market(days, failing) ==
    IF days < 2 THEN "unavailable" ELSE IF failing THEN "partial" ELSE "available"
Doubts(market) ==
    {d \in {"market", "data", "history"} :
        CASE d = "market" -> market # "available" [] d = "data" -> data.status # "verified" [] OTHER -> ~data.official}
\* The words of the comparison itself recommend one strategy.
Recommended ==
    IF Winners("sharpe", Compared) # {} THEN Winners("sharpe", Compared) ELSE Winners("drawdown", Compared)
Decide ==
    /\ stage = "decide" /\ stage' = "explain"
    /\ \E n \in Favourite, first \in Recommended, days \in {1, 2}, failing \in BOOLEAN :
          report' = [favourite |-> n, verdict |-> Verdict(n), missing |-> Missing(n), words |-> first,
                     doubts |-> Doubts(Market(days, failing))]
    /\ UNCHANGED <<work, data, results>>
\* The language model may word the recommendations; it changes nothing else.
Explain ==
    /\ stage = "explain" /\ stage' = "done"
    /\ \E words \in {report.words, "model"} : report' = [report EXCEPT !.words = words]
    /\ UNCHANGED <<work, data, results>>

Next == Fetch \/ Period \/ Run \/ Attribute \/ Decide \/ Explain
Spec == Init /\ [][Next]_vars

-----------------------------------------------------------------------------
TypeOK ==
    /\ stage \in {"fetch", "failed", "period", "run", "attribute", "decide", "explain", "done"}
    /\ stage \notin {"fetch", "failed", "period"} =>
          data.status \in {"verified", "degraded", "unverified"} /\ {data.official, data.short} \subseteq BOOLEAN

\* Rows count as verified when two sources of their own agree about most days
\* and returns, whatever their providers fell back on.
VerifiedIsIndependent ==
    stage = "period" /\ work.status = "verified" =>
        /\ work.asked[1].source # work.asked[2].source
        /\ 5 * Cardinality(work.asked[1].rows \cap work.asked[2].rows) >= 4 * Cardinality(work.rows)

\* The period begins as early as it was asked for and the warm-up allows.
PeriodIsFair ==
    stage = "run" =>
        LET start == work.found
            Warm(d) == Cardinality({e \in work.rows : e < d}) >= Warmup
        IN /\ start \in work.rows
           /\ Cardinality(work.rows) > Warmup => Warm(start)
           /\ \A d \in work.rows : d >= Requested => start >= Requested /\ (Warm(d) => start <= d)

\* Every strategy is among its own neighbours, and none looks back further than
\* the warm-up is long.
NeighboursAreNear ==
    stage = "fetch" => \A n \in DOMAIN Suite :
        /\ Variants[n] # {} => Suite[n] \in Variants[n]
        /\ \A windows \in Variants[n] \cup {Suite[n]} : \A i \in DOMAIN windows : windows[i] <= WarmupBars

\* Both parts of every curve, which share a day, have a return.
PartsHaveReturns == stage = "fetch" => \A n \in 3..600 : Split(n) - 1 >= 1 /\ n - Split(n) >= 1

\* The k-th share that is sold is the k-th that was bought.
Shares(pairs) == FlattenSeq([i \in DOMAIN pairs |-> [k \in 1..pairs[i].shares |-> pairs[i].price]])
MatchedInOrder ==
    stage = "fetch" => \A trades \in Samples :
        LET result == Attribution(trades)
            bought == Shares(SelectSeq(trades, LAMBDA t : t.action = "buy"))
            sold == Shares(SelectSeq(trades, LAMBDA t : t.action = "sell"))
            matched == result.matched
            Of(price(_)) == FlattenSeq([i \in DOMAIN matched |-> [k \in 1..matched[i].shares |-> price(matched[i])]])
        IN /\ Of(LAMBDA m : m.sold) = sold
           /\ Of(LAMBDA m : m.bought) \o Shares(result.lots) = bought

\* What passes the gate was earned: two sources agree, the strategy gains under
\* every cost, is not advised against, is the one recommended if it has a Sharpe ratio, and none that
\* was compared beats it everywhere.
Beats(m, n) == \A measure \in Measures : \E a \in Value(m, measure), b \in Value(n, measure) : Better(measure, a, b)
EligibleIsEarned ==
    stage \in {"explain", "done"} /\ report.missing = {} =>
        LET n == report.favourite
        IN /\ "data" \notin report.doubts /\ "history" \notin report.doubts
           /\ Positive(n, "total") /\ report.verdict # "not advised"
           /\ \A m \in Compared : ~Beats(m, n)
           /\ Value(n, "sharpe") # {} => report.words \in {n, "model"}
=============================================================================
