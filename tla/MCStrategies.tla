----------------------------- MODULE MCStrategies -----------------------------
(* What a model or a person may write, for StrategyLanguage.                   *)
EXTENDS Integers, Sequences, FiniteSets

\* Texts of strategies.
Name(word, digits) == [word |-> word, digits |-> digits]
Defined(word, alias, window) == [name |-> Name(word, 0), alias |-> Name(alias, 0), window |-> window, fast |-> 0, slow |-> 0]
Gap(fast, slow) == [Defined("ma_spread_pct", "spread", 0) EXCEPT !.fast = fast, !.slow = slow]
Use(word, digits, window) == [type |-> "indicator", name |-> Name(word, digits), window |-> window]
Number(value) == [type |-> "constant", value |-> value]
Bounds(low, high) == [type |-> "range", low |-> low, high |-> high]
Is(left, operator, right) == [type |-> "compare", left |-> left, operator |-> operator, right |-> right]
Cross(kind, left, right) == [type |-> kind, left |-> left, right |-> right]
Of(kind, children) == [type |-> kind, children |-> children]
Within(kind, bars, minimum, child) == [type |-> kind, bars |-> bars, minimum |-> minimum, children |-> <<child>>]

High == Is(Use("close", 0, 0), "gte", Number(12))
Rising == Is(Use("momentum", 0, 0), "gt", Number(0))
Crossing == Cross("crosses_above", Use("close", 0, 0), Use("ma", 2, 0))
Falling == Cross("crosses_below", Use("close", 0, 0), Use("ma", 2, 0))
Expressions ==
    {High, Rising, Crossing, Falling, Is(Use("volume_ratio", 0, 0), "lt", Number(9)),
     Is(Use("close", 0, 0), "between", Bounds(6, 12)), Is(Use("close", 0, 0), "between", Number(6)),
     Is(Use("spread", 0, 0), "lte", Number(9)), Is(Use("ma", 3, 0), "eq", Use("ema", 0, 3)),
     Is(Use("ema", 2, 0), "gt", Number(0)), Is(Use("macd", 0, 0), "gt", Number(0)), Is(Use("atr", 0, 2), "gt", Number(6)),
     Within("sustained", 2, 0, High), Within("sustained", 2, 0, Of("not", <<High>>)), Within("count", 3, 2, High),
     Within("count", 3, 1, Rising), Within("count", 2, 3, High), Within("sustained", 2, 0, Crossing), Within("count", 2, 1, Falling),
     Of("all", <<High, Rising>>), Of("any", <<Crossing, Within("count", 3, 2, High)>>), Of("all", <<>>),
     Of("not", <<Of("any", <<High, Crossing>>)>>), Of("not", <<Of("not", <<Of("not", <<High>>)>>)>>)}
Text(specs, expression, plugins, loss, gain) ==
    [specs |-> specs, expression |-> expression, plugins |-> plugins, loss |-> loss, gain |-> gain]
Specs == <<Defined("return_pct", "momentum", 1), Gap(1, 2)>>
Texts ==
    {Text(Specs, e, {}, 50, 0) : e \in Expressions}
    \cup {Text(<<[Defined("ma", "", 2) EXCEPT !.name = Name("ma", 2)]>>, Crossing, {}, 50, 0),
          Text(Specs, High, {"core.trend_score"}, 5000, 20000), Text(Specs, High, {}, 150000, 0),
          Text(Specs, High, {"user.inline_code"}, 50, 0)}
Windows == [w \in {"close", "return_pct", "ma", "ema", "price_vs_ma_pct", "ma_spread_pct", "bollinger_zscore",
                   "rolling_breakout_pct", "volume_ratio", "rsi", "atr", "volatility"} |-> IF w = "return_pct" THEN 1 ELSE 2]
\* Six times an average, or a difference.
RECURSIVE Total(_)
Total(rows) == IF rows = <<>> THEN 0 ELSE Head(rows) + Total(Tail(rows))
MeasureOf(word, rows) ==
    IF word \in {"return_pct", "rolling_breakout_pct"} THEN 6 * (rows[Len(rows)] - rows[1])
    ELSE (6 * Total(rows)) \div Len(rows)
=============================================================================
