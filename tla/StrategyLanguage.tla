--------------------------- MODULE StrategyLanguage ---------------------------
(* The language strategies are written in: what strategy_from_mapping accepts,  *)
(* and what an accepted expression says at the end of each day.  Numbers of the *)
(* text are in thousandths; an optional value is a set of one element or none.  *)
EXTENDS Integers, Sequences, FiniteSets, SequencesExt, FiniteSetsExt

CONSTANTS
    Texts,        \* the strategies a model or a person may write
    Columns,      \* what the rows of a run may hold
    Closes,       \* the closing price of a day; 0 is not a number
    LastDay,
    MaxDepth,     \* of an expression
    Window,       \* of an indicator that names none
    Plugins,      \* the registered ones
    Measure(_, _) \* of an indicator, from the rows it uses

VARIABLES
    stage,   \* of the text: written, refused, accepted, or failed at run time
    text, columns,
    frame,   \* the days seen so far
    matched  \* what the expression says of them
vars == <<stage, text, columns, frame, matched>>

-----------------------------------------------------------------------------
\* Names and indicators.  A name is a word and the digits at its end.
Plain(word) == [word |-> word, digits |-> 0]
NoName == Plain("")
Indicators ==
    {"close", "return_pct", "ma", "ema", "price_vs_ma_pct", "ma_spread_pct", "bollinger_zscore",
     "rolling_breakout_pct", "volume_ratio", "rsi", "atr", "volatility"}
Requires(word) ==
    CASE word = "volume_ratio" -> {"volume"} [] word = "atr" -> {"high", "low", "close"} [] OTHER -> {"close"}
\* ma20 is ma with a window; ema20 is not read as ema with one.
Shorthand(name) == name.word = "ma" /\ name.digits > 0

\* The definition of a name, of the first that has it as its name or its alias.
Definition(name, specs) ==
    LET Has(i) == name \in {specs[i].name, specs[i].alias}
        Bare(plain, window) == [name |-> plain, alias |-> NoName, window |-> window, fast |-> 0, slow |-> 0]
    IN IF \E i \in DOMAIN specs : Has(i) THEN specs[SelectInSeq(specs, LAMBDA s : name \in {s.name, s.alias})]
       ELSE IF Shorthand(name) THEN Bare(Plain("ma"), name.digits)
       ELSE Bare(name, 0)

\* How many rows an indicator needs; the two that read other columns count rows,
\* the others count closing prices.
Needed(word, window, spec) ==
    CASE word = "close" -> 1
      [] word \in {"return_pct", "rolling_breakout_pct", "rsi", "volatility"} -> window + 1
      [] word = "ma_spread_pct" -> IF spec.slow > 0 THEN spec.slow ELSE window
      [] OTHER -> window
Spread(word, spec, needed) == word = "ma_spread_pct" => (IF spec.fast > 0 THEN spec.fast ELSE 5) < needed
Indicator(rows, name, window, specs) ==
    LET spec == Definition(name, specs)
        word == spec.name.word
        closes == SelectSeq(rows, LAMBDA c : c > 0)
        used == IF word \in {"atr", "volume_ratio"} THEN rows ELSE closes
        size == IF window > 0 THEN window ELSE IF spec.window > 0 THEN spec.window ELSE Window[word]
    IN IF closes = <<>> \/ spec.name.digits > 0 \/ word \notin Indicators THEN {}
       ELSE LET needed == Needed(word, size, spec)
            IN IF Len(used) < needed \/ ~Spread(word, spec, needed) THEN {}
               ELSE {Measure(word, IF word = "ema" THEN used
                                   ELSE SubSeq(used, Len(used) - needed + 1, Len(used)))}
\* The value of an operand; a pair of bounds is none.
Value(rows, operand, specs) ==
    CASE operand.type = "indicator" -> Indicator(rows, operand.name, operand.window, specs)
      [] operand.type = "constant" -> {operand.value}
      [] OTHER -> {}

-----------------------------------------------------------------------------
\* Expressions.
Children(e) == IF e.type \in {"compare", "crosses_above", "crosses_below"} THEN <<>> ELSE e.children
RECURSIVE Depth(_), NamesUpTo(_, _)
Depth(e) == 1 + Max({0} \cup {Depth(Children(e)[i]) : i \in DOMAIN Children(e)})
\* The names are collected down to the depth that is allowed.
NamesUpTo(e, depth) ==
    IF depth = 0 THEN {}
    ELSE IF Children(e) = <<>> THEN {o.name : o \in {x \in {e.left, e.right} : x.type = "indicator"}}
    ELSE UNION {NamesUpTo(Children(e)[i], depth - 1) : i \in DOMAIN Children(e)}
\* The shape of each kind of expression.
RECURSIVE WellFormed(_)
WellFormed(e) ==
    /\ e.type \in {"all", "any"} => e.children # <<>>
    /\ e.type \in {"not", "sustained", "count"} => Len(e.children) = 1
    /\ e.type \in {"sustained", "count"} => e.bars >= 1
    /\ e.type = "count" => e.minimum \in 1..e.bars
    /\ \A i \in DOMAIN Children(e) : WellFormed(Children(e)[i])

Compare(left, operator, operand, right) ==
    IF operator = "between"
    THEN operand.type = "range" /\ \E l \in left : operand.low <= l /\ l <= operand.high
    ELSE \E l \in left, r \in right :
        CASE operator = "gt" -> l > r [] operator = "gte" -> l >= r [] operator = "lt" -> l < r
          [] operator = "lte" -> l <= r [] OTHER -> l = r
SliceShort(rows, end) == SubSeq(rows, 1, Min({Max({0, end - 1}), Len(rows)}))
\* A slice of Python: a negative end counts from the last row.
Slice(rows, end) == SubSeq(rows, 1, IF end >= 0 THEN Min({end, Len(rows)}) ELSE Max({0, Len(rows) + end}))
RECURSIVE Evaluate(_, _, _)
Evaluate(e, rows, specs) ==
    LET left == Value(rows, e.left, specs)
        right == Value(rows, e.right, specs)
        before == Slice(rows, Max({0, Len(rows) - 1}))
        wasLeft == Value(before, e.left, specs)
        wasRight == Value(before, e.right, specs)
        days == {o \in 1..e.bars : Evaluate(e.children[1], Slice(rows, Len(rows) - o + 1), specs)}
    IN CASE e.type = "compare" -> Compare(left, e.operator, e.right, right)
         [] e.type = "crosses_above" ->
              \E l \in left, r \in right, p \in wasLeft, q \in wasRight : p <= q /\ l > r
         [] e.type = "crosses_below" ->
              \E l \in left, r \in right, p \in wasLeft, q \in wasRight : p >= q /\ l < r
         [] e.type = "all" -> \A i \in DOMAIN e.children : Evaluate(e.children[i], rows, specs)
         [] e.type = "any" -> \E i \in DOMAIN e.children : Evaluate(e.children[i], rows, specs)
         [] e.type = "not" -> ~Evaluate(e.children[1], rows, specs)
         [] e.type = "sustained" -> Cardinality(days) = e.bars
         [] e.type = "count" -> Cardinality(days) >= e.minimum

-----------------------------------------------------------------------------
\* Reading a text.  More than one and up to a hundred is a percentage, with a sign
\* of it or without: "0.5%" is read as a half, and "150%" as a hundred and fifty.
Ratio(number) == IF number > 1000 /\ number <= 100000 THEN number \div 100 ELSE number
Canonical(name, specs) ==
    LET aliased == {i \in DOMAIN specs : specs[i].alias # NoName /\ specs[i].alias = name}
        spec == IF aliased = {} THEN name ELSE specs[Max(aliased)].name
    IN IF Shorthand(spec) THEN Plain(spec.word) ELSE spec
\* What validate_strategy_spec objects to, with the columns it knows of.
Objections(t, cols) ==
    LET requested == {t.specs[i].name : i \in DOMAIN t.specs} \cup NamesUpTo(t.expression, MaxDepth)
        Known(name) == LET c == Canonical(name, t.specs) IN c.digits = 0 /\ c.word \in Indicators
    IN {name \in requested : ~Known(name)}
       \cup {name \in requested : Known(name) /\ \E known \in cols : ~(Requires(Canonical(name, t.specs).word) \subseteq known)}
       \cup {Plain("depth") : x \in {y \in {1} : Depth(t.expression) > MaxDepth}}
       \cup {Plain("plugin") : x \in t.plugins \ Plugins}
Readable(t) ==
    /\ WellFormed(t.expression)
    /\ Ratio(t.loss) \in 0..1000 /\ Ratio(t.gain) >= 0
    /\ Objections(t, {}) = {}

Init ==
    /\ text \in Texts /\ columns \in Columns /\ stage = "written"
    /\ frame = <<>> /\ matched = FALSE
Read ==
    /\ stage = "written" /\ stage' = IF Readable(text) THEN "accepted" ELSE "refused"
    /\ UNCHANGED <<text, columns, frame, matched>>
\* The runtime checks the columns of the rows it is given and evaluates them; an
\* objection is raised again each day, and no day has a decision.
Day(close) ==
    /\ stage = "accepted" /\ Len(frame) < LastDay
    /\ IF Objections(text, {columns}) # {} THEN stage' = "failed" /\ UNCHANGED <<frame, matched>>
       ELSE /\ frame' = Append(frame, close)
            /\ matched' = Evaluate(text.expression, frame', text.specs) /\ UNCHANGED stage
    /\ UNCHANGED <<text, columns>>
Next == Read \/ \E close \in Closes : Day(close)
Spec == Init /\ [][Next]_vars

-----------------------------------------------------------------------------
TypeOK ==
    /\ stage \in {"written", "refused", "accepted", "failed"}
    /\ text \in Texts /\ columns \in Columns
    /\ frame \in Seq(Closes) /\ Len(frame) <= LastDay
    /\ matched \in BOOLEAN

\* What an expression means on day d: nothing but the days up to d, each of the
\* days it speaks of once.
RECURSIVE Holds(_, _)
Holds(e, d) ==
    LET On(day, operand) == Value(SubSeq(frame, 1, day), operand, text.specs)
        Above(day) == \E l \in On(day, e.left), r \in On(day, e.right) : l > r
        Below(day) == \E l \in On(day, e.left), r \in On(day, e.right) : l < r
        Both(day) == On(day, e.left) # {} /\ On(day, e.right) # {}
    IN CASE e.type = "compare" -> Compare(On(d, e.left), e.operator, e.right, On(d, e.right))
         [] e.type = "crosses_above" -> Both(d - 1) /\ ~Above(d - 1) /\ Above(d)
         [] e.type = "crosses_below" -> Both(d - 1) /\ ~Below(d - 1) /\ Below(d)
         [] e.type = "all" -> {} = {i \in DOMAIN e.children : ~Holds(e.children[i], d)}
         [] e.type = "any" -> {} # {i \in DOMAIN e.children : Holds(e.children[i], d)}
         [] e.type = "not" -> ~Holds(e.children[1], d)
         [] e.type = "sustained" -> \A day \in (d - e.bars + 1)..d : Holds(e.children[1], day)
         [] OTHER -> \E days \in kSubset(e.minimum, (d - e.bars + 1)..d) :
                       \A day \in days : Holds(e.children[1], day)
RECURSIVE Lookback(_)
Lookback(e) ==
    (IF e.type \in {"sustained", "count"} THEN e.bars - 1
     ELSE IF e.type \in {"crosses_above", "crosses_below"} THEN 1 ELSE 0)
    + Max({0} \cup {Lookback(Children(e)[i]) : i \in DOMAIN Children(e)})
\* From the day on which its days exist, an expression says what it means.
SaysWhatItMeans ==
    stage = "accepted" /\ Len(frame) > Lookback(text.expression) =>
        matched = Holds(text.expression, Len(frame))

\* An indicator that the runtime lets through has a value as soon as there are
\* enough prices, when it goes by a name that is offered (a definition called
\* ma20 is let through and never has one).
OfferedNames ==
    \A i \in DOMAIN text.specs :
        LET s == text.specs[i]
        IN s.name.digits = 0 /\ (s.name.word = "ma_spread_pct" => s.fast > 0 /\ s.fast < s.slow)
EveryNameHasAValue ==
    (stage = "accepted" /\ frame # <<>> /\ OfferedNames /\ \A i \in DOMAIN frame : frame[i] > 0) =>
        \A name \in NamesUpTo(text.expression, MaxDepth) :
            LET spec == Definition(name, text.specs)
                most == Max({1} \cup {Window[w] : w \in Indicators} \cup {spec.window, spec.slow})
            IN Len(frame) > most => Indicator(frame, name, 0, text.specs) # {}
=============================================================================
