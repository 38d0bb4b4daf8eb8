-------------------------------- MODULE Analysis --------------------------------
(* The research workflow: market data, three analysts at once, a debate, a risk  *)
(* manager and a portfolio manager, and the three that call it: a backtest that  *)
(* asks it every few days, an automation that trades on it or has it review a    *)
(* deployed strategy, and the chat.  What a language model answers is a choice;  *)
(* what is followed is the newest day each answer could rest on.                 *)
EXTENDS Integers, Sequences, FiniteSets, FiniteSetsExt

CONSTANTS
    Today,          \* the last day of the market
    Opens, Closes,  \* the price of each day
    Interval,       \* days between the decisions of a backtest
    MaxAge,         \* in days, of the data an automation trades on
    Names,          \* of the strategies that come with the program
    Answers,        \* of the portfolio manager's model
    Risks,          \* limits to a position, in percent, its risk manager may set
    Accounts,       \* what an account may be when an order is sized
    Lot, DefaultSize, MaxSingle, MaxTotal,
    Limit           \* of analyses

\* What the program is configured with, and what its models may answer: sizes and
\* limits in percent, of either sign; prices, as whole numbers, are positive, and 0
\* in a plan is a price that was not given.
Plans == [entry : Nat, stop : Nat, take : Nat, explained : BOOLEAN, evidence : {"none", "undated", "dated"}]
AnalysisAssumption ==
    /\ Today \in Nat \ {0} /\ Limit \in Nat
    /\ Opens \in [1..Today -> Nat \ {0}] /\ Closes \in [1..Today -> Nat \ {0}]
    /\ Lot \in Nat \ {0} /\ DefaultSize \in Int /\ MaxSingle \in Nat /\ MaxTotal \in Nat
    /\ Risks \subseteq Int
    /\ \A answer \in Answers :
          /\ answer.plan \in Plans /\ answer.top \in [entry : Nat, stop : Nat, take : Nat]
          /\ answer.size \in SUBSET Int /\ (\A s, t \in answer.size : s = t) /\ answer.runs \in BOOLEAN
          /\ answer.side \in {"buy", "sell", "hold", "unreadable"}
    /\ \A account \in Accounts : account.cash \in Nat /\ account.invested \in Nat /\ account.available \in Nat

VARIABLES
    caller,  \* who is running analyses, and on which day
    graph,   \* the state of the workflow
    specs,   \* how new the knowledge in each strategy is, and whether it can be run
    order,   \* the last one, with all it was made from
    used
vars == <<caller, graph, specs, order, used>>

Nobody == [kind |-> "none"]
Rest == [stage |-> "none"]
NoOrder == [side |-> "hold"]
Newest(days) == Max(days \cup {0})

-----------------------------------------------------------------------------
\* Market data.  As of a day only its history and what came before it; day 0 is a
\* live analysis, with quotes, news and pages of today.
Normalised(rows, asof) == {d \in rows : asof = 0 \/ d <= asof}
AlwaysLive(rows, asof, news, web) ==
    [days |-> Normalised(rows, asof), asof |-> asof, news |-> news, web |-> web]
Context(rows, asof, news, web) ==
    [days |-> Normalised(rows, asof), asof |-> asof,
     news |-> asof = 0 /\ news, web |-> IF asof = 0 THEN web ELSE "none"]
Quoted(context) == IF context.asof = 0 THEN Today ELSE Newest(context.days)

\* A caller starts the workflow, with the data it has or with none.
Begin(strategy, asof, contexts) ==
    graph' = [stage |-> "data", strategy |-> strategy, asof |-> asof, context |-> contexts, reports |-> <<>>]
FetchMarketData(rows, news, web) ==
    /\ graph.stage = "data" /\ graph.context = {}
    /\ graph' = [graph EXCEPT !.stage = "analysts", !.context = {Context(rows, graph.asof, news, web)},
                              !.reports = [a \in {} |-> 0]]
    /\ UNCHANGED <<caller, specs, order, used>>
TakeMarketData ==
    /\ graph.stage = "data" /\ graph.context # {}
    /\ graph' = [graph EXCEPT !.stage = "analysts", !.reports = [a \in {} |-> 0]]
    /\ UNCHANGED <<caller, specs, order, used>>

-----------------------------------------------------------------------------
\* The agents.  A model that fails, or whose answer is not of the form that was
\* asked for, leaves a neutral report; so does the want of data.
Facts == CHOOSE c \in graph.context : TRUE
Analysts == {"technical", "fundamentals", "sentiment"}
Material(analyst) ==
    CASE analyst = "technical" -> Facts.days # {}
      [] analyst = "fundamentals" -> TRUE
      [] analyst = "sentiment" -> Facts.news \/ Facts.web = "full_text"
Basis(analyst) ==
    CASE analyst = "technical" -> Newest(Facts.days)
      [] analyst = "fundamentals" -> Quoted(Facts)
      [] analyst = "sentiment" -> Today
With(name, known) == [n \in DOMAIN graph.reports \cup {name} |-> IF n = name THEN known ELSE graph.reports[n]]
Known(names) == Newest({graph.reports[n] : n \in names \cap DOMAIN graph.reports})
Analyse(analyst, answered) ==
    /\ graph.stage = "analysts" /\ analyst \in Analysts \ DOMAIN graph.reports
    /\ LET reports == With(analyst, IF Material(analyst) /\ answered THEN Basis(analyst) ELSE 0)
       IN graph' = [graph EXCEPT !.reports = reports, !.stage = IF Analysts \subseteq DOMAIN reports THEN "debate" ELSE @]
    /\ UNCHANGED <<caller, specs, order, used>>
\* Indicators are computed before the model is asked: rows without the columns
\* they need end the whole analysis, whatever the other analysts do.
Break ==
    /\ graph.stage = "analysts" /\ "technical" \notin DOMAIN graph.reports /\ Facts.days # {}
    /\ graph' = [graph EXCEPT !.stage = "failed"]
    /\ UNCHANGED <<caller, specs, order, used>>
\* Two arguments, two rebuttals and a verdict, or none of them.
Debate(answered) ==
    /\ graph.stage = "debate"
    /\ graph' = [graph EXCEPT !.stage = "risk", !.reports = With("debate", IF answered THEN Known(Analysts) ELSE 0)]
    /\ UNCHANGED <<caller, specs, order, used>>
CautiousLimit == 20
Assess(answered, limit) ==
    /\ graph.stage = "risk"
    /\ LET known == Newest({Known(Analysts), Known({"debate"}), Newest(Facts.days)})
           reports == With("risk", IF answered THEN known ELSE 0)
       IN graph' = [stage |-> "portfolio", strategy |-> graph.strategy, asof |-> graph.asof, context |-> graph.context,
                    reports |-> reports, limit |-> IF answered THEN limit ELSE CautiousLimit]
    /\ UNCHANGED <<caller, specs, order, used>>

-----------------------------------------------------------------------------
\* The portfolio manager.  0 is a price that was not given, {} a size.
Complete(plan) == plan.entry # 0 /\ plan.stop # 0 /\ plan.take # 0
Ordered(plan) == plan.stop < plan.entry /\ plan.entry < plan.take
BuyPlanHasEvidence(plan) == Complete(plan) /\ plan.explained /\ Ordered(plan) /\ plan.evidence = "dated"
\* Prices beside the plan replace the ones in it; its size is cut to the limit.
Merged(answer) ==
    LET Level(level) == IF answer.top[level] # 0 THEN answer.top[level] ELSE answer.plan[level]
    IN [answer.plan EXCEPT !.entry = Level("entry"), !.stop = Level("stop"), !.take = Level("take")]
Clamped(size, limit) == {Min({Max({s, 0}), Max({limit, 0})}) : s \in size}
IgnoresOrder(plan) == ~Complete(plan) \/ ~plan.explained \/ plan.evidence = "none"
Issues(plan) ==
    \/ ~Complete(plan) \/ ~plan.explained \/ plan.evidence = "none"
    \/ plan.stop # 0 /\ plan.entry # 0 /\ plan.stop >= plan.entry
    \/ plan.take # 0 /\ plan.entry # 0 /\ plan.take <= plan.entry
Side(answer) ==
    IF answer.side = "buy" /\ (~BuyPlanHasEvidence(answer.plan) \/ Issues(Merged(answer))) THEN "hold" ELSE answer.side
\* The strategy in an answer is kept at once, under the name it has, before the
\* rest of the answer is looked at; nothing asks whether it can be run.
Keep(answer, known) ==
    specs' = [n \in Names |-> IF answer.names = n THEN [known |-> known, runs |-> answer.runs] ELSE specs[n]]
Told(strategy) == IF strategy \in Names THEN specs[strategy].known ELSE 0
Decision(side, plan, size, known) ==
    [stage |-> "done", side |-> side, plan |-> plan, size |-> size, limit |-> graph.limit,
     known |-> known, data |-> Newest(Facts.days), told |-> Told(graph.strategy), asof |-> graph.asof]
NoPlan == [entry |-> 0, stop |-> 0, take |-> 0, explained |-> FALSE, evidence |-> "none"]
Decide(answer) ==
    /\ graph.stage = "portfolio"
    /\ LET known == Newest({Known(DOMAIN graph.reports), Quoted(Facts)})
       IN /\ Keep(answer, Newest({known, Told(graph.strategy)}))
          /\ graph' = IF answer.side = "unreadable" THEN Decision("hold", NoPlan, {}, 0)
                      ELSE Decision(Side(answer), Merged(answer), Clamped(answer.size, graph.limit), known)
    /\ UNCHANGED <<caller, order, used>>
ManagerFails ==
    /\ graph.stage = "portfolio" /\ graph' = Decision("hold", NoPlan, {}, 0)
    /\ UNCHANGED <<caller, specs, order, used>>

-----------------------------------------------------------------------------
\* The size of an order.
Percent(size) == IF size = {} \/ size = {0} THEN DefaultSize ELSE Max(size)
WholeCash(account, size) == (account.cash * Percent(size)) \div 100
Investable(account, size) ==
    LET percent == Min({Max({Percent(size), 0}), MaxSingle})
        total == account.cash + account.invested
    IN Min({(account.cash * percent) \div 100, Max({(total * MaxTotal) \div 100 - account.invested, 0})})
InLots(shares) == (shares \div Lot) * Lot
Shares(account, decision, price) ==
    CASE decision.side = "buy" -> InLots(Investable(account, decision.size) \div price)
      [] decision.side = "sell" /\ decision.plan.stop # 0 /\ price <= decision.plan.stop -> account.available
      [] OTHER -> InLots(account.available)
Execute(decision, account, price, day) ==
    LET shares == Shares(account, decision, price)
    IN order' = IF shares <= 0 THEN NoOrder
                ELSE [side |-> decision.side, shares |-> shares, price |-> price, day |-> day,
                      account |-> account, decision |-> decision]

-----------------------------------------------------------------------------
\* A backtest of one ticker, or of a pool in which another one is traded every
\* day: what was decided waits for the next day the ticker is traded, unless it is
\* filled at the close.
StartBacktest(strategy, fill, bars) ==
    /\ caller = Nobody /\ used < Limit
    /\ caller' = [kind |-> "backtest", strategy |-> strategy, fill |-> fill, bars |-> bars,
                  day |-> 1, at |-> "open", pending |-> {}]
    /\ order' = NoOrder /\ used' = used + 1 /\ UNCHANGED <<graph, specs>>
Open(account) ==
    /\ caller.kind = "backtest" /\ caller.at = "open"
    /\ LET trades == caller.day \in caller.bars /\ caller.pending # {}
       IN /\ caller' = [caller EXCEPT !.at = "close", !.pending = IF trades THEN {} ELSE @]
          /\ IF trades THEN Execute(CHOOSE d \in caller.pending : TRUE, account, Opens[caller.day], caller.day)
             ELSE order' = NoOrder
    /\ UNCHANGED <<graph, specs, used>>
Ask ==
    /\ caller.kind = "backtest" /\ caller.at = "close" /\ graph = Rest
    /\ LET day == caller.day
       IN IF day \in caller.bars /\ (day - 1) % Interval = 0
          THEN /\ Begin(caller.strategy, day, {Context({d \in caller.bars : d <= day}, day, TRUE, "full_text")})
               /\ UNCHANGED caller
          ELSE /\ caller' = IF day = Today THEN Nobody ELSE [caller EXCEPT !.day = @ + 1, !.at = "open"]
               /\ UNCHANGED graph
    /\ order' = NoOrder /\ UNCHANGED <<specs, used>>
Hear(account) ==
    /\ caller.kind = "backtest" /\ graph.stage \in {"done", "failed"}
    /\ LET acts == graph.stage = "done" /\ graph.side # "hold"
       IN /\ IF acts /\ caller.fill = "same_close" THEN Execute(graph, account, Closes[caller.day], caller.day)
             ELSE UNCHANGED order
          /\ caller' = IF caller.day = Today THEN Nobody
                       ELSE [caller EXCEPT !.day = @ + 1, !.at = "open",
                                           !.pending = IF acts /\ caller.fill = "next_open" THEN {graph} ELSE @]
    /\ graph' = Rest /\ UNCHANGED <<specs, used>>

-----------------------------------------------------------------------------
\* An automation that trades on a live analysis for the day of its run, one that
\* has the trade of a deployed strategy reviewed, and a question in the chat.
StartLive(kind, strategy, day) ==
    /\ caller = Nobody /\ used < Limit /\ kind \in {"agent", "chat"}
    /\ caller' = [kind |-> kind, day |-> IF kind = "chat" THEN Today ELSE day]
    /\ Begin(strategy, 0, {}) /\ order' = NoOrder /\ used' = used + 1 /\ UNCHANGED specs
StartReview(strategy, day, side) ==
    /\ caller = Nobody /\ used < Limit
    /\ caller' = [kind |-> "review", day |-> day, side |-> side]
    /\ Begin(strategy, day, {Context(1..day, day, TRUE, "full_text")})
    /\ order' = NoOrder /\ used' = used + 1 /\ UNCHANGED specs
\* The data has to be new enough; that it may be newer than the day of the run is
\* not asked.
TradeLive(account) ==
    /\ caller.kind = "agent" /\ graph.stage \in {"done", "failed"}
    /\ IF graph.stage = "done" /\ graph.side # "hold" /\ graph.data # 0 /\ caller.day - graph.data <= MaxAge
       THEN Execute(graph, account, Closes[Today], caller.day)
       ELSE UNCHANGED order
    /\ caller' = Nobody /\ graph' = Rest /\ UNCHANGED <<specs, used>>
\* A trade is approved if the analysis comes to the same side.
Review ==
    /\ caller.kind = "review" /\ graph.stage \in {"done", "failed"}
    /\ order' = IF graph.stage = "done" /\ graph.side = caller.side
                THEN [side |-> "approved", day |-> caller.day, decision |-> graph] ELSE NoOrder
    /\ caller' = Nobody /\ graph' = Rest /\ UNCHANGED <<specs, used>>
Show ==
    /\ caller.kind = "chat" /\ graph.stage \in {"done", "failed"}
    /\ caller' = Nobody /\ graph' = Rest /\ UNCHANGED <<specs, order, used>>

Strategies == Names \cup {"none"}
Init ==
    /\ caller = Nobody /\ graph = Rest /\ order = NoOrder /\ used = 0
    /\ specs = [n \in Names |-> [known |-> 0, runs |-> TRUE]]
Next ==
    \/ \E rows \in {{}, 1..Today}, news \in BOOLEAN, web \in {"none", "snippet_only", "full_text"} :
         FetchMarketData(rows, news, web)
    \/ TakeMarketData
    \/ \E analyst \in Analysts, answered \in BOOLEAN : Analyse(analyst, answered)
    \/ Break
    \/ \E answered \in BOOLEAN : Debate(answered)
    \/ \E answered \in BOOLEAN, limit \in Risks : Assess(answered, limit)
    \/ \E answer \in Answers : Decide(answer)
    \/ ManagerFails
    \/ \E strategy \in Strategies, fill \in {"next_open", "same_close"}, bars \in {1..Today, {1, Today}} :
         StartBacktest(strategy, fill, bars)
    \/ \E account \in Accounts : Open(account) \/ Hear(account) \/ TradeLive(account)
    \/ Ask \/ Review \/ Show
    \/ \E kind \in {"agent", "chat"}, strategy \in Strategies, day \in 1..Today : StartLive(kind, strategy, day)
    \/ \E strategy \in Strategies, day \in 1..Today, side \in {"buy", "sell"} : StartReview(strategy, day, side)
Spec == Init /\ [][Next]_vars

-----------------------------------------------------------------------------
TypeOK ==
    /\ caller.kind \in {"none", "backtest", "agent", "chat", "review"}
    /\ graph.stage \in {"none", "data", "analysts", "debate", "risk", "portfolio", "done", "failed"}
    /\ specs \in [Names -> [known : 0..Today, runs : BOOLEAN]]
    /\ order.side \in {"hold", "buy", "sell", "approved"} /\ used \in 0..Limit

\* What leaves the workflow as a purchase has its three prices in order, whichever
\* part of the answer they come from, with reasons and dated evidence, and a size
\* within the limit to a position, if it has one (portfolio_manager.py:386-428).
BuysArePlanned == graph.stage = "done" /\ graph.side = "buy" =>
    /\ 0 < graph.plan.stop /\ Ordered(graph.plan)
    /\ graph.plan.explained /\ graph.plan.evidence = "dated"
    /\ \A s \in graph.size : 0 <= s /\ s <= Max({graph.limit, 0})

\* An analysis as of a day rests on no later one (market_context.py:152), except
\* for a strategy it was told by name that a later analysis has rewritten.
KnowsNothingLater ==
    /\ graph.stage = "done" /\ graph.asof # 0 => graph.known <= graph.asof
    /\ caller.kind = "backtest" => \A d \in caller.pending : d.asof < caller.day \/ caller.at = "close"

\* A backtest trades on the first day after the decision on which the ticker is
\* traded, or at the close it was made from; no purchase takes more than its part
\* of the cash, nor more of the account than may be invested, nor, if it has a
\* size, more than the risk manager allowed; no sale is of shares that are not
\* there (decision_policy.py:44-74).
OrdersFollow ==
    /\ order.side = "buy" =>
         LET cost == order.shares * order.price
             account == order.account
         IN /\ order.shares % Lot = 0 /\ cost * 100 <= account.cash * MaxSingle
            /\ (account.invested + cost) * 100 <= (account.cash + account.invested) * MaxTotal
            /\ \A s \in order.decision.size \ {0} : cost * 100 <= account.cash * Max({order.decision.limit, 0})
    /\ order.side = "sell" => order.shares <= order.account.available
    /\ order.side \in {"buy", "sell"} /\ order.decision.asof # 0 =>
         LET made == order.decision.asof
         IN /\ order.price = IF made = order.day THEN Closes[made] ELSE Opens[order.day]
            /\ caller.kind = "backtest" => ~\E d \in caller.bars : made < d /\ d < order.day

\* Purchases are planned, sized and carried out as they were decided, and what is
\* decided as of a day rests on no later one.
DecisionsAreSound == TypeOK /\ BuysArePlanned /\ OrdersFollow /\ KnowsNothingLater
===============================================================================
