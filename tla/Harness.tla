-------------------------------- MODULE Harness --------------------------------
(***************************************************************************)
(* The kernel of the Financial Harness: how a request of the chat becomes a *)
(* contract, a closure of skills, a plan and the tools an agent may call,   *)
(* and when its answer is accepted (harness/, application/task_contract.py, *)
(* application/fund_task_compiler.py, agents/financial_harness_agent.py).   *)
(* A message is the set of the words in it that any of these rules look at. *)
(* What the routing model, the planning model and the tools answer are      *)
(* choices; a ValueError of a stage ends the task.                          *)
(*                                                                         *)
(* A packaged skill provides the one capability of its name that a contract *)
(* may require, and, but for those below, has tools of its own only: they   *)
(* go by its name too.                                                      *)
(***************************************************************************)
EXTENDS Integers, Sequences, FiniteSets, Functions, SequencesExt

CONSTANTS
    Requests,   \* records: the words, the product ("any" when they leave it open), a code is known
    MaxFailing  \* bound: tools of a run that do not deliver

VARIABLES stage, request, route, contract, skills, plan, evidence, accepted
vars == <<stage, request, route, contract, skills, plan, evidence, accepted>>

None == <<>>

-----------------------------------------------------------------------------
(***************************************************************************)
(* The packaged skills, and what makes the registry refuse them.            *)
(***************************************************************************)
Own(dependencies) ==
    [requires |-> dependencies, assets |-> {"stock", "etf", "open_fund"}, not |-> {}, also |-> {},
     bare |-> FALSE, composite |-> FALSE, effects |-> FALSE, checked |-> TRUE]
Listed(dependencies) == [Own(dependencies) EXCEPT !.assets = {"stock", "etf"}]
Stock(dependencies) == [Own(dependencies) EXCEPT !.assets = {"stock"}]
Traded(dependencies) == [Own(dependencies) EXCEPT !.assets = {"etf"}]
\* Skills for open funds name the categories they are for; these leave some out.
Priced == {"money_market", "qdii", "fof"}
Open(dependencies, excluded) == [Own(dependencies) EXCEPT !.assets = {"open_fund"}, !.not = excluded]
Core == <<"market.quote", "market.history", "exchange_fund.nav", "exchange_fund.profile",
          "technical.indicators", "risk.metrics", "exchange_fund.liquidity_cost",
          "exchange_fund.relative_strength">>
OfOpenFunds == {"open_fund.profile", "open_fund.nav", "open_fund.money_yield", "open_fund.fees",
                "open_fund.exposure", "open_fund.relative_strength"}

Names ==
    {"artifact.manage", "methodology.search", "strategy.list", "news.events", "simulation.read", "simulation.write"}
    \cup {"market.dataset", "market.quote", "market.history", "technical.indicators", "risk.metrics",
          "backtest.execute", "strategy.sandbox_research", "stock.comprehensive_analysis"}
    \cup {"exchange_fund.nav", "exchange_fund.profile", "exchange_fund.exposure", "exchange_fund.event_risk",
          "exchange_fund.liquidity_cost", "exchange_fund.relative_strength", "exchange_fund.tracking_quality",
          "exchange_fund.portfolio_fit", "exchange_fund.premium_discount", "exchange_fund.screen_compare",
          "exchange_fund.comprehensive_analysis"}
    \cup OfOpenFunds
    \cup {"open_fund.event_risk", "open_fund.nav_backtest", "open_fund.screen_compare",
          "open_fund.comprehensive_analysis"}
Skills == [skill \in Names |->
    CASE skill = "artifact.manage" -> [Own(<<>>) EXCEPT !.effects = TRUE, !.checked = FALSE]
      [] skill \in {"methodology.search", "strategy.list"} -> [Own(<<>>) EXCEPT !.checked = FALSE]
      [] skill \in {"news.events", "simulation.read"} -> Own(<<>>)
      [] skill = "simulation.write" -> [Own(<<"simulation.read">>) EXCEPT !.effects = TRUE]
      [] skill = "market.dataset" -> Stock(<<>>)
      [] skill = "stock.comprehensive_analysis" -> Stock(<<"market.quote", "market.history">>)
      [] skill \in {"market.quote", "market.history"} -> Listed(<<>>)
      [] skill \in {"technical.indicators", "risk.metrics", "backtest.execute", "strategy.sandbox_research"} ->
            Listed(<<"market.history">>)
      [] skill \in {"exchange_fund.nav", "exchange_fund.profile"} -> Traded(<<>>)
      [] skill = "exchange_fund.exposure" -> Traded(<<"exchange_fund.profile">>)
      [] skill = "exchange_fund.event_risk" -> Traded(<<"exchange_fund.profile", "news.events">>)
      [] skill = "exchange_fund.liquidity_cost" -> Traded(<<"exchange_fund.profile", "market.quote">>)
      [] skill \in {"exchange_fund.relative_strength", "exchange_fund.tracking_quality"} ->
            Traded(<<"exchange_fund.profile", "market.history">>)
      [] skill = "exchange_fund.portfolio_fit" ->
            Traded(<<"exchange_fund.profile", "market.history", "risk.metrics">>)
      [] skill = "exchange_fund.premium_discount" ->
            Traded(<<"exchange_fund.profile", "market.quote", "exchange_fund.nav">>)
      [] skill = "exchange_fund.screen_compare" ->
            Traded(<<"exchange_fund.profile", "exchange_fund.liquidity_cost", "exchange_fund.relative_strength">>)
      [] skill = "exchange_fund.comprehensive_analysis" ->
            [Traded(Core) EXCEPT !.composite = TRUE, !.bare = TRUE]
      [] skill = "open_fund.profile" -> Open(<<>>, {})
      [] skill = "open_fund.fees" -> Open(<<"open_fund.profile">>, {})
      [] skill = "open_fund.event_risk" -> Open(<<"open_fund.profile", "news.events">>, {})
      [] skill \in {"open_fund.nav", "open_fund.exposure"} -> Open(<<"open_fund.profile">>, Priced)
      [] skill = "open_fund.relative_strength" -> Open(<<"open_fund.profile", "open_fund.nav">>, Priced)
      [] skill = "open_fund.nav_backtest" ->
            Open(<<"open_fund.profile", "open_fund.nav", "open_fund.fees">>, Priced)
      [] skill = "open_fund.money_yield" -> Open(<<"open_fund.profile">>, {"bond", "index", "qdii", "fof"})
      [] skill = "open_fund.screen_compare" -> [Open(<<>>, {"qdii", "fof"}) EXCEPT !.also = OfOpenFunds]
      [] skill = "open_fund.comprehensive_analysis" -> [Open(<<>>, {}) EXCEPT
            !.also = OfOpenFunds \cup {"open_fund.event_risk"}, !.bare = TRUE]]
Tools(skill) == Skills[skill].also \cup IF Skills[skill].bare THEN {} ELSE {skill}

\* A skill after what it requires, each once.
Order[skill \in DOMAIN Skills] ==
    FlattenSeq([n \in DOMAIN Skills[skill].requires |-> Order[Skills[skill].requires[n]]]) \o <<skill>>
Once(seq) ==
    FoldLeft(LAMBDA found, item : IF Contains(found, item) THEN found ELSE Append(found, item), <<>>, seq)
RequiredFirst(required) == Once(required \o FlattenSeq([n \in DOMAIN required |-> Order[required[n]]]))
Closure(required) == Once(FlattenSeq([n \in DOMAIN required |-> Order[required[n]]]))
Composed(skill) == IF Skills[skill].composite THEN ToSet(Skills[skill].requires) ELSE {}

\* _validate_components and _validate_dependencies, as far as data may break them.
Loads ==
    \A skill \in DOMAIN Skills :
        /\ ToSet(Skills[skill].requires) \subseteq DOMAIN Skills
        /\ Skills[skill].composite => Tools(skill) = {} /\ Composed(skill) # {}
        /\ \A tool \in Tools(skill) : Skills[tool].effects => Skills[skill].effects
        /\ Skills[skill].assets = {"open_fund"} => \A tool \in Tools(skill) : "open_fund" \in Skills[tool].assets

-----------------------------------------------------------------------------
(***************************************************************************)
(* What a message asks for: AssetRequestResolver and compile_fund_task.     *)
(* The first of a list that matches counts.                                 *)
(***************************************************************************)
Has(words) == request.words \cap words # {}
Asks(word) == word \in request.words
FirstOf(list, Matches(_)) == list[Min({n \in DOMAIN list : Matches(list[n])})]

Mutates == Asks("order")
\* Words that lead to an intent, in the order in which they are looked for.
IntentWords ==
    [backtest |-> {"backtest", "code"}, compare |-> {"compare"}, news |-> {"news"}, history |-> {"trend"},
     quote |-> {"price"}, strategies |-> {"catalog", "code"}, portfolio |-> {"portfolio", "holdings", "account"},
     analyze |-> request.words, none |-> {}]
Inferred ==
    FirstOf(<<"backtest", "compare", "news", "history", "quote", "strategies", "portfolio", "analyze">>,
            LAMBDA intent : intent = "analyze" \/ Has(IntentWords[intent]))

\* Groups of words of compile_fund_task.
FundWords == {"fund", "nav", "fees", "tracking"}
Scenario == {"position", "portfolio"}
Universe == {"screen", "dataset"}
Event == {"announcement"}
Rules == {"method"}
IsFund == request.asset \in {"etf", "open_fund"} \/ Has(FundWords)
FundKind(kind) ==
    CASE kind = "simulation_mutation" -> Mutates
      [] kind = "simulation_query" -> Asks("account")
      [] kind = "backtest" -> Has({"backtest"})
      [] kind = "calculation" -> Asks("calculate") /\ ~Has(Scenario)
      [] kind = "scenario_plan" -> Has(Scenario)
      [] kind = "universe" -> Has(Universe) /\ ~Asks("method")
      [] kind = "event" -> Has(Event) /\ request.coded /\ Asks("latest")
      [] kind = "rule_design" -> Has(Event \cup Rules)
      [] kind = "instrument" -> request.coded /\ Has({"latest", "analyse", "trend", "compare"})
      [] kind = "education" -> TRUE
FundKinds == <<"simulation_mutation", "simulation_query", "backtest", "calculation", "scenario_plan",
               "universe", "event", "rule_design", "instrument", "education">>
\* A product nobody names cannot be researched: the user is asked for it.
Kind ==
    IF ~route.tools \/ ~IsFund THEN "none"
    ELSE LET found == FirstOf(FundKinds, FundKind)
         IN IF found \in {"backtest", "event", "instrument"} /\ ~request.coded THEN "clarification"
            ELSE IF found = "backtest" THEN "instrument" ELSE found
Domain == IF Kind = "none" THEN "none" ELSE IF request.asset = "etf" THEN "exchange_fund" ELSE "open_fund"
Category ==
    IF Kind = "none" THEN "unknown"
    ELSE FirstOf(<<"qdii", "money_market", "bond", "other">>, LAMBDA c : c = "other" \/ Asks(c))
CategoryOf == IF Category # "other" THEN Category ELSE IF Domain = "exchange_fund" THEN "index" ELSE "unknown"
Missing ==
    \/ Kind = "clarification"
    \/ Kind = "universe" /\ Domain = "open_fund" /\ CategoryOf \in {"unknown", "qdii", "fof"}

-----------------------------------------------------------------------------
(***************************************************************************)
(* HarnessTaskCompiler.compile.                                             *)
(***************************************************************************)
NeedsTools == route.tools \/ route.mode = "supervisor_decides"
Etf == request.asset = "etf"
OpenFund == request.asset = "open_fund"
Sandbox == NeedsTools /\ ~OpenFund /\ Asks("code")
Dataset == NeedsTools /\ request.asset = "stock" /\ Asks("dataset")
Catalog == NeedsTools /\ Asks("catalog")
Of(branch) == <<Domain \o "." \o branch>>

ByKind ==
    CASE Kind = "instrument" -> Of("comprehensive_analysis")
      [] Kind = "universe" -> Of("screen_compare")
      [] Kind = "event" -> Of("event_risk")
      [] Kind \in {"education", "rule_design"} -> <<"methodology.search">>
      [] Kind = "scenario_plan" -> <<"risk.metrics">>
      [] Kind = "simulation_query" -> <<"simulation.read">>
      [] Kind = "simulation_mutation" -> <<"simulation.read", "simulation.write">>
      [] OTHER -> <<>>
ByIntent ==
    CASE request.intent = "quote" -> <<"market.quote">>
      [] request.intent = "history" -> <<"market.history">>
      [] request.intent = "news" -> <<"news.events">>
      [] request.intent = "strategies" -> <<"methodology.search">>
      [] request.intent = "portfolio" -> <<"simulation.read">>
      [] request.intent = "backtest" -> <<"market.history", "backtest.execute">>
      [] request.intent = "compare" -> <<"market.quote", "market.history">>
      [] OTHER -> <<>>
Base ==
    LET first == IF Sandbox THEN <<"market.history", "strategy.sandbox_research">>
                 ELSE IF Dataset THEN <<"market.dataset">>
                 ELSE IF Catalog THEN <<"strategy.list">>
                 ELSE IF request.intent = "backtest" /\ ~OpenFund THEN <<"market.history", "backtest.execute">>
                 ELSE ByKind
    IN IF first = <<>> THEN ByIntent ELSE first
Analysed ==
    IF request.intent # "analyze" \/ Kind = "universe" \/ Dataset \/ Catalog THEN Base
    ELSE IF Etf THEN <<"exchange_fund.comprehensive_analysis">>
    ELSE IF OpenFund THEN <<"open_fund.comprehensive_analysis">>
    ELSE Base \o <<"market.quote", "market.history", "technical.indicators", "risk.metrics",
                   "stock.comprehensive_analysis">>

\* Optional branches for listed funds.
Branches ==
    (IF Kind = "event" \/ Has(Event) THEN {"exchange_fund.event_risk"} ELSE {})
    \cup (IF (Kind \notin {"universe", "event"} /\ request.intent = "portfolio") \/ Asks("portfolio")
          THEN {"exchange_fund.portfolio_fit"} ELSE {})
    \cup (IF Has({"premium", "qdii"}) THEN {"exchange_fund.premium_discount"} ELSE {})
    \cup (IF Asks("tracking") THEN {"exchange_fund.tracking_quality"} ELSE {})
    \cup (IF Asks("holdings") THEN {"exchange_fund.exposure"} ELSE {})
ForEtf ==
    Analysed \o SetToSeq(Branches)
        \o IF Kind = "universe" \/ Has({"screen", "candidates"}) THEN <<"exchange_fund.screen_compare">> ELSE <<>>
\* Open funds, which replace what came before and then add.
ForOpenFund ==
    LET main == IF request.intent = "backtest" THEN <<"open_fund.nav_backtest">>
                ELSE IF Kind = "universe" THEN <<"open_fund.screen_compare">>
                ELSE IF Kind = "event" THEN <<"open_fund.event_risk">>
                ELSE IF request.intent = "analyze" THEN <<"open_fund.comprehensive_analysis">>
                ELSE Analysed
        supported == CategoryOf = "bond"
        added == IF Kind # "instrument" THEN <<>>
                 ELSE (IF CategoryOf = "money_market" /\ Has({"yield", "compare"}) THEN <<"open_fund.money_yield">>
                       ELSE IF supported /\ Has({"nav", "trend", "yield"}) THEN <<"open_fund.nav">> ELSE <<>>)
                   \o (IF Asks("fees") THEN <<"open_fund.fees">> ELSE <<>>)
                   \o (IF supported /\ Asks("holdings") THEN <<"open_fund.exposure">> ELSE <<>>)
    IN IF Kind = "scenario_plan" THEN <<"methodology.search">> ELSE main \o added

Forbidden ==
    (IF Domain = "open_fund" THEN {"market.quote", "market.history", "exchange_fund.nav",
                                   "stock.comprehensive_analysis"}
     ELSE IF Domain = "exchange_fund" THEN {"open_fund.nav", "open_fund.money_yield"} ELSE {})
    \cup (IF Etf THEN {"stock.comprehensive_analysis", "open_fund.nav", "open_fund.money_yield",
                       "open_fund.screen_compare"} ELSE {})
    \cup (IF OpenFund THEN {"market.quote", "market.history", "exchange_fund.nav",
                            "exchange_fund.premium_discount", "exchange_fund.liquidity_cost",
                            "stock.comprehensive_analysis"} ELSE {})
    \cup (IF ~Mutates \/ (OpenFund /\ request.mode = "mutation") THEN {"simulation.write"} ELSE {})

\* What cannot be done is not required; nor anything of a trade in open funds.
Required ==
    LET asked == IF ~NeedsTools THEN <<>>
                 ELSE IF Etf THEN ForEtf ELSE IF OpenFund THEN ForOpenFund ELSE Analysed
        all == asked \o (IF route.mode = "artifact_generation" THEN <<"artifact.manage">> ELSE <<>>)
                     \o (IF Mutates THEN <<"simulation.read", "simulation.write">> ELSE <<>>)
    IN IF OpenFund /\ request.mode = "mutation" THEN <<>>
       ELSE Once(SelectSeq(all, LAMBDA item : item \notin Forbidden))

Contract ==
    [required |-> Required, forbidden |-> Forbidden, category |-> CategoryOf,
     evidence |-> route.tools,
     missing |-> Missing \/ (OpenFund /\ request.mode = "mutation"),
     mutations |-> Mutates /\ ~OpenFund,
     ranked |-> Kind = "universe",
     steps |-> IF Sandbox \/ request.intent = "backtest" \/ (Etf /\ NeedsTools /\ Cardinality(Branches) >= 3)
               THEN 20 ELSE 12]

-----------------------------------------------------------------------------
(***************************************************************************)
(* The stages of a task.                                                    *)
(***************************************************************************)
Init ==
    /\ stage = "asked"
    /\ \E asked \in Requests :
          request = [words |-> asked.words, asset |-> asked.asset, coded |-> asked.coded,
                     mode |-> "none", intent |-> "none"]
    /\ route = None /\ contract = None /\ skills = None /\ plan = None
    /\ evidence = {} /\ accepted = FALSE

Become(next) == stage' = next
Fail == Become("failed")

\* resolve_intent: a question about concepts, an open product, a trade, research.
Resolve ==
    /\ stage = "asked"
    /\ IF Asks("concept")
       THEN /\ request' = [request EXCEPT !.mode = "help", !.intent = "help",
                                          !.asset = IF @ = "any" THEN "stock" ELSE @]
            /\ Become("resolved")
       ELSE IF request.asset = "any" THEN Become("clarifying") /\ UNCHANGED request
       ELSE /\ request' = [request EXCEPT !.mode = IF Mutates THEN "mutation" ELSE "research",
                                          !.intent = IF Mutates THEN "analyze" ELSE Inferred]
            /\ Become("resolved")
    /\ UNCHANGED <<route, contract, skills, plan, evidence, accepted>>
\* resume_chat with the answer.
Clarify ==
    /\ stage = "clarifying"
    /\ \E asset \in {"etf", "open_fund"} : request' = [request EXCEPT !.asset = asset]
    /\ Become("asked")
    /\ UNCHANGED <<route, contract, skills, plan, evidence, accepted>>

\* classify_task_execution: the answer of the model, and the rules that correct
\* it.  Without an answer the Supervisor decides.
Modes == {"direct_response", "artifact_generation", "evidence_research", "backtest_execution", "mixed_workflow"}
\* (What it asks of compile_fund_task is asked as if tools were needed.)
Screens == IsFund /\ FirstOf(FundKinds, FundKind) = "universe"
Corrected(answer) ==
    LET first == IF (Screens /\ ~answer.tools) \/ (request.asset = "stock" /\ Asks("dataset")) \/ Asks("catalog")
                 THEN [mode |-> "evidence_research", tools |-> TRUE] ELSE answer
        second == IF Asks("code") /\ (~first.tools \/ first.mode \notin {"backtest_execution", "mixed_workflow"})
                  THEN [mode |-> "backtest_execution", tools |-> TRUE] ELSE first
    IN IF Mutates /\ ~second.tools THEN [mode |-> "mixed_workflow", tools |-> TRUE] ELSE second
Classify ==
    /\ stage = "resolved" /\ Become("routed")
    /\ \/ \E answer \in [mode : Modes, tools : BOOLEAN] : route' = Corrected(answer)
       \/ route' = [mode |-> "supervisor_decides", tools |-> FALSE]
    /\ UNCHANGED <<request, contract, skills, plan, evidence, accepted>>

Compile ==
    /\ stage = "routed" /\ Become("compiled") /\ contract' = Contract
    /\ UNCHANGED <<request, route, skills, plan, evidence, accepted>>

\* SkillSelector.select over SkillRegistry.resolve_capabilities.
Fits(skill) ==
    /\ skill \in DOMAIN Skills
    /\ request.asset \in Skills[skill].assets /\ contract.category \notin Skills[skill].not
Selectable(closure) ==
    /\ Loads
    /\ \A n \in DOMAIN closure : Fits(closure[n]) /\ closure[n] \notin contract.forbidden
    /\ (\E n \in DOMAIN closure : Skills[closure[n]].effects) => contract.mutations
Select ==
    /\ stage = "compiled"
    /\ LET closure == Closure(contract.required)
       IN IF Selectable(closure) THEN skills' = closure /\ Become("selected")
          ELSE Fail /\ UNCHANGED skills
    /\ UNCHANGED <<request, route, contract, plan, evidence, accepted>>

\* deterministic_plan: a step for every skill, for its own capability.
Step(skill) == [skill |-> skill, capability |-> skill, tools |-> Tools(skill),
                after |-> ToSet(Skills[skill].requires)]
Deterministic == [n \in DOMAIN skills |-> Step(skills[n])]
Plan ==
    /\ stage = "selected"
    /\ IF Len(skills) > contract.steps THEN Fail /\ UNCHANGED plan
       ELSE plan' = Deterministic /\ Become("planned")
    /\ UNCHANGED <<request, route, contract, skills, evidence, accepted>>
\* constrained_plan: with six skills a model may answer with another plan.  What
\* validate_candidate lets pass may leave steps out, and may name any required
\* capability for a step.
Valid(steps) ==
    /\ contract.required # <<>> => ToSet(contract.required) \subseteq {steps[n].skill : n \in DOMAIN steps}
    /\ \A n \in DOMAIN steps :
          /\ steps[n].capability \in ToSet(contract.required) \cup {steps[n].skill}
          /\ steps[n].tools \subseteq Tools(steps[n].skill)
          /\ steps[n].after \subseteq {steps[k].skill : k \in DOMAIN steps}
Propose ==
    /\ stage = "planned" /\ plan = Deterministic /\ Len(skills) >= 6
    /\ \E n \in DOMAIN plan :
          \/ \E capability \in ToSet(contract.required) : plan' = [plan EXCEPT ![n].capability = capability]
          \/ plan' = RemoveAt(plan, n)
    /\ Valid(plan')
    /\ UNCHANGED <<stage, request, route, contract, skills, evidence, accepted>>

\* The agent calls its tools; those of another kind of product deliver nothing.
\* A result is evidence for the step its tool belongs to, the last of several.
Bound == UNION {Tools(skills[n]) : n \in DOMAIN skills}
Delivering == {tool \in Bound : contract.category \notin Skills[tool].not}
Steps(tool) == {n \in DOMAIN plan : tool \in plan[n].tools}
LastStep(tool, n) == n \in Steps(tool) /\ \A k \in Steps(tool) : k <= n
Records(delivered) ==
    {[tool |-> serving[1], capability |-> plan[serving[2]].capability] :
        serving \in {s \in delivered \X DOMAIN plan : LastStep(s[1], s[2])}}
Execute ==
    /\ stage = "planned" /\ Become("executed")
    /\ \/ \E failing \in {{}} \cup {Range(f) : f \in [1..MaxFailing -> Delivering]} :
             evidence' = Records(Delivering \ failing)
       \/ evidence' = {}
    /\ UNCHANGED <<request, route, contract, skills, plan, accepted>>

\* covered_capabilities and the validators of the selected skills.
Evident == {record.capability : record \in evidence}
Covered ==
    Evident \cup {skill \in ToSet(skills) : Skills[skill].composite /\ Composed(skill) \subseteq Evident}
Shows(tool) == \E record \in evidence : record.tool = tool
Validated(skill) ==
    /\ Skills[skill].checked /\ contract.evidence => evidence # {}
    /\ skill = "exchange_fund.comprehensive_analysis" /\ Contains(contract.required, skill) =>
          ToSet(Core) \subseteq Evident
    /\ skill = "open_fund.comprehensive_analysis" =>
          /\ Shows("open_fund.profile") /\ Shows("open_fund.fees")
          /\ contract.category = "money_market" => Shows("open_fund.money_yield")
          /\ contract.category \notin {"money_market", "qdii", "unknown"} => Shows("open_fund.nav")
    /\ skill \in {"open_fund.nav_backtest", "open_fund.screen_compare"} => Shows(skill)
    /\ skill = "open_fund.screen_compare" => contract.category \notin {"unknown", "qdii"}
    /\ skill = "exchange_fund.screen_compare" /\ contract.ranked => Shows(skill)
Unevident == \A n \in DOMAIN skills : Validated(skills[n])
Acceptable ==
    /\ \A n \in DOMAIN skills : Validated(skills[n])
    /\ ToSet(contract.required) \subseteq Covered
\* The judge of the answer has to agree.
Judge ==
    /\ stage = "executed" /\ Become("answered")
    /\ \E satisfied \in BOOLEAN : accepted' = (satisfied /\ Acceptable)
    /\ UNCHANGED <<request, route, contract, skills, plan, evidence>>

Next == Resolve \/ Clarify \/ Classify \/ Compile \/ Select \/ Plan \/ Propose \/ Execute \/ Judge
Spec == Init /\ [][Next]_vars

-----------------------------------------------------------------------------
Stages == {"asked", "clarifying", "resolved", "routed", "compiled", "selected", "planned", "executed",
           "answered", "failed"}
TypeOK ==
    /\ stage \in Stages /\ accepted \in BOOLEAN
    /\ ToSet(skills) \subseteq DOMAIN Skills
    /\ evidence \subseteq [tool : DOMAIN Skills, capability : DOMAIN Skills]

Planned == stage \in {"planned", "executed", "answered"}
\* An agent can change the account only when the message asked for a trade, and
\* never for open funds; and no tool it gets serves what its contract forbids.
OnlyWhatWasAsked ==
    Planned => /\ (\E tool \in Bound : Skills[tool].effects) => Mutates /\ request.asset # "open_fund"
               /\ Bound \cap contract.forbidden = {}

\* A plan has what its contract requires, within the budget, and every step comes
\* after the ones it depends on.
PlansAreOrdered ==
    Planned /\ plan = Deterministic =>
        /\ ToSet(contract.required) \subseteq {plan[n].skill : n \in DOMAIN plan}
        /\ Len(plan) <= contract.steps
        /\ \A n \in DOMAIN plan : plan[n].after \subseteq {plan[k].skill : k \in 1..(n - 1)}

\* What is accepted by the deterministic plan has a result of a tool of its own
\* behind every required capability, and behind every part of a composite one.
AcceptedIsEvident ==
    accepted /\ plan = Deterministic =>
        \A n \in DOMAIN contract.required :
            LET capability == contract.required[n]
                parts == IF Skills[capability].composite THEN Composed(capability) ELSE {capability}
            IN \A part \in parts : \E record \in evidence : record.capability = part /\ record.tool \in Tools(part)

\* So an agent keeps to the contract, from its tools to its answer.
ContractIsKept == OnlyWhatWasAsked /\ AcceptedIsEvident

\* When nothing is missing and every tool delivers, the answer can be accepted.
CanBeAccepted ==
    stage = "executed" /\ plan = Deterministic /\ ~contract.missing
        /\ {record.tool : record \in evidence} = Delivering
    => Acceptable

\* A research question about one product, of two words at most, gets a plan.
\* (Artifacts, and concepts asked about together with a trade, do not.)
PlainRequestsArePlanned ==
    stage = "failed" =>
        \/ route.mode = "artifact_generation"
        \/ request.asset = "stock" /\ IsFund
        \/ request.asset = "open_fund" /\ Has({"qdii", "money_market"})
        \/ request.mode = "help"
        \/ Etf /\ Mutates
=============================================================================
