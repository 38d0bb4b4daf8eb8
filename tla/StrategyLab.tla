------------------------------ MODULE StrategyLab ------------------------------
(* Strategies a language model makes: designed, repaired once, kept in a file    *)
(* and run as an experiment; or written as code, tried in a sandbox, compared    *)
(* with the strategy they are said to be, and saved as a candidate.  Requests    *)
(* come one after the other, and the process may die between any two steps.      *)
EXTENDS Integers, Sequences, FiniteSets, FiniteSetsExt

CONSTANTS
    Names,      \* of strategies
    Histories,  \* what a source may return: sequences of rows
    Period,     \* the days that were asked for
    MinRows, EnoughRows, EnoughDays, MinPrefix,
    Peeks,      \* how far ahead of a day the code may look, by day
    Limit       \* of requests and deaths

Rows == [day : Nat, sound : BOOLEAN]
StrategyLabAssumption ==
    /\ Histories \subseteq Seq(Rows)
    /\ \A rows \in Histories, peek \in Peeks :
          DOMAIN rows \subseteq DOMAIN peek /\ \A i \in DOMAIN peek : peek[i] \in Nat
    /\ MinPrefix \in Nat /\ Limit.requests \in Nat /\ Limit.deaths \in Nat

VARIABLES
    job,         \* the request in progress
    registry,    \* strategies: in memory, in the file, and whether it is torn
    files,       \* of experiments
    experiments, candidates,
    kept,        \* what was registered since the file was last torn
    used
vars == <<job, registry, files, experiments, candidates, kept, used>>

Idle == [stage |-> "none"]

-----------------------------------------------------------------------------
\* Rows that are safe to use: prepare_backtest_data refuses the whole history or
\* returns the days asked for in order.  Day 0 is not a date.
Prepared(rows) ==
    LET asked == {i \in DOMAIN rows : rows[i].day \in Period}
        Usable ==
            /\ Len(rows) >= MinRows
            /\ \A i \in DOMAIN rows : rows[i].day # 0
            /\ asked # {}
            /\ \A i, k \in asked : i # k => rows[i].day # rows[k].day
            /\ \A i \in asked : rows[i].sound
        Before(i) == Cardinality({k \in asked : rows[k].day < rows[i].day})
    IN IF Usable THEN [n \in 1..Cardinality(asked) |-> rows[CHOOSE i \in asked : Before(i) = n - 1]] ELSE <<>>

-----------------------------------------------------------------------------
\* Experiments.
Modes == {"auto", "single", "pool", "portfolio"}
ModeFor(mode, count) == IF mode # "auto" THEN mode ELSE IF count = 1 THEN "single" ELSE "pool"
ModeFits(mode, count) == /\ mode = "single" => count = 1
                         /\ mode \in {"pool", "portfolio"} => count >= 2
\* A strategy may be given: it is validated, and is not put into the registry.
AskExperiment(mode, count, given, rules) ==
    /\ job = Idle /\ used.requests < Limit.requests
    /\ used' = [used EXCEPT !.requests = @ + 1]
    /\ LET actual == ModeFor(mode, count)
           Started(stage) ==
               [stage |-> stage, id |-> used'.requests, mode |-> actual, count |-> count, valid |-> given = "valid",
                rules |-> IF actual = "portfolio" /\ rules THEN "given" ELSE "none", data |-> {}]
       IN job' = IF ~ModeFits(actual, count) \/ given = "invalid" THEN Idle
                 ELSE Started(IF given = "none" THEN "design" ELSE "rules")
    /\ UNCHANGED <<registry, files, experiments, candidates, kept>>

\* What a model answers is validated, and one repair is asked for; a strategy of
\* another kind of asset is refused without one.
Design(answer) ==
    /\ job.stage \in {"design", "repair"}
    /\ job' = CASE answer = "prose" -> Idle
                [] answer = "invalid" -> IF job.stage = "design" THEN [job EXCEPT !.stage = "repair"] ELSE Idle
                [] answer = "valid" -> [job EXCEPT !.stage = "fitting", !.valid = TRUE]
    /\ UNCHANGED <<registry, files, experiments, candidates, kept, used>>
\* The map in memory is written whole over the file, which is not replaced at
\* once: the process may die in between.
Register(name, fits) ==
    /\ job.stage = "fitting"
    /\ job' = IF fits THEN [job EXCEPT !.stage = "rules"] ELSE Idle
    /\ LET memory == registry.memory \cup {name}
       IN IF fits THEN /\ registry' = [memory |-> memory, file |-> memory, torn |-> FALSE]
                       /\ kept' = kept \cup {name}
          ELSE UNCHANGED <<registry, kept>>
    /\ UNCHANGED <<files, experiments, candidates, used>>
DieInRegister ==
    /\ job.stage = "fitting" /\ used.deaths < Limit.deaths
    /\ registry' = [memory |-> {}, file |-> {}, torn |-> TRUE] /\ kept' = {}
    /\ job' = Idle /\ used' = [used EXCEPT !.deaths = @ + 1]
    /\ UNCHANGED <<files, experiments, candidates>>
\* Rules of a portfolio are given, or designed without a repair.
Rules(answer) ==
    /\ job.stage = "rules"
    /\ job' = IF job.mode # "portfolio" \/ job.rules = "given" THEN [job EXCEPT !.stage = "run"]
              ELSE IF answer = "valid" THEN [job EXCEPT !.stage = "run", !.rules = "designed"] ELSE Idle
    /\ UNCHANGED <<registry, files, experiments, candidates, kept, used>>

\* A history that is refused gives an empty result, not a failure; a pool leaves
\* it out.
Run(histories) ==
    /\ job.stage = "run" /\ Len(histories) = job.count
    /\ job' = [job EXCEPT !.stage = "publish",
                           !.data = {Prepared(histories[i]) : i \in DOMAIN histories} \ {<<>>}]
    /\ UNCHANGED <<registry, files, experiments, candidates, kept, used>>
FilesOf(j) ==
    {"report", "result", "trades", "source"}
    \cup (IF j.data # {} THEN {"history"} ELSE {})
    \cup (IF j.rules # "none" /\ j.data # {} THEN {"holdings", "weights", "attribution"} ELSE {})
Publish ==
    /\ job.stage = "publish" /\ job' = [job EXCEPT !.stage = "save"]
    /\ files' = files \cup ({job.id} \X FilesOf(job))
    /\ UNCHANGED <<registry, experiments, candidates, kept, used>>
Save ==
    /\ job.stage = "save" /\ job' = Idle
    /\ experiments' = experiments \cup
          {[id |-> job.id, mode |-> job.mode, count |-> job.count, valid |-> job.valid, rules |-> job.rules,
            data |-> job.data, files |-> FilesOf(job)]}
    /\ UNCHANGED <<registry, files, candidates, kept, used>>

-----------------------------------------------------------------------------
\* Candidates.  Code looks some days ahead of each, and may draw lots; it may be
\* refused as a text.  The strategy that comes with it is the same, another, or
\* none that can be read.
Codes == [peek : Peeks, moody : BOOLEAN, legal : BOOLEAN]
AskCandidate ==
    /\ job = Idle /\ used.requests < Limit.requests
    /\ used' = [used EXCEPT !.requests = @ + 1]
    /\ job' = [stage |-> "write", id |-> used'.requests]
    /\ UNCHANGED <<registry, files, experiments, candidates, kept>>
Write(code, strategy) ==
    /\ job.stage = "write"
    /\ job' = [stage |-> "data", id |-> job.id, code |-> code, strategy |-> strategy, data |-> <<>>, runs |-> <<>>]
    /\ UNCHANGED <<registry, files, experiments, candidates, kept, used>>
\* No text, no data, or a text that is refused: the request fails and saves nothing.
NoText == job.stage = "write" /\ job' = Idle /\ UNCHANGED <<registry, files, experiments, candidates, kept, used>>
Fetch(rows) ==
    /\ job.stage = "data"
    /\ job' = IF Prepared(rows) = <<>> \/ ~job.code.legal THEN Idle
              ELSE [job EXCEPT !.stage = "try", !.data = Prepared(rows)]
    /\ UNCHANGED <<registry, files, experiments, candidates, kept, used>>

\* The sandbox runs the code twice on all rows and once on each of two prefixes.
\* A target shows the last day it was made from and the lot that was drawn.
Targets(code, rows, lot) ==
    [i \in 1..rows |-> [seen |-> Min({i + code.peek[i], rows}), lot |-> IF code.moody THEN lot ELSE 0]]
Prefix(rows, quarters) == Min({rows, Max({MinPrefix, (rows * quarters) \div 4})})
WholeOnly(rows) == <<rows, rows, rows, rows>>
Sizes(rows) == <<rows, rows, Prefix(rows, 2), Prefix(rows, 3)>>
SameStart(run, first) == run = SubSeq(first, 1, Len(run))
Causal(runs) == \A i \in 3..Len(runs) : SameStart(runs[i], runs[1])
Deterministic(runs) == runs[1] = runs[2]
Tried(runs) == Len(runs) = 4 \/ (Len(runs) = 3 /\ ~Causal(runs))
Try(lot) ==
    /\ job.stage = "try" /\ ~Tried(job.runs)
    /\ LET rows == Len(job.data)
       IN job' = [job EXCEPT !.runs = Append(@, Targets(job.code, Sizes(rows)[Len(@) + 1], lot))]
    /\ UNCHANGED <<registry, files, experiments, candidates, kept, used>>

\* What the strategy that comes with the code would do on these rows: it is given
\* the days up to each one.
Meant(strategy, rows) ==
    CASE strategy = "same" -> [i \in 1..rows |-> [seen |-> i, lot |-> 0]]
      [] strategy = "other" -> [i \in 1..rows |-> [seen |-> i, lot |-> IF i = rows THEN 2 ELSE 0]]
      [] OTHER -> <<>>
\* Targets of a day are traded at the opening of the next.
Replayed(first) == [i \in 2..Len(first) |-> first[i - 1]]
Judge(runs) ==
    LET first == IF runs = <<>> THEN <<>> ELSE runs[1]
        passed == runs # <<>> /\ Deterministic(runs) /\ Causal(runs)
        equivalent == passed /\ first = Meant(job.strategy, Len(job.data))
        days == job.data[Len(job.data)].day - job.data[1].day
        sufficient == Len(job.data) >= EnoughRows /\ days >= EnoughDays
    IN /\ candidates' = candidates \cup
             {[id |-> job.id, status |-> IF passed /\ equivalent /\ sufficient THEN "validated" ELSE "draft",
               passed |-> passed, strategy |-> job.strategy, data |-> job.data, first |-> first,
               traded |-> IF passed THEN Replayed(first) ELSE <<>>]}
       /\ job' = Idle /\ UNCHANGED <<registry, files, experiments, kept, used>>
Conclude == job.stage = "try" /\ Tried(job.runs) /\ Judge(job.runs)
\* A run that takes too long, fails, or returns something else ends the trial.
ChildFails == job.stage = "try" /\ ~Tried(job.runs) /\ Judge(<<>>)

-----------------------------------------------------------------------------
\* The process dies and starts again: it reads the registry from its file.
Die ==
    /\ used.deaths < Limit.deaths /\ job # Idle
    /\ used' = [used EXCEPT !.deaths = @ + 1]
    /\ registry' = [registry EXCEPT !.memory = IF registry.torn THEN {} ELSE registry.file]
    /\ job' = Idle /\ UNCHANGED <<files, experiments, candidates, kept>>

Init ==
    /\ job = Idle /\ registry = [memory |-> {}, file |-> {}, torn |-> FALSE]
    /\ files = {} /\ experiments = {} /\ candidates = {} /\ kept = {}
    /\ used = [requests |-> 0, deaths |-> 0]
Next ==
    \/ \E mode \in Modes, count \in 1..2, given \in {"none", "valid", "invalid"}, rules \in BOOLEAN :
         AskExperiment(mode, count, given, rules)
    \/ \E answer \in {"prose", "invalid", "valid"} : Design(answer)
    \/ \E name \in Names, fits \in BOOLEAN : Register(name, fits)
    \/ DieInRegister
    \/ \E answer \in {"valid", "invalid"} : Rules(answer)
    \/ \E histories \in [1..1 -> Histories] \cup [1..2 -> Histories] : Run(histories)
    \/ Publish \/ Save
    \/ AskCandidate \/ NoText
    \/ \E code \in Codes, strategy \in {"same", "other", "unreadable"} : Write(code, strategy)
    \/ \E rows \in Histories : Fetch(rows)
    \/ \E lot \in {0, 1} : Try(lot)
    \/ Conclude \/ ChildFails \/ Die
Spec == Init /\ [][Next]_vars

-----------------------------------------------------------------------------
TypeOK ==
    /\ job.stage \in {"none", "design", "repair", "fitting", "rules", "run", "publish", "save", "write", "data", "try"}
    /\ registry \in [memory : SUBSET Names, file : SUBSET Names, torn : BOOLEAN]
    /\ \A f \in files : f[1] \in 1..Limit.requests
    /\ \A e \in experiments : e.id \in 1..Limit.requests /\ e.mode \in Modes
    /\ \A c \in candidates : c.id \in 1..Limit.requests /\ c.status \in {"draft", "validated"}
    /\ kept \subseteq Names
    /\ used.requests \in 0..Limit.requests /\ used.deaths \in 0..Limit.deaths

InOrder(data) == \A i, k \in DOMAIN data : i < k => data[i].day < data[k].day
Clean(data) == InOrder(data) /\ \A i \in DOMAIN data : data[i].day \in Period /\ data[i].sound

\* A candidate that may be reviewed knows no day before it is over, draws no
\* lots, and has the history; one that passed the sandbox at least carries
\* nothing across the days the prefixes end on; and what is traded on a day was
\* decided before it.
Earned(c) ==
    /\ c.status = "validated" =>
         /\ c.passed /\ c.strategy = "same" /\ Len(c.data) >= EnoughRows
         /\ \A i \in DOMAIN c.first : c.first[i].seen <= i /\ c.first[i].lot = 0
         /\ \A i \in DOMAIN c.traded : c.traded[i].seen < i
    /\ c.passed => \A quarters \in {2, 3} :
         LET cut == Prefix(Len(c.data), quarters)
         IN \A i \in 1..cut : c.first[i].seen <= cut
    /\ c.traded # <<>> => c.passed
    /\ Clean(c.data)
CandidatesAreEarned == \A c \in candidates : Earned(c)

\* An experiment that is saved has its files, a strategy that was validated, on
\* rows that may be used, in the mode that fits its symbols; a death leaves files
\* without an experiment, never the contrary.
Whole(e) ==
    /\ e.valid
    /\ e.count = 1 => e.mode = "single"
    /\ e.count >= 2 => e.mode \in {"pool", "portfolio"}
    /\ e.rules = "none" <=> e.mode # "portfolio"
    /\ \A rows \in e.data : Clean(rows)
    /\ "history" \in e.files <=> e.data # {}
ExperimentsAreWhole == \A e \in experiments : Whole(e) /\ {e.id} \X e.files \subseteq files

\* A strategy that was registered is known until the file is torn.
StrategiesAreKept == kept \subseteq registry.memory /\ (registry.torn => registry.memory = {})
=============================================================================
