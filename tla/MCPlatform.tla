------------------------------ MODULE MCPlatform ------------------------------
(* Parts of the system that do not meet, in one run of TLC.  A behaviour is of *)
(* one of them, so that they can share the variables v1 to v10; the variables  *)
(* it does not need are empty, or hold a parameter that does not change.  The  *)
(* breaker of the market data is MarketData itself.                            *)
EXTENDS MarketData, Sequences, FiniteSets, TLC

CONSTANTS j, q, r, p, o1, o2, c1, c2, s1, s2

VARIABLES part, v1, v2, v3, v4, v5, v6, v7, v8, v9, v10
Shared == <<v1, v2, v3, v4, v5, v6, v7, v8, v9, v10>>

\* Services of one process.
Stream == INSTANCE ChatStream WITH
    Pages <- {p}, MaxParts <- 2, Limit <- [cancels |-> 1, answers |-> 1, crashes |-> 1, drops |-> 1],
    status <- v1, message <- v2, parts <- v3, log <- v4, emitted <- v5, writer <- v6, lock <- v7,
    canceller <- v8, page <- v9, used <- v10
\* The process dies or a page loses its connection, but not both.
CrashOrDrop == v10.crashes = 0 \/ v10.drops = 0
BacktestJobs == INSTANCE BacktestJobs WITH
    Jobs <- {j}, Readers <- {q, r}, MaxProgress <- 2,
    status <- v1, begun <- v2, events <- v3, reader <- v4, direct <- v5, serving <- v6
Events == INSTANCE SimulationEvents WITH
    Sockets <- {p}, QueueSize <- 2, MaxEvents <- 5, count <- v1, socket <- v2, lost <- v3

\* Two calls on an account at once, calls that take turns, and an account that
\* mirrors a terminal.
Account == INSTANCE SimulationAccount WITH
    Orders <- {o1, o2}, Callers <- {c1, c2}, LastDate <- 1,
    Limit <- [calls |-> 5, resets |-> 0, crashes |-> 0],
    doc <- v1, rows <- v2, call <- v3, used <- v4
Turns == INSTANCE SimulationAccount WITH
    Orders <- {o1, o2}, Callers <- {c1}, LastDate <- 1,
    Limit <- [calls |-> 6, resets |-> 2, crashes |-> 2],
    doc <- v1, rows <- v2, call <- v3, used <- v4
\* A call is cut short, or the account is reset, but not both.
ResetOrCrash == v4.resets = 0 \/ v4.crashes = 0
Book == INSTANCE OrderBook WITH
    Orders <- {o1, o2},
    fate <- [o \in {o1, o2} |-> IF part = "turns" THEN Turns!FateOf(o) ELSE "none"]
Mirror == INSTANCE BrokerMirror WITH
    Orders <- {o1}, Syncs <- {s1, s2}, Parts <- 2,
    local <- v1, inbox <- v2, remote <- v3, executed <- v4, account <- v5, sync <- v6

\* Market data: two requests that overlap.
History == INSTANCE HistoryCache WITH
    Callers <- {c1, c2}, Asks <- {<<1, 2>>, <<2, 5>>, <<1, 5>>}, Trading <- {1, 2, 3, 5},
    Cutoff <- 4, MaxVersion <- 1,
    version <- v1, manifest <- v2, known <- v3, writer <- v4, call <- v5
\* Its ranges are those of the loops.
Loops == INSTANCE HistoryRanges
Ranges == (1..4) \X (1..4)
ASSUME HistoryDays == History!DaysAreNumbers
ASSUME RangesAreMerged ==
    \A n \in 0..3 : \A list \in [1..n -> Ranges] :
        /\ Loops!ToSet(Loops!Merge(list)) = History!MergeRanges(Loops!ToSet(list))
        /\ \A ask \in {<<1, 4>>, <<2, 3>>, <<3, 2>>} :
              Loops!ToSet(Loops!Missing(ask, list)) = History!MissingRanges(ask, Loops!ToSet(list))

\* What a portfolio manager's model may answer: plans with a flaw each, prices
\* beside them that mend or spoil them, sizes, and strategies of its own.
Reasoned == [entry |-> 4, stop |-> 3, take |-> 6, explained |-> TRUE, evidence |-> "dated"]
NoPlan == [entry |-> 0, stop |-> 0, take |-> 0, explained |-> FALSE, evidence |-> "none"]
Beside(e, s, t) == [entry |-> e, stop |-> s, take |-> t]
Nothing == Beside(0, 0, 0)
Answer(side, told, top, size, names, runs) ==
    [side |-> side, plan |-> told, top |-> top, size |-> size, names |-> names, runs |-> runs]
MCAnswers ==
    {Answer("buy", Reasoned, Nothing, size, "none", TRUE) : size \in {{}, {-5}, {10}, {50}}}
    \cup {Answer("buy", told, Nothing, {50}, "none", TRUE) :
             told \in {[Reasoned EXCEPT !.evidence = "undated"], [Reasoned EXCEPT !.explained = FALSE]}}
    \cup {Answer("buy", told, top, {50}, "none", TRUE) :
             told \in {Reasoned, [Reasoned EXCEPT !.stop = 0], [Reasoned EXCEPT !.stop = 5]},
             top \in {Nothing, Beside(2, 0, 0), Beside(5, 4, 0), Beside(0, 0, 3)}}
    \cup {Answer("sell", told, Nothing, {}, "none", TRUE) : told \in {Reasoned, NoPlan, [Reasoned EXCEPT !.stop = 5]}}
    \cup {Answer("unreadable", Reasoned, Nothing, {}, names, FALSE) : names \in {"none", "trend"}}
    \cup {Answer("hold", NoPlan, Nothing, {}, "trend", runs) : runs \in BOOLEAN}
Holdings == {
    [cash |-> 100, invested |-> 0, available |-> 0], [cash |-> 40, invested |-> 60, available |-> 5],
    [cash |-> 50, invested |-> 450, available |-> 4]}
Deciding == INSTANCE Analysis WITH
    Today <- 3, Opens <- <<4, 6, 3>>, Closes <- <<5, 5, 4>>, Interval <- 1, MaxAge <- 1,
    Names <- {"trend"}, Answers <- MCAnswers, Risks <- {0, 10, 30}, Lot <- 2,
    Accounts <- Holdings,
    DefaultSize <- 20, MaxSingle <- 20, MaxTotal <- 95, Limit <- 2,
    caller <- v1, graph <- v2, specs <- v3, order <- v4, used <- v5
ASSUME DecidingIsSound == Deciding!AnalysisAssumption

\* Backtests: a strategy under some policies and runs, and pools in their modes.
Policies ==
    {[entry |-> 1, exit |-> -1, conflict |-> conflict, cooldown |-> 2, min |-> 0, max |-> 2,
      increase |-> 2, decrease |-> 1, change |-> 1, loss |-> 2, gain |-> 3] :
        conflict \in {"hold", "reduce", "exit", "score"}}
Runs == [interval : {1, 2}, frequency : {1, 2}, fill : {"next_open", "same_close"}, warmup : {1}, seeded : BOOLEAN]
Single == INSTANCE Backtest WITH
    Full <- 3, Scores <- {-1, 0, 1}, Prices <- {1, 3, 5}, LastDay <- 5,
    day <- v1, exposure <- v2, memory <- v3, pending <- v4, calm <- v5, stop <- v6, due <- v7,
    policy <- v8, run <- v9
ASSUME SinglesAreSound == Single!BacktestAssumption
Modes == {"pool", "portfolio", "strategy"}
FillTimes == {"next_open", "same_close"}
Pool == INSTANCE PoolBacktest WITH
    Symbols <- {1, 2}, Interval <- 1, Frequency <- 2, MaxPositions <- 1, LastDay <- 3,
    day <- v1, bars <- v2, held <- v3, pending <- v4, asked <- v5, target <- v6, stranded <- v7,
    mode <- v8, fill <- v9
ASSUME PoolsAreSound == Pool!PoolBacktestAssumption

\* Histories a source may return for a period from the second day on: whole, out
\* of order, doubled in it or before it, short, undated, unsound in it or before
\* it.
Row(day) == [day |-> day, sound |-> TRUE]
Unsound(day) == [day |-> day, sound |-> FALSE]
RowsOf(days) == [i \in DOMAIN days |-> Row(days[i])]
ReturnedHistories ==
    {RowsOf(<<2, 3, 4, 5, 6>>), RowsOf(<<4, 3, 2, 6>>), RowsOf(<<2, 3, 3, 4, 5>>), RowsOf(<<1, 1, 6>>),
     RowsOf(<<2, 3>>), RowsOf(<<0, 2, 3, 4>>), <<Unsound(1), Row(2), Row(3), Row(4), Row(5)>>,
     <<Row(2), Unsound(3), Row(4)>>}
\* What becomes of a request for a strategy; or of three requests, for the registry.
Lab == INSTANCE StrategyLab WITH
    Names <- {"a"}, Histories <- ReturnedHistories, Period <- 2..6, MinRows <- 3, EnoughRows <- 4, EnoughDays <- 3,
    MinPrefix <- 2, Peeks <- [1..5 -> {0, 2}], Limit <- [requests |-> 1, deaths |-> 1],
    job <- v1, registry <- v2, files <- v3, experiments <- v4, candidates <- v5, kept <- v6, used <- v7
Shelf == INSTANCE StrategyLab WITH
    Names <- {"a", "b"}, Histories <- {RowsOf(<<2, 3, 4>>)}, Period <- 2..6, MinRows <- 3, EnoughRows <- 4,
    EnoughDays <- 3, MinPrefix <- 2, Peeks <- {}, Limit <- [requests |-> 3, deaths |-> 2],
    job <- v1, registry <- v2, files <- v3, experiments <- v4, candidates <- v5, kept <- v6, used <- v7
ASSUME LabsAreSound == Lab!StrategyLabAssumption /\ Shelf!StrategyLabAssumption

From8 == v8 = {} /\ v9 = {} /\ v10 = {}
From7 == v7 = {} /\ From8
From6 == v6 = {} /\ From7
From5 == v5 = {} /\ From6
From4 == v4 = {} /\ From5
PlatformInit ==
    /\ Init
    /\ \/ part = "breaker" /\ v1 = {} /\ v2 = {} /\ v3 = {} /\ From4
       \/ part = "stream" /\ Stream!Init
       \/ part = "jobs" /\ BacktestJobs!Init /\ From7
       \/ part = "events" /\ Events!Init /\ From4
       \/ part = "account" /\ Account!Init /\ From5
       \/ part = "turns" /\ Turns!Init /\ From5
       \/ part = "mirror" /\ Mirror!Init /\ From7
       \/ part = "history" /\ History!Init /\ From6
       \/ part = "decisions" /\ Deciding!Init /\ From6
       \/ part = "lab" /\ Lab!Init /\ From8
       \/ part = "shelf" /\ Shelf!Init /\ From8
       \/ part = "single" /\ Single!Init /\ v10 = {}
       \/ part = "pool" /\ Pool!Init /\ v10 = {}
PartNext ==
    /\ UNCHANGED <<part, vars>>
    /\ \/ part = "stream" /\ Stream!Next /\ CrashOrDrop'
       \/ part = "jobs" /\ BacktestJobs!Next /\ UNCHANGED <<v7, v8, v9, v10>>
       \/ part = "events" /\ Events!Next /\ UNCHANGED <<v4, v5, v6, v7, v8, v9, v10>>
       \/ part = "account" /\ Account!Next /\ UNCHANGED <<v5, v6, v7, v8, v9, v10>>
       \/ part = "turns" /\ Turns!Next /\ ResetOrCrash' /\ UNCHANGED <<v5, v6, v7, v8, v9, v10>>
       \/ part = "mirror" /\ Mirror!Next /\ UNCHANGED <<v7, v8, v9, v10>>
       \/ part = "history" /\ History!Next /\ UNCHANGED <<v6, v7, v8, v9, v10>>
       \/ part = "decisions" /\ Deciding!Next /\ UNCHANGED <<v6, v7, v8, v9, v10>>
       \/ part = "lab" /\ Lab!Next /\ UNCHANGED <<v8, v9, v10>>
       \/ part = "shelf" /\ Shelf!Next /\ UNCHANGED <<v8, v9, v10>>
       \/ part = "single" /\ Single!Next /\ UNCHANGED v10
       \/ part = "pool" /\ Pool!Next /\ UNCHANGED v10
PlatformNext ==
    \/ PartNext
    \/ part = "breaker" /\ Next /\ UNCHANGED <<part, Shared>>
PlatformSpec == PlatformInit /\ [][PlatformNext]_<<part, Shared, vars>>

\* What the parts promise.
PartsTypeOK ==
    CASE part = "stream" -> Stream!TypeOK
      [] part = "jobs" -> BacktestJobs!TypeOK
      [] part = "events" -> Events!TypeOK
      [] part = "account" -> Account!TypeOK
      [] part = "turns" -> Turns!TypeOK
      [] part = "mirror" -> Mirror!TypeOK
      [] part = "history" -> History!TypeOK
      [] part = "breaker" -> TypeOK
      [] part = "decisions" -> Deciding!TypeOK
      [] part = "lab" -> Lab!TypeOK
      [] part = "shelf" -> Shelf!TypeOK
      [] part = "single" -> Single!TypeOK
      [] part = "pool" -> Pool!TypeOK
\* A page shows the log of its task, and the end of it last; a stream of a
\* backtest ends with everything that happened in it; a socket sends events in
\* order and skips none but those it lost.
StreamsAreComplete ==
    /\ part = "stream" => Stream!ShowsTheLog /\ Stream!DoneIsLast
    /\ part = "jobs" => BacktestJobs!StreamsAreComplete /\ BacktestJobs!DirectIsComplete
    /\ part = "events" => Events!SentInOrder /\ Events!NothingElseSkipped
\* What is booked was decided, by calls at once as well; of calls that take turns,
\* an order is booked once, and once more for every crash at most, and one that
\* says it is filled is booked.
AccountsAreBooked ==
    /\ part = "account" => Account!BookedIsDecided
    /\ part = "turns" => Turns!BookedOnce /\ Turns!FilledIsBooked
\* The trades of calls that take turns keep the promise of OrderBook.
KeepsTheBook == Book!Spec
\* A mirror invents nothing, and an undisturbed synchronisation makes it equal.
MirrorIsFaithful == part = "mirror" => Mirror!MirrorIsFaithful
\* What the cache calls covered is there once, and every answer is whole.
HistoryIsWhole == part = "history" => History!CoveredIsStored /\ History!AnswersAreWhole
\* Confirmed history is never lost or revised.
HistoryStays == [][part = "history" => v2.rows \subseteq v2'.rows]_<<part, Shared>>
\* BreakerRecovers is MarketData's.
\* Stop-losses stay armed and exits are traded; decisions of a pool are traded
\* at the next bar within its positions.
BacktestsTrade ==
    /\ part = "single" => Single!StaysArmed /\ Single!ExitsAreCarriedOut
    /\ part = "pool" => Pool!TradedAtNextBar /\ Pool!WithinPositions
\* Purchases are planned, sized and carried out as they were decided, and what is
\* decided as of a day rests on no later one.
DecisionsAreSound == part = "decisions" => Deciding!DecisionsAreSound
\* What a person may review was earned in the sandbox; a saved experiment has all it
\* rests on, and a registered strategy is known until its file is torn.
VerdictsAreEarned ==
    /\ part = "lab" => Lab!CandidatesAreEarned /\ Lab!ExperimentsAreWhole
    /\ part = "shelf" => Shelf!ExperimentsAreWhole /\ Shelf!StrategiesAreKept
=============================================================================
