------------------------------ MODULE MCResearch ------------------------------
(* The research side in one run of TLC: the agent loop, the kernel of the       *)
(* harness (Harness), the files agents leave, and the rows of conversations.    *)
(* A behaviour is of one of them; the variables of the others are empty, or     *)
(* stay as they begin.                                                         *)
EXTENDS Harness, TLC

CONSTANTS c1, c2, k1, k2, none, bad, original, branch

VARIABLES part, v1, v2, v3, v4, v5, v6, v7, v8, v9, v10, v11
Shared == <<v1, v2, v3, v4, v5, v6, v7, v8, v9, v10, v11>>

-----------------------------------------------------------------------------
\* A task of the agent: conversations that do not fit as a whole, decisions that
\* read, write by key, set and cancel, two troubles of any kind.
Said(role, size, pending) ==
    [role |-> role, size |-> size, calls |-> {}, answers |-> [kind |-> "none"], pending |-> pending]
Conversed == {
    <<Said("user", 1, FALSE), Said("assistant", 14, FALSE)>>,
    <<Said("user", 1, FALSE), Said("assistant", 2, TRUE), Said("user", 1, FALSE), Said("assistant", 15, FALSE)>>}
Menus == {<<"keyed", "set">>, <<"read", "cancel">>, <<"read", "read">>}
Agent == INSTANCE AgentLoop WITH
    InputLimit <- 24, RecoveryFloor <- 2, Spare <- 1, Envelope <- 2, ToolTokens <- 1,
    Histories <- Conversed, Menu <- Menus, MaxSteps <- 3, MaxCalls <- 3, NeedsTools <- TRUE, Sizes <- {4}, MaxTroubles <- 2,
    thread <- v1, saved <- v2, process <- v3, given <- v4, question <- v5, answer <- v6,
    verdicts <- v7, finished <- v8, effects <- v9, sent <- v10, used <- v11
ASSUME AgentIsSound == Agent!AgentLoopAssumption

\* The kernel: messages of one of these words, or of one that asks for something
\* with one that says of what and names a product by its code.
Asking == {"order", "backtest", "code", "compare", "trend", "screen", "dataset", "announcement", "analyse"}
About == {"portfolio", "holdings", "fund", "fees", "qdii", "money_market", "bond", "concept", "premium"}
Assets == {"stock", "etf", "open_fund", "any"}
MCRequests ==
    [words : {{}} \cup {{word} : word \in Asking \cup About}, asset : Assets, coded : BOOLEAN]
    \cup [words : {{a, b} : a \in Asking, b \in About}, asset : Assets, coded : {TRUE}]

\* Files: of a task or none, with a key or none; one is refused.  A data set with
\* other periods and the report on another subject come with the same key
\* (tools/market_data.py, agents/stock_analysis.py).
File(name, content) == [name |-> name, content |-> content]
Saving(kind, key, task, files) == [kind |-> kind, key |-> key, task |-> task, files |-> files]
Savings == {
    Saving("files", k1, "t", <<File("a", 1), File("b", 1)>>),
    Saving("files", none, "t", <<File("a", 1), File("b", 1)>>),
    Saving("files", none, none, <<File("a", 1), File("b", bad)>>),
    Saving("files", k1, "t", <<File("a", 2)>>),
    Saving("report", k2, "t", <<File("x", 0)>>),
    Saving("report", k2, "t", <<File("z", 0)>>),
    Saving("report", none, "t", <<File("x", 0)>>),
    Saving("binary", none, "t", <<File("y", 1)>>)}
Files == INSTANCE Artifacts WITH
    Callers <- {c1, c2}, Contents <- {1, 2}, NoKey <- none, NoTask <- none, Bad <- bad,
    Limit <- [calls |-> 3, troubles |-> 1],
    Requests <- Savings,
    records <- v1, objects <- v2, call <- v3, begun <- v4, alone <- v5, used <- v6
ASSUME FilesAreSound == Files!ArtifactsAssumption

\* Two requests at once on a conversation and its branch: one is deleted, and the
\* process dies once.
Talks == INSTANCE Conversations WITH
    Started <- {original}, Branches <- {branch}, Callers <- {c1, c2}, MaxSends <- 2,
    Limit <- [crashes |-> 1, deletions |-> 1],
    titles <- v1, messages <- v2, tasks <- v3, traces <- v4, refs <- v5, index <- v6, mirror <- v7,
    threads <- v8, call <- v9, torn <- v10, used <- v11

From6 == v6 = {} /\ v7 = {} /\ v8 = {} /\ v9 = {} /\ v10 = {} /\ v11 = {}
From7 == v7 = {} /\ v8 = {} /\ v9 = {} /\ v10 = {} /\ v11 = {}
Quiet ==
    /\ stage = "none" /\ request = None /\ route = None /\ contract = None /\ skills = None
    /\ plan = None /\ evidence = {} /\ accepted = FALSE
ResearchInit ==
    \/ part = "agent" /\ Agent!Init /\ Quiet
    \/ part = "files" /\ Files!Init /\ From7 /\ Quiet
    \/ part = "talks" /\ Talks!Init /\ Quiet
    \/ /\ part = "kernel" /\ Init
       /\ v1 = {} /\ v2 = {} /\ v3 = {} /\ v4 = {} /\ v5 = {} /\ v6 = {} /\ From7
ResearchNext ==
    /\ UNCHANGED part
    /\ \/ part = "agent" /\ Agent!Next /\ UNCHANGED vars
       \/ part = "files" /\ Files!Next /\ UNCHANGED <<v7, v8, v9, v10, v11, vars>>
       \/ part = "talks" /\ Talks!Next /\ UNCHANGED vars
       \/ part = "kernel" /\ Next /\ UNCHANGED Shared
ResearchSpec == ResearchInit /\ [][ResearchNext]_<<part, Shared, vars>>
Symmetry == Permutations({c1, c2})

-----------------------------------------------------------------------------
\* What the parts promise.
PartsTypeOK == CASE part = "agent" -> Agent!TypeOK
                 [] part = "files" -> Files!TypeOK
                 [] part = "talks" -> Talks!TypeOK
                 [] part = "kernel" -> TypeOK
\* What an agent changes was approved, and happens once; what it calls is answered
\* once, within the steps of its contract.
ActsAsAgreed ==
    part = "agent" => Agent!ActsOnConsent /\ Agent!CallsAreAnswered /\ Agent!WithinSteps
\* What a model is asked fits, and keeps calls and observations together.
ConversationsAreWhole == part = "agent" => Agent!ContextIsWhole
\* Records can be read, a call delivers its own files, and a retry adds none.
FilesAreKept ==
    part = "files" => Files!RecordsAreReadable /\ Files!AnswersAreTheFiles /\ Files!RetriesAddNothing
\* A conversation is in turns, nothing in it loads that no task finishes, a task
\* that began can go on, rows belong to something, and a search finds what users
\* said and nothing else.
TalksAreKept ==
    part = "talks" => /\ Talks!TalksAreInOrder /\ Talks!NothingLoadsForever /\ Talks!TasksCanResume
                      /\ Talks!NoOrphans /\ Talks!SearchIsExact
\* A plain question about one product gets a plan, a plan is ordered, and an answer
\* that has all the evidence can be accepted.  ContractIsKept is Harness's.
RequestsArePlanned == PlansAreOrdered /\ PlainRequestsArePlanned /\ CanBeAccepted
=============================================================================
