---------------------------- MODULE ResearchProofs ----------------------------
(***************************************************************************)
(* The kernel of the Financial Harness, for every message (any set of words, *)
(* product and code), every answer of the routing and the planning model     *)
(* and every tool that fails: an agent can do only what was asked for, and   *)
(* what is accepted has evidence.  Then the other parts of the research     *)
(* side, which are proved about in StorageProofs (files), ChatStreamProofs   *)
(* (conversations) and ChatTaskProofs (the agent): an instance of the proofs *)
(* takes the variables of its part, and what they establish for every value  *)
(* of the constants holds of the part that TLC checks.                      *)
(***************************************************************************)
EXTENDS MCResearch, TLAPS

\* Only skills of open funds have tools that are not their own, all of them for
\* open funds.
LEMMA ToolsOfOthers ==
    ASSUME NEW skill \in DOMAIN Skills, Skills[skill].also # {}
    PROVE  /\ Skills[skill].assets = {"open_fund"}
           /\ Skills[skill].also \subseteq OfOpenFunds \cup {"open_fund.event_risk"}
<1> DEFINE Screening == "open_fund.screen_compare"
           Analysing == "open_fund.comprehensive_analysis"
<1>1. skill \in Names  BY DEF Skills
<1>2. /\ \A requires : Own(requires).also = {} /\ Listed(requires).also = {} /\ Stock(requires).also = {}
      /\ \A requires : Traded(requires).also = {}
      /\ \A requires, excluded : Open(requires, excluded).also = {}
      /\ [Own(<<>>) EXCEPT !.effects = TRUE, !.checked = FALSE].also = {}
      /\ [Own(<<>>) EXCEPT !.checked = FALSE].also = {}
      /\ [Own(<<"simulation.read">>) EXCEPT !.effects = TRUE].also = {}
      /\ [Traded(Core) EXCEPT !.composite = TRUE, !.bare = TRUE].also = {}
  BY DEF Own, Listed, Stock, Traded, Open
<1>3. skill \notin {Screening, Analysing} => Skills[skill].also = {}
  BY <1>1, <1>2 DEF Skills, Names, OfOpenFunds
<1>4. CASE skill = Screening
  <2>1. Skills[skill] = [Open(<<>>, {"qdii", "fof"}) EXCEPT !.also = OfOpenFunds]
    BY <1>1, <1>4 DEF Skills
  <2> QED  BY <2>1 DEF Open, Own
<1>5. CASE skill = Analysing
  <2>1. Skills[skill] = [Open(<<>>, {}) EXCEPT !.also = OfOpenFunds \cup {"open_fund.event_risk"}, !.bare = TRUE]
    BY <1>1, <1>5 DEF Skills
  <2> QED  BY <2>1 DEF Open, Own
<1> QED  BY <1>3, <1>4, <1>5

\* What a contract for open funds forbids is nothing that is for open funds.
LEMMA ForbiddenOfOpenFunds ==
    ASSUME OpenFund
    PROVE  Forbidden \cap (OfOpenFunds \cup {"open_fund.event_risk"}) = {}
<1>1. Domain \in {"none", "open_fund"}  BY DEF Domain, OpenFund
<1>2. ~Etf  BY DEF Etf, OpenFund
<1> QED  BY <1>1, <1>2 DEF Forbidden, OfOpenFunds

\* The contract is the one the request asks for, as long as it is in use.
Agreed ==
    stage \in {"compiled", "selected", "planned", "executed", "answered"} =>
        contract.forbidden = Forbidden /\ (contract.mutations <=> Mutates /\ ~OpenFund)
\* The skills passed the selection.
Chosen ==
    stage \in {"selected", "planned", "executed", "answered"} => Selectable(skills)
\* By the deterministic plan, evidence is of a tool of the skill it counts for.
EvidenceIsOwn ==
    /\ stage \notin {"executed", "answered"} => evidence = {}
    /\ plan = Deterministic =>
          \A record \in evidence : record.capability \in ToSet(skills) /\ record.tool \in Tools(record.capability)
AcceptedRightly ==
    accepted => stage = "answered" /\ Acceptable
Keeping == Agreed /\ Chosen /\ EvidenceIsOwn /\ AcceptedRightly

\* What the stages leave alone.
LEMMA SameContract ==
    ASSUME UNCHANGED <<request, route>>
    PROVE  Forbidden' = Forbidden /\ (Mutates' <=> Mutates) /\ (OpenFund' <=> OpenFund)
BY DEF Forbidden, Mutates, OpenFund, Domain, Kind, Etf, IsFund, FirstOf, FundKind, Asks, Has
LEMMA SameChoice ==
    ASSUME UNCHANGED <<request, contract>>, NEW closure
    PROVE  Selectable(closure)' <=> Selectable(closure)
BY DEF Selectable, Fits
LEMMA SamePlan ==
    ASSUME UNCHANGED skills
    PROVE  Deterministic' = Deterministic
BY DEF Deterministic
LEMMA SameVerdict ==
    ASSUME UNCHANGED <<contract, skills, evidence>>
    PROVE  Acceptable' <=> Acceptable
BY DEF Acceptable, Validated, Covered, Evident, Shows

\* Every stage keeps to the contract.
LEMMA StagesKeep ==
    ASSUME Keeping, [Next]_vars
    PROVE  Keeping'
<1> USE DEF Keeping
<1>1. CASE Resolve \/ Clarify \/ Classify
  <2>1. /\ stage \in {"asked", "clarifying", "resolved"}
        /\ stage' \in {"asked", "clarifying", "resolved", "routed"}
        /\ UNCHANGED <<plan, skills, evidence, accepted>>
    BY <1>1 DEF Resolve, Clarify, Classify, Become
  <2>2. Deterministic' = Deterministic  BY <2>1, SamePlan
  <2> QED  BY <2>1, <2>2 DEF Agreed, Chosen, EvidenceIsOwn, AcceptedRightly
<1>2. CASE Compile
  <2>1. /\ stage = "routed" /\ stage' = "compiled" /\ contract' = Contract
        /\ UNCHANGED <<request, route, skills, plan, evidence, accepted>>
    BY <1>2 DEF Compile, Become
  <2>2. contract'.forbidden = Forbidden /\ (contract'.mutations <=> Mutates /\ ~OpenFund)
    BY <2>1 DEF Contract
  <2>3. Deterministic' = Deterministic  BY <2>1, SamePlan
  <2>4. Agreed'  BY <2>1, <2>2, SameContract DEF Agreed
  <2> QED  BY <2>1, <2>3, <2>4 DEF Chosen, EvidenceIsOwn, AcceptedRightly
<1>3. CASE Select
  <2>1. /\ stage = "compiled" /\ stage' \in {"selected", "failed"}
        /\ stage' = "selected" => Selectable(skills')
        /\ UNCHANGED <<request, route, contract, plan, evidence, accepted>>
    BY <1>3 DEF Select, Become, Fail
  <2>2. Agreed'  BY <2>1, SameContract DEF Agreed
  <2>3. Chosen'
    <3>1. Selectable(skills)' <=> Selectable(skills')  BY <2>1 DEF Selectable, Fits
    <3> QED  BY <2>1, <3>1 DEF Chosen
  <2>4. evidence = {} /\ ~accepted  BY <2>1 DEF EvidenceIsOwn, AcceptedRightly
  <2> QED  BY <2>1, <2>2, <2>3, <2>4 DEF EvidenceIsOwn, AcceptedRightly
<1>4. CASE Plan \/ Propose
  <2>1. /\ stage \in {"selected", "planned"} /\ stage' \in {"planned", "failed"}
        /\ UNCHANGED <<request, route, contract, skills, evidence, accepted>>
    BY <1>4 DEF Plan, Propose, Become, Fail
  <2>2. Agreed'  BY <2>1, SameContract DEF Agreed
  <2>3. Chosen'  BY <2>1 DEF Chosen, Selectable, Fits
  <2>4. evidence = {} /\ ~accepted  BY <2>1 DEF EvidenceIsOwn, AcceptedRightly
  <2> QED  BY <2>1, <2>2, <2>3, <2>4 DEF EvidenceIsOwn, AcceptedRightly
<1>5. CASE Execute
  <2>1. /\ stage = "planned" /\ stage' = "executed"
        /\ UNCHANGED <<request, route, contract, skills, plan, accepted>>
        /\ evidence' = {} \/ \E delivered : evidence' = Records(delivered)
    BY <1>5 DEF Execute, Become
  <2>2. Agreed'  BY <2>1, SameContract DEF Agreed
  <2>3. Chosen'  BY <2>1 DEF Chosen, Selectable, Fits
  <2>4. EvidenceIsOwn'
    <3> SUFFICES ASSUME plan' = Deterministic', NEW record \in evidence'
                 PROVE  record.capability \in ToSet(skills') /\ record.tool \in Tools(record.capability)
      BY <2>1 DEF EvidenceIsOwn
    <3>1. plan = Deterministic  BY <2>1, SamePlan
    <3>2. PICK delivered : record \in Records(delivered)  BY <2>1
    <3>3. PICK serving \in delivered \X DOMAIN plan :
             /\ LastStep(serving[1], serving[2])
             /\ record = [tool |-> serving[1], capability |-> plan[serving[2]].capability]
      BY <3>2 DEF Records
    <3>4. record.tool = serving[1] /\ record.capability = plan[serving[2]].capability
      BY <3>3
    <3>5. serving[2] \in DOMAIN plan /\ serving[1] \in plan[serving[2]].tools
      BY <3>3 DEF LastStep, Steps
    <3>6. serving[2] \in DOMAIN skills /\ plan[serving[2]] = Step(skills[serving[2]])
      BY <3>1, <3>5 DEF Deterministic
    <3>7. /\ plan[serving[2]].tools = Tools(skills[serving[2]])
          /\ plan[serving[2]].capability = skills[serving[2]]
      BY <3>6 DEF Step
    <3>8. skills' = skills  BY <2>1
    <3> QED  BY <3>4, <3>5, <3>6, <3>7, <3>8 DEF ToSet
  <2>5. AcceptedRightly'  BY <2>1 DEF AcceptedRightly
  <2> QED  BY <2>2, <2>3, <2>4, <2>5
<1>6. CASE Judge
  <2>1. /\ stage = "executed" /\ stage' = "answered"
        /\ UNCHANGED <<request, route, contract, skills, plan, evidence>>
        /\ accepted' => Acceptable
    BY <1>6 DEF Judge, Become
  <2>2. Agreed'  BY <2>1, SameContract DEF Agreed
  <2>3. Chosen'  BY <2>1 DEF Chosen, Selectable, Fits
  <2>4. Deterministic' = Deterministic  BY <2>1, SamePlan
  <2>5. EvidenceIsOwn'  BY <2>1, <2>4 DEF EvidenceIsOwn
  <2>6. AcceptedRightly'  BY <2>1, SameVerdict DEF AcceptedRightly
  <2> QED  BY <2>2, <2>3, <2>5, <2>6
<1>7. CASE UNCHANGED vars
  <2>1. UNCHANGED <<stage, request, route, contract, skills, plan, evidence, accepted>>  BY <1>7 DEF vars
  <2>2. Agreed'  BY <2>1, SameContract DEF Agreed
  <2>3. Chosen'  BY <2>1 DEF Chosen, Selectable, Fits
  <2>4. Deterministic' = Deterministic  BY <2>1, SamePlan
  <2>5. EvidenceIsOwn'  BY <2>1, <2>4 DEF EvidenceIsOwn
  <2>6. AcceptedRightly'  BY <2>1, SameVerdict DEF AcceptedRightly
  <2> QED  BY <2>2, <2>3, <2>5, <2>6
<1> QED  BY <1>1, <1>2, <1>3, <1>4, <1>5, <1>6, <1>7 DEF Next

LEMMA ContractIsKeeping == Spec => []Keeping
<1>1. Init => Keeping
  BY DEF Init, Keeping, Agreed, Chosen, EvidenceIsOwn, AcceptedRightly
<1> QED  BY <1>1, StagesKeep, PTL DEF Spec

LEMMA GivenWhatWasAsked == Keeping => OnlyWhatWasAsked
<1> SUFFICES ASSUME Keeping, Planned PROVE
        /\ (\E tool \in Bound : Skills[tool].effects) => Mutates /\ request.asset # "open_fund"
        /\ Bound \cap contract.forbidden = {}
  BY DEF OnlyWhatWasAsked
<1>1. /\ contract.forbidden = Forbidden /\ (contract.mutations <=> Mutates /\ ~OpenFund)
      /\ Selectable(skills)
  BY DEF Keeping, Agreed, Chosen, Planned
<1>2. /\ Loads
      /\ \A n \in DOMAIN skills : Fits(skills[n]) /\ skills[n] \notin Forbidden
      /\ (\E n \in DOMAIN skills : Skills[skills[n]].effects) => Mutates /\ ~OpenFund
  BY <1>1 DEF Selectable
<1>3. ASSUME NEW tool \in Bound PROVE \E n \in DOMAIN skills : tool \in Tools(skills[n])
  BY <1>3 DEF Bound
<1>4. ASSUME NEW tool \in Bound, Skills[tool].effects PROVE Mutates /\ request.asset # "open_fund"
  <2>1. PICK n \in DOMAIN skills : tool \in Tools(skills[n])  BY <1>3, <1>4
  <2>2. skills[n] \in DOMAIN Skills  BY <1>2 DEF Fits
  <2>3. Skills[skills[n]].effects  BY <1>2, <1>4, <2>1, <2>2 DEF Loads
  <2> QED  BY <1>2, <2>3 DEF OpenFund
<1>5. ASSUME NEW tool \in Bound PROVE tool \notin Forbidden
  <2>1. PICK n \in DOMAIN skills : tool \in Tools(skills[n])  BY <1>3, <1>5
  <2>2. tool = skills[n] \/ tool \in Skills[skills[n]].also  BY <2>1 DEF Tools
  <2>3. CASE tool = skills[n]  BY <1>2, <2>3
  <2>4. CASE tool \in Skills[skills[n]].also
    <3>1. skills[n] \in DOMAIN Skills /\ request.asset \in Skills[skills[n]].assets  BY <1>2 DEF Fits
    <3>2. /\ Skills[skills[n]].assets = {"open_fund"}
          /\ Skills[skills[n]].also \subseteq OfOpenFunds \cup {"open_fund.event_risk"}
      BY <2>4, <3>1, ToolsOfOthers
    <3>3. OpenFund  BY <3>1, <3>2 DEF OpenFund
    <3> QED  BY <2>4, <3>2, <3>3, ForbiddenOfOpenFunds
  <2> QED  BY <2>2, <2>3, <2>4
<1> QED  BY <1>1, <1>4, <1>5

LEMMA AcceptedWithEvidence == Keeping => AcceptedIsEvident
<1> SUFFICES ASSUME Keeping, accepted, plan = Deterministic, NEW n \in DOMAIN contract.required,
                    NEW piece \in IF Skills[contract.required[n]].composite
                                 THEN Composed(contract.required[n]) ELSE {contract.required[n]}
             PROVE  \E record \in evidence : record.capability = piece /\ record.tool \in Tools(piece)
  BY DEF AcceptedIsEvident
<1> DEFINE capability == contract.required[n]
<1>1. stage = "answered" /\ Acceptable  BY DEF Keeping, AcceptedRightly
<1>2. Loads /\ \A k \in DOMAIN skills : skills[k] \in DOMAIN Skills
  BY <1>1 DEF Keeping, Chosen, Selectable, Fits
<1>3. \A record \in evidence : record.capability \in ToSet(skills) /\ record.tool \in Tools(record.capability)
  BY DEF Keeping, EvidenceIsOwn
<1>4. ASSUME NEW shown \in Evident PROVE \E record \in evidence : record.capability = shown /\ record.tool \in Tools(shown)
  BY <1>3, <1>4 DEF Evident
<1>5. capability \in Covered  BY <1>1 DEF Acceptable, ToSet
<1>6. CASE capability \in Evident
  <2>1. ~Skills[capability].composite
    <3>1. PICK record \in evidence : record.capability = capability /\ record.tool \in Tools(capability)
      BY <1>4, <1>6
    <3>2. capability \in DOMAIN Skills  BY <1>2, <1>3, <3>1 DEF ToSet
    <3> QED  BY <1>2, <3>1, <3>2 DEF Loads
  <2>2. piece = capability  BY <2>1
  <2> QED  BY <1>4, <1>6, <2>2
<1>7. CASE capability \in ToSet(skills) /\ Skills[capability].composite /\ Composed(capability) \subseteq Evident
  <2>1. piece \in Evident  BY <1>7
  <2> QED  BY <1>4, <2>1
<1> QED  BY <1>5, <1>6, <1>7 DEF Covered

\* An agent keeps to the contract, whatever the message: it gets no tool that
\* changes the account unless a trade was asked for, none its contract forbids
\* (HarnessTaskCompiler.compile, SkillSelector.select), and its answer is accepted
\* only with a result of a tool of its own behind everything the contract requires
\* (covered_capabilities, harness/validators.py).
THEOREM ContractIsKeptHolds == Spec => []ContractIsKept
<1>1. Keeping => ContractIsKept  BY GivenWhatWasAsked, AcceptedWithEvidence DEF ContractIsKept
<1> QED  BY <1>1, ContractIsKeeping, PTL

-----------------------------------------------------------------------------
(***************************************************************************)
(* The other components of MCResearch.  What they promise is proved for     *)
(* every value of their constants in the modules instantiated here; of what  *)
(* those modules are about beside it, there is nothing.  A behaviour of      *)
(* MCResearch is one of the component that "part" names.                     *)
(***************************************************************************)

\* The kernel of MCResearch is Harness, and rests while another component runs.
LEMMA KernelKeeping == ResearchSpec => []Keeping
<1>1. ResearchInit => Keeping
  BY DEF ResearchInit, Quiet, Init, Keeping, Agreed, Chosen, EvidenceIsOwn, AcceptedRightly
<1>2. [ResearchNext]_<<part, Shared, vars>> => [Next]_vars
  BY DEF ResearchNext, vars
<1> QED  BY <1>1, <1>2, StagesKeep, PTL DEF ResearchSpec

\* The same of the kernel that TLC runs: no tool that was not asked for, and no
\* answer accepted without evidence (harness/compiler.py, harness/validators.py).
THEOREM KernelKeepsTheContract == ResearchSpec => []ContractIsKept
<1>1. Keeping => ContractIsKept  BY GivenWhatWasAsked, AcceptedWithEvidence DEF ContractIsKept
<1> QED  BY <1>1, KernelKeeping, PTL

Storing == INSTANCE StorageProofs WITH
    Callers <- {c1, c2}, Requests <- Savings, Contents <- {1, 2}, NoKey <- none, NoTask <- none, Bad <- bad,
    Bounds <- [calls |-> 3, troubles |-> 1],
    records <- v1, objects <- v2, saving <- v3, begun <- v4, alone <- v5, spent <- v6,
    Orders <- {}, LastDate <- 0, Limit <- {}, doc <- v1, rows <- v1, call <- v1, used <- v1,
    Syncs <- {}, Parts <- 0, local <- v1, inbox <- v1, remote <- v1, executed <- v1, mirror <- v1, sync <- v1,
    Periods <- {}, Trading <- {}, Cutoff <- 0, MaxVersion <- 0,
    version <- v1, manifest <- v1, known <- v1, writer <- v1, access <- v1

\* These are the files of MCResearch.
LEMMA SameFiles ==
    /\ Storing!Files!Init <=> Files!Init
    /\ Storing!Files!vars = Files!vars
    /\ Storing!Files!Next <=> Files!Next
    /\ Storing!Files!ArtifactsAssumption <=> Files!ArtifactsAssumption
    /\ Storing!Files!RecordsAreReadable <=> Files!RecordsAreReadable
    /\ Storing!Files!AnswersAreTheFiles <=> Files!AnswersAreTheFiles
    /\ Storing!Files!RetriesAddNothing <=> Files!RetriesAddNothing
<1>1. (Storing!Files!Init <=> Files!Init) /\ Storing!Files!vars = Files!vars
  BY DEF
    Files!Init, Files!vars, Files!Idle, Storing!Files!Init, Storing!Files!vars,
    Storing!Files!Idle
<1>2. Storing!Files!Next <=> Files!Next
  BY DEF
    Files!Next, Files!Begin, Files!Step, Files!Cut, Files!Busy, Files!Idle, Files!Refuse,
    Files!FindDuplicate, Files!Check, Files!Draw, Files!Look, Files!Create, Files!At,
    Files!File, Files!Duplicates, Files!Take, Files!Identity, Files!With, Files!Request,
    Files!Place, Storing!Files!Next, Storing!Files!Begin, Storing!Files!Step, Storing!Files!Cut,
    Storing!Files!Busy, Storing!Files!Idle, Storing!Files!Refuse, Storing!Files!FindDuplicate,
    Storing!Files!Check, Storing!Files!Draw, Storing!Files!Look, Storing!Files!Create,
    Storing!Files!At, Storing!Files!File, Storing!Files!Duplicates, Storing!Files!Take,
    Storing!Files!Identity, Storing!Files!With, Storing!Files!Request, Storing!Files!Place
<1>3. Storing!Files!ArtifactsAssumption <=> Files!ArtifactsAssumption
  BY DEF
    Files!ArtifactsAssumption, Storing!Files!ArtifactsAssumption
<1>4. Storing!Files!RecordsAreReadable <=> Files!RecordsAreReadable
  BY DEF
    Files!RecordsAreReadable, Storing!Files!RecordsAreReadable
<1>5. Storing!Files!AnswersAreTheFiles <=> Files!AnswersAreTheFiles
  BY DEF
    Files!AnswersAreTheFiles, Files!At, Files!OwnKey, Files!Delivered, Files!Request,
    Storing!Files!AnswersAreTheFiles, Storing!Files!At, Storing!Files!OwnKey,
    Storing!Files!Delivered, Storing!Files!Request
<1>6. Storing!Files!RetriesAddNothing <=> Files!RetriesAddNothing
  BY DEF
    Files!RetriesAddNothing, Files!At, Files!Request, Files!ToSet,
    Storing!Files!RetriesAddNothing, Storing!Files!At, Storing!Files!Request,
    Storing!Files!ToSet
<1> QED  BY <1>1, <1>2, <1>3, <1>4, <1>5, <1>6

LEMMA FilesRun == ResearchSpec /\ part = "files" => Storing!Files!Spec
<1>1. ResearchInit /\ part = "files" => Storing!Files!Init
  BY SameFiles DEF ResearchInit
<1>2. part = "files" /\ [ResearchNext]_<<part, Shared, vars>> => (part = "files")' /\ [Files!Next]_(Files!vars)
  BY DEF ResearchNext, Files!vars, Shared, vars
<1>3. [Files!Next]_(Files!vars) => [Storing!Files!Next]_(Storing!Files!vars)
  BY SameFiles DEF Files!vars, Storing!Files!vars
<1> QED  BY <1>1, <1>2, <1>3, PTL DEF ResearchSpec, Storing!Files!Spec

\* Whatever calls, cuts and failures come in between: a record can be read, a call
\* delivers the files it was asked for, and a retry adds none (artifacts/service.py).
THEOREM FilesAreKeptHolds == ResearchSpec => []FilesAreKept
<1>1. Storing!Files!ArtifactsAssumption  BY FilesAreSound, SameFiles
<1>2. /\ Storing!Files!Spec => []Storing!Files!RecordsAreReadable
      /\ Storing!Files!Spec => []Storing!Files!AnswersAreTheFiles
      /\ Storing!Files!Spec => []Storing!Files!RetriesAddNothing
  BY <1>1, Storing!RecordsAreReadableHolds, Storing!AnswersAreTheFilesHolds, Storing!RetriesAddNothingHolds, PTL
<1>3. /\ Storing!Files!RecordsAreReadable
      /\ Storing!Files!AnswersAreTheFiles
      /\ Storing!Files!RetriesAddNothing
      => FilesAreKept
  BY SameFiles DEF FilesAreKept
<1>4. ~(part = "files") => FilesAreKept  BY DEF FilesAreKept
<1>5. ResearchSpec /\ ~(part = "files") => [](~(part = "files"))
  <2>1. ~(part = "files") /\ [ResearchNext]_<<part, Shared, vars>> => (~(part = "files"))'  BY DEF ResearchNext
  <2> QED  BY <2>1, PTL DEF ResearchSpec
<1> QED  BY <1>2, <1>3, <1>4, <1>5, FilesRun, PTL

Conversing == INSTANCE ChatStreamProofs WITH
    Started <- {original}, Branches <- {branch}, Requesters <- {c1, c2}, MaxSends <- 2,
    Bounds <- [crashes |-> 1, deletions |-> 1],
    titles <- v1, messages <- v2, tasks <- v3, traces <- v4, refs <- v5, index <- v6, mirror <- v7,
    threads <- v8, request <- v9, torn <- v10, spent <- v11,
    Pages <- {}, MaxParts <- 0, Limit <- {},
    status <- v1, message <- v1, parts <- v1, log <- v1, emitted <- v1, writer <- v1, lock <- v1,
    canceller <- v1, page <- v1, used <- v1,
    Sockets <- {}, QueueSize <- 0, MaxEvents <- 0, count <- v1, socket <- v1, lost <- v1,
    Backtests <- {}, Readers <- {}, MaxProgress <- 0, job <- v1, begun <- v1, events <- v1, reader <- v1,
    direct <- v1, serving <- v1

\* These are the conversations of MCResearch.
LEMMA SameTalks ==
    /\ Conversing!Talks!Init <=> Talks!Init
    /\ Conversing!Talks!vars = Talks!vars
    /\ Conversing!Talks!Next <=> Talks!Next
    /\ Conversing!Talks!TalksAreInOrder <=> Talks!TalksAreInOrder
    /\ Conversing!Talks!NothingLoadsForever <=> Talks!NothingLoadsForever
    /\ Conversing!Talks!TasksCanResume <=> Talks!TasksCanResume
    /\ Conversing!Talks!NoOrphans <=> Talks!NoOrphans
    /\ Conversing!Talks!SearchIsExact <=> Talks!SearchIsExact
<1>1. (Conversing!Talks!Init <=> Talks!Init) /\ Conversing!Talks!vars = Talks!vars
  BY DEF
    Talks!Init, Talks!vars, Talks!Kinds, Talks!Idle, Conversing!Talks!Init,
    Conversing!Talks!vars, Conversing!Talks!Kinds, Conversing!Talks!Idle
<1>2. Conversing!Talks!Next <=> Talks!Next
  BY DEF
    Talks!Next, Talks!Conversations, Talks!Send, Talks!Check, Talks!Clean, Talks!ReadRows,
    Talks!Tables, Talks!Empty, Talks!Begin, Talks!Pause, Talks!Respond, Talks!Conclude,
    Talks!Branch, Talks!Restart, Talks!Prune, Talks!Idle, Talks!ActiveIn, Talks!MessagesOf,
    Talks!FromEdit, Talks!TasksIn, Talks!Next1, Talks!With, Talks!Without, Talks!Superseded,
    Talks!Pair, Talks!Kinds, Talks!Uses, Talks!TasksOf, Talks!Undeletable, Talks!rows,
    Talks!After, Talks!Rest, Talks!Becomes, Talks!Leaves, Talks!MessagesFor, Talks!Active,
    Talks!Copied, Talks!Copy, Talks!Deleting, Talks!Lapsed, Talks!Ran, Talks!Said,
    Talks!Prunable, Talks!Max, Talks!Restrict, Talks!Row, Talks!Terminal, Talks!Cardinality,
    Conversing!Talks!Next, Conversing!Talks!Conversations, Conversing!Talks!Send,
    Conversing!Talks!Check, Conversing!Talks!Clean, Conversing!Talks!ReadRows,
    Conversing!Talks!Tables, Conversing!Talks!Empty, Conversing!Talks!Begin,
    Conversing!Talks!Pause, Conversing!Talks!Respond, Conversing!Talks!Conclude,
    Conversing!Talks!Branch, Conversing!Talks!Restart, Conversing!Talks!Prune,
    Conversing!Talks!Idle, Conversing!Talks!ActiveIn, Conversing!Talks!MessagesOf,
    Conversing!Talks!FromEdit, Conversing!Talks!TasksIn, Conversing!Talks!Next1,
    Conversing!Talks!With, Conversing!Talks!Without, Conversing!Talks!Superseded,
    Conversing!Talks!Pair, Conversing!Talks!Kinds, Conversing!Talks!Uses,
    Conversing!Talks!TasksOf, Conversing!Talks!Undeletable, Conversing!Talks!rows,
    Conversing!Talks!After, Conversing!Talks!Rest, Conversing!Talks!Becomes,
    Conversing!Talks!Leaves, Conversing!Talks!MessagesFor, Conversing!Talks!Active,
    Conversing!Talks!Copied, Conversing!Talks!Copy, Conversing!Talks!Deleting,
    Conversing!Talks!Lapsed, Conversing!Talks!Ran, Conversing!Talks!Said,
    Conversing!Talks!Prunable, Conversing!Talks!Max, Conversing!Talks!Restrict,
    Conversing!Talks!Row, Conversing!Talks!Terminal, Conversing!Talks!Cardinality
<1>3. Conversing!Talks!TalksAreInOrder <=> Talks!TalksAreInOrder
  BY DEF
    Talks!TalksAreInOrder, Talks!Conversations, Talks!MessagesOf, Talks!ActiveIn,
    Talks!MessagesFor, Talks!TasksOf, Talks!Active, Talks!Cardinality,
    Conversing!Talks!TalksAreInOrder, Conversing!Talks!Conversations,
    Conversing!Talks!MessagesOf, Conversing!Talks!ActiveIn, Conversing!Talks!MessagesFor,
    Conversing!Talks!TasksOf, Conversing!Talks!Active, Conversing!Talks!Cardinality
<1>4. Conversing!Talks!NothingLoadsForever <=> Talks!NothingLoadsForever
  BY DEF
    Talks!NothingLoadsForever, Talks!Loading, Talks!Active,
    Conversing!Talks!NothingLoadsForever, Conversing!Talks!Loading, Conversing!Talks!Active
<1>5. Conversing!Talks!TasksCanResume <=> Talks!TasksCanResume
  BY DEF
    Talks!TasksCanResume, Conversing!Talks!TasksCanResume
<1>6. Conversing!Talks!NoOrphans <=> Talks!NoOrphans
  BY DEF
    Talks!NoOrphans, Talks!Of, Talks!Kinds, Talks!Idle, Conversing!Talks!NoOrphans,
    Conversing!Talks!Of, Conversing!Talks!Kinds, Conversing!Talks!Idle
<1>7. Conversing!Talks!SearchIsExact <=> Talks!SearchIsExact
  BY DEF
    Talks!SearchIsExact, Talks!Said, Talks!Found, Conversing!Talks!SearchIsExact,
    Conversing!Talks!Said, Conversing!Talks!Found
<1> QED  BY <1>1, <1>2, <1>3, <1>4, <1>5, <1>6, <1>7

LEMMA TalksRun == ResearchSpec /\ part = "talks" => Conversing!Talks!Spec
<1>1. ResearchInit /\ part = "talks" => Conversing!Talks!Init
  BY SameTalks DEF ResearchInit
<1>2. part = "talks" /\ [ResearchNext]_<<part, Shared, vars>> => (part = "talks")' /\ [Talks!Next]_(Talks!vars)
  BY DEF ResearchNext, Talks!vars, Shared, vars
<1>3. [Talks!Next]_(Talks!vars) => [Conversing!Talks!Next]_(Conversing!Talks!vars)
  BY SameTalks DEF Talks!vars, Conversing!Talks!vars
<1> QED  BY <1>1, <1>2, <1>3, PTL DEF ResearchSpec, Conversing!Talks!Spec

\* Two requests at once, a deletion and a crash leave conversations in turns, no
\* message loading that no task finishes, tasks that can go on, no rows without
\* an owner, and a search that finds what users said (chat_service.py,
\* chat_store.py).
THEOREM TalksAreKeptHolds == ResearchSpec => []TalksAreKept
<1>1. Conversing!Talks!Spec => [](/\ Conversing!Talks!TalksAreInOrder /\ Conversing!Talks!NothingLoadsForever
                                  /\ Conversing!Talks!TasksCanResume /\ Conversing!Talks!NoOrphans
                                  /\ Conversing!Talks!SearchIsExact)
  BY Conversing!TalksAreInOrderHolds, Conversing!NothingLoadsForeverHolds, Conversing!TasksCanResumeHolds,
     Conversing!NoOrphansHolds, Conversing!SearchIsExactHolds, PTL
<1>2. /\ Conversing!Talks!TalksAreInOrder /\ Conversing!Talks!NothingLoadsForever
      /\ Conversing!Talks!TasksCanResume /\ Conversing!Talks!NoOrphans
      /\ Conversing!Talks!SearchIsExact
      => TalksAreKept
  BY SameTalks DEF TalksAreKept
<1>3. ~(part = "talks") => TalksAreKept  BY DEF TalksAreKept
<1>4. ResearchSpec /\ ~(part = "talks") => [](~(part = "talks"))
  <2>1. ~(part = "talks") /\ [ResearchNext]_<<part, Shared, vars>> => (~(part = "talks"))'  BY DEF ResearchNext
  <2> QED  BY <2>1, PTL DEF ResearchSpec
<1> QED  BY <1>1, <1>2, <1>3, <1>4, TalksRun, PTL

NoBounds == [bound \in {"sends", "asks", "cancels", "deletes", "crashes", "stops"} |-> 0]
Working == INSTANCE ChatTaskProofs WITH
    InputLimit <- 24, RecoveryFloor <- 2, Spare <- 1, Envelope <- 2, ToolTokens <- 1,
    Histories <- Conversed, Menu <- Menus, MaxSteps <- 3, MaxCalls <- 3, NeedsTools <- TRUE, Sizes <- {4},
    MaxTroubles <- 2,
    thread <- v1, saved <- v2, process <- v3, given <- v4, question <- v5, answer <- v6,
    verdicts <- v7, finished <- v8, effects <- v9, sent <- v10, troubles <- v11,
    Nodes <- {}, NTasks <- 0, Runs <- {}, NoRun <- 0, Husk <- 1, Slots <- {}, Limit <- NoBounds,
    status <- v1, stale <- v1, asked <- v1, interaction <- v1, resume <- v1, run <- v1, entry <- v1,
    node <- v1, marks <- v1, call <- v1, used <- v1
LEMMA NoneToDo == Working!ChatTaskAssumption
BY DEF Working!ChatTaskAssumption, Working!Bounds, NoBounds

\* The agent of MCResearch is the one the proofs are about: what it sends, first.
LEMMA SameCounted == \A messages, S : Working!Agent!Counted(messages, S) = Agent!Counted(messages, S)
BY DEF
  Agent!Counted, Agent!Costs, Agent!MapThenSumSet, Agent!Cost, Agent!MapThenFoldSet,
  Working!Agent!Counted, Working!Agent!Costs, Working!Agent!MapThenSumSet, Working!Agent!Cost,
  Working!Agent!MapThenFoldSet
LEMMA SameResized == \A messages, sizes : Working!Agent!Resized(messages, sizes) = Agent!Resized(messages, sizes)
BY DEF
  Agent!Resized, Working!Agent!Resized
LEMMA SameProtected == \A messages : Working!Agent!Protected(messages) = Agent!Protected(messages)
BY DEF
  Agent!Protected, Agent!Indices, Agent!LastOf, Agent!LatestExchange, Agent!Max, Agent!Calling,
  Agent!Answers, Working!Agent!Protected, Working!Agent!Indices, Working!Agent!LastOf,
  Working!Agent!LatestExchange, Working!Agent!Max, Working!Agent!Calling, Working!Agent!Answers
LEMMA SameFitting ==
    \A messages, groups, kept, used, limit :
        Working!Agent!Fitting(messages, groups, kept, used, limit)
            = Agent!Fitting(messages, groups, kept, used, limit)
BY DEF
  Agent!Fitting, Agent!Costs, Agent!MapThenSumSet, Agent!Cost, Agent!MapThenFoldSet,
  Working!Agent!Fitting, Working!Agent!Costs, Working!Agent!MapThenSumSet, Working!Agent!Cost,
  Working!Agent!MapThenFoldSet
LEMMA SameAtomicGroups == \A messages : Working!Agent!AtomicGroups(messages) = Agent!AtomicGroups(messages)
BY DEF
  Agent!AtomicGroups, Agent!GroupEnd, Agent!Max, Agent!Answers, Working!Agent!AtomicGroups,
  Working!Agent!GroupEnd, Working!Agent!Max, Working!Agent!Answers
LEMMA SameCompactions ==
    ASSUME NEW messages, NEW limit
    PROVE  Working!Agent!Compactions(messages, limit) = Agent!Compactions(messages, limit)
<1>1. /\ \A role : Working!Agent!Indices(messages, role) = Agent!Indices(messages, role)
      /\ \A S : Working!Agent!Max(S) = Agent!Max(S)
      /\ \A S : Working!Agent!Cardinality(S) = Agent!Cardinality(S)
  BY DEF Working!Agent!Indices, Agent!Indices, Working!Agent!Max, Agent!Max, Working!Agent!Cardinality,
         Agent!Cardinality
<1> DEFINE
           Kept == Agent!Protected(messages)
           Shrunk == Kept \cap Agent!Indices(messages, "tool")
           Empty == [i \in Shrunk |-> 0]
           Lowest == Agent!Counted(Agent!Resized(messages, Empty), Kept)
           Share == Agent!Max({1, Agent!Max({0, limit - Lowest - 1 * Agent!Cardinality(Shrunk)}) \div Agent!Cardinality(Shrunk)})
           Sized(i) == IF messages[i].size <= Share THEN {messages[i].size} ELSE {Share, 2}
           Fit(sizes) == Agent!Counted(Agent!Resized(messages, sizes), Kept) <= limit
           Ranging == UNION {Sized(i) : i \in Shrunk}
           Sizings == {f \in [Shrunk -> Ranging] : \A i \in Shrunk : f[i] \in Sized(i)}
           Plain == Shrunk = {} \/ Agent!Counted(messages, Kept) <= limit \/ Lowest > limit
           WKept == Working!Agent!Protected(messages)
           WShrunk == WKept \cap Working!Agent!Indices(messages, "tool")
           WEmpty == [i \in WShrunk |-> 0]
           WLowest == Working!Agent!Counted(Working!Agent!Resized(messages, WEmpty), WKept)
           WShare == Working!Agent!Max({1,
               Working!Agent!Max({0, limit - WLowest - 1 * Working!Agent!Cardinality(WShrunk)})
                   \div Working!Agent!Cardinality(WShrunk)})
           WSized(i) == IF messages[i].size <= WShare THEN {messages[i].size} ELSE {WShare, 2}
           WFit(sizes) == Working!Agent!Counted(Working!Agent!Resized(messages, sizes), WKept) <= limit
           WRanging == UNION {WSized(i) : i \in WShrunk}
           WSizings == {f \in [WShrunk -> WRanging] : \A i \in WShrunk : f[i] \in WSized(i)}
           WPlain == WShrunk = {} \/ Working!Agent!Counted(messages, WKept) <= limit \/ WLowest > limit
<1>2. Agent!Compactions(messages, limit)
        = IF Plain THEN {<<>>} ELSE {IF Fit(sizes) THEN sizes ELSE Empty : sizes \in Sizings}
  BY DEF Agent!Compactions
<1>3. Working!Agent!Compactions(messages, limit)
        = IF WPlain THEN {<<>>} ELSE {IF WFit(sizes) THEN sizes ELSE WEmpty : sizes \in WSizings}
  BY DEF Working!Agent!Compactions
<1>4. WKept = Kept /\ WShrunk = Shrunk /\ WEmpty = Empty  BY <1>1, SameProtected
<1>5. WLowest = Lowest  BY <1>4, SameCounted, SameResized
<1>6. WShare = Share  BY <1>1, <1>4, <1>5
<1>7. \A i : WSized(i) = Sized(i)  BY <1>6
<1>8. \A sizes : WFit(sizes) <=> Fit(sizes)  BY <1>4, SameCounted, SameResized
<1>9. WPlain <=> Plain  BY <1>4, <1>5, SameCounted
<1> HIDE DEF Kept, Shrunk, Empty, Lowest, Share, Sized, Fit, Ranging, Sizings, Plain,
             WKept, WShrunk, WEmpty, WLowest, WShare, WSized, WFit, WRanging, WSizings, WPlain
<1>10. WRanging = Ranging  BY <1>4, <1>7 DEF Ranging, WRanging
<1>11. WSizings = Sizings  BY <1>4, <1>7, <1>10 DEF Sizings, WSizings
<1>12. {IF WFit(sizes) THEN sizes ELSE WEmpty : sizes \in WSizings}
         = {IF Fit(sizes) THEN sizes ELSE Empty : sizes \in Sizings}
  BY <1>4, <1>8, <1>11
<1> QED  BY <1>2, <1>3, <1>9, <1>12
LEMMA SameSelections ==
    ASSUME NEW messages, NEW limit
    PROVE  Working!Agent!Selections(messages, limit) = Agent!Selections(messages, limit)
BY SameCounted, SameResized, SameProtected, SameCompactions, SameFitting, SameAtomicGroups
   DEF Working!Agent!Selections, Agent!Selections

LEMMA SameSpending == \A trouble : Working!Agent!Spend(trouble) <=> Agent!Spend(trouble)
BY DEF Working!Agent!Spend, Agent!Spend, Working!Agent!Troubles, Agent!Troubles, Working!Agent!MapThenSumSet,
       Agent!MapThenSumSet, Working!Agent!MapThenFoldSet, Agent!MapThenFoldSet

LEMMA SameAgent ==
    /\ Working!Agent!Init <=> Agent!Init
    /\ Working!Agent!vars = Agent!vars
    /\ Working!Agent!Next <=> Agent!Next
    /\ Working!Agent!AgentLoopAssumption <=> Agent!AgentLoopAssumption
    /\ Working!Agent!ActsOnConsent <=> Agent!ActsOnConsent
    /\ Working!Agent!WithinSteps <=> Agent!WithinSteps
    /\ Working!Agent!CallsAreAnswered <=> Agent!CallsAreAnswered
<1>1. (Working!Agent!Init <=> Agent!Init) /\ Working!Agent!vars = Agent!vars
  BY DEF
    Agent!Init, Agent!vars, Agent!HistoryFits, Agent!System, Agent!User, Agent!Start,
    Agent!NoCall, Agent!Unsent, Agent!Troubles, Agent!Counted, Agent!Costs, Agent!Message,
    Agent!Opening, Agent!MapThenSumSet, Agent!Cost, Agent!History, Agent!MapThenFoldSet,
    Agent!TurnStarts, Agent!Nth, Agent!Indices, Agent!Cardinality, Working!Agent!Init,
    Working!Agent!vars, Working!Agent!HistoryFits, Working!Agent!System, Working!Agent!User,
    Working!Agent!Start, Working!Agent!NoCall, Working!Agent!Unsent, Working!Agent!Troubles,
    Working!Agent!Counted, Working!Agent!Costs, Working!Agent!Message, Working!Agent!Opening,
    Working!Agent!MapThenSumSet, Working!Agent!Cost, Working!Agent!History,
    Working!Agent!MapThenFoldSet, Working!Agent!TurnStarts, Working!Agent!Nth,
    Working!Agent!Indices, Working!Agent!Cardinality
<1>2. Working!Agent!AgentLoopAssumption <=> Agent!AgentLoopAssumption
  BY DEF
    Agent!AgentLoopAssumption, Agent!Kinds, Working!Agent!AgentLoopAssumption,
    Working!Agent!Kinds
<1>3. (Working!Agent!ActsOnConsent <=> Agent!ActsOnConsent) /\ (Working!Agent!WithinSteps <=> Agent!WithinSteps)
  BY DEF
    Agent!ActsOnConsent, Agent!WithinSteps, Agent!Consented, Agent!Once,
    Working!Agent!ActsOnConsent, Working!Agent!WithinSteps, Working!Agent!Consented,
    Working!Agent!Once
<1>4. Working!Agent!RecoveryLimit = Agent!RecoveryLimit
  BY DEF
    Agent!RecoveryLimit, Agent!Max, Agent!Min, Working!Agent!RecoveryLimit, Working!Agent!Max,
    Working!Agent!Min
<1>5. (Working!Agent!Ask <=> Agent!Ask) /\ (Working!Agent!AskAgain <=> Agent!AskAgain)
  BY <1>4, SameSpending, SameSelections DEF
    Agent!Ask, Agent!AskAgain, Agent!At, Agent!Unsent, Agent!SendWithin, Agent!talk,
    Working!Agent!Ask, Working!Agent!AskAgain, Working!Agent!At, Working!Agent!Unsent,
    Working!Agent!SendWithin, Working!Agent!talk
<1>6. Working!Agent!FallBack <=> Agent!FallBack
  BY <1>4, SameSpending, SameSelections DEF
    Agent!FallBack, Agent!At, Agent!Unsent, Agent!Overflows, Agent!Say, Agent!Commit,
    Agent!Message, Agent!NoCall, Agent!talk, Working!Agent!FallBack, Working!Agent!At,
    Working!Agent!Unsent, Working!Agent!Overflows, Working!Agent!Say, Working!Agent!Commit,
    Working!Agent!Message, Working!Agent!NoCall, Working!Agent!talk
<1>7. /\ (Working!Agent!Reply <=> Agent!Reply)
      /\ (Working!Agent!Request <=> Agent!Request)
      /\ (Working!Agent!Break <=> Agent!Break)
      /\ (Working!Agent!Consume <=> Agent!Consume)
      /\ (Working!Agent!Interrupt <=> Agent!Interrupt)
  BY SameSpending DEF
    Agent!Reply, Agent!Request, Agent!Break, Agent!Consume, Agent!Interrupt, Agent!At,
    Agent!Unsent, Agent!Say, Agent!Exhausted, Agent!Call, Agent!Commit, Agent!Message,
    Agent!NoCall, Agent!talk, Agent!Unanswered, Agent!Noted, Agent!First, Agent!Writes,
    Agent!Accepted, Agent!RequiresConfirmation, Agent!Requested, Agent!Remaining, Agent!Last,
    Agent!Max, Working!Agent!Reply, Working!Agent!Request, Working!Agent!Break,
    Working!Agent!Consume, Working!Agent!Interrupt, Working!Agent!At, Working!Agent!Unsent,
    Working!Agent!Say, Working!Agent!Exhausted, Working!Agent!Call, Working!Agent!Commit,
    Working!Agent!Message, Working!Agent!NoCall, Working!Agent!talk, Working!Agent!Unanswered,
    Working!Agent!Noted, Working!Agent!First, Working!Agent!Writes, Working!Agent!Accepted,
    Working!Agent!RequiresConfirmation, Working!Agent!Requested, Working!Agent!Remaining,
    Working!Agent!Last, Working!Agent!Max
<1>8. /\ (Working!Agent!Show <=> Agent!Show)
      /\ (\A reply : Working!Agent!Respond(reply) <=> Agent!Respond(reply))
      /\ (\A node : Working!Agent!At(node) <=> Agent!At(node))
      /\ Working!Agent!Writes = Agent!Writes
      /\ (\A call : Working!Agent!Attempt(call) <=> Agent!Attempt(call))
  BY SameSpending DEF
    Agent!Show, Agent!Respond, Agent!At, Agent!Writes, Agent!Attempt, Agent!First,
    Agent!Unanswered, Agent!Noted, Agent!NoCall, Agent!Accepted, Agent!RequiresConfirmation,
    Agent!Due, Agent!Approved, Agent!ToolAttempts, Agent!talk, Agent!Requested, Agent!Remaining,
    Agent!Last, Agent!Max, Working!Agent!Show, Working!Agent!Respond, Working!Agent!At,
    Working!Agent!Writes, Working!Agent!Attempt, Working!Agent!First, Working!Agent!Unanswered,
    Working!Agent!Noted, Working!Agent!NoCall, Working!Agent!Accepted,
    Working!Agent!RequiresConfirmation, Working!Agent!Due, Working!Agent!Approved,
    Working!Agent!ToolAttempts, Working!Agent!talk, Working!Agent!Requested,
    Working!Agent!Remaining, Working!Agent!Last, Working!Agent!Max
<1>9. /\ (\A call : Working!Agent!Fail(call) <=> Agent!Fail(call))
      /\ (Working!Agent!Observe <=> Agent!Observe)
      /\ (Working!Agent!JudgeDone <=> Agent!JudgeDone)
      /\ (Working!Agent!JudgeContinues <=> Agent!JudgeContinues)
      /\ (Working!Agent!End <=> Agent!End)
  BY SameSpending DEF
    Agent!Fail, Agent!Observe, Agent!JudgeDone, Agent!JudgeContinues, Agent!End, Agent!Due,
    Agent!Approved, Agent!talk, Agent!At, Agent!Unanswered, Agent!Writes, Agent!Accepted,
    Agent!Commit, Agent!Requested, Agent!Answered, Agent!Message, Agent!OutOfSteps,
    Agent!Rejected, Agent!NoCall, Agent!RequiresConfirmation, Agent!Remaining, Agent!Last,
    Agent!Max, Agent!Cardinality, Working!Agent!Fail, Working!Agent!Observe,
    Working!Agent!JudgeDone, Working!Agent!JudgeContinues, Working!Agent!End, Working!Agent!Due,
    Working!Agent!Approved, Working!Agent!talk, Working!Agent!At, Working!Agent!Unanswered,
    Working!Agent!Writes, Working!Agent!Accepted, Working!Agent!Commit, Working!Agent!Requested,
    Working!Agent!Answered, Working!Agent!Message, Working!Agent!OutOfSteps,
    Working!Agent!Rejected, Working!Agent!NoCall, Working!Agent!RequiresConfirmation,
    Working!Agent!Remaining, Working!Agent!Last, Working!Agent!Max, Working!Agent!Cardinality
<1>10. /\ (Working!Agent!Deadline <=> Agent!Deadline)
      /\ (Working!Agent!Crash <=> Agent!Crash)
      /\ (Working!Agent!Claim <=> Agent!Claim)
  BY SameSpending DEF
    Agent!Deadline, Agent!Crash, Agent!Claim, Agent!Unsent, Agent!talk, Working!Agent!Deadline,
    Working!Agent!Crash, Working!Agent!Claim, Working!Agent!Unsent, Working!Agent!talk
<1>11. Working!Agent!Next <=> Agent!Next
  BY <1>5, <1>6, <1>7, <1>8, <1>9, <1>10 DEF Working!Agent!Next, Agent!Next
<1>12. Working!Agent!CallsAreAnswered <=> Agent!CallsAreAnswered
  BY DEF
    Agent!CallsAreAnswered, Agent!Calling, Agent!Answers, Agent!Indices, Agent!Cardinality,
    Working!Agent!CallsAreAnswered, Working!Agent!Calling, Working!Agent!Answers,
    Working!Agent!Indices, Working!Agent!Cardinality
<1> QED  BY <1>1, <1>2, <1>3, <1>11, <1>12

\* A behaviour of the agent is one of AgentLoop, whose proofs hold of it.
LEMMA AgentRun == ResearchSpec /\ part = "agent" => Working!Agent!Spec
<1>1. ResearchInit /\ part = "agent" => Working!Agent!Init
  BY SameAgent DEF ResearchInit
<1>2. part = "agent" /\ [ResearchNext]_<<part, Shared, vars>> => (part = "agent")' /\ [Agent!Next]_(Agent!vars)
  BY DEF ResearchNext, Agent!vars, Shared, vars
<1>3. [Agent!Next]_(Agent!vars) => [Working!Agent!Next]_(Working!Agent!vars)
  BY SameAgent DEF Agent!vars, Working!Agent!vars
<1> QED  BY <1>1, <1>2, <1>3, PTL DEF ResearchSpec, Working!Agent!Spec

\* Whatever the model calls and the user answers, with crashes and rejections in
\* between: what an agent changes was approved, and happens once, and what it calls
\* is answered once, within the steps of its contract (graph/agent_loop.py).
THEOREM ActsAsAgreedHolds == ResearchSpec => []ActsAsAgreed
<1>1. Working!Agent!AgentLoopAssumption  BY AgentIsSound, SameAgent
<1>2. Working!Agent!Spec => []Working!Agent!ActsOnConsent
  BY <1>1, NoneToDo, Working!ActsOnConsentHolds
<1>3. Working!Agent!Spec => []Working!Agent!CallsAreAnswered
  BY <1>1, NoneToDo, Working!CallsAreAnsweredHolds
<1>4. Working!Agent!Spec => []Working!Agent!WithinSteps
  BY <1>1, NoneToDo, Working!WithinStepsHolds
<1>5. Working!Agent!ActsOnConsent /\ Working!Agent!CallsAreAnswered /\ Working!Agent!WithinSteps => ActsAsAgreed
  BY SameAgent DEF ActsAsAgreed
<1>6. ~(part = "agent") => ActsAsAgreed  BY DEF ActsAsAgreed
<1>7. ResearchSpec /\ ~(part = "agent") => [](~(part = "agent"))
  <2>1. ~(part = "agent") /\ [ResearchNext]_<<part, Shared, vars>> => (~(part = "agent"))'  BY DEF ResearchNext
  <2> QED  BY <2>1, PTL DEF ResearchSpec
<1> QED  BY <1>2, <1>3, <1>4, <1>5, <1>6, <1>7, AgentRun, PTL

=============================================================================
