------------------------------ MODULE MCProgress ------------------------------
(* Liveness of AutomationRun, BacktestJobs and ChatStream in one run of TLC: a *)
(* behaviour is of one of them, the others stay as they begin.                *)
EXTENDS AutomationRun, TLC

CONSTANTS n1, n2, s1, s2, j, r, p

VARIABLES
    part,                                               \* what the behaviour is of
    job, begun, events, reader, direct, serving,        \* BacktestJobs
    chat, message, parts, log, emitted, writer, lock, canceller, page, spent  \* ChatStream

TwoNodes == (s1 :> n1) @@ (s2 :> n2)
NoTrouble == [manual |-> 0, edits |-> 0, failures |-> 0, crashes |-> 0]

JobsPart == INSTANCE BacktestJobs WITH
    Jobs <- {j}, Readers <- {r}, MaxProgress <- 2, status <- job
JobVars == <<job, begun, events, reader, direct, serving>>
StreamPart == INSTANCE ChatStream WITH
    Pages <- {p}, MaxParts <- 1, Limit <- [cancels |-> 1, answers |-> 1, crashes |-> 1, drops |-> 1],
    status <- chat, used <- spent
StreamVars == <<chat, message, parts, log, emitted, writer, lock, canceller, page, spent>>

ProgressInit ==
    /\ part \in {"runs", "jobs", "stream"}
    /\ Init /\ JobsPart!Init /\ StreamPart!Init
ProgressNext ==
    /\ UNCHANGED part
    /\ \/ part = "runs" /\ Next /\ UNCHANGED <<JobVars, StreamVars>>
       \/ part = "jobs" /\ JobsPart!Next /\ UNCHANGED <<vars, StreamVars>>
       \/ part = "stream" /\ StreamPart!Next /\ UNCHANGED <<vars, JobVars>>

\* The fairness of each part, asked of its own behaviours only.
FairRuns ==
    /\ \A c \in Callers :
          /\ WF_vars(part = "runs" /\ Step(c)) /\ WF_vars(part = "runs" /\ Tick(c))
          /\ SF_vars(part = "runs" /\ Lock(c)) /\ SF_vars(part = "runs" /\ Settle(c))
    /\ \A k \in Keys : WF_vars(part = "runs" /\ Lapse(k))
FairJobs ==
    /\ WF_JobVars(part = "jobs" /\ JobsPart!Runs(j))
    /\ WF_JobVars(part = "jobs" /\ JobsPart!Reads(r))
    /\ WF_JobVars(part = "jobs" /\ JobsPart!FinishDirect)
    /\ WF_JobVars(part = "jobs" /\ (JobsPart!Get \/ JobsPart!LookDirect))
FairStream == WF_StreamVars(part = "stream" /\ StreamPart!PageStep(p))
ProgressSpec ==
    /\ ProgressInit /\ [][ProgressNext]_<<part, vars, JobVars, StreamVars>>
    /\ FairRuns /\ FairJobs /\ FairStream

\* What the parts promise.
StreamsEnd == JobsPart!StreamsEnd /\ JobsPart!DirectEnds /\ StreamPart!PagesClose
=============================================================================
