----------------------------- MODULE BacktestJobs -----------------------------
(***************************************************************************)
(* Backtests in the background (application/backtest_jobs.py) and the       *)
(* streams of their events (api/routers/backtest.py): the stream of a job   *)
(* polls its list of events, the direct stream of a run reads a queue.      *)
(*                                                                         *)
(* All of it is one process; an action is what happens between two awaits   *)
(* that really wait.  Appending an event and putting it into the unbounded  *)
(* queue do not.                                                           *)
(***************************************************************************)
EXTENDS Naturals, Sequences, SequencesExt

CONSTANTS
    Jobs,
    Readers,        \* streams of jobs
    MaxProgress     \* bound on the progress events of one run

Over == {"completed", "failed", "cancelled"}

VARIABLES
    status,     \* of each job; "none" before it is submitted
    begun,      \* jobs whose coroutine took its first step
    events,     \* the list of each job
    reader,     \* the streams of jobs
    direct,     \* the one direct run: its status, its queue, its stream, and
                \* whether it ended when its stream had nothing left to take
    serving     \* does the application still run?
vars == <<status, begun, events, reader, direct, serving>>

\* A stream: its job, what it took from the list and has still to send, what it
\* sent, and where it stands.
Closed == [at |-> "closed", job |-> {}, taken |-> <<>>, sent |-> <<>>]

Init ==
    /\ status = [j \in Jobs |-> "none"] /\ begun = {}
    /\ events = [j \in Jobs |-> <<>>]
    /\ reader = [r \in Readers |-> Closed]
    /\ direct = [status |-> "none", queue |-> <<>>, at |-> "closed", sent |-> <<>>, late |-> FALSE]
    /\ serving = TRUE

-----------------------------------------------------------------------------
Submit(j) ==
    /\ serving /\ status[j] = "none"
    /\ status' = [status EXCEPT ![j] = "queued"]
    /\ UNCHANGED <<begun, events, reader, direct, serving>>

Publish(j, e) == events' = [events EXCEPT ![j] = Append(@, e)]
\* _run: the first step goes up to the first wait of the backtest, or to its end.
Begin(j) ==
    /\ serving /\ status[j] = "queued" /\ begun' = begun \cup {j}
    /\ status' = [status EXCEPT ![j] = "running"]
    /\ UNCHANGED <<events, reader, direct, serving>>
Progress(j) ==
    /\ status[j] = "running" /\ Len(events[j]) < MaxProgress
    /\ Publish(j, "progress")
    /\ UNCHANGED <<status, begun, reader, direct, serving>>
\* The outcome is set and published in one step.
PublishOutcome(j, s) == Publish(j, s)
Finish(j) ==
    /\ status[j] = "running"
    /\ \E s \in {"completed", "failed"} :
          status' = [status EXCEPT ![j] = s] /\ PublishOutcome(j, s)
    /\ UNCHANGED <<begun, reader, direct, serving>>

\* stop: the coroutines that began end as cancelled, the others never begin.
Stop ==
    /\ serving /\ serving' = FALSE
    /\ UNCHANGED <<status, begun, events, reader, direct>>
Cancel(j) ==
    /\ ~serving /\ status[j] = "running"
    /\ status' = [status EXCEPT ![j] = "cancelled"] /\ PublishOutcome(j, "cancelled")
    /\ UNCHANGED <<begun, reader, direct, serving>>

-----------------------------------------------------------------------------
\* stream: a round takes what is new, sends it event by event, and ends the
\* stream if the job is over and nothing else has arrived.
Open(r, j) ==
    /\ reader[r] = Closed /\ status[j] # "none"
    /\ reader' = [reader EXCEPT ![r] = [@ EXCEPT !.at = "take", !.job = {j}]]
    /\ UNCHANGED <<status, begun, events, direct, serving>>
Take(r, j) ==
    /\ reader[r].at = "take" /\ j \in reader[r].job
    /\ reader' = [reader EXCEPT ![r].at = "send",
                    ![r].taken = SubSeq(events[j], Len(reader[r].sent) + 1, Len(events[j]))]
    /\ UNCHANGED <<status, begun, events, direct, serving>>
Send(r) ==
    /\ reader[r].at = "send" /\ reader[r].taken # <<>>
    /\ reader' = [reader EXCEPT ![r].taken = Tail(@), ![r].sent = Append(@, Head(reader[r].taken))]
    /\ UNCHANGED <<status, begun, events, direct, serving>>
OnlyCompleted(r, j) == status[j] = "completed" /\ Len(reader[r].sent) >= Len(events[j])
OverAtLast(r, j) == status[j] \in Over
SentAll(r, j) == status[j] \in Over /\ Len(reader[r].sent) >= Len(events[j])
Round(r, j) ==
    /\ reader[r].at = "send" /\ reader[r].taken = <<>> /\ j \in reader[r].job
    /\ reader' = [reader EXCEPT ![r].at = IF SentAll(r, j) THEN "ended" ELSE "take"]
    /\ UNCHANGED <<status, begun, events, direct, serving>>

-----------------------------------------------------------------------------
\* stream_backtest: the run is a task of its own, which may end without a last
\* event (rejected data, an exception).
Direct(next) == direct' = next /\ UNCHANGED <<status, begun, events, reader, serving>>
OpenDirect ==
    /\ direct.status = "none" /\ Direct([direct EXCEPT !.status = "running", !.at = "wait"])
Put ==
    /\ direct.status = "running" /\ Len(direct.sent) + Len(direct.queue) < MaxProgress
    /\ Direct([direct EXCEPT !.queue = Append(@, "progress")])
FinishDirect ==
    /\ direct.status = "running"
    /\ \E s \in {"completed", "failed"} :
          Direct([direct EXCEPT !.status = s, !.late = direct.at = "wait" /\ direct.queue = <<>>])
\* What get returns is sent, and the stream looks whether the run is over
\* before it waits for the next one.
Get ==
    /\ direct.at = "wait" /\ direct.queue # <<>>
    /\ Direct([direct EXCEPT !.queue = Tail(@), !.sent = Append(@, Head(direct.queue)), !.at = "look"])
RunCompleted == direct.status = "completed" /\ direct.queue = <<>>
LookOnce == direct.status \in Over
NothingLeft == direct.status \in Over /\ direct.queue = <<>>
LookDirect ==
    /\ direct.at = "look"
    /\ Direct(IF NothingLeft
              THEN [direct EXCEPT !.at = "ended", !.sent = Append(@, direct.status)]
              ELSE [direct EXCEPT !.at = "wait"])

Runs(j) == Begin(j) \/ Finish(j) \/ Cancel(j)
Reads(r) == Send(r) \/ \E j \in Jobs : Take(r, j) \/ Round(r, j)
Next ==
    \/ \E j \in Jobs : Submit(j) \/ Progress(j) \/ Runs(j) \/ \E r \in Readers : Open(r, j)
    \/ \E r \in Readers : Reads(r)
    \/ Stop \/ OpenDirect \/ Put \/ FinishDirect \/ Get \/ LookDirect

Spec == Init /\ [][Next]_vars

\* Backtests end, and the event loop runs every coroutine that can run.
Fairness ==
    /\ \A j \in Jobs : WF_vars(Runs(j))
    /\ \A r \in Readers : WF_vars(Reads(r))
    /\ WF_vars(FinishDirect) /\ WF_vars(Get \/ LookDirect)
LiveSpec == Spec /\ Fairness

-----------------------------------------------------------------------------
\* Every variable has its type.
TypeOK ==
    /\ status \in [Jobs -> {"none", "queued", "running"} \cup Over]
    /\ begun \subseteq Jobs /\ serving \in BOOLEAN
    /\ \A j \in Jobs : events[j] \in Seq({"progress"} \cup Over)
    /\ \A r \in Readers : reader[r].at \in {"closed", "take", "send", "ended"}
    /\ direct.at \in {"closed", "wait", "look", "ended"}

\* A stream that ended has sent every event of its job in order, and the last
\* of them is the outcome.
StreamsAreComplete ==
    \A r \in Readers, j \in Jobs : j \in reader[r].job =>
        /\ IsPrefix(reader[r].sent \o reader[r].taken, events[j])
        /\ reader[r].at = "ended" => reader[r].sent = events[j] /\ Last(events[j]) = status[j]

\* The direct stream ends with the outcome and has sent all that was queued.
DirectIsComplete ==
    direct.at = "ended" => direct.queue = <<>> /\ Last(direct.sent) = direct.status

\* A stream of a job comes to its end, unless the application stopped before
\* the job began: nothing says then that it never will.
StreamsEnd ==
    \A r \in Readers, j \in Jobs :
        []<>(reader[r].job = {j} => reader[r].at = "ended" \/ (~serving /\ j \notin begun))

\* The direct stream comes to its end, unless the run ended while the stream
\* was already waiting for one more event.
DirectEnds ==
    []<>(direct.at # "closed" => direct.at = "ended" \/ direct.late)
=============================================================================
