------------------------------- MODULE ChatTask -------------------------------
(***************************************************************************)
(* The life of the chat tasks of one conversation on a cluster of backend   *)
(* nodes that share one database: ChatStore (application/chat_store.py)     *)
(* holds the durable rows, a ChatTaskManager (application/chat_service.py)  *)
(* on every node polls for runnable tasks, claims them and runs the agent   *)
(* in asyncio coroutines.  An action is what happens between two awaits:    *)
(* one database statement and the local bookkeeping done with its result.   *)
(*                                                                         *)
(* Left out: the message row, its parts and the event log (they do not      *)
(* decide who runs), and the wording of errors.                            *)
(***************************************************************************)
EXTENDS Integers, FiniteSets

CONSTANTS
    Nodes,       \* backend processes, one ChatTaskManager each
    NTasks,      \* tasks the clients ever create, in this order
    Runs,        \* identities for agent coroutines (bound: alive at once)
    NoRun,       \* the node's _tasks has no entry for the task
    Husk,        \* ... has an entry whose coroutine is over
    Slots,       \* bound: calls of the managers under way at once
    Limit        \* bounds, by name, on what clients and processes do

Bounds == {"sends", "asks", "cancels", "deletes", "crashes", "stops"}

ASSUME ChatTaskAssumption ==
    /\ NTasks \in Nat
    /\ NoRun \notin Runs /\ Husk \notin Runs /\ NoRun # Husk
    /\ Limit \in [Bounds -> Nat]

Tasks == 1..NTasks

VARIABLES
    status,      \* ChatTask.status; "absent" before the row exists
    stale,       \* ChatTask.updated_at is more than two minutes old
    asked,       \* how many ChatTaskInteractions the task has
    interaction, \* the status of the latest one
    resume,      \* ChatTaskState holds a "resume_interaction" payload
    run,         \* the agent coroutines
    entry,       \* per node, the _tasks dictionary: task -> coroutine
    node,        \* what each process is doing
    marks,       \* tasks a stopping node has still to hand over
    call,        \* calls of the manager suspended at an await
    used         \* how much of each bound is spent

database == <<status, stale, asked, interaction, resume>>
processes == <<run, entry, node, marks>>
vars == <<database, processes, call, used>>

Terminal == {"completed", "failed", "cancelled", "superseded"}
Active == {"pending", "running", "interrupted", "cancel_requested", "waiting_user"}
Statuses == Active \cup Terminal \cup {"absent", "deleted"}

\* What list_runnable_tasks offers and begin_task claims.
ClaimsRunning == {"pending", "running", "interrupted"}
Runnable == {"pending", "interrupted"}

\* What complete_task finishes.
CompletesCancelled == {"pending", "running", "cancel_requested"}
Completable == {"pending", "running"}

\* What recover_stale_tasks takes from a dead worker.
ExpiresRunning == {"running"}
Expiring == {"running", "cancel_requested"}

(***************************************************************************)
(* append_part refuses to extend the answer of such a task.  A task that    *)
(* waits for its user is not among them.                                    *)
(***************************************************************************)
Closed == {"cancel_requested", "cancelled", "completed", "failed",
           "interrupted", "superseded", "deleted"}

\* Where a coroutine is: inside the try block of _run, in one of its exception
\* handlers, or in its finally block.
Trying == {"work", "asking", "pausing", "finishing", "reporting"}
Handling == {"failing", "dropping", "closing"}
Pcs == Trying \cup Handling \cup {"cleanup"}

Idle == [pc |-> "idle"]
Coroutine == [pc : Pcs, node : Nodes, task : Tasks, resumed : BOOLEAN, kill : BOOLEAN]
Live(r) == run[r] # Idle

Ops == {"prepare", "load", "start", "drop", "begin", "answer", "store", "requeue",
        "void", "kill", "delete"}
Call == [op : Ops, node : Nodes, task : Tasks, resumed : BOOLEAN, question : Nat,
         run : Runs \cup {NoRun}, victim : 0..NTasks, poller : BOOLEAN]
NoCall == [op |-> "none"]

Init ==
    /\ status = [t \in Tasks |-> "absent"]
    /\ stale = [t \in Tasks |-> FALSE]
    /\ asked = [t \in Tasks |-> 0]
    /\ interaction = [t \in Tasks |-> "none"]
    /\ resume = [t \in Tasks |-> FALSE]
    /\ run = [r \in Runs |-> Idle]
    /\ entry = [n \in Nodes |-> [t \in Tasks |-> NoRun]]
    /\ node = [n \in Nodes |-> "up"]
    /\ marks = [n \in Nodes |-> {}]
    /\ call = [k \in Slots |-> NoCall]
    /\ used = [b \in Bounds |-> 0]

-----------------------------------------------------------------------------
\* One UPDATE of the task's row: the new status and a fresh updated_at.
Write(t, s) ==
    /\ status' = [status EXCEPT ![t] = s]
    /\ stale' = [stale EXCEPT ![t] = FALSE]

\* mark_cancelled.
MisspellCancelled(t) ==
    IF status[t] = "cancel_requested" THEN Write(t, "canceled") ELSE UNCHANGED <<status, stale>>
CloseCancelled(t) ==
    IF status[t] = "cancel_requested" THEN Write(t, "cancelled") ELSE UNCHANGED <<status, stale>>

\* update_task: the same without a condition; no row, no update.
Overwrite(t, s) ==
    IF status[t] = "deleted" THEN UNCHANGED <<status, stale>> ELSE Write(t, s)

Spend(b) ==
    /\ used[b] < Limit[b]
    /\ used' = [used EXCEPT ![b] = @ + 1]

\* Node n accepts a call and suspends it before operation op.  What the call
\* remembers: the coroutine it looked up, the task it found active.
Accept(op, n, t, r, v, poller) ==
    /\ node[n] = "up"
    /\ \E k \in Slots :
         /\ call[k] = NoCall
         /\ call' = [call EXCEPT ![k] =
               [op |-> op, node |-> n, task |-> t, resumed |-> FALSE,
                question |-> asked[t], run |-> r, victim |-> v, poller |-> poller]]

At(k, op) == call[k].op = op
Goto(k, op) == call' = [call EXCEPT ![k].op = op]
GotoStart(k, resumed) == call' = [call EXCEPT ![k].op = "start", ![k].resumed = resumed]
Return(k) == call' = [call EXCEPT ![k] = NoCall]

-----------------------------------------------------------------------------
(***************************************************************************)
(* The API: /chat/send, /respond, /cancel and the deletion.                 *)
(***************************************************************************)

\* prepare_task finds the task already there: a retry of the request.
SendAgain(n, t) ==
    /\ Spend("sends")
    /\ status[t] \notin {"absent", "deleted"}
    /\ Accept("start", n, t, NoRun, 0, FALSE)
    /\ UNCHANGED <<database, processes>>

\* Tasks are numbered in the order in which their requests arrive.
Requested(t) == status[t] # "absent" \/ \E k \in Slots : At(k, "prepare") /\ call[k].task = t

\* The task prepare_task looks at: the newest active one of the conversation.
NewestActive(u) ==
    /\ status[u] \in Active
    /\ \A v \in Tasks : status[v] \in Active => v <= u

(***************************************************************************)
(* A new request.  prepare_task opens a transaction and looks for an active *)
(* task: one that waits for the user will be superseded, any other refuses  *)
(* the request.  The transaction locks nothing it reads, so what it found   *)
(* may change before it writes.                                             *)
(***************************************************************************)
Send(n, t) ==
    /\ Spend("sends")
    /\ status[t] = "absent" /\ \A u \in (t + 1)..NTasks : ~Requested(u)
    /\ \A u \in Tasks : NewestActive(u) => status[u] = "waiting_user"
    /\ \E v \in 0..NTasks :
         /\ IF v = 0 THEN \A u \in Tasks : status[u] \notin Active ELSE NewestActive(v)
         /\ Accept("prepare", n, t, NoRun, v, FALSE)
    /\ UNCHANGED <<database, processes>>

\* The rest of the transaction; the caller goes on to start.  Editing a user
\* message prunes the tasks from that message on.
Prepare(k, firstPruned) ==
    /\ At(k, "prepare")
    /\ status[call[k].task] = "absent"
    /\ LET pruned == {u \in firstPruned..NTasks : status[u] # "absent"}
           superseded == {u \in Tasks : u = call[k].victim /\ status[u] # "deleted"}
       IN /\ status' = [u \in Tasks |-> IF u = call[k].task THEN "pending"
                                        ELSE IF u \in pruned THEN "deleted"
                                        ELSE IF u \in superseded THEN "superseded"
                                        ELSE status[u]]
          /\ stale' = [u \in Tasks |-> stale[u] /\ u \notin pruned \cup superseded]
          /\ interaction' = [u \in Tasks |->
                 IF u \in pruned THEN "none"
                 ELSE IF u \in superseded /\ interaction[u] = "pending" THEN "cancelled"
                 ELSE interaction[u]]
          /\ resume' = [u \in Tasks |-> resume[u] /\ u \notin pruned]
    /\ GotoStart(k, FALSE)
    /\ UNCHANGED <<asked, processes, used>>

\* A duplicate of the request was faster: the key of the row is taken.
PrepareFails(k) ==
    /\ At(k, "prepare")
    /\ status[call[k].task] # "absent"
    /\ Return(k)
    /\ UNCHANGED <<database, processes, used>>

\* respond reads the task and proceeds only if it waits for its user.
Respond(n, t) ==
    /\ status[t] = "waiting_user" /\ interaction[t] # "none"
    /\ Accept("answer", n, t, NoRun, 0, FALSE)
    /\ UNCHANGED <<database, processes, used>>

\* What the conditional UPDATE of answer_interaction asks of the row.
AnswerTwice(k) == call[k].question = asked[call[k].task]
Answerable(k) == /\ call[k].question = asked[call[k].task]
                 /\ interaction[call[k].task] = "pending"

\* answer_interaction.
Answer(k) ==
    /\ At(k, "answer")
    /\ IF Answerable(k)
       THEN /\ interaction' = [interaction EXCEPT ![call[k].task] = "answered"]
            /\ Goto(k, "store")
       ELSE Return(k) /\ UNCHANGED interaction
    /\ UNCHANGED <<status, stale, asked, resume, processes, used>>

\* get_task_state and set_task_state: the answer becomes durable.
StoreAnswer(k) ==
    /\ At(k, "store")
    /\ IF status[call[k].task] = "deleted"
       THEN Return(k) /\ UNCHANGED resume
       ELSE /\ resume' = [resume EXCEPT ![call[k].task] = TRUE]
            /\ Goto(k, "requeue")
    /\ UNCHANGED <<status, stale, asked, interaction, processes, used>>

\* update_task(pending), and the responder calls start itself.
Requeue(k) ==
    /\ At(k, "requeue")
    /\ Overwrite(call[k].task, "pending")
    /\ GotoStart(k, TRUE)
    /\ UNCHANGED <<asked, interaction, resume, processes, used>>

\* cancel looks up its own coroutine, then request_cancel marks an active row.
\* It read both before the update: the coroutine may be newer than the look-up,
\* and the row may have been active only then.
RequestCancel(n, t) ==
    /\ Spend("cancels")
    /\ status[t] # "absent"
    /\ IF status[t] \in Active THEN Write(t, "cancel_requested") ELSE UNCHANGED <<status, stale>>
    /\ \E r \in Runs \cup {NoRun} : /\ r \in Runs => entry[n][t] = r
                                    /\ Accept("void", n, t, r, 0, FALSE)
    /\ UNCHANGED <<asked, interaction, resume, processes>>

\* Its last statement: nobody shall answer a question of the task any more.
VoidQuestion(k) ==
    /\ At(k, "void") /\ Goto(k, "kill")
    /\ interaction' = [interaction EXCEPT ![call[k].task] = IF @ = "pending" THEN "cancelled" ELSE @]
    /\ UNCHANGED <<status, stale, asked, resume, processes, used>>

\* cancel goes on: it interrupts that coroutine, or closes the task itself.
FinishCancel(k) ==
    /\ At(k, "kill") /\ Return(k)
    /\ IF call[k].run \in Runs
       THEN /\ run' = [run EXCEPT ![call[k].run].kill = TRUE]
            /\ UNCHANGED <<status, stale>>
       ELSE CloseCancelled(call[k].task) /\ UNCHANGED run
    /\ UNCHANGED <<asked, interaction, resume, entry, node, marks, used>>

\* delete_conversation checks for active tasks, then deletes whatever is there.
DeleteCheck(n) ==
    /\ Spend("deletes")
    /\ \E t \in Tasks : status[t] \notin {"absent", "deleted"}
    /\ \A t \in Tasks : status[t] \notin {"pending", "running", "cancel_requested"}
    /\ Accept("delete", n, 1, NoRun, 0, FALSE)
    /\ UNCHANGED <<database, processes>>

Delete(k) ==
    /\ At(k, "delete") /\ Return(k)
    /\ LET gone == {t \in Tasks : status[t] # "absent"}
       IN /\ status' = [t \in Tasks |-> IF t \in gone THEN "deleted" ELSE status[t]]
          /\ stale' = [t \in Tasks |-> stale[t] /\ t \notin gone]
          /\ interaction' = [t \in Tasks |-> IF t \in gone THEN "none" ELSE interaction[t]]
          /\ resume' = [t \in Tasks |-> resume[t] /\ t \notin gone]
    /\ UNCHANGED <<asked, processes, used>>

-----------------------------------------------------------------------------
(***************************************************************************)
(* The poller of a node, and ChatTaskManager.start.                         *)
(***************************************************************************)

\* recover_stale_tasks: rows nobody has refreshed for two minutes.
Recover(n) ==
    /\ node[n] = "up"
    /\ LET expired == {t \in Tasks : stale[t] /\ status[t] \in Expiring}
       IN /\ expired # {}
          /\ status' = [t \in Tasks |->
                IF t \notin expired THEN status[t]
                ELSE IF status[t] = "running" THEN "interrupted" ELSE "cancelled"]
          /\ stale' = [t \in Tasks |-> stale[t] /\ t \notin expired]
    /\ UNCHANGED <<asked, interaction, resume, processes, call, used>>

\* list_runnable_tasks names the task; the poller handles one task at a time.
Poll(n, t) ==
    /\ status[t] \in Runnable
    /\ \A k \in Slots : call[k] # NoCall => ~(call[k].poller /\ call[k].node = n)
    /\ Accept("load", n, t, NoRun, 0, TRUE)
    /\ UNCHANGED <<database, processes, used>>

\* It then loads the task's state, with the answer if there is one.
Load(k) ==
    /\ At(k, "load")
    /\ IF status[call[k].task] = "deleted"
       THEN Return(k)
       ELSE GotoStart(k, resume[call[k].task])
    /\ UNCHANGED <<database, processes, used>>

\* start: nothing to do if _tasks has an entry; otherwise the row decides.
Start(k) ==
    /\ At(k, "start")
    /\ IF entry[call[k].node][call[k].task] # NoRun THEN Return(k)
       ELSE \/ status[call[k].task] = "cancel_requested" /\ Goto(k, "drop")
            \/ status[call[k].task] \in Terminal \cup {"waiting_user"} /\ Return(k)
            \/ status[call[k].task] \in {"pending", "running", "interrupted", "deleted"}
               /\ Goto(k, "begin")
    /\ UNCHANGED <<database, processes, used>>

\* start found a cancel request: update_task(cancelled).
Drop(k) ==
    /\ At(k, "drop") /\ Return(k)
    /\ Overwrite(call[k].task, "cancelled")
    /\ UNCHANGED <<asked, interaction, resume, processes, used>>

\* begin_task claims the row, and only the claimant creates a coroutine.
Begin(k) ==
    /\ At(k, "begin")
    /\ status[call[k].task] \in Runnable
    /\ Write(call[k].task, "running")
    /\ \E r \in Runs :
         /\ ~Live(r)
         /\ run' = [run EXCEPT ![r] = [pc |-> "work", node |-> call[k].node, task |-> call[k].task,
                                       resumed |-> call[k].resumed, kill |-> FALSE]]
         /\ entry' = [entry EXCEPT ![call[k].node][call[k].task] = r]
    /\ Return(k)
    /\ UNCHANGED <<asked, interaction, resume, node, marks, used>>

BeginRefused(k) ==
    /\ At(k, "begin")
    /\ status[call[k].task] \notin Runnable
    /\ Return(k)
    /\ UNCHANGED <<database, processes, used>>

-----------------------------------------------------------------------------
(***************************************************************************)
(* _run and _run_resume, from the claim to the end of the finally block.    *)
(* A coroutine whose cancel() was called takes no other step.               *)
(***************************************************************************)
Here(r, pc) == run[r].pc = pc /\ ~run[r].kill
TaskOf(r) == run[r].task
Move(r, pc) == run' = [run EXCEPT ![r].pc = pc]

\* The coroutine is over: cancel calls that hold it see a finished task.
Exit(r) ==
    /\ run' = [run EXCEPT ![r] = Idle]
    /\ call' = [k \in Slots |-> IF call[k] # NoCall /\ call[k].run = r
                                THEN [call[k] EXCEPT !.run = NoRun] ELSE call[k]]

\* append_part returned False while the agent was working: CancelledError.
EmitRefused(r) ==
    /\ Here(r, "work") /\ status[TaskOf(r)] \in Closed
    /\ Move(r, "dropping")
    /\ UNCHANGED <<database, entry, node, marks, call, used>>

\* _emit_interaction: the row of the question ...
CreateInteraction(r) ==
    /\ Here(r, "work") /\ Spend("asks")
    /\ asked' = [asked EXCEPT ![TaskOf(r)] = @ + 1]
    /\ interaction' = [interaction EXCEPT ![TaskOf(r)] = "pending"]
    /\ Move(r, "asking")
    /\ UNCHANGED <<status, stale, resume, entry, node, marks, call>>

\* ... its part in the answer ...
ShowInteraction(r) ==
    /\ Here(r, "asking")
    /\ Move(r, IF status[TaskOf(r)] \in Closed THEN "dropping" ELSE "pausing")
    /\ UNCHANGED <<database, entry, node, marks, call, used>>

\* ... and update_task(waiting_user), which asks for no previous status.
Pause(r) ==
    /\ Here(r, "pausing")
    /\ Overwrite(TaskOf(r), "waiting_user")
    /\ Move(r, "reporting")
    /\ UNCHANGED <<asked, interaction, resume, entry, node, marks, call, used>>

\* The agent's stream ended: _run reads the task once more.
StreamEnds(r) ==
    /\ Here(r, "work")
    /\ Move(r, IF status[TaskOf(r)] \in {"cancel_requested", "deleted"}
               THEN "dropping" ELSE "finishing")
    /\ UNCHANGED <<database, entry, node, marks, call, used>>

\* complete_task.
Complete(r) ==
    /\ Here(r, "finishing")
    /\ IF status[TaskOf(r)] \in Completable
       THEN Write(TaskOf(r), "completed") /\ Move(r, "reporting")
       ELSE Move(r, "dropping") /\ UNCHANGED <<status, stale>>
    /\ UNCHANGED <<asked, interaction, resume, entry, node, marks, call, used>>

\* The last event is broadcast, the try block is left.
Report(r) ==
    /\ Here(r, "reporting") /\ Move(r, "cleanup")
    /\ UNCHANGED <<database, entry, node, marks, call, used>>

\* The agent raised, or left no outcome.  The handler shows the error first:
\* if append_part refuses, CancelledError leaves the handler.
Raise(r) ==
    /\ Here(r, "work")
    /\ Move(r, IF status[TaskOf(r)] \in Closed THEN "cleanup" ELSE "failing")
    /\ UNCHANGED <<database, entry, node, marks, call, used>>

\* update_task(failed).
MarkFailed(r) ==
    /\ Here(r, "failing")
    /\ Overwrite(TaskOf(r), "failed")
    /\ Move(r, "closing")
    /\ UNCHANGED <<asked, interaction, resume, entry, node, marks, call, used>>

\* The handler of CancelledError: mark_cancelled.
MarkCancelled(r) ==
    /\ Here(r, "dropping")
    /\ CloseCancelled(TaskOf(r))
    /\ Move(r, IF status[TaskOf(r)] = "cancel_requested" THEN "closing" ELSE "cleanup")
    /\ UNCHANGED <<asked, interaction, resume, entry, node, marks, call, used>>

\* The handler broadcasts "done".
CloseStream(r) ==
    /\ Here(r, "closing") /\ Move(r, "cleanup")
    /\ UNCHANGED <<database, entry, node, marks, call, used>>

\* The finally block pops the task, whichever coroutine the entry holds.
Cleanup(r) ==
    /\ Here(r, "cleanup") /\ Exit(r)
    /\ entry' = [entry EXCEPT ![run[r].node][TaskOf(r)] = NoRun]
    /\ UNCHANGED <<database, node, marks, used>>

(***************************************************************************)
(* CancelledError reaches the coroutine at its await.  In the try block it  *)
(* is caught; in a handler it skips the rest of it; in the finally block it *)
(* skips the pop, and _tasks keeps a finished coroutine.                    *)
(***************************************************************************)
Interrupt(r) ==
    /\ Live(r) /\ run[r].kill
    /\ LET n == run[r].node  t == TaskOf(r)  pc == run[r].pc
       IN IF pc = "cleanup"
          THEN /\ Exit(r)
               /\ entry' = [entry EXCEPT ![n][t] = IF @ = r THEN Husk ELSE @]
          ELSE /\ run' = [run EXCEPT ![r].kill = FALSE,
                             ![r].pc = IF pc \in Trying THEN "dropping" ELSE "cleanup"]
               /\ UNCHANGED <<entry, call>>
    /\ UNCHANGED <<database, node, marks, used>>

-----------------------------------------------------------------------------
(***************************************************************************)
(* The processes.                                                           *)
(***************************************************************************)

\* A coroutine refreshes its running task every 20 seconds, so a row grows
\* stale when nobody is left to do that, or when it is not running.
Lapse(t) ==
    /\ ~stale[t]
    /\ \/ status[t] = "cancel_requested"
       \/ /\ status[t] = "running"
          /\ \A r \in Runs : Live(r) /\ TaskOf(r) = t => run[r].pc = "cleanup"
    /\ stale' = [stale EXCEPT ![t] = TRUE]
    /\ UNCHANGED <<status, asked, interaction, resume, processes, call, used>>

\* Nothing of a process survives it.
Vanish(n) ==
    /\ node' = [node EXCEPT ![n] = "down"]
    /\ run' = [r \in Runs |-> IF Live(r) /\ run[r].node = n THEN Idle ELSE run[r]]
    /\ entry' = [entry EXCEPT ![n] = [t \in Tasks |-> NoRun]]
    /\ marks' = [marks EXCEPT ![n] = {}]
    /\ call' = [k \in Slots |-> IF call[k] # NoCall /\ call[k].node = n
                                THEN NoCall ELSE call[k]]

Crash(n) ==
    /\ node[n] # "down" /\ Spend("crashes")
    /\ Vanish(n)
    /\ UNCHANGED database

Restart(n) ==
    /\ node[n] = "down"
    /\ node' = [node EXCEPT ![n] = "up"]
    /\ UNCHANGED <<database, run, entry, marks, call, used>>

\* stop_worker: no new requests and no new poll ...
StopWorker(n) ==
    /\ node[n] = "up" /\ Spend("stops")
    /\ node' = [node EXCEPT ![n] = "stopping"]
    /\ UNCHANGED <<database, run, entry, marks, call>>

\* ... those under way finish, and the tasks to hand over are listed ...
WorkerStopped(n) ==
    /\ node[n] = "stopping"
    /\ \A k \in Slots : call[k] # NoCall => call[k].node # n
    /\ node' = [node EXCEPT ![n] = "marking"]
    /\ marks' = [marks EXCEPT ![n] = {t \in Tasks : entry[n][t] # NoRun}]
    /\ UNCHANGED <<database, run, entry, call, used>>

\* ... each gets update_task(interrupted), whatever its status ...
HandOver(n, t) ==
    /\ node[n] = "marking" /\ t \in marks[n]
    /\ Overwrite(t, "interrupted")
    /\ marks' = [marks EXCEPT ![n] = @ \ {t}]
    /\ UNCHANGED <<asked, interaction, resume, run, entry, node, call, used>>

\* ... only then are the coroutines cancelled ...
CancelRuns(n) ==
    /\ node[n] = "marking" /\ marks[n] = {}
    /\ node' = [node EXCEPT ![n] = "draining"]
    /\ run' = [r \in Runs |-> IF \E t \in Tasks : entry[n][t] = r
                              THEN [run[r] EXCEPT !.kill = TRUE] ELSE run[r]]
    /\ UNCHANGED <<database, entry, marks, call, used>>

\* ... and gathered before the process ends.
Exited(n) ==
    /\ node[n] = "draining"
    /\ \A t \in Tasks : entry[n][t] \notin Runs
    /\ Vanish(n)
    /\ UNCHANGED <<database, used>>

-----------------------------------------------------------------------------
Api(n) == \/ \E t \in Tasks : SendAgain(n, t) \/ Send(n, t) \/ Respond(n, t) \/ RequestCancel(n, t)
          \/ DeleteCheck(n)

CallStep(k) == \/ \E p \in 1..NTasks + 1 : Prepare(k, p)
               \/ PrepareFails(k) \/ VoidQuestion(k) \/ Answer(k) \/ StoreAnswer(k) \/ Requeue(k) \/ FinishCancel(k) \/ Delete(k)
               \/ Load(k) \/ Start(k) \/ Drop(k) \/ Begin(k) \/ BeginRefused(k)

Ends(r) == StreamEnds(r) \/ Raise(r)
RunStep(r) == \/ EmitRefused(r) \/ CreateInteraction(r) \/ ShowInteraction(r) \/ Pause(r)
              \/ Ends(r) \/ Complete(r) \/ Report(r) \/ MarkFailed(r) \/ MarkCancelled(r)
              \/ CloseStream(r) \/ Cleanup(r) \/ Interrupt(r)

Shutdown(n) == \/ WorkerStopped(n) \/ CancelRuns(n) \/ Exited(n)
               \/ \E t \in Tasks : HandOver(n, t)

Process(n) == \/ Recover(n) \/ Crash(n) \/ Restart(n) \/ StopWorker(n) \/ Shutdown(n)
              \/ \E t \in Tasks : Poll(n, t)

Next ==
    \/ \E n \in Nodes : Api(n) \/ Process(n)
    \/ \E k \in Slots : CallStep(k)
    \/ \E r \in Runs : RunStep(r)
    \/ \E t \in Tasks : Lapse(t)

Spec == Init /\ [][Next]_vars

(***************************************************************************)
(* What the event loops owe: a statement returns, an agent's stream ends,   *)
(* a live node polls every two seconds and visits every runnable task, a    *)
(* shutdown proceeds, and two minutes pass.  Nobody owes a crash, a         *)
(* restart, a question or a request.                                        *)
(***************************************************************************)
Fairness ==
    /\ \A k \in Slots : WF_vars(CallStep(k))
    /\ \A r \in Runs : WF_vars(RunStep(r))
    /\ \A n \in Nodes : /\ WF_vars(Recover(n)) /\ WF_vars(Shutdown(n))
                         /\ \A t \in Tasks : SF_vars(Poll(n, t))
    /\ \A t \in Tasks : WF_vars(Lapse(t))

FairSpec == Spec /\ Fairness

-----------------------------------------------------------------------------
\* Every variable has its type: the rows, the coroutines and the calls.
RowsOK ==
    /\ status \in [Tasks -> Statuses]
    /\ stale \in [Tasks -> BOOLEAN]
    /\ asked \in [Tasks -> Nat]
    /\ interaction \in [Tasks -> {"none", "pending", "answered", "cancelled"}]
    /\ resume \in [Tasks -> BOOLEAN]
RunsOK == run \in [Runs -> Coroutine \cup {Idle}]
NodesOK ==
    /\ entry \in [Nodes -> [Tasks -> Runs \cup {NoRun, Husk}]]
    /\ node \in [Nodes -> {"up", "stopping", "marking", "draining", "down"}]
    /\ marks \in [Nodes -> SUBSET Tasks]
CallsOK == call \in [Slots -> Call \cup {NoCall}]
TypeOK == RowsOK /\ RunsOK /\ NodesOK /\ CallsOK /\ used \in [Bounds -> Nat]

\* A coroutine that can still extend the answer or decide how the task ends.
Working(r) == run[r].pc \in {"work", "asking", "pausing", "finishing", "failing"}

\* A task is worked on by one coroutine of one node at a time, across claims,
\* retries, cancellations, answers and takeovers from dead nodes.
OneWorker ==
    \A r, s \in Runs : Working(r) /\ Working(s) /\ TaskOf(r) = TaskOf(s) => r = s

\* Of the users who answer the same question, on whichever nodes, one at most
\* gets as far as making the task runnable again.
Resuming(k) == call[k].op \in {"store", "requeue"}
AnsweredOnce ==
    \A j, k \in Slots : Resuming(j) /\ Resuming(k) /\ call[j].task = call[k].task => j = k

(***************************************************************************)
(* Why: a task being worked on is never runnable and its lease is fresh;    *)
(* between the answer and the requeue nobody works on the task, nobody can  *)
(* answer again, and nothing but the requeue makes the task runnable.       *)
(* All of it needs that no node marks its tasks as interrupted while their  *)
(* coroutines still run, which stop_worker does.                            *)
(***************************************************************************)
NoShutdown == \A n \in Nodes : node[n] \in {"up", "down"}
Held ==
    \A r \in Runs : Working(r) =>
        /\ status[TaskOf(r)] \in
             {"running", "cancel_requested", "cancelled", "superseded", "deleted"}
        /\ status[TaskOf(r)] = "running" => ~stale[TaskOf(r)]
Pressing(k) == Resuming(k) \/ (call[k].op = "answer" /\ Answerable(k))
Suspended ==
    \A k \in Slots : Pressing(k) =>
        /\ status[call[k].task] \in
             {"waiting_user", "cancel_requested", "cancelled", "superseded", "deleted"}
        /\ \A r \in Runs : Working(r) => TaskOf(r) # call[k].task
Taken == \A k \in Slots : Resuming(k) => interaction[call[k].task] # "pending"
Numbered == \A k \in Slots : call[k] # NoCall => call[k].question <= asked[call[k].task]
Exclusion == NoShutdown /\ OneWorker /\ AnsweredOnce /\ Held /\ Suspended /\ Taken /\ Numbered

\* A task whose cancellation was accepted does not complete: the worker that
\* finishes at the same moment finds the row changed.
CancelNotCompleted ==
    [][\A t \in Tasks : status[t] = "cancel_requested" => status'[t] # "completed"]_vars

\* The outcome of a task that completed or failed is not rewritten by a claim, a
\* retry, a late answer or a takeover; a start or a new request that read the
\* task before may still drop or supersede it.
ConcludedStays ==
    [][\A t \in Tasks : status[t] \in {"completed", "failed"} =>
         status'[t] \in {status[t], "cancelled", "superseded", "deleted"}]_vars

\* Every node that is not down keeps a finished coroutine in _tasks.
Abandoned(t) == \A n \in Nodes : node[n] # "down" => entry[n][t] = Husk

\* A task in any of the transient states comes to an end or waits for its
\* user, whichever nodes die on the way, except when a cancellation cut off
\* the finally block of its last coroutine on every node that is left.
Settles ==
    \A t \in Tasks :
        status[t] \in Active \ {"waiting_user"}
          ~> status[t] \in Terminal \cup {"waiting_user", "deleted"} \/ Abandoned(t)

-----------------------------------------------------------------------------
(***************************************************************************)
(* A promise of the code that its runs refute.                              *)
(***************************************************************************)

\* "every claimant resumes the selected branch instead of restarting the
\* original request" (respond): whoever claims a task with a stored answer
\* runs _run_resume.
EveryClaimantResumes ==
    [][\A r \in Runs : /\ run[r] = Idle /\ run'[r] # Idle
                       /\ resume[run'[r].task]
                       => run'[r].resumed]_vars
=============================================================================
