------------------------------ MODULE ChatStream ------------------------------
(***************************************************************************)
(* One chat task as its readers see it: the parts of its message and its    *)
(* event log (application/chat_service.py, chat_store.py), the streams that *)
(* replay the log (api/routers/chat.py), and the pages that follow a stream *)
(* and reconnect (frontend/src/pages/chat.tsx).                             *)
(*                                                                         *)
(* The agent and the progress reporter of its process write.  A part goes   *)
(* into the message, which is read and rewritten whole, and then into the   *)
(* log, under a lock of the process.  (Outcomes and references, which are   *)
(* only logged, are left out.)  ChatTask has the life of the task           *)
(* itself; here its process may die and another one go on, and no newer      *)
(* request supersedes it.                                                   *)
(***************************************************************************)
EXTENDS Naturals, Sequences

CONSTANTS
    Pages,      \* browser pages that follow the task
    MaxParts,   \* bound on the parts that are emitted
    Limit       \* what a behaviour may contain: cancels, answers, crashes, drops

Writers == {"agent", "reporter"}
Live == {"pending", "running"}
\* append_part and _broadcast stop for these; subscribe ends for those.
Closed == {"cancel_requested", "cancelled", "completed", "failed", "interrupted"}
EndsStream == {"completed", "failed", "cancelled", "waiting_user"}
Statuses == Live \cup Closed \cup {"waiting_user"}

VARIABLES
    status,     \* of the task
    message,    \* the status of the assistant's message
    parts,      \* the parts of the message
    log,        \* the events, numbered by their places
    emitted,    \* how many parts were emitted
    writer,     \* what each writer is doing
    lock,       \* the writer that is inside of _broadcast
    canceller,  \* a cancel request under way
    page,       \* the pages: their stream, what they show and know
    used        \* the spent part of Limit
vars == <<status, message, parts, log, emitted, writer, lock, canceller, page, used>>

\* A writer: where it stands, the event it is about, what it read of the
\* message and of the log, and the status the task gets before the event.
Off == [at |-> "off", event |-> 0, read |-> <<>>, last |-> 0, status |-> "none"]
Ready == [Off EXCEPT !.at = "ready"]
\* The events of a part are numbers, the others have names.
IsPart(e) == e \in 1..MaxParts
Done == MaxParts + 1
Question == MaxParts + 2

\* A page: its stream's phase, the stream's cursor and whether its last look
\* found events, the page's cursor, and the events it shows.
NewPage == [at |-> "list", cursor |-> 0, fresh |-> FALSE, last |-> 0, shown |-> <<>>]

Init ==
    /\ status = "running" /\ message = "running"
    /\ parts = <<>> /\ log = <<>> /\ emitted = 0
    /\ writer = [w \in Writers |-> Ready]
    /\ lock = {} /\ canceller = "idle"
    /\ page = [p \in Pages |-> NewPage]
    /\ used = [cancels |-> 0, answers |-> 0, crashes |-> 0, drops |-> 0]

Spend(what) == used[what] < Limit[what] /\ used' = [used EXCEPT ![what] = @ + 1]
At(w, phase) == writer[w].at = phase
Goes(w, next) == writer' = [writer EXCEPT ![w] = next]
Task == <<status, message>>
Store == <<parts, log, emitted>>
Rest == <<canceller, page, used>>

-----------------------------------------------------------------------------
\* A part: append_part reads the message, then the task, and writes the
\* message.  The reporter looks at the task before it begins.
Emit(w) ==
    /\ At(w, "ready") /\ emitted < MaxParts
    /\ w = "reporter" => status \in Live
    /\ emitted' = emitted + 1
    /\ \E then \in {"none", "waiting_user"} :
          /\ then = "waiting_user" => w = "agent"
          /\ Goes(w, [Ready EXCEPT !.at = "read", !.event = emitted + 1, !.status = then])
    /\ UNCHANGED <<Task, parts, log, lock, Rest>>
ReadMessage(w) ==
    /\ At(w, "read")
    /\ Goes(w, [writer[w] EXCEPT !.at = "check", !.read = parts])
    /\ UNCHANGED <<Task, Store, lock, Rest>>
Cancelled(w) == IF w = "agent" THEN [Off EXCEPT !.at = "cancelled"] ELSE Off
CheckTask(w) ==
    /\ At(w, "check")
    /\ Goes(w, IF status \in Closed THEN Cancelled(w) ELSE [writer[w] EXCEPT !.at = "write"])
    /\ UNCHANGED <<Task, Store, lock, Rest>>
WriteMessage(w) ==
    /\ At(w, "write")
    /\ parts' = Append(writer[w].read, writer[w].event)
    /\ message' = "running"
    /\ Goes(w, IF writer[w].status = "none" THEN [writer[w] EXCEPT !.at = "lock"]
               ELSE [writer[w] EXCEPT !.at = "mark", !.event = Question])
    /\ UNCHANGED <<status, log, emitted, lock, Rest>>

\* _broadcast: under the lock, a closed task gets no event but "done"; then
\* append_event takes the next number.
Lock(w) ==
    /\ At(w, "lock") /\ lock = {} /\ lock' = {w}
    /\ Goes(w, [writer[w] EXCEPT !.at = "look"])
    /\ UNCHANGED <<Task, Store, Rest>>
After(w) == IF writer[w].status = "none" THEN Ready ELSE [Off EXCEPT !.at = "finally"]
DroppedNever(e) == FALSE
Dropped(e) == e # Done /\ status \in Closed
LookAtTask(w) ==
    /\ At(w, "look")
    /\ IF Dropped(writer[w].event) THEN Goes(w, After(w)) /\ lock' = {}
       ELSE Goes(w, [writer[w] EXCEPT !.at = "number"]) /\ UNCHANGED lock
    /\ UNCHANGED <<Task, Store, Rest>>
ReadNumber(w) ==
    /\ At(w, "number")
    /\ Goes(w, [writer[w] EXCEPT !.at = "insert", !.last = Len(log)])
    /\ UNCHANGED <<Task, Store, lock, Rest>>
Insert(w) ==
    /\ At(w, "insert") /\ writer[w].last = Len(log)
    /\ log' = Append(log, writer[w].event)
    /\ Goes(w, After(w)) /\ lock' = {}
    /\ UNCHANGED <<Task, parts, emitted, Rest>>

\* The stream of the agent ends: complete_task is conditional.  A failure is
\* not, once its message is emitted (not told apart from a part), which raises
\* again if the task is closed.
Complete ==
    /\ At("agent", "ready")
    /\ IF status \in Live
       THEN /\ status' = "completed"
            /\ Goes("agent", [Off EXCEPT !.at = "note", !.event = Done, !.status = "completed"])
       ELSE Goes("agent", Cancelled("agent")) /\ UNCHANGED status
    /\ UNCHANGED <<message, Store, lock, Rest>>
Fail ==
    /\ At("agent", "ready")
    /\ Goes("agent", IF status \in Closed THEN [Off EXCEPT !.at = "finally"]
                     ELSE [Off EXCEPT !.at = "mark", !.event = Done, !.status = "failed"])
    /\ UNCHANGED <<Task, Store, lock, Rest>>
\* update_task: the task, then the message, whatever they say.
Mark ==
    /\ At("agent", "mark") /\ status' = writer["agent"].status
    /\ Goes("agent", [writer["agent"] EXCEPT !.at = "note"])
    /\ UNCHANGED <<message, Store, lock, Rest>>
MarkCancelled ==
    /\ At("agent", "cancelled")
    /\ IF status = "cancel_requested"
       THEN /\ status' = "cancelled"
            /\ Goes("agent", [Off EXCEPT !.at = "note", !.event = Done, !.status = "cancelled"])
       ELSE Goes("agent", [Off EXCEPT !.at = "finally"]) /\ UNCHANGED status
    /\ UNCHANGED <<message, Store, lock, Rest>>
Note ==
    /\ At("agent", "note") /\ message' = writer["agent"].status
    /\ Goes("agent", [writer["agent"] EXCEPT !.at = "lock"])
    /\ UNCHANGED <<status, Store, lock, Rest>>
\* The finally block ends the reporter wherever it stands.
Finally ==
    /\ At("agent", "finally")
    /\ writer' = [w \in Writers |-> Off] /\ lock' = {}
    /\ UNCHANGED <<Task, Store, Rest>>

-----------------------------------------------------------------------------
\* A cancel: the task, the message, and then the coroutine, if it still runs.
RequestCancel ==
    /\ canceller = "idle" /\ status \in Live \cup {"interrupted", "waiting_user"}
    /\ Spend("cancels")
    /\ status' = "cancel_requested" /\ canceller' = "note"
    /\ UNCHANGED <<message, Store, writer, lock, page>>
NoteCancel ==
    /\ canceller = "note" /\ message' = "cancel_requested" /\ canceller' = "deliver"
    /\ UNCHANGED <<status, Store, writer, lock, page, used>>
\* Delivered inside of _broadcast, the cancellation also leaves the lock.  The
\* handlers of other exceptions and the finally block are cut short by it.  A
\* node that does not run the coroutine only marks the task.
Deliver ==
    /\ canceller = "deliver" /\ canceller' = "idle"
    /\ \/ /\ IF status = "cancel_requested" THEN status' = "cancelled" /\ message' = "cancelled"
             ELSE UNCHANGED Task
          /\ UNCHANGED <<writer, lock>>
       \/ /\ ~At("agent", "off")
          /\ Goes("agent", [Off EXCEPT !.at =
                  IF writer["agent"].event = Done THEN "finally" ELSE "cancelled"])
          /\ lock' = lock \ {"agent"} /\ UNCHANGED Task
    /\ UNCHANGED <<Store, page, used>>

\* An answer, a dead process whose task is recovered, and the run that goes on.
Answer ==
    /\ status = "waiting_user" /\ Spend("answers")
    /\ status' = "pending" /\ message' = "pending"
    /\ UNCHANGED <<Store, writer, lock, canceller, page>>
Crash ==
    /\ ~At("agent", "off") /\ Spend("crashes")
    /\ writer' = [w \in Writers |-> Off] /\ lock' = {} /\ canceller' = "idle"
    /\ UNCHANGED <<Task, Store, page>>
Recover ==
    /\ At("agent", "off") /\ status = "running"
    /\ status' = "interrupted" /\ message' = "interrupted"
    /\ UNCHANGED <<Store, writer, lock, Rest>>
Begin ==
    /\ At("agent", "off") /\ status \in {"pending", "interrupted"}
    /\ status' = "running" /\ message' = "running"
    /\ writer' = [w \in Writers |-> Ready]
    /\ UNCHANGED <<Store, lock, Rest>>

-----------------------------------------------------------------------------
\* subscribe: the events after the cursor, then the task; and the page, which
\* skips what it has, shows the rest and remembers the last number.
ToPage(p, next) == page' = [page EXCEPT ![p] = next]
World == <<Task, Store, writer, lock, canceller>>
Forgets(p, fresh) == [page[p] EXCEPT !.cursor = Len(log), !.shown = @ \o fresh]
Received(p, fresh) ==
    [page[p] EXCEPT !.cursor = Len(log), !.shown = @ \o fresh, !.last = Len(log)]
New(p, cursor) == SubSeq(log, cursor + 1, Len(log))
List(p) ==
    /\ page[p].at = "list"
    /\ LET arrived == New(p, page[p].cursor)
           skipped == page[p].last - page[p].cursor
           fresh == SubSeq(arrived, (IF skipped > 0 THEN skipped ELSE 0) + 1, Len(arrived))
       IN ToPage(p, [Received(p, fresh) EXCEPT !.at = "look", !.fresh = arrived # <<>>])
    /\ UNCHANGED <<World, used>>
ForgetsWaiting(p) == status \in EndsStream \ {"waiting_user"} /\ ~page[p].fresh
NothingComes(p) == status \in EndsStream /\ ~page[p].fresh
Look(p) ==
    /\ page[p].at = "look"
    /\ ToPage(p, [page[p] EXCEPT !.at = IF NothingComes(p) THEN "ended" ELSE "list"])
    /\ UNCHANGED <<World, used>>
\* The connection breaks, before or after what was listed arrives; or nothing
\* comes for too long, and the page gives it up.
Drop(p) ==
    /\ page[p].at \in {"list", "look"} /\ Spend("drops")
    /\ \/ ToPage(p, [page[p] EXCEPT !.at = "ended"])
       \/ ToPage(p, [page[p] EXCEPT !.at = "ended", !.cursor = Len(log)])
    /\ UNCHANGED World
\* Without a stream the page asks for the status, and reconnects from the last
\* number it knows unless the task has come to an end.
Ask(p) ==
    /\ page[p].at = "ended"
    /\ ToPage(p, IF status \in EndsStream THEN [page[p] EXCEPT !.at = "closed"]
                 ELSE [page[p] EXCEPT !.at = "list", !.cursor = page[p].last])
    /\ UNCHANGED <<World, used>>
\* After an answer the page follows the task again.
Resume(p) ==
    /\ page[p].at = "closed" /\ status \in Live
    /\ ToPage(p, [page[p] EXCEPT !.at = "list", !.cursor = page[p].last])
    /\ UNCHANGED <<World, used>>

WriterStep(w) ==
    \/ ReadMessage(w) \/ CheckTask(w) \/ WriteMessage(w) \/ Lock(w)
    \/ LookAtTask(w) \/ ReadNumber(w) \/ Insert(w)
AgentStep == Complete \/ Mark \/ MarkCancelled \/ Note \/ Finally
PageStep(p) == List(p) \/ Look(p) \/ Ask(p)
Next ==
    \/ \E w \in Writers : Emit(w) \/ WriterStep(w)
    \/ AgentStep \/ Fail
    \/ RequestCancel \/ NoteCancel \/ Deliver \/ Answer \/ Crash \/ Recover \/ Begin
    \/ \E p \in Pages : PageStep(p) \/ Drop(p) \/ Resume(p)

Spec == Init /\ [][Next]_vars

\* Pages go on as long as they are open, whatever the task does.
Fairness == \A p \in Pages : WF_vars(PageStep(p))

-----------------------------------------------------------------------------
\* Every variable has its type.
TypeOK ==
    /\ status \in Statuses /\ message \in Statuses
    /\ parts \in Seq(1..MaxParts) /\ log \in Seq(1..Question)
    /\ lock \subseteq Writers

\* Whatever connections break and processes die, a page shows the log from its
\* first event on, in order and nothing twice.
ShowsTheLog == \A p \in Pages :
    page[p].shown = SubSeq(log, 1, page[p].last)

\* "done" is the last event of a task and comes once: no part of the reporter
\* slips in after it, no cancellation or restart repeats it.
DoneIsLast == \A i \in DOMAIN log : log[i] = Done => i = Len(log)

\* A page whose task has come to an end, or to a question, is told so, however
\* often its connection broke: it does not follow the task for ever.
PagesClose == \A p \in Pages :
    []<>(status \in EndsStream => page[p].at = "closed")

-----------------------------------------------------------------------------
(***************************************************************************)
(* What the code says and its steps refute.                                 *)
(***************************************************************************)

\* A part is "persisted and streamed" (_emit_a2ui): what is in the log is in
\* the message.
StreamedIsPersisted ==
    \A i \in DOMAIN log : IsPart(log[i]) => \E j \in DOMAIN parts : parts[j] = log[i]
=============================================================================
