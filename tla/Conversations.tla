----------------------------- MODULE Conversations -----------------------------
(***************************************************************************)
(* The conversations of the chat as rows: messages, tasks and what hangs on *)
(* them, the search index and its mirror (application/chat_store.py,        *)
(* application/chat_search.py), and the checkpoint threads beside the       *)
(* database (graph/checkpointing.py).  Sending a message, editing an        *)
(* earlier one, and branching are transactions; they run one after the      *)
(* other, as in SQLite.  Deleting a conversation is not: it awaits each of   *)
(* its statements.                                                         *)
(*                                                                         *)
(* ChatTask and ChatStream have the steps of a task; here each of its        *)
(* changes of status is one, and a request to cancel is answered at once.   *)
(* Answers are widgets, not text: only what users say is indexed.            *)
(***************************************************************************)
EXTENDS Integers, Sequences, FiniteSets, FiniteSetsExt, Functions

CONSTANTS
    Started,    \* conversations that clients begin
    Branches,   \* those that branches begin
    Callers,    \* bound: requests under way at once
    MaxSends,   \* bound: messages sent
    Limit       \* bounds, by name: crashes, deletions

VARIABLES
    titles,     \* ChatConversation
    messages,   \* ChatMessage by identity
    tasks,      \* ChatTask, by the number of the message it answers
    traces,     \* ChatTaskState, ChatTaskEvent, ChatTaskInteraction: tasks with a row
    refs,       \* ChatMessageReference: messages with a row
    index,      \* ChatMessageSearch: messages with a row
    mirror,     \* the table of SQLite's full-text search
    threads,    \* checkpoint threads: of the agent, and of its research
    call,       \* what each request is doing
    torn,       \* conversations that were used, or deleted, while they were
                \* deleted, and their branches
    used        \* messages sent, and the spent share of Limit
vars == <<titles, messages, tasks, traces, refs, index, mirror, threads, call, torn, used>>
rows == <<messages, tasks, traces, refs, index, mirror>>

Conversations == Started \cup Branches
Numbers == 1..MaxSends
Kinds == {"state", "event", "interaction"}
\* The statuses of prepare_task and of delete_conversation, the end of a task,
\* and those that pages show as loading.
Active == {"pending", "running", "interrupted", "waiting_user"}
Undeletable == {"pending", "running"}
Terminal == {"completed", "failed", "cancelled", "superseded"}
Loading == {"pending", "running", "interrupted"}

Idle == [at |-> "idle", of |-> "none", tasks |-> {}, messages |-> {}]

Init ==
    /\ titles = {} /\ messages = <<>> /\ tasks = <<>>
    /\ traces = [k \in Kinds |-> {}] /\ refs = {} /\ index = {} /\ mirror = {} /\ threads = {}
    /\ call = [c \in Callers |-> Idle]
    /\ torn = {}
    /\ used = [sends |-> 0, crashes |-> 0, deletions |-> 0]

MessagesOf(conv) == {id \in DOMAIN messages : messages[id].conv = conv}
TasksOf(conv) == {t \in DOMAIN tasks : tasks[t].conv = conv}
ActiveIn(conv) == {t \in TasksOf(conv) : tasks[t].status \in Active}
Deleting(conv) == \E c \in Callers : call[c].of = conv /\ call[c].at # "clean"
Without(f, S) == Restrict(f, DOMAIN f \ S)
With(f, new) == [x \in DOMAIN f \cup DOMAIN new |-> IF x \in DOMAIN new THEN new[x] ELSE f[x]]
Uses(conv) == torn' = IF Deleting(conv) THEN torn \cup {conv} ELSE torn
Rest(c) == IF call[c].tasks = {} THEN Idle ELSE [call[c] EXCEPT !.at = "clean"]

-----------------------------------------------------------------------------
(***************************************************************************)
(* prepare_task: a message and the place of its answer, after what is kept. *)
(***************************************************************************)
\* What an edited message removes: itself and all after it.
FromEdit(conv, edited) ==
    {id \in MessagesOf(conv) : \E e \in edited : messages[id].position >= messages[e].position}
TasksIn(S) == {messages[id].task : id \in S} \ {0}
Next1(kept) == IF kept = {} THEN 0 ELSE Max({messages[id].position : id \in kept}) + 1

\* A question that waits for its user is superseded.
Superseded(f, conv) ==
    [x \in DOMAIN f |-> IF f[x].conv = conv /\ f[x].status = "waiting_user"
                        THEN [f[x] EXCEPT !.status = "superseded"] ELSE f[x]]
\* What a message adds: itself, its answer, and the task of it.
Row(conv, role, position, status, task) ==
    [conv |-> conv, role |-> role, position |-> position, status |-> status, task |-> task]
Pair(conv, place, n) ==
    [id \in {"user", "assistant"} \X {n} |->
        IF id[1] = "user" THEN Row(conv, "user", place, "completed", 0)
        ELSE Row(conv, "assistant", place + 1, "pending", n)]
Send(c, conv) ==
    /\ call[c] = Idle /\ used.sends < MaxSends
    /\ conv \in titles \cup Started
    /\ \A t \in ActiveIn(conv) : tasks[t].status = "waiting_user"
    /\ \E edited \in SUBSET {id \in MessagesOf(conv) : messages[id].role = "user"} :
          LET pruned == FromEdit(conv, edited)
              old == TasksIn(pruned)
              place == Next1(MessagesOf(conv) \ pruned)
              n == used.sends + 1
          IN /\ Cardinality(edited) <= 1
             /\ messages' = With(Without(Superseded(messages, conv), pruned), Pair(conv, place, n))
             /\ tasks' = With(Without(Superseded(tasks, conv), old),
                              [t \in {n} |-> [conv |-> conv, status |-> "pending"]])
             /\ traces' = [k \in Kinds |-> (traces[k] \ old) \cup IF k = "state" THEN {n} ELSE {}]
             /\ refs' = refs \ pruned
             /\ index' = (index \ pruned) \cup {<<"user", n>>}
             /\ mirror' = (mirror \ pruned) \cup {<<"user", n>>}
             /\ call' = [call EXCEPT ![c] = IF old = {} THEN Idle ELSE [Idle EXCEPT !.at = "clean", !.tasks = old]]
    /\ titles' = titles \cup {conv} /\ Uses(conv)
    /\ used' = [used EXCEPT !.sends = @ + 1]
    /\ UNCHANGED threads

\* delete_thread_family, after the rows are gone: the thread of a task and those
\* of its research.
Clean(c) ==
    /\ call[c].at = "clean"
    /\ \E t \in call[c].tasks :
          LET left == call[c].tasks \ {t}
          IN /\ threads' = {thread \in threads : thread.task # t}
             /\ call' = [call EXCEPT ![c] = IF left = {} THEN Idle ELSE [call[c] EXCEPT !.tasks = left]]
    /\ UNCHANGED <<titles, rows, torn, used>>

-----------------------------------------------------------------------------
(***************************************************************************)
(* The life of a task: its row and its message change together.             *)
(***************************************************************************)
MessagesFor(t) == {id \in DOMAIN messages : messages[id].task = t}
Becomes(t, status) ==
    /\ tasks' = [tasks EXCEPT ![t].status = status]
    /\ messages' = [id \in DOMAIN messages |-> IF id \in MessagesFor(t) THEN [messages[id] EXCEPT !.status = status]
                                               ELSE messages[id]]
    /\ Uses(tasks[t].conv)
    /\ UNCHANGED <<titles, index, mirror, call, used>>
Leaves(t, kinds) == traces' = [k \in Kinds |-> IF k \in kinds THEN traces[k] \cup {t} ELSE traces[k]]

\* begin_task, and what its coroutine leaves: events, references, threads.
Begin(t) ==
    /\ tasks[t].status \in {"pending", "interrupted"} /\ Becomes(t, "running")
    /\ Leaves(t, {"event"})
    /\ \/ refs' = refs \cup MessagesFor(t) /\ threads' = threads \cup [task : {t}, of : {"agent", "research"}]
       \/ UNCHANGED refs /\ threads' = threads \cup [task : {t}, of : {"agent"}]
Pause(t) ==
    /\ tasks[t].status = "running" /\ Becomes(t, "waiting_user")
    /\ Leaves(t, {"interaction"}) /\ UNCHANGED <<refs, threads>>
Respond(t) ==
    /\ tasks[t].status = "waiting_user" /\ Becomes(t, "pending")
    /\ UNCHANGED <<traces, refs, threads>>
Conclude(t) ==
    /\ \/ tasks[t].status = "running" /\ Becomes(t, "completed")
       \/ tasks[t].status \in Active /\ Becomes(t, "cancelled")
    /\ UNCHANGED <<traces, refs, threads>>

-----------------------------------------------------------------------------
(***************************************************************************)
(* branch_conversation: copies of the messages up to a completed answer, in *)
(* their places, which have no gaps (TalksAreInOrder).                      *)
(***************************************************************************)
Copy(conv, id) == <<"copy", conv, id>>
CopiesAll(conv, through) == MessagesOf(messages[through].conv)
Copied(conv, through) ==
    {id \in MessagesOf(messages[through].conv) : messages[id].position <= messages[through].position}
Branch(through, conv) ==
    /\ messages[through].conv \in titles
    /\ conv \notin titles \cup torn   \* a name of its own, of which nothing is left
    /\ messages[through].conv \in Started   \* bound: no branches of branches
    /\ \A c \in Callers : call[c].of # conv
    /\ messages[through].role = "assistant" /\ messages[through].status = "completed"
    /\ LET of == messages[through].conv
           copied == Copied(conv, through)
           said == {Copy(conv, id) : id \in {m \in copied : messages[m].role = "user"}}
       IN /\ messages' = With(messages, [new \in {Copy(conv, id) : id \in copied} |->
                                            [messages[new[3]] EXCEPT !.conv = conv, !.task = 0]])
          /\ refs' = refs \cup {Copy(conv, id) : id \in copied \cap refs}
          /\ index' = index \cup said /\ mirror' = mirror \cup said
          /\ torn' = torn \cup IF Deleting(of) \/ of \in torn THEN {of, conv} ELSE {}
    /\ titles' = titles \cup {conv}
    /\ UNCHANGED <<tasks, traces, threads, call, used>>

-----------------------------------------------------------------------------
(***************************************************************************)
(* delete_conversation: the check, what is to go, and table after table.    *)
(* The tables that name messages or tasks are emptied by what was read.     *)
(***************************************************************************)
Check(c, conv) ==
    /\ call[c] = Idle /\ conv \in titles /\ used.deletions < Limit.deletions
    /\ \A t \in TasksOf(conv) : tasks[t].status \notin Undeletable
    /\ call' = [call EXCEPT ![c] = [Idle EXCEPT !.at = "read", !.of = conv]]
    /\ Uses(conv)
    /\ used' = [used EXCEPT !.deletions = @ + 1]
    /\ UNCHANGED <<titles, rows, threads>>
ParentsFirst == <<"read", "messages", "refs", "index", "mirror", "event", "interaction", "state", "tasks", "title">>
Tables == <<"read", "refs", "index", "mirror", "event", "interaction", "state", "messages", "tasks", "title">>
After(table) == Tables[(CHOOSE n \in DOMAIN Tables : Tables[n] = table) + 1]
ReadRows(c) ==
    /\ call[c].at = "read"
    /\ call' = [call EXCEPT ![c].at = After("read"),
                            ![c].tasks = TasksOf(call[c].of), ![c].messages = MessagesOf(call[c].of)]
    /\ UNCHANGED <<titles, rows, threads, torn, used>>
Empty(c, table) ==
    /\ call[c].at = table /\ table \notin {"idle", "read", "clean"}
    /\ call' = [call EXCEPT ![c] = IF table # "title" THEN [call[c] EXCEPT !.at = After(table)]
                                  ELSE IF call[c].of \in titles THEN Rest(c) ELSE Idle]
    /\ refs' = IF table = "refs" THEN refs \ call[c].messages ELSE refs
    /\ index' = IF table = "index" THEN index \ call[c].messages ELSE index
    /\ mirror' = IF table = "mirror" THEN mirror \ call[c].messages ELSE mirror
    /\ traces' = [k \in Kinds |-> IF k = table THEN traces[k] \ call[c].tasks ELSE traces[k]]
    /\ messages' = IF table = "messages" THEN Without(messages, MessagesOf(call[c].of)) ELSE messages
    /\ tasks' = IF table = "tasks" THEN Without(tasks, TasksOf(call[c].of)) ELSE tasks
    /\ titles' = IF table = "title" THEN titles \ {call[c].of} ELSE titles
    /\ UNCHANGED <<threads, torn, used>>

-----------------------------------------------------------------------------
(***************************************************************************)
(* The process dies and another one starts: leases lapse, an empty index is *)
(* built again, the mirror follows the index.                              *)
(***************************************************************************)
Lapsed(f, statuses) ==
    [x \in DOMAIN f |-> IF f[x].status \in statuses THEN [f[x] EXCEPT !.status = "interrupted"] ELSE f[x]]
Ran == \E t \in DOMAIN tasks : tasks[t].status = "running"
Said == {id \in DOMAIN messages : messages[id].role = "user"}
Restart ==
    /\ used.crashes < Limit.crashes /\ used' = [used EXCEPT !.crashes = @ + 1]
    /\ call' = [c \in Callers |-> Idle]
    /\ tasks' = Lapsed(tasks, {"running"})
    /\ messages' = Lapsed(messages, IF Ran THEN {"pending", "running"} ELSE {})
    /\ index' = IF index = {} THEN Said ELSE index
    /\ mirror' = index'
    /\ UNCHANGED <<titles, traces, refs, threads, torn>>
\* prune_stale_threads: of those whose last snapshot is old enough, the threads
\* of tasks that are at their end.
PrunableAny(thread) == TRUE
Prunable(thread) == thread.task \in DOMAIN tasks /\ tasks[thread.task].status \in Terminal
Prune ==
    /\ \E old \in SUBSET threads : threads' = threads \ {thread \in old : Prunable(thread)}
    /\ threads' # threads
    /\ UNCHANGED <<titles, rows, call, torn, used>>

Next ==
    \/ \E c \in Callers, conv \in Conversations :
          Send(c, conv) \/ Check(c, conv)
    \/ \E c \in Callers : Clean(c) \/ ReadRows(c) \/ \E n \in DOMAIN Tables : Empty(c, Tables[n])
    \/ \E t \in DOMAIN tasks : Begin(t) \/ Pause(t) \/ Respond(t) \/ Conclude(t)
    \/ \E id \in DOMAIN messages, conv \in Branches : Branch(id, conv)
    \/ Restart \/ Prune
Spec == Init /\ [][Next]_vars

-----------------------------------------------------------------------------
Statuses == Active \cup Terminal
TypeOK ==
    /\ titles \subseteq Conversations /\ torn \subseteq Conversations
    /\ \A id \in DOMAIN messages : messages[id] \in
          [conv : Conversations, role : {"user", "assistant"}, position : Nat, status : Statuses, task : 0..MaxSends]
    /\ \A t \in DOMAIN tasks : t \in Numbers /\ tasks[t] \in [conv : Conversations, status : Statuses]
    /\ traces \in [Kinds -> SUBSET Numbers]
    /\ threads \subseteq [task : Numbers, of : {"agent", "research"}]

\* Whatever was edited, branched or cut off in between: a conversation is a user
\* and an answer in turns, and a task that is not at its end answers the last
\* message.
TalksAreInOrder ==
    \A conv \in Conversations :
        LET talk == MessagesOf(conv)
            At(position) == {id \in talk : messages[id].position = position}
        IN /\ \A position \in 0..(Cardinality(talk) - 1) : Cardinality(At(position)) = 1
           /\ \A id \in talk : messages[id].role = IF messages[id].position % 2 = 0 THEN "user" ELSE "assistant"
           /\ \A t \in ActiveIn(conv) : \A id \in MessagesFor(t) : messages[id].position = Cardinality(talk) - 1

\* Nothing is shown as loading that no task will ever finish, in a branch least.
NothingLoadsForever ==
    \A id \in DOMAIN messages : messages[id].conv \notin torn /\ messages[id].status \in Loading =>
        messages[id].task \in DOMAIN tasks /\ tasks[messages[id].task].status \in Active

\* A row never outlives what it belongs to, also where a deletion was cut off.
Of(id) == id \in DOMAIN messages
NoOrphans ==
    torn = {} =>
        /\ \A id \in refs \cup index : Of(id)
        /\ \A k \in Kinds : traces[k] \subseteq DOMAIN tasks
        /\ \A id \in DOMAIN messages : messages[id].conv \in titles
        /\ \A t \in DOMAIN tasks : tasks[t].conv \in titles
        /\ used.crashes = 0 /\ (\A c \in Callers : call[c] = Idle) =>
              \A thread \in threads : thread.task \in DOMAIN tasks

\* What users said is found, by short words in the index and by longer ones in
\* its mirror, and nothing else is.
Found(table, said) == titles \cap {messages[id].conv : id \in said \cap table}
SearchIsExact ==
    torn = {} /\ used.crashes = 0 /\ (\A c \in Callers : call[c].at \in {"idle", "clean"}) =>
        /\ index = Said /\ mirror = Said
        /\ \A id \in Said : Found(index, {id}) = {messages[id].conv} /\ Found(mirror, {id}) = {messages[id].conv}

\* A task that began and is not at its end can go on from its checkpoint, however
\* old that is.
TasksCanResume ==
    \A t \in DOMAIN tasks :
        tasks[t].status \in {"running", "waiting_user", "interrupted"}
        => [task |-> t, of |-> "agent"] \in threads
=============================================================================
