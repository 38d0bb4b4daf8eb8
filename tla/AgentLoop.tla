------------------------------- MODULE AgentLoop -------------------------------
(***************************************************************************)
(* One task of the Financial Harness agent: the loop of decisions, tool     *)
(* calls and judgements of completion (graph/agent_loop.py) on a LangGraph  *)
(* thread, run for a chat task by agents/financial_harness_agent.py.  A     *)
(* node of the graph reads the thread and writes it back when it is done;   *)
(* the checkpoint follows behind.  A tool that changes the account asks the *)
(* user first: the node stops at an interrupt, and runs again from its      *)
(* beginning when the answer arrives.  The process may die anywhere; another *)
(* one claims the task and resumes the thread from its checkpoint with the  *)
(* answer that the state of the task holds.                                 *)
(*                                                                         *)
(* What the model, its judge and the tools answer are choices.  Calls that  *)
(* only read change nothing outside, and are over before the first write.   *)
(***************************************************************************)
EXTENDS LLMContext

CONSTANTS
    Histories,    \* what the conversation may hold when the run begins
    Menu,         \* what the model may call in one decision: sequences of kinds
    MaxSteps,     \* contract.budget.max_steps
    MaxCalls,     \* contract.budget.max_tool_calls
    NeedsTools,   \* the contract requires evidence
    Sizes,        \* lengths of observations
    MaxTroubles   \* bound: crashes, rejections, failures and deadlines in all

VARIABLES
    thread,    \* what the nodes of the graph read and write
    saved,     \* the checkpoint of the thread
    process,   \* what runs the task
    given,     \* the answer the thread was resumed with, until it is consumed
    question,  \* the call the user is asked about
    answer,    \* the answer in the state of the task
    verdicts,  \* what the user said of the calls that were shown
    finished,  \* the writes the current node is done with
    effects,   \* how often a call took effect outside
    sent,      \* the context the language model is being asked with
    used       \* the troubles so far, by kind
vars == <<thread, saved, process, given, question, answer, verdicts, finished, effects, sent, used>>
talk == <<question, answer, verdicts>>

\* Tools by what repeating them does: nothing; nothing, for their execution key
\* (submit, create, deploy); or the same again (set, cancel).
Kinds == {"read", "keyed", "set", "cancel"}
RequiresConfirmation(kind) == kind # "read"
\* tool_attempts: once more after a failure, unless the name says that it writes.
ToolAttempts(kind) == IF kind \in {"keyed", "cancel"} THEN 1 ELSE 2

\* What the parameters are.  A conversation is kept without the calls and
\* observations of its earlier runs (chat_store.py, prepare_task).
AgentLoopAssumption ==
    /\ Menu \subseteq Seq(Kinds) /\ MaxSteps \in Nat \ {0}
    /\ \A history \in Histories :
          /\ history \in Seq({history[i] : i \in DOMAIN history})
          /\ \A i \in DOMAIN history : history[i].role \in {"user", "assistant"} /\ history[i].calls = {}

\* A call: its decision, its place there, its kind.  A decision that is made
\* again after a crash makes other calls.
Call(n, kind) == [step |-> thread.step + 1, life |-> used["crashes"], n |-> n, kind |-> kind]
NoCall == [kind |-> "none"]
Troubles == {"crashes", "rejections", "failures", "deadlines"}

Message(role, size, calls, answers) ==
    [role |-> role, size |-> size, calls |-> calls, answers |-> answers, pending |-> FALSE]

\* The run begins with as much of the history as fits beside its own messages.
System == Message("system", 1, {}, NoCall)
User == Message("user", 1, {}, NoCall)
Opening(history) == <<System>> \o History(history, <<System, User>>, InputLimit) \o <<User>>

\* The thread: its next node, what it has collected, and the answers that the
\* interrupts of this node have consumed.
Start(history) ==
    [node |-> "decide", messages |-> Opening(history), step |-> 0, events |-> 0,
     evidence |-> FALSE, candidate |-> "none", replies |-> <<>>]
Unsent == [kept |-> {}, sizes |-> <<>>, limit |-> 0]

Init ==
    /\ \E history \in Histories :
          HistoryFits(history, <<System, User>>, InputLimit) /\ thread = Start(history)
    /\ saved = thread
    /\ process = "running" /\ given = "none"
    /\ question = NoCall /\ answer = "none" /\ verdicts = <<>>
    /\ finished = {} /\ effects = <<>> /\ sent = Unsent
    /\ used = [b \in Troubles |-> 0]

Spend(b) ==
    /\ MapThenSumSet(LAMBDA trouble : used[trouble], Troubles) < MaxTroubles
    /\ used' = [used EXCEPT ![b] = @ + 1]
At(node) == process = "running" /\ thread.node = node

\* A node is done: its result is the thread, and is saved now or not yet.  An
\* answer nobody consumed is forgotten with the step it was given for.
Commit(result) ==
    /\ thread' = [result EXCEPT !.replies = <<>>]
    /\ saved' \in {saved, thread'}
    /\ given' = "none" /\ finished' = {}

-----------------------------------------------------------------------------
(***************************************************************************)
(* decide_next_action, and chat_with_tools under it.                        *)
(***************************************************************************)
SendWithin(limit) ==
    \E selection \in Selections(thread.messages, limit) :
        sent' = [kept |-> selection.kept, sizes |-> selection.sizes, limit |-> limit]
Overflows(limit) == Selections(thread.messages, limit) = {}

Ask ==
    /\ At("decide") /\ sent = Unsent
    /\ SendWithin(InputLimit)
    /\ UNCHANGED <<thread, saved, process, given, talk, finished, effects, used>>
\* The provider rejects the context: once more with a smaller one.
AskAgain ==
    /\ At("decide") /\ sent.limit = InputLimit /\ Spend("rejections")
    /\ SendWithin(RecoveryLimit)
    /\ UNCHANGED <<thread, saved, process, given, talk, finished, effects>>

Exhausted == thread.step + 1 >= MaxSteps
Say(candidate) ==
    /\ Commit([thread EXCEPT !.node = "judge", !.step = @ + 1, !.candidate = candidate,
                             !.messages = Append(@, Message("assistant", 1, {}, NoCall))])
    /\ sent' = Unsent
    /\ UNCHANGED <<process, talk, effects>>
\* The model answers in words, perhaps with a plan in place of a result; or it
\* asks for tools in its last step, and a text says so instead.
Reply ==
    /\ At("decide") /\ sent # Unsent
    /\ \E candidate \in {"empty", "plan", "answer"} : Say(candidate)
    /\ UNCHANGED used
\* No context fits, or none is accepted: the answer is a fixed text.
FallBack ==
    /\ At("decide")
    /\ \/ sent = Unsent /\ Overflows(InputLimit) /\ UNCHANGED used
       \/ sent.limit = InputLimit /\ Overflows(RecoveryLimit) /\ Spend("rejections")
       \/ sent.limit = RecoveryLimit /\ Spend("rejections")
    /\ Say("answer")
Request ==
    /\ At("decide") /\ sent # Unsent /\ ~Exhausted
    /\ \E kinds \in Menu :
          LET calls == {Call(n, kinds[n]) : n \in DOMAIN kinds}
          IN Commit([thread EXCEPT !.node = "tools", !.step = @ + 1, !.candidate = "none",
                        !.messages = Append(@, Message("assistant", Len(kinds), calls, NoCall))])
    /\ sent' = Unsent
    /\ UNCHANGED <<process, talk, effects, used>>
\* Any other error of the provider ends the task.
Break ==
    /\ At("decide") /\ sent # Unsent /\ Spend("failures")
    /\ process' = "ended" /\ sent' = Unsent
    /\ UNCHANGED <<thread, saved, given, talk, finished, effects>>

-----------------------------------------------------------------------------
(***************************************************************************)
(* execute_tool_calls: first the interrupts, one for each call that writes. *)
(***************************************************************************)
Requested == Last(thread.messages).calls
Remaining == Max({0, MaxCalls - thread.events})
Accepted == {call \in Requested : call.n <= Remaining}
Writes == {call \in Accepted : RequiresConfirmation(call.kind)}
Unanswered == Writes \ DOMAIN thread.replies
First(calls) == CHOOSE call \in calls : \A other \in calls : call.n <= other.n

\* What is known of calls, with something about one more.
Noted(known, call, value) == [c \in DOMAIN known \cup {call} |-> IF c = call THEN value ELSE known[c]]
\* An interrupt takes the answer the thread was resumed with, and keeps it.
Consume ==
    /\ At("tools") /\ Unanswered # {} /\ given # "none"
    /\ thread' = [thread EXCEPT !.replies = Noted(@, First(Unanswered), given = "approve")]
    /\ saved' \in {saved, IF saved = thread THEN thread' ELSE saved}
    /\ given' = "none"
    /\ UNCHANGED <<process, talk, finished, effects, sent, used>>
\* There is none: the node stops here.
Interrupt ==
    /\ At("tools") /\ Unanswered # {} /\ given = "none"
    /\ process' = "interrupted" /\ saved' = thread
    /\ UNCHANGED <<thread, given, talk, finished, effects, sent, used>>
\* The call is shown to the user, and the task waits.
Show ==
    /\ process = "interrupted"
    /\ process' = "waiting" /\ question' = First(Unanswered)
    /\ UNCHANGED <<thread, saved, given, answer, verdicts, finished, effects, sent, used>>
\* The answer is stored in the state of the task, and the thread is resumed.
Respond(reply) ==
    /\ process = "waiting"
    /\ process' = "running" /\ given' = reply
    /\ answer' = reply /\ verdicts' = Noted(verdicts, question, reply) /\ question' = NoCall
    /\ UNCHANGED <<thread, saved, finished, effects, sent, used>>

\* Then the writes in their order.
ApprovedFirst(call) == thread.replies[First(Writes)]
Approved(call) == thread.replies[call]
Due(call) ==
    /\ At("tools") /\ Unanswered = {} /\ call \in Writes \ finished
    /\ \A other \in Writes : other.n < call.n => other \in finished
\* One attempt; one that seems to fail may have taken effect, and is tried again.
Attempt(call) ==
    /\ Due(call) /\ Approved(call)
    /\ \/ finished' = finished \cup {call} /\ UNCHANGED used
       \/ UNCHANGED finished /\ ToolAttempts(call.kind) > 1 /\ Spend("failures")
    /\ effects' = IF call \notin DOMAIN effects THEN Noted(effects, call, 1)
                  ELSE IF call.kind = "keyed" THEN effects
                  ELSE [effects EXCEPT ![call] = @ + 1]
    /\ UNCHANGED <<thread, saved, process, given, talk, sent>>
\* Denied, or failed for good.
Fail(call) ==
    /\ Due(call)
    /\ IF Approved(call) THEN Spend("failures") ELSE UNCHANGED used
    /\ finished' = finished \cup {call}
    /\ UNCHANGED <<thread, saved, process, given, talk, effects, sent>>

\* All calls are answered in their order, those beyond the budget too.  Evidence
\* of an earlier backtest is used again without an event.
Answered == [n \in 1..Cardinality(Requested) |-> CHOOSE call \in Requested : call.n = n]
Observe ==
    /\ At("tools") /\ Unanswered = {} /\ Writes \subseteq finished
    /\ LET reading == Cardinality(Accepted \ Writes)
           allowed == Cardinality({call \in Writes : Approved(call)})
       IN \E size \in Sizes, reused \in 0..reading, succeeded \in BOOLEAN :
            /\ reused > 0 => thread.evidence
            /\ succeeded => reused < reading + allowed
            /\ Commit([thread EXCEPT !.node = "decide",
                          !.events = @ + Cardinality(Requested) - reused, !.evidence = @ \/ succeeded,
                          !.messages = @ \o [n \in DOMAIN Answered |->
                                                Message("tool", size, {}, Answered[n])]])
    /\ UNCHANGED <<process, talk, effects, sent, used>>

-----------------------------------------------------------------------------
(***************************************************************************)
(* judge_completion.                                                        *)
(***************************************************************************)
OutOfSteps == thread.step >= MaxSteps
\* Verdicts: rules come first, and only what passes them is put to a model.
Rejected ==
    \/ thread.candidate = "empty"
    \/ ~OutOfSteps /\ NeedsTools /\ ~thread.evidence
    \/ ~OutOfSteps /\ thread.candidate = "plan"
JudgeDone ==
    /\ At("judge") /\ (OutOfSteps \/ ~Rejected)
    /\ Commit([thread EXCEPT !.node = "end"])
    /\ UNCHANGED <<process, talk, effects, sent, used>>
JudgeContinues ==
    /\ At("judge") /\ ~OutOfSteps
    /\ Commit([thread EXCEPT !.node = "decide", !.candidate = "none",
                             !.messages = Append(@, Message("system", 1, {}, NoCall))])
    /\ UNCHANGED <<process, talk, effects, sent, used>>

-----------------------------------------------------------------------------
(***************************************************************************)
(* The process of the task: its end, its deadline, its death.               *)
(***************************************************************************)
End ==
    /\ At("end") /\ process' = "ended"
    /\ UNCHANGED <<thread, saved, given, talk, finished, effects, sent, used>>
\* Only chat has a deadline; a resumed thread has none.
Deadline ==
    /\ process = "running" /\ answer = "none" /\ Spend("deadlines")
    /\ process' = "ended" /\ sent' = Unsent
    /\ UNCHANGED <<thread, saved, given, talk, finished, effects>>
Crash ==
    /\ process \in {"running", "interrupted"} /\ Spend("crashes")
    /\ process' = "lost" /\ thread' = saved
    /\ given' = "none" /\ finished' = {} /\ sent' = Unsent
    /\ UNCHANGED <<saved, talk, effects>>
\* Another node takes the task over: it resumes the thread with the last answer.
\* A task without one is ended, since its request may write.
MisspellRunning ==
    /\ process = "lost" /\ process' = "resumed" /\ given' = answer
    /\ UNCHANGED <<thread, saved, talk, finished, effects, sent, used>>
Claim ==
    /\ process = "lost"
    /\ IF answer = "none" THEN process' = "ended" /\ UNCHANGED given
                          ELSE process' = "running" /\ given' = answer
    /\ UNCHANGED <<thread, saved, talk, finished, effects, sent, used>>

Next ==
    \/ Ask \/ AskAgain \/ Reply \/ FallBack \/ Request \/ Break
    \/ Consume \/ Interrupt \/ Show \/ \E reply \in {"approve", "reject"} : Respond(reply)
    \/ At("tools") /\ \E call \in Writes : Attempt(call) \/ Fail(call)
    \/ Observe \/ JudgeDone \/ JudgeContinues
    \/ End \/ Deadline \/ Crash \/ Claim
Spec == Init /\ [][Next]_vars

-----------------------------------------------------------------------------
TypeOK ==
    /\ thread.node \in {"decide", "tools", "judge", "end"}
    /\ saved.node \in {"decide", "tools", "judge", "end"}
    /\ process \in {"running", "interrupted", "waiting", "lost", "ended"}
    /\ {given, answer} \subseteq {"none", "approve", "reject"}
    /\ \A call \in DOMAIN effects \cup DOMAIN verdicts : RequiresConfirmation(call.kind)
    /\ used \in [Troubles -> 0..MaxTroubles]

\* While no process dies, what takes effect was shown to the user and approved;
\* and what the user denied never takes effect.
Consented ==
    /\ used["crashes"] = 0 =>
          \A call \in DOMAIN effects : call \in DOMAIN verdicts /\ verdicts[call] = "approve"
    /\ \A call \in DOMAIN effects \cap DOMAIN verdicts : verdicts[call] = "approve"

\* A call takes effect once; without a key once more at most for every crash, and
\* a change of status for every attempt that seemed to fail.
Once ==
    \A call \in DOMAIN effects :
        effects[call] <= 1 + (IF call.kind = "keyed" THEN 0 ELSE used["crashes"])
                           + (IF call.kind = "set" THEN used["failures"] ELSE 0)

\* What an agent changes was approved, and happens once.
ActsOnConsent == Consented /\ Once

\* A run begins with what fits.  What is sent fits, keeps calls and observations
\* together, and misses the oldest messages only.
ContextIsWhole ==
    /\ thread.step = 0 /\ thread.node = "decide" =>
          Counted(thread.messages, DOMAIN thread.messages) <= InputLimit
    /\ sent # Unsent =>
          /\ FitsTheLimit(thread.messages, sent, sent.limit)
          /\ ExchangesAreWhole(thread.messages, sent)
          /\ NewestAreKept(thread.messages, sent)
\* Before the model is asked again, every call has exactly one observation.
CallsAreAnswered ==
    thread.node # "tools" =>
        \A i \in Calling(thread.messages) : \A call \in thread.messages[i].calls :
            Cardinality({k \in Answers(thread.messages, i) : thread.messages[k].answers = call}) = 1
\* No tools run in the last step, and none after it.
WithinSteps == thread.step <= MaxSteps /\ (thread.node = "tools" => thread.step < MaxSteps)
=============================================================================
