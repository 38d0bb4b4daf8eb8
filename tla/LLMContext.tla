------------------------------ MODULE LLMContext ------------------------------
(***************************************************************************)
(* How a conversation is fitted into the context window of a language       *)
(* model (llm/context.py), and the one retry after a rejected context       *)
(* (llm/service.py).  A message is what these decisions look at: its role,  *)
(* its length in tokens, the tool calls it makes or answers, and whether it *)
(* shows a question that is still open.  Texts are their lengths.           *)
(***************************************************************************)
EXTENDS Integers, Sequences, FiniteSets, SequencesExt

CONSTANTS
    InputLimit,     \* tokens of the window left for the input (get_context_budget)
    RecoveryFloor,  \* the 256 tokens below which the retry does not reduce
    Spare,          \* tokens kept free for every compacted observation, 16
    Envelope,       \* the length of a compacted observation without a preview
    ToolTokens      \* the length of the tool schemas sent along

\* The retry after a rejection gets a smaller limit.
RecoveryLimit ==
    Max({1, Min({InputLimit - 1, Max({RecoveryFloor, (3 * InputLimit) \div 4})})})

\* What a message costs: an overhead of 1 and its content.
Cost(message) == 1 + message.size
Costs(messages, S) == MapThenSumSet(LAMBDA i : Cost(messages[i]), S)
\* count_messages adds the overhead of the reply unless there is no message.
Counted(messages, S) == ToolTokens + Costs(messages, S) + IF S = {} THEN 0 ELSE 1

Indices(messages, role) == {i \in DOMAIN messages : messages[i].role = role}
Calling(messages) == {i \in Indices(messages, "assistant") : messages[i].calls # {}}
\* The last of the indices, or 0.
LastOf(S) == IF S = {} THEN 0 ELSE Max(S)

\* The observations of the calls of message i.
Answers(messages, i) ==
    {k \in (i + 1)..Len(messages) : messages[k].role = "tool" /\ messages[k].answers \in messages[i].calls}

(***************************************************************************)
(* What is never dropped: system messages, open questions, the request, and *)
(* the latest tool calls since then with their observations.                *)
(***************************************************************************)
LatestExchange(messages) ==
    LET current == LastOf(Indices(messages, "user"))
        latest == LastOf({i \in Calling(messages) : i > current})
    IN IF latest = 0 THEN {} ELSE {latest} \cup Answers(messages, latest)
Protected(messages) ==
    Indices(messages, "system")
        \cup {i \in DOMAIN messages : messages[i].pending}
        \cup ({LastOf(Indices(messages, "user"))} \ {0})
        \cup LatestExchange(messages)

(***************************************************************************)
(* Groups of messages that are kept or dropped together: calls with the     *)
(* observations that follow them, a user message with a plain reply.        *)
(* A group begins where no group before reaches.                            *)
(***************************************************************************)
EachAlone(messages, i) == i
GroupEnd(messages, i) ==
    IF messages[i].calls # {}
    THEN Max({k \in i..Len(messages) : (i + 1)..k \subseteq Answers(messages, i)})
    ELSE IF /\ messages[i].role = "user" /\ i < Len(messages)
            /\ messages[i + 1].role = "assistant" /\ messages[i + 1].calls = {}
    THEN i + 1 ELSE i
AtomicGroups(messages) ==
    LET From[i \in 1..Len(messages) + 1] ==
            IF i > Len(messages) THEN <<>>
            ELSE <<i..GroupEnd(messages, i)>> \o From[GroupEnd(messages, i) + 1]
    IN From[1]
\* The history of a conversation is dropped by turns instead: a user message and
\* what follows it.
TurnStarts(history) == {1} \cup Indices(history, "user")

\* From the newest group back, as long as everything so far fits.
Fitting(messages, groups, kept, used, limit) ==
    LET Since(n) == UNION {groups[k] : k \in n..Len(groups)} \ kept
        newest == {n \in DOMAIN groups : used + Costs(messages, Since(n)) <= limit}
    IN kept \cup UNION {groups[n] : n \in newest}

(***************************************************************************)
(* _compact_protected_tool_messages: when what is protected does not fit,   *)
(* observations shrink to an equal share each, or to nothing.  A projection *)
(* of an observation may miss its share by the length of its envelope.      *)
(***************************************************************************)
Resized(messages, sizes) ==
    [i \in DOMAIN messages |-> IF i \in DOMAIN sizes THEN [messages[i] EXCEPT !.size = sizes[i]] ELSE messages[i]]
Compactions(messages, limit) ==
    LET kept == Protected(messages)
        observations == kept \cap Indices(messages, "tool")
        empty == [i \in observations |-> 0]
        minimum == Counted(Resized(messages, empty), kept)
        share == Max({Spare, Max({0, limit - minimum - Spare * Cardinality(observations)})
                                 \div Cardinality(observations)})
        Projections(i) == IF messages[i].size <= share THEN {messages[i].size} ELSE {share, Envelope}
        Fits(sizes) == Counted(Resized(messages, sizes), kept) <= limit
    IN IF observations = {} \/ Counted(messages, kept) <= limit \/ minimum > limit THEN {<<>>}
       ELSE {IF Fits(sizes) THEN sizes ELSE empty : sizes \in
                {f \in [observations -> UNION {Projections(i) : i \in observations}] :
                    \A i \in observations : f[i] \in Projections(i)}}

(***************************************************************************)
(* select_messages_for_model: what may be sent under the limit.  Without a  *)
(* selection what is protected does not fit, and the code raises.           *)
(***************************************************************************)
Selections(messages, limit) ==
    LET kept == Protected(messages)
        Selection(sizes) ==
            LET used == Counted(Resized(messages, sizes), kept)
            IN [kept |-> Fitting(messages, AtomicGroups(messages), kept, used, limit), sizes |-> sizes]
    IN {Selection(sizes) : sizes \in {s \in Compactions(messages, limit) :
                                        Counted(Resized(messages, s), kept) <= limit}}

\* The n-th of some indices.
Nth(S, n) == CHOOSE i \in S : Cardinality({k \in S : k <= i}) = n
\* select_conversation_history, before the agent starts: turns of the history
\* beside the messages that open the run.
HistoryFits(history, opening, limit) ==
    LET pending == {i \in DOMAIN history : history[i].pending}
    IN Counted(opening, DOMAIN opening) + Costs(history, pending) <= limit
History(history, opening, limit) ==
    LET pending == {i \in DOMAIN history : history[i].pending}
        used == Counted(opening, DOMAIN opening) + Costs(history, pending)
        Since(i) == (i..Len(history)) \ pending
        fitting == {i \in TurnStarts(history) : used + Costs(history, Since(i)) <= limit}
        kept == pending \cup UNION {Since(i) : i \in fitting}
    IN [n \in 1..Cardinality(kept) |-> history[Nth(kept, n)]]

-----------------------------------------------------------------------------
(***************************************************************************)
(* What a selection promises, whatever was dropped.                         *)
(***************************************************************************)

\* What is sent fits the limit the model was promised.
FitsTheLimit(messages, selection, limit) ==
    Counted(Resized(messages, selection.sizes), selection.kept) <= limit

\* No tool call is sent without the observations it has, and none of those
\* without its call: providers reject such a conversation.
ExchangesAreWhole(messages, selection) ==
    \A i \in Calling(messages) : LET exchange == {i} \cup Answers(messages, i)
                                 IN exchange \subseteq selection.kept \/ exchange \cap selection.kept = {}

\* What was dropped is older than every message that was kept without need.
NewestAreKept(messages, selection) ==
    \A i \in DOMAIN messages \ selection.kept, k \in selection.kept \ Protected(messages) : i < k
=============================================================================
