------------------------------- MODULE Artifacts -------------------------------
(***************************************************************************)
(* The files that agents leave for the user (artifacts/service.py): the     *)
(* bytes go to an object store, a record of them to the database.  A file   *)
(* with an execution key has its identity from the key and its place in the *)
(* call, so that a call that is repeated finds what an earlier one left; a   *)
(* file without one gets a random identity, and is looked for by its name   *)
(* and contents among those of its task first.                              *)
(*                                                                         *)
(* A call awaits the database at every statement; writing an object blocks  *)
(* the process.  Calls may be cut off at an await by a timeout or the death *)
(* of their process.                                                        *)
(***************************************************************************)
EXTENDS Integers, Sequences, FiniteSets, SequencesExt

CONSTANTS
    Callers,    \* bound: calls under way at once
    Requests,   \* what is asked for: the kind of call, the key, the task, the files
    Contents,   \* what a report may turn out to say
    NoKey,      \* there is no execution key
    NoTask,     \* no task, and no conversation
    Bad,        \* the contents of a file that is refused
    Limit       \* bounds, by name: calls, and cuts and failures

\* A request for an image or a report is for one file.
ArtifactsAssumption ==
    /\ \A request \in Requests :
          LET files == request.files
          IN /\ request.kind \in {"files", "binary", "report"}
             /\ Len(files) \in Nat \ {0}
             /\ files = [n \in 1..Len(files) |-> [name |-> files[n].name, content |-> files[n].content]]
             /\ request.kind # "files" => Len(files) = 1
    /\ Limit.calls \in Nat

VARIABLES
    records,    \* ArtifactRecord by identity
    objects,    \* contents by identity and name
    call,       \* what each call is doing
    begun,      \* every request so far
    alone,      \* no two calls were under way at once
    used        \* the spent share of Limit; its calls make random identities
vars == <<records, objects, call, begun, alone, used>>

\* A caller without a request, whose file has no identity yet.
Idle == [at |-> "idle", request |-> NoKey, files |-> <<>>, made |-> <<>>, id |-> NoKey]

Init ==
    /\ records = <<>> /\ objects = <<>>
    /\ call = [c \in Callers |-> Idle]
    /\ begun = {} /\ alone = TRUE
    /\ used = [calls |-> 0, troubles |-> 0]

At(c, place) == call[c].at = place
Request(c) == call[c].request
\* The file a call is at, and whether that is the last.
Place(c) == Len(call[c].made) + 1
File(c) == call[c].files[Place(c)]
Busy(c) == ~At(c, "idle") /\ ~At(c, "done")

\* The identity of the file a call is at: a hash of its key and place or of its
\* contents, or a random one.
Identity(c) ==
    IF Request(c).key # NoKey THEN <<"key", Request(c).key, Place(c)>>
    ELSE IF Request(c).kind = "binary" THEN <<"contents", File(c).name, File(c).content>>
    ELSE <<"random", c, used.calls, Place(c)>>

\* A row or an object more.
With(table, id, row) == [x \in DOMAIN table \cup {id} |-> IF x = id THEN row ELSE table[x]]

\* A file is there: the next one, or the end.
Take(c, id) ==
    LET made == Append(call[c].made, id)
    IN call' = [call EXCEPT ![c].made = made,
                            ![c].at = IF Len(made) = Len(call[c].files) THEN "done" ELSE "item"]

-----------------------------------------------------------------------------
\* create_user_artifacts, create_binary_artifact and create_analysis_artifacts.
Begin(c) ==
    /\ ~Busy(c) /\ used.calls < Limit.calls
    /\ \E request \in Requests :
          /\ call' = [call EXCEPT ![c] = [Idle EXCEPT !.request = request, !.files = request.files,
                        !.at = CASE request.kind = "files" -> "item"
                                 [] request.kind = "binary" -> "look"
                                 [] request.kind = "report" -> IF request.key = NoKey THEN "draw" ELSE "check"]]
          /\ begun' = begun \cup {request}
    /\ alone' = (alone /\ \A other \in Callers \ {c} : ~Busy(other))
    /\ used' = [used EXCEPT !.calls = @ + 1]
    /\ UNCHANGED <<records, objects>>

\* A file of the user: refused, or looked for in the task.
SameName(c) ==
    {id \in DOMAIN records : /\ Request(c).task # NoTask /\ records[id].task = Request(c).task
                             /\ records[id].name = File(c).name}
Duplicates(c) ==
    {id \in DOMAIN records : /\ Request(c).task # NoTask /\ records[id].task = Request(c).task
                             /\ records[id].name = File(c).name /\ records[id].content = File(c).content}
Refuse(c) ==
    /\ At(c, "item") /\ File(c).content = Bad
    /\ call' = [call EXCEPT ![c] = Idle]
    /\ UNCHANGED <<records, objects, begun, alone, used>>
FindDuplicate(c) ==
    /\ At(c, "item") /\ File(c).content # Bad
    /\ \/ \E id \in Duplicates(c) : Take(c, id)
       \/ Duplicates(c) = {} /\ call' = [call EXCEPT ![c].at = "look"]
    /\ UNCHANGED <<records, objects, begun, alone, used>>

\* A report is drawn only if its key has none; that takes minutes, and no two
\* drafts are the same.
Check(c) ==
    /\ At(c, "check")
    /\ IF Identity(c) \in DOMAIN records THEN Take(c, Identity(c))
       ELSE call' = [call EXCEPT ![c].at = "draw"]
    /\ UNCHANGED <<records, objects, begun, alone, used>>
Draw(c) ==
    /\ At(c, "draw")
    /\ \E content \in Contents :
          call' = [call EXCEPT ![c].files[1].content = content, ![c].at = "look"]
    /\ UNCHANGED <<records, objects, begun, alone, used>>

\* _create_bytes: the record of the identity, or first the object.
Look(c) ==
    /\ At(c, "look")
    /\ LET id == Identity(c)
       IN IF id \in DOMAIN records THEN Take(c, id) /\ UNCHANGED objects
          ELSE /\ objects' = With(objects, <<id, File(c).name>>, File(c).content)
               /\ call' = [call EXCEPT ![c].at = "create", ![c].id = id]
    /\ UNCHANGED <<records, begun, alone, used>>
\* Then the record, whose identity is its key.
Create(c) ==
    /\ At(c, "create")
    /\ LET id == call[c].id
       IN IF id \in DOMAIN records THEN call' = [call EXCEPT ![c] = Idle] /\ UNCHANGED records
          ELSE /\ records' = With(records, id, [name |-> File(c).name, content |-> File(c).content,
                                                task |-> Request(c).task])
               /\ Take(c, id)
    /\ UNCHANGED <<objects, begun, alone, used>>

\* The object store refuses, the time is up, or the process dies.
Cut(c) ==
    /\ Busy(c) /\ used.troubles < Limit.troubles
    /\ call' = [call EXCEPT ![c] = Idle]
    /\ used' = [used EXCEPT !.troubles = @ + 1]
    /\ UNCHANGED <<records, objects, begun, alone>>

Step(c) == Refuse(c) \/ FindDuplicate(c) \/ Check(c) \/ Draw(c) \/ Look(c) \/ Create(c)
Next == \E c \in Callers : Begin(c) \/ Step(c) \/ Cut(c)
Spec == Init /\ [][Next]_vars

-----------------------------------------------------------------------------
TypeOK ==
    /\ \A id \in DOMAIN records : DOMAIN records[id] = {"name", "content", "task"}
    /\ \A c \in Callers : call[c].at \in {"idle", "item", "check", "draw", "look", "create", "done"}
    /\ begun \subseteq Requests /\ alone \in BOOLEAN
    /\ used.calls \in 0..Limit.calls /\ used.troubles \in 0..Limit.troubles

\* What a record describes can be read, at any time; and while calls take turns
\* it is what the record says.
RecordsAreReadable ==
    \A id \in DOMAIN records :
        LET path == <<id, records[id].name>>
        IN path \in DOMAIN objects /\ (alone => objects[path] = records[id].content)

\* A call that comes to its end has the files it was asked for.
Delivered(c) ==
    \A n \in DOMAIN call[c].made :
        LET record == records[call[c].made[n]] file == Request(c).files[n]
        IN record.name = file.name /\ (Request(c).kind # "report" => record.content = file.content)
\* The key of a call belongs to its request alone.
OwnKey(c) ==
    \A request \in begun : request.key = Request(c).key => request.key = NoKey \/ request = Request(c)
AnswersAreTheFiles == \A c \in Callers : At(c, "done") /\ OwnKey(c) => Delivered(c)

\* A call that is cut off and repeated, to its end, leaves its files once.
RetriesAddNothing ==
    \A c \in Callers :
        /\ At(c, "done") /\ alone /\ begun = {Request(c)}
        /\ \/ Request(c).key # NoKey \/ Request(c).kind = "binary"
           \/ Request(c).kind = "files" /\ Request(c).task # NoTask
        => DOMAIN records = ToSet(call[c].made)
=============================================================================
