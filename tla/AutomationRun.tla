---------------------------- MODULE AutomationRun ----------------------------
(***************************************************************************)
(* The daily runs of one account on a cluster of nodes                      *)
(* (application/automation.py, automation_store.py, automation_scheduler.py): *)
(* the ticks of each node's scheduler and runs started by hand, the unique  *)
(* key and the conditional claim of a run, the bookkeeping in the task row, *)
(* and the recovery of runs a restart left behind.                          *)
(*                                                                         *)
(* The account's lock belongs to one process.  What a run does for its      *)
(* symbols is one of its steps here; AutomationOrder has the decisions.     *)
(***************************************************************************)
EXTENDS Naturals, FiniteSets

CONSTANTS
    Nodes,
    Callers,        \* the schedulers and the callers of run_account
    Home,           \* the node of each caller
    Schedulers,     \* the callers that are schedulers, one per node
    LastDay,
    Limit           \* what a behaviour may contain: manual runs, edits, failures, crashes

ASSUME AutomationRunAssumption ==
    /\ Home \in [Callers -> Nodes] /\ Schedulers \subseteq Callers
    /\ LastDay \in Nat \ {0}
    /\ Limit \in [manual : Nat, edits : Nat, failures : Nat, crashes : Nat]

Days == 1..LastDay
\* The idempotency key of a run: its date, its trigger and whether it is the
\* record of a skipped one.
Keys == [day : Days, trigger : {"schedule", "manual"}, skip : BOOLEAN]
Ended == {"completed", "failed", "skipped"}
RunStatuses == {"none", "queued", "running"} \cup Ended
TaskStatuses == {"idle", "running", "failed"}
Tasks == [enabled : BOOLEAN, last : 0..LastDay, status : TaskStatuses]

VARIABLES
    day,        \* today
    active,     \* is the account active?
    task,       \* the row of the automation task
    status,     \* the status of each run
    stale,      \* runs whose row is older than thirty minutes
    claims,     \* how often each run was claimed
    up,         \* the nodes that run
    holder,     \* per node, the caller that holds the account's lock, or its name
    call,       \* per caller, where it is and what it remembers
    used        \* the spent part of Limit
vars == <<day, active, task, status, stale, claims, up, holder, call, used>>

NoKey == [day |-> 1, trigger |-> "manual", skip |-> FALSE]
FirstTask == [enabled |-> TRUE, last |-> 0, status |-> "idle"]
\* A call: where it stands, its run, the task row it read and where it goes
\* after it wrote that row, the status it will write, and the stale runs it
\* found.
Idle == [at |-> "idle", key |-> NoKey, task |-> FirstTask, then |-> "idle",
         seen |-> "none", found |-> {}]
Locked == {"load", "create", "insert", "claim", "work", "progress", "finish", "end",
           "noteRead", "noteWrite"}

Init ==
    /\ day = 1 /\ active = TRUE
    /\ task = FirstTask
    /\ status = [k \in Keys |-> "none"]
    /\ stale = {}
    /\ claims = [k \in Keys |-> 0]
    /\ up = Nodes
    /\ holder = [n \in Nodes |-> {}]
    /\ call = [c \in Callers |-> Idle]
    /\ used = [manual |-> 0, edits |-> 0, failures |-> 0, crashes |-> 0]

At(c, phase) == call[c].at = phase /\ Home[c] \in up
To(c, next) == call' = [call EXCEPT ![c] = next]
Goes(c, phase) == To(c, [call[c] EXCEPT !.at = phase])
Spend(what) == used[what] < Limit[what] /\ used' = [used EXCEPT ![what] = @ + 1]
Key(c) == call[c].key
Release(c) == holder' = [holder EXCEPT ![Home[c]] = @ \ {c}]
Rows == <<task, status, stale, claims>>
World == <<day, active, up>>

\* A statement that writes a run's row also renews its age.
Put(k, s) == status' = [status EXCEPT ![k] = s] /\ stale' = stale \ {k}

-----------------------------------------------------------------------------
\* The scheduler: tick selects the account, settles it and runs it.
Due == active /\ task.enabled /\ task.last # day
Tick(c) ==
    /\ c \in Schedulers /\ At(c, "idle") /\ Due
    /\ To(c, [Idle EXCEPT !.at = "settle", !.key = [NoKey EXCEPT !.day = day, !.trigger = "schedule"]])
    /\ UNCHANGED <<Rows, World, holder, used>>
\* settle_account takes the lock for itself; when it raises, the tick gives up.
Settle(c) ==
    /\ At(c, "settle") /\ holder[Home[c]] = {}
    /\ \/ Goes(c, "lock") /\ UNCHANGED used
       \/ Spend("failures") /\ To(c, Idle)
    /\ UNCHANGED <<Rows, World, holder>>

RunByHand(c) ==
    /\ c \notin Schedulers /\ At(c, "idle") /\ Spend("manual")
    /\ To(c, [Idle EXCEPT !.at = "lock", !.key = [NoKey EXCEPT !.day = day]])
    /\ UNCHANGED <<Rows, World, holder>>

-----------------------------------------------------------------------------
\* run_account: the lock, then the account and its task.
Lock(c) ==
    /\ At(c, "lock") /\ holder[Home[c]] = {}
    /\ holder' = [holder EXCEPT ![Home[c]] = {c}]
    /\ Goes(c, "load")
    /\ UNCHANGED <<Rows, World, used>>
Load(c) ==
    /\ At(c, "load")
    /\ To(c, [call[c] EXCEPT !.at = "create", !.key.skip = ~active])
    /\ UNCHANGED <<Rows, World, holder, used>>

\* create_run: the run of the key, or a new one.  Of two insertions the second
\* one raises.
AfterCreate(c) == IF Key(c).skip THEN "finish" ELSE "claim"
Create(c) ==
    /\ At(c, "create")
    /\ \/ status[Key(c)] = "none" /\ Goes(c, "insert")
       \/ status[Key(c)] = "queued" /\ Goes(c, AfterCreate(c))
       \/ status[Key(c)] \notin {"none", "queued"} /\ Goes(c, "end")
    /\ UNCHANGED <<Rows, World, holder, used>>
Insert(c) ==
    /\ At(c, "insert")
    /\ IF status[Key(c)] = "none"
       THEN /\ Put(Key(c), "queued")
            /\ To(c, [call[c] EXCEPT !.at = "noteRead", !.then = AfterCreate(c)])
       ELSE Goes(c, "end") /\ UNCHANGED <<status, stale>>
    /\ UNCHANGED <<task, claims, World, holder, used>>

\* update_task reads the row and writes all of it.
NoteRead(c) ==
    /\ At(c, "noteRead")
    /\ To(c, [call[c] EXCEPT !.at = "noteWrite", !.task = task])
    /\ UNCHANGED <<Rows, World, holder, used>>
Noted(c) ==
    CASE call[c].then \in {"claim", "finish"} -> [call[c].task EXCEPT !.last = Key(c).day]
      [] call[c].then = "work" -> [call[c].task EXCEPT !.status = "running"]
      [] call[c].then = "end" ->
            [call[c].task EXCEPT !.status = IF call[c].seen = "failed" THEN "failed" ELSE "idle"]
      [] call[c].then = "recover" -> [call[c].task EXCEPT !.status = "failed"]
NoteWrite(c) ==
    /\ At(c, "noteWrite")
    /\ task' = Noted(c)
    /\ Goes(c, call[c].then)
    /\ UNCHANGED <<status, stale, claims, World, holder, used>>

\* claim_run: one conditional update.
ClaimAny(k) == status[k] # "none"
ClaimMisspelled(k) == status[k] = "pending"
Claimable(k) == status[k] = "queued"
Claim(c) ==
    /\ At(c, "claim")
    /\ IF Claimable(Key(c))
       THEN /\ Put(Key(c), "running")
            /\ claims' = [claims EXCEPT ![Key(c)] = @ + 1]
            /\ To(c, [call[c] EXCEPT !.at = "noteRead", !.then = "work"])
       ELSE Goes(c, "end") /\ UNCHANGED <<status, stale, claims>>
    /\ UNCHANGED <<task, World, holder, used>>

\* update_run reads the summary and writes all of it: after a symbol with the
\* status it read, at the end with an outcome.  An error outside of the symbols
\* ends the run where it is.
Work(c) ==
    /\ At(c, "work")
    /\ \/ To(c, [call[c] EXCEPT !.at = "progress", !.seen = status[Key(c)]]) /\ UNCHANGED used
       \/ Goes(c, "finish") /\ UNCHANGED used
       \/ Spend("failures") /\ Goes(c, "end")
    /\ UNCHANGED <<Rows, World, holder>>
Progress(c) ==
    /\ At(c, "progress")
    /\ Put(Key(c), call[c].seen) /\ Goes(c, "finish")
    /\ UNCHANGED <<task, claims, World, holder, used>>
OutcomesMisspelled(c) == IF Key(c).skip THEN {"skip"} ELSE {"completed", "failed"}
OutcomesOf(c) == IF Key(c).skip THEN {"skipped"} ELSE {"completed", "failed"}
Finish(c) ==
    /\ At(c, "finish")
    /\ \E s \in OutcomesOf(c) :
          /\ Put(Key(c), s)
          /\ To(c, [call[c] EXCEPT !.at = "noteRead", !.then = "end", !.seen = s])
    /\ UNCHANGED <<task, claims, World, holder, used>>
End(c) ==
    /\ At(c, "end") /\ Release(c) /\ To(c, Idle)
    /\ UNCHANGED <<Rows, World, used>>

-----------------------------------------------------------------------------
\* A node starts, and its scheduler first fails the stale runs it finds.
RecoverAny(k) == status[k] = "running"
Recoverable(k) == status[k] = "running" /\ k \in stale
Restart(n) ==
    /\ n \notin up /\ up' = up \cup {n}
    /\ call' = [c \in Callers |->
          IF c \in Schedulers /\ Home[c] = n
          THEN [Idle EXCEPT !.at = "recover", !.found = {k \in Keys : Recoverable(k)}] ELSE call[c]]
    /\ UNCHANGED <<day, active, Rows, holder, used>>
Recover(c) ==
    /\ At(c, "recover")
    /\ \/ \E k \in call[c].found :
             /\ Put(k, "failed")
             /\ To(c, [call[c] EXCEPT !.at = "noteRead", !.then = "recover", !.found = @ \ {k}])
       \/ call[c].found = {} /\ To(c, Idle) /\ UNCHANGED <<status, stale>>
    /\ UNCHANGED <<task, claims, World, holder, used>>

\* Thirty minutes pass without a write to the run.  Bound: no symbol takes that
\* long (a node that starts meanwhile would fail a run that is being worked on).
WorkedOn(k) == \E c \in Callers : call[c].at \in Locked /\ Key(c) = k
Lapse(k) ==
    /\ status[k] = "running" /\ k \notin stale
    /\ ~WorkedOn(k)
    /\ stale' = stale \cup {k}
    /\ UNCHANGED <<task, status, claims, World, holder, call, used>>

Crash(n) ==
    /\ n \in up /\ Spend("crashes") /\ up' = up \ {n}
    /\ call' = [c \in Callers |-> IF Home[c] = n THEN Idle ELSE call[c]]
    /\ holder' = [holder EXCEPT ![n] = {}]
    /\ UNCHANGED <<day, active, Rows>>

\* The owner switches the account and its automation off or on
\* (DeploymentService.set_status).
Switch ==
    /\ Spend("edits")
    /\ active' = ~active /\ task' = [task EXCEPT !.enabled = ~active]
    /\ UNCHANGED <<day, status, stale, claims, up, holder, call>>
NextDay ==
    /\ day < LastDay /\ day' = day + 1
    /\ UNCHANGED <<active, up, Rows, holder, call, used>>

Step(c) ==
    \/ Settle(c) \/ Lock(c) \/ Load(c) \/ Create(c) \/ Insert(c) \/ NoteRead(c) \/ NoteWrite(c)
    \/ Claim(c) \/ Work(c) \/ Progress(c) \/ Finish(c) \/ End(c) \/ Recover(c)
Next ==
    \/ \E c \in Callers : Tick(c) \/ RunByHand(c) \/ Step(c)
    \/ \E n \in Nodes : Restart(n) \/ Crash(n)
    \/ \E k \in Keys : Lapse(k)
    \/ Switch \/ NextDay

Spec == Init /\ [][Next]_vars

\* Statements return, schedulers tick every thirty seconds, and time passes.
\* The lock is handed over in the order of the requests.  No node has to
\* restart.
Fairness ==
    /\ \A c \in Callers : WF_vars(Step(c)) /\ SF_vars(Lock(c)) /\ SF_vars(Settle(c)) /\ WF_vars(Tick(c))
    /\ \A k \in Keys : WF_vars(Lapse(k))
LiveSpec == Spec /\ Fairness

-----------------------------------------------------------------------------
\* Every variable has its type.
TypeOK ==
    /\ day \in Days /\ active \in BOOLEAN
    /\ task \in Tasks
    /\ status \in [Keys -> RunStatuses]
    /\ stale \subseteq Keys
    /\ claims \in [Keys -> Nat]
    /\ up \subseteq Nodes
    /\ holder \in [Nodes -> SUBSET Callers]
    /\ used \in [manual : Nat, edits : Nat, failures : Nat, crashes : Nat]

\* "A scheduled date can only produce one run" (run_account): whatever nodes
\* tick, callers repeat and restarts recover, a run is carried out once.
RunOnce == \A k \in Keys : claims[k] <= 1

\* As long as no symbol outlasts the thirty minutes, a run that has ended keeps
\* its outcome, whatever recovers.
EndedStays == [][\A k \in Keys : status[k] \in Ended => status'[k] = status[k]]_vars

\* Without crashes and errors, a run that was created comes to an end.
RunsEnd == \A k \in Keys : []<>(status[k] \notin {"queued", "running"})
=============================================================================
