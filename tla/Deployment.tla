------------------------------ MODULE Deployment ------------------------------
(***************************************************************************)
(* Strategies on one simulated account (application/deployments.py,         *)
(* strategy_candidates.py, api/routers/deployments.py): the review of a     *)
(* sandbox candidate, its deployment or that of a finished experiment, and  *)
(* the statuses of deployments.                                             *)
(*                                                                         *)
(* A deployment is a row with a unique key; it goes with the account and    *)
(* the configuration of the account's automation, each written by a         *)
(* statement of its own.  A candidate is read and saved as one document.    *)
(***************************************************************************)
EXTENDS Naturals, FiniteSets

CONSTANTS
    Deployments,    \* the keys of the deployments, one per experiment
    Sandbox,        \* those whose strategy a language model wrote
    Users,          \* calls under way at once
    Limit           \* what a behaviour may contain: calls, crashes

Statuses == {"active", "paused", "archived"}
Reviews == {"draft", "validated", "approved", "rejected", "deployed"}
Phases == {"idle", "look", "account", "empty", "vacant", "insert", "bind", "save",
           "status", "task", "config", "follow"}

VARIABLES
    account,    \* is there one, has it traded, and its status
    row,        \* the status of each deployment, or "none"
    task,       \* the deployment the automation is bound to, and whether it is enabled
    candidate,  \* the status of each candidate
    call,       \* the calls under way
    used        \* the spent part of Limit
vars == <<account, row, task, candidate, call, used>>

\* A call: where it stands, its deployment, whether it makes the account, the
\* status it gives the deployment, the status of the candidate it will save,
\* and the automation it read.
Idle == [at |-> "idle", about |-> {}, create |-> TRUE, status |-> "active",
         review |-> {}, task |-> [bound |-> {}, enabled |-> FALSE]]

Init ==
    /\ account = [there |-> FALSE, traded |-> FALSE, status |-> "active"]
    /\ row = [d \in Deployments |-> "none"]
    /\ task = [bound |-> {}, enabled |-> FALSE]
    /\ candidate \in [Sandbox -> {"draft", "validated"}]
    /\ call = [c \in Users |-> Idle]
    /\ used = [calls |-> 0, crashes |-> 0]

Spend(what) == used[what] < Limit[what] /\ used' = [used EXCEPT ![what] = @ + 1]
Begins(c) == call[c].at = "idle" /\ Spend("calls")
At(c, phase) == call[c].at = phase /\ UNCHANGED used
To(c, next) == call' = [call EXCEPT ![c] = next]
Goes(c, phase) == To(c, [call[c] EXCEPT !.at = phase])
Ends(c) == To(c, Idle)
Active == {d \in Deployments : row[d] = "active"}

-----------------------------------------------------------------------------
\* review: only a validated candidate is approved, any one is rejected.
Approvable(d) == candidate[d] = "validated"
Review(c, d) ==
    /\ Begins(c)
    /\ \E verdict \in {"approved", "rejected"} :
          /\ verdict = "approved" => Approvable(d)
          /\ To(c, [Idle EXCEPT !.at = "save", !.about = {d}, !.review = {verdict}])
    /\ UNCHANGED <<account, row, task, candidate>>
SaveCandidate(c, d) ==
    /\ At(c, "save") /\ d \in call[c].about
    /\ \E s \in call[c].review : candidate' = [candidate EXCEPT ![d] = s]
    /\ Ends(c)
    /\ UNCHANGED <<account, row, task>>

\* deploy_to_paper asks for an approved candidate, and create_from_experiment
\* asks again.
NotRejected(d) == candidate[d] # "rejected"
Deployable(d) == candidate[d] = "approved"
DeployCandidate(c, d) ==
    /\ Begins(c) /\ Deployable(d)
    /\ To(c, [Idle EXCEPT !.at = "look", !.about = {d}, !.review = {"deployed"}])
    /\ UNCHANGED <<account, row, task, candidate>>
DeployExperiment(c, d) ==
    /\ Begins(c)
    /\ \E create \in BOOLEAN, status \in {"active", "paused"} :
          To(c, [Idle EXCEPT !.at = "look", !.about = {d}, !.create = create, !.status = status])
    /\ UNCHANGED <<account, row, task, candidate>>

\* What follows the deployment: the candidate is saved as deployed.
Deployed(c) == IF call[c].review = {} THEN Ends(c) ELSE Goes(c, "save")
Look(c, d) ==
    /\ At(c, "look") /\ d \in call[c].about
    /\ IF row[d] # "none" THEN Deployed(c)
       ELSE IF d \in Sandbox /\ ~Deployable(d) THEN Ends(c)
       ELSE Goes(c, IF call[c].create THEN "account" ELSE "empty")
    /\ UNCHANGED <<account, row, task, candidate>>
\* A new account, or an empty one without an active deployment.
CreateAccount(c) ==
    /\ At(c, "account")
    /\ IF account.there THEN Ends(c) /\ UNCHANGED account
       ELSE Goes(c, "insert") /\ account' = [account EXCEPT !.there = TRUE]
    /\ UNCHANGED <<row, task, candidate>>
CheckEmpty(c) ==
    /\ At(c, "empty")
    /\ IF account.there /\ ~account.traded THEN Goes(c, "vacant") ELSE Ends(c)
    /\ UNCHANGED <<account, row, task, candidate>>
VacantAlways == TRUE
Vacant == Active = {}
CheckVacant(c) ==
    /\ At(c, "vacant")
    /\ IF Vacant THEN Goes(c, "insert") ELSE Ends(c)
    /\ UNCHANGED <<account, row, task, candidate>>
InsertRow(c, d) ==
    /\ At(c, "insert") /\ d \in call[c].about
    /\ IF row[d] = "none"
       THEN Goes(c, "bind") /\ row' = [row EXCEPT ![d] = call[c].status]
       ELSE Ends(c) /\ UNCHANGED row
    /\ UNCHANGED <<account, task, candidate>>
Bind(c) ==
    /\ At(c, "bind")
    /\ task' = [bound |-> call[c].about, enabled |-> call[c].status = "active"]
    /\ Deployed(c)
    /\ UNCHANGED <<account, row, candidate>>

-----------------------------------------------------------------------------
\* set_status: the deployment, then the automation, then the account.
MayTake(d, status) == status = "active" => Active \subseteq {d}
SetStatus(c, d) ==
    /\ Begins(c) /\ row[d] # "none"
    /\ \E s \in Statuses :
          MayTake(d, s) /\ To(c, [Idle EXCEPT !.at = "status", !.about = {d}, !.status = s])
    /\ UNCHANGED <<account, row, task, candidate>>
WriteStatus(c, d) ==
    /\ At(c, "status") /\ d \in call[c].about
    /\ row' = [row EXCEPT ![d] = call[c].status]
    /\ Goes(c, "task")
    /\ UNCHANGED <<account, task, candidate>>
ReadTask(c) ==
    /\ At(c, "task") /\ To(c, [call[c] EXCEPT !.at = "config", !.task = task])
    /\ UNCHANGED <<account, row, task, candidate>>
ForgetsSwitch(c) == call[c].task
Switched(c) == [call[c].task EXCEPT !.enabled = call[c].status = "active"]
WriteTask(c) ==
    /\ At(c, "config") /\ task' = Switched(c) /\ Goes(c, "follow")
    /\ UNCHANGED <<account, row, candidate>>
Follow(c) ==
    /\ At(c, "follow")
    /\ account' = [account EXCEPT !.status = call[c].status]
    /\ Ends(c)
    /\ UNCHANGED <<row, task, candidate>>

-----------------------------------------------------------------------------
\* The owner makes the account by hand and trades on it; a process dies.
OpenAccount(c) ==
    /\ Begins(c) /\ ~account.there
    /\ account' = [account EXCEPT !.there = TRUE]
    /\ UNCHANGED <<row, task, candidate, call>>
Trade(c) ==
    /\ Begins(c) /\ account.there /\ account.status = "active"
    /\ account' = [account EXCEPT !.traded = TRUE]
    /\ UNCHANGED <<row, task, candidate, call>>
Crash(c) ==
    /\ call[c].at # "idle" /\ Spend("crashes") /\ Ends(c)
    /\ UNCHANGED <<account, row, task, candidate>>

Next == \E c \in Users :
    \/ CreateAccount(c) \/ CheckEmpty(c) \/ CheckVacant(c) \/ Bind(c)
    \/ ReadTask(c) \/ WriteTask(c) \/ Follow(c)
    \/ OpenAccount(c) \/ Trade(c) \/ Crash(c)
    \/ \E d \in Sandbox : Review(c, d) \/ SaveCandidate(c, d) \/ DeployCandidate(c, d)
    \/ \E d \in Deployments \ Sandbox : DeployExperiment(c, d)
    \/ \E d \in Deployments : Look(c, d) \/ InsertRow(c, d) \/ SetStatus(c, d) \/ WriteStatus(c, d)

Spec == Init /\ [][Next]_vars

-----------------------------------------------------------------------------
\* Whatever reviews and deployments meet: nothing that a person did not approve
\* first is deployed, and what was once looked at is never taken for new.
NothingUnreviewed ==
    \A d \in Sandbox : row[d] # "none" => candidate[d] \notin {"draft", "validated"}

\* As long as calls take turns, an account has one active deployment at most,
\* crashes included.
OneActive == Cardinality(Active) <= 1

\* As long as calls take turns and none is cut short, an automation that is on
\* has an active deployment.
SwitchedTogether ==
    (\A c \in Users : call[c].at = "idle") /\ task.enabled /\ used.crashes = 0 => Active # {}
=============================================================================
