------------------------------ MODULE MCChatTask ------------------------------
(* Instances of ChatTask for TLC: a behaviour keeps to one of the profiles. *)
EXTENDS ChatTask, TLC

VARIABLE profile    \* the share of Limit and the tasks of this behaviour
CONSTANT Profiles

Bounded(sends, asks, cancels, deletes, crashes, stops) ==
    [b \in Bounds |-> CASE b = "sends" -> sends [] b = "asks" -> asks
                        [] b = "cancels" -> cancels [] b = "deletes" -> deletes
                        [] b = "crashes" -> crashes [] b = "stops" -> stops]
AnyLimit == Bounded(2, 1, 1, 1, 1, 1)

\* Safety: a retried request, a question, a cancel, a deletion and a crash; or
\* two requests, the second of which may supersede the first task.
SafetyProfiles ==
    {[tasks |-> 1, limit |-> Bounded(2, 1, 1, 1, 1, 0)],
     [tasks |-> 2, limit |-> Bounded(2, 1, 0, 0, 1, 0)]}
\* Liveness: a question and a cancel; a cancel and a crash; an orderly shutdown.
LiveProfiles ==
    {[tasks |-> 1, limit |-> Bounded(1, 1, 1, 0, 0, 0)],
     [tasks |-> 1, limit |-> Bounded(1, 0, 1, 0, 1, 0)],
     [tasks |-> 1, limit |-> Bounded(1, 0, 0, 0, 0, 1)]}

Within ==
    /\ \A b \in Bounds : used[b] <= profile.limit[b]
    /\ \A t \in Tasks : t > profile.tasks => status[t] = "absent"
ProfiledInit == Init /\ profile \in Profiles
ProfiledNext == Next /\ UNCHANGED profile /\ Within'
ProfiledSpec == ProfiledInit /\ [][ProfiledNext]_<<vars, profile>>
LiveSpec == ProfiledSpec /\ Fairness

Symmetry == Permutations(Nodes) \cup Permutations(Runs) \cup Permutations(Slots)
=============================================================================
