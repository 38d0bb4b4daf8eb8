--------------------------- MODULE SimulationEvents ---------------------------
(***************************************************************************)
(* The events of one simulation account (engine/simulation_events.py) and   *)
(* the websockets that follow them (api/routers/portfolio.py).  The hub     *)
(* keeps every event in a list and puts it into the bounded queue of each   *)
(* subscriber; a websocket first catches up with the list and then waits    *)
(* for its queue.                                                          *)
(*                                                                         *)
(* All of it is one process, and the lock of the hub is never waited for:   *)
(* an action is what happens between two sends or waits.                    *)
(***************************************************************************)
EXTENDS Naturals, Sequences

CONSTANTS
    Sockets,
    QueueSize,
    MaxEvents   \* bound on the events of the account

VARIABLES
    count,      \* the events of the list are numbered 1..count
    socket,     \* the websockets
    lost        \* of each socket, what its full queue threw away
vars == <<count, socket, lost>>

\* A websocket: its phase, its queue, the events it took from the list and has
\* still to send, the last number, and what was sent.
Gone == [at |-> "gone", queue |-> <<>>, listed |-> <<>>, last |-> 0, sent |-> <<>>]

Init ==
    /\ count = 0
    /\ socket = [s \in Sockets |-> Gone] /\ lost = [s \in Sockets |-> {}]

-----------------------------------------------------------------------------
Grows(queue, e) == Append(queue, e)
Enqueued(queue, e) == Append(IF Len(queue) = QueueSize THEN Tail(queue) ELSE queue, e)
Publish ==
    /\ count < MaxEvents /\ count' = count + 1
    /\ LET Follows(s) == socket[s].at # "gone"
           Full(s) == Follows(s) /\ Len(socket[s].queue) = QueueSize
       IN /\ socket' = [s \in Sockets |-> IF Follows(s)
                THEN [socket[s] EXCEPT !.queue = Enqueued(@, count + 1)] ELSE socket[s]]
          /\ lost' = [s \in Sockets |-> IF Full(s)
                THEN lost[s] \cup {Head(socket[s].queue)} ELSE lost[s]]

To(s, next) == socket' = [socket EXCEPT ![s] = next] /\ UNCHANGED count
\* subscribe, and the greeting that is sent before the list is read.
Connect(s) ==
    /\ socket[s].at = "gone" /\ To(s, [Gone EXCEPT !.at = "list"])
    /\ lost' = [lost EXCEPT ![s] = {}]
From(first) == [i \in 1..(count - first + 1) |-> first + i - 1]
Skipping(s) == From(socket[s].last + 2)
Unseen(s) == From(socket[s].last + 1)
List(s) ==
    /\ socket[s].at = "list"
    /\ To(s, [socket[s] EXCEPT !.at = "send", !.listed = Unseen(s)])
    /\ UNCHANGED lost
Send(s) ==
    /\ socket[s].at = "send"
    /\ To(s, IF socket[s].listed = <<>> THEN [socket[s] EXCEPT !.at = "wait"]
             ELSE [socket[s] EXCEPT !.listed = Tail(@), !.last = Head(socket[s].listed),
                                    !.sent = Append(@, Head(socket[s].listed))])
    /\ UNCHANGED lost
\* queue.get: what the list already had is skipped.
Always(s) == TRUE
Fresh(s) == Head(socket[s].queue) > socket[s].last
Receive(s) ==
    /\ socket[s].at = "wait" /\ socket[s].queue # <<>>
    /\ LET e == Head(socket[s].queue)
           taken == [socket[s] EXCEPT !.at = "list", !.queue = Tail(@)]
       IN To(s, IF Fresh(s) THEN [taken EXCEPT !.last = e, !.sent = Append(@, e)] ELSE taken)
    /\ UNCHANGED lost
\* A second without events; the heartbeats are left out.
TimeOut(s) ==
    /\ socket[s].at = "wait" /\ socket[s].queue = <<>>
    /\ To(s, [socket[s] EXCEPT !.at = "list"]) /\ UNCHANGED lost
Disconnect(s) ==
    /\ socket[s].at # "gone" /\ To(s, Gone) /\ UNCHANGED lost

Next ==
    \/ Publish
    \/ \E s \in Sockets : Connect(s) \/ List(s) \/ Send(s) \/ Receive(s) \/ TimeOut(s) \/ Disconnect(s)
Spec == Init /\ [][Next]_vars

-----------------------------------------------------------------------------
\* Every variable has its type.
TypeOK ==
    /\ count \in 0..MaxEvents
    /\ \A s \in Sockets :
          /\ socket[s].at \in {"gone", "list", "send", "wait"}
          /\ Len(socket[s].queue) <= QueueSize /\ lost[s] \subseteq 1..count

\* Although a socket reads a list and a queue that both have its events, it
\* gets each of them once and in order.
SentInOrder ==
    \A s \in Sockets : \A i, j \in DOMAIN socket[s].sent :
        i < j => socket[s].sent[i] < socket[s].sent[j]

\* A number that is skipped is one that the full queue threw away.
NothingElseSkipped ==
    \A s \in Sockets : \A e \in 1..socket[s].last :
        e \notin lost[s] => \E i \in DOMAIN socket[s].sent : socket[s].sent[i] = e
=============================================================================
