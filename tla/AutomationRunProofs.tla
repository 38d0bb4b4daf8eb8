-------------------------- MODULE AutomationRunProofs --------------------------
(***************************************************************************)
(* The daily runs, for any number of nodes, callers and days: a run is      *)
(* carried out once, and one that has ended keeps its outcome.  And the      *)
(* parts of MCAutomation, whose promises follow from what is proved of their *)
(* components.                                                              *)
(***************************************************************************)
EXTENDS MCAutomation, TLAPS

Noting == {"noteRead", "noteWrite"}
Phases == {"idle", "settle", "lock", "recover"} \cup Locked
Followups == {"claim", "finish", "work", "end", "recover"}
Calls == [at : Phases, key : Keys, task : Tasks, then : Followups \cup {"idle"},
          seen : RunStatuses, found : SUBSET Keys]

\* Besides the variables' types: who notes something in the task's row knows
\* where it goes next.
Typed ==
    /\ TypeOK
    /\ call \in [Callers -> Calls]
    /\ \A c \in Callers : call[c].at \in Noting => call[c].then \in Followups

LEMMA IdleIsACall == NoKey \in Keys /\ FirstTask \in Tasks /\ Idle \in Calls
<1>1. 1 \in Days /\ 0 \in 0..LastDay  BY AutomationRunAssumption DEF Days
<1>2. NoKey \in Keys  BY <1>1 DEF NoKey, Keys
<1>3. FirstTask \in Tasks  BY <1>1 DEF FirstTask, Tasks, TaskStatuses
<1> QED  BY <1>2, <1>3 DEF Idle, Calls, Phases, RunStatuses

LEMMA CallsAreClosed ==
    ASSUME NEW k \in Calls
    PROVE  /\ \A p \in Phases : [k EXCEPT !.at = p] \in Calls
           /\ \A key \in Keys : [Idle EXCEPT !.at = "settle", !.key = key] \in Calls
           /\ \A key \in Keys : [Idle EXCEPT !.at = "lock", !.key = key] \in Calls
           /\ \A b \in BOOLEAN : [k EXCEPT !.at = "create", !.key.skip = b] \in Calls
           /\ \A n \in Followups : [k EXCEPT !.at = "noteRead", !.then = n] \in Calls
           /\ \A t \in Tasks : [k EXCEPT !.at = "noteWrite", !.task = t] \in Calls
           /\ \A s \in RunStatuses :
                 /\ [k EXCEPT !.at = "progress", !.seen = s] \in Calls
                 /\ [k EXCEPT !.at = "noteRead", !.then = "end", !.seen = s] \in Calls
           /\ \A f \in SUBSET Keys : [Idle EXCEPT !.at = "recover", !.found = f] \in Calls
           /\ \A f \in Keys :
                 [k EXCEPT !.at = "noteRead", !.then = "recover", !.found = @ \ {f}] \in Calls
<1>1. /\ \A p \in Phases : [k EXCEPT !.at = p] \in Calls
      /\ \A n \in Followups : [k EXCEPT !.at = "noteRead", !.then = n] \in Calls
      /\ \A t \in Tasks : [k EXCEPT !.at = "noteWrite", !.task = t] \in Calls
  BY DEF Calls, Phases, Locked
<1>2. \A b \in BOOLEAN : [k EXCEPT !.at = "create", !.key.skip = b] \in Calls
  BY DEF Calls, Phases, Locked, Keys
<1>3. \A s \in RunStatuses :
         /\ [k EXCEPT !.at = "progress", !.seen = s] \in Calls
         /\ [k EXCEPT !.at = "noteRead", !.then = "end", !.seen = s] \in Calls
  BY DEF Calls, Phases, Locked, Followups
<1>4. \A f \in Keys : [k EXCEPT !.at = "noteRead", !.then = "recover", !.found = @ \ {f}] \in Calls
  BY DEF Calls, Phases, Locked, Followups
<1>5. /\ \A key \in Keys : [Idle EXCEPT !.at = "settle", !.key = key] \in Calls
      /\ \A key \in Keys : [Idle EXCEPT !.at = "lock", !.key = key] \in Calls
      /\ \A f \in SUBSET Keys : [Idle EXCEPT !.at = "recover", !.found = f] \in Calls
  BY IdleIsACall DEF Calls, Phases
<1> QED  BY <1>1, <1>2, <1>3, <1>4, <1>5

LEMMA CallChanges ==
    ASSUME NEW c \in Callers, NEW next \in Calls, Typed, To(c, next),
           next.at \in Noting => next.then \in Followups
    PROVE  /\ call' \in [Callers -> Calls]
           /\ \A e \in Callers : call'[e].at \in Noting => call'[e].then \in Followups
BY DEF Typed, To

LEMMA PutKeepsTypes ==
    ASSUME Typed, NEW k \in Keys, NEW s \in RunStatuses, Put(k, s)
    PROVE  status' \in [Keys -> RunStatuses] /\ stale' \subseteq Keys
BY DEF Typed, TypeOK, Put

LEMMA SpendKeepsTypes ==
    ASSUME Typed, \E what \in {"manual", "edits", "failures", "crashes"} : Spend(what)
    PROVE  used' \in [manual : Nat, edits : Nat, failures : Nat, crashes : Nat]
BY DEF Typed, TypeOK, Spend

LEMMA TypedHolds == Spec => []Typed
<1>1. Init => Typed
  BY IdleIsACall, AutomationRunAssumption
  DEF Init, Typed, TypeOK, Days, RunStatuses, Idle, Noting
<1>2. Typed /\ [Next]_vars => Typed'
  <2> SUFFICES ASSUME Typed, [Next]_vars PROVE Typed'
    OBVIOUS
  <2> USE DEF World, Rows, At
  <2>1. CASE UNCHANGED vars
    BY <2>1 DEF vars, Typed, TypeOK
  <2>2. ASSUME NEW c \in Callers, Tick(c) \/ RunByHand(c)
        PROVE  Typed'
    <3>1. /\ [NoKey EXCEPT !.day = day, !.trigger = "schedule"] \in Keys
          /\ [NoKey EXCEPT !.day = day] \in Keys
      BY IdleIsACall DEF Typed, TypeOK, Keys
    <3>2. [Idle EXCEPT !.at = "settle", !.key = [NoKey EXCEPT !.day = day, !.trigger = "schedule"]] \in Calls
      BY <3>1, IdleIsACall, CallsAreClosed
    <3>3. [Idle EXCEPT !.at = "lock", !.key = [NoKey EXCEPT !.day = day]] \in Calls
      BY <3>1, IdleIsACall, CallsAreClosed
    <3>4. CASE Tick(c)
      BY <3>2, <3>4, CallChanges DEF Tick, Typed, TypeOK, Idle, Noting
    <3>5. CASE RunByHand(c)
      BY <3>3, <3>5, CallChanges, SpendKeepsTypes DEF RunByHand, Typed, TypeOK, Idle, Noting
    <3> QED  BY <2>2, <3>4, <3>5
  <2>3. ASSUME NEW c \in Callers, Step(c)
        PROVE  Typed'
    <3>1. call[c] \in Calls /\ Key(c) \in Keys /\ status[Key(c)] \in RunStatuses
          /\ call[c].task \in Tasks /\ call[c].seen \in RunStatuses
      BY DEF Typed, TypeOK, Calls, Key
    <3>2. \A p \in {"lock", "load", "claim", "finish", "insert", "end"} : Goes(c, p) =>
             /\ call' \in [Callers -> Calls]
             /\ \A e \in Callers : call'[e].at \in Noting => call'[e].then \in Followups
      <4> SUFFICES ASSUME NEW p \in {"lock", "load", "claim", "finish", "insert", "end"}, Goes(c, p)
                   PROVE  /\ call' \in [Callers -> Calls]
                          /\ \A e \in Callers : call'[e].at \in Noting => call'[e].then \in Followups
        OBVIOUS
      <4>1. [call[c] EXCEPT !.at = p] \in Calls  BY <3>1, CallsAreClosed DEF Phases, Locked
      <4>2. [call[c] EXCEPT !.at = p].at = p  BY <3>1 DEF Calls
      <4> QED  BY <4>1, <4>2, CallChanges DEF Goes, Noting
    <3>3. To(c, Idle) =>
             /\ call' \in [Callers -> Calls]
             /\ \A e \in Callers : call'[e].at \in Noting => call'[e].then \in Followups
      BY IdleIsACall, CallChanges DEF Idle, Noting
    <3>4. \A n \in Followups : To(c, [call[c] EXCEPT !.at = "noteRead", !.then = n]) =>
             /\ call' \in [Callers -> Calls]
             /\ \A e \in Callers : call'[e].at \in Noting => call'[e].then \in Followups
      <4> SUFFICES ASSUME NEW n \in Followups, To(c, [call[c] EXCEPT !.at = "noteRead", !.then = n])
                   PROVE  /\ call' \in [Callers -> Calls]
                          /\ \A e \in Callers : call'[e].at \in Noting => call'[e].then \in Followups
        OBVIOUS
      <4>1. [call[c] EXCEPT !.at = "noteRead", !.then = n] \in Calls  BY <3>1, CallsAreClosed
      <4>2. [call[c] EXCEPT !.at = "noteRead", !.then = n].then = n  BY <3>1 DEF Calls
      <4> QED  BY <4>1, <4>2, CallChanges
    <3>5. CASE Settle(c)
      BY <3>2, <3>3, <3>5, SpendKeepsTypes DEF Settle, Typed, TypeOK
    <3>6. CASE Lock(c)
      BY <3>2, <3>6, AutomationRunAssumption DEF Lock, Typed, TypeOK
    <3>7. CASE Load(c)
      <4>1. [call[c] EXCEPT !.at = "create", !.key.skip = ~active] \in Calls
        BY <3>1, CallsAreClosed DEF Typed, TypeOK
      <4>2. [call[c] EXCEPT !.at = "create", !.key.skip = ~active].at = "create"
        BY <3>1 DEF Calls
      <4> QED  BY <3>7, <4>1, <4>2, CallChanges DEF Load, Noting, Typed, TypeOK
    <3>8. CASE Create(c)
      BY <3>2, <3>8 DEF Create, AfterCreate, Typed, TypeOK
    <3>9. CASE Insert(c)
      <4>1. AfterCreate(c) \in Followups /\ "queued" \in RunStatuses
        BY DEF AfterCreate, Followups, RunStatuses
      <4> QED  BY <3>1, <3>2, <3>4, <3>9, <4>1, PutKeepsTypes DEF Insert, Typed, TypeOK
    <3>10. CASE NoteRead(c)
      <4>1. [call[c] EXCEPT !.at = "noteWrite", !.task = task] \in Calls
        BY <3>1, CallsAreClosed DEF Typed, TypeOK
      <4>2. [call[c] EXCEPT !.at = "noteWrite", !.task = task].then \in Followups
        BY <3>1, <3>10 DEF NoteRead, Calls, Typed, Noting
      <4> QED  BY <3>10, <4>1, <4>2, CallChanges DEF NoteRead, Typed, TypeOK
    <3>11. CASE NoteWrite(c)
      <4>1. call[c].then \in Followups  BY <3>11 DEF NoteWrite, Typed, Noting
      <4>2. Key(c).day \in 0..LastDay  BY <3>1, AutomationRunAssumption DEF Keys, Days
      <4>3. Noted(c) \in Tasks
        <5>1. [call[c].task EXCEPT !.last = Key(c).day] \in Tasks  BY <3>1, <4>2 DEF Tasks
        <5>2. \A s \in TaskStatuses : [call[c].task EXCEPT !.status = s] \in Tasks  BY <3>1 DEF Tasks
        <5> QED  BY <4>1, <5>1, <5>2 DEF Noted, Followups, TaskStatuses
      <4>4. [call[c] EXCEPT !.at = call[c].then] \in Calls
        BY <3>1, <4>1, CallsAreClosed DEF Phases, Locked, Followups
      <4>5. [call[c] EXCEPT !.at = call[c].then].at \notin Noting
        BY <3>1, <4>1 DEF Calls, Noting, Followups
      <4> QED  BY <3>11, <4>3, <4>4, <4>5, CallChanges DEF NoteWrite, Goes, Typed, TypeOK
    <3>12. CASE Claim(c)
      <4>1. claims' \in [Keys -> Nat]  BY <3>1, <3>12 DEF Claim, Typed, TypeOK
      <4>2. "work" \in Followups /\ "running" \in RunStatuses  BY DEF Followups, RunStatuses
      <4> QED  BY <3>1, <3>2, <3>4, <3>12, <4>1, <4>2, PutKeepsTypes DEF Claim, Typed, TypeOK
    <3>13. CASE Work(c)
      <4>1. CASE To(c, [call[c] EXCEPT !.at = "progress", !.seen = status[Key(c)]]) /\ UNCHANGED used
        <5>1. [call[c] EXCEPT !.at = "progress", !.seen = status[Key(c)]] \in Calls
          BY <3>1, CallsAreClosed
        <5>2. [call[c] EXCEPT !.at = "progress", !.seen = status[Key(c)]].at = "progress"
          BY <3>1 DEF Calls
        <5> QED  BY <3>13, <4>1, <5>1, <5>2, CallChanges DEF Work, Noting, Typed, TypeOK
      <4> QED  BY <3>2, <3>13, <4>1, SpendKeepsTypes DEF Work, Typed, TypeOK
    <3>14. CASE Progress(c)
      BY <3>1, <3>2, <3>14, PutKeepsTypes DEF Progress, Typed, TypeOK
    <3>15. CASE Finish(c)
      <4>1. PICK s \in OutcomesOf(c) :
              Put(Key(c), s) /\ To(c, [call[c] EXCEPT !.at = "noteRead", !.then = "end", !.seen = s])
        BY <3>15 DEF Finish
      <4>2. s \in RunStatuses  BY DEF OutcomesOf, RunStatuses, Ended
      <4>3. [call[c] EXCEPT !.at = "noteRead", !.then = "end", !.seen = s] \in Calls
        BY <3>1, <4>2, CallsAreClosed
      <4>4. [call[c] EXCEPT !.at = "noteRead", !.then = "end", !.seen = s].then \in Followups
        BY <3>1 DEF Calls, Followups
      <4> QED  BY <3>1, <3>15, <4>1, <4>2, <4>3, <4>4, CallChanges, PutKeepsTypes
               DEF Finish, Typed, TypeOK
    <3>16. CASE End(c)
      BY <3>3, <3>16, AutomationRunAssumption DEF End, Release, Typed, TypeOK
    <3>17. CASE Recover(c)
      <4>1. call[c].found \subseteq Keys  BY <3>1 DEF Calls
      <4>2. ASSUME NEW k \in call[c].found, Put(k, "failed"),
                   To(c, [call[c] EXCEPT !.at = "noteRead", !.then = "recover", !.found = @ \ {k}])
            PROVE  Typed'
        <5>1. [call[c] EXCEPT !.at = "noteRead", !.then = "recover", !.found = @ \ {k}] \in Calls
          BY <3>1, <4>1, CallsAreClosed
        <5>2. [call[c] EXCEPT !.at = "noteRead", !.then = "recover", !.found = @ \ {k}].then \in Followups
          BY <3>1 DEF Calls, Followups
        <5>3. "failed" \in RunStatuses  BY DEF RunStatuses, Ended
        <5> QED  BY <3>17, <4>1, <4>2, <5>1, <5>2, <5>3, CallChanges, PutKeepsTypes
                 DEF Recover, Typed, TypeOK
      <4> QED  BY <3>3, <3>17, <4>2 DEF Recover, Typed, TypeOK
    <3> QED
      BY <2>3, <3>5, <3>6, <3>7, <3>8, <3>9, <3>10, <3>11, <3>12, <3>13, <3>14, <3>15, <3>16, <3>17
      DEF Step
  <2>4. ASSUME NEW n \in Nodes, Restart(n)
        PROVE  Typed'
    <3>1. {k \in Keys : Recoverable(k)} \in SUBSET Keys  OBVIOUS
    <3>2. [Idle EXCEPT !.at = "recover", !.found = {k \in Keys : Recoverable(k)}] \in Calls
      BY <3>1, IdleIsACall, CallsAreClosed
    <3> QED  BY <2>4, <3>2 DEF Restart, Typed, TypeOK, Idle, Noting
  <2>5. ASSUME NEW n \in Nodes, Crash(n)
        PROVE  Typed'
    BY <2>5, IdleIsACall, SpendKeepsTypes DEF Crash, Typed, TypeOK, Idle, Noting
  <2>6. ASSUME NEW k \in Keys, Lapse(k)
        PROVE  Typed'
    BY <2>6 DEF Lapse, Typed, TypeOK
  <2>7. CASE Switch
    BY <2>7, SpendKeepsTypes DEF Switch, Typed, TypeOK, Tasks
  <2>8. CASE NextDay
    BY <2>8, AutomationRunAssumption DEF NextDay, Typed, TypeOK, Days
  <2> QED
    BY <2>1, <2>2, <2>3, <2>4, <2>5, <2>6, <2>7, <2>8 DEF Next
<1> QED  BY <1>1, <1>2, PTL DEF Spec

\* Every variable of the runs keeps its type (automation_store.py, automation.py).
THEOREM TypeCorrect == Spec => []TypeOK
<1>1. Typed => TypeOK  BY DEF Typed
<1> QED  BY <1>1, TypedHolds, PTL

-----------------------------------------------------------------------------
\* A run leaves "queued" for good: its claim counts, and whoever writes a status
\* it read before read one from after the claim.
Begun(k) == status[k] \notin {"none", "queued"}
Works(c) == call[c].at = "work" \/ (call[c].at \in Noting /\ call[c].then = "work")
ClaimsCount ==
    \A k \in Keys : claims[k] <= 1 /\ (~Begun(k) => claims[k] = 0)
WorksOnBegun ==
    \A c \in Callers : /\ Works(c) => Begun(Key(c))
                       /\ call[c].at = "progress" => call[c].seen \notin {"none", "queued"}

LEMMA OneCallMoves ==
    ASSUME Typed, NEW c \in Callers, NEW next, To(c, next)
    PROVE  call'[c] = next /\ \A e \in Callers \ {c} : call'[e] = call[e]
BY DEF Typed, To

LEMMA GoesThere ==
    ASSUME Typed, NEW c \in Callers, NEW p, Goes(c, p)
    PROVE  /\ call'[c].at = p /\ call'[c].key = call[c].key /\ call'[c].seen = call[c].seen
           /\ call'[c].then = call[c].then /\ call'[c].found = call[c].found
           /\ \A e \in Callers \ {c} : call'[e] = call[e]
<1>1. call[c] \in Calls  BY DEF Typed
<1> QED  BY <1>1, OneCallMoves DEF Goes, Calls

\* Where the steps before and after a run take a call.
LEMMA AroundTheRun ==
    ASSUME Typed, NEW c \in Callers,
           Tick(c) \/ RunByHand(c) \/ Settle(c) \/ Lock(c) \/ Load(c) \/ Create(c) \/ End(c)
    PROVE  /\ UNCHANGED <<status, stale, claims>>
           /\ \A e \in Callers \ {c} : call'[e] = call[e]
           /\ call'[c].at \in {"settle", "lock", "idle", "load", "create", "insert", "claim", "finish", "end"}
           /\ call'[c].at \in {"claim", "finish"} => call'[c].at = AfterCreate(c) /\ call'[c].key = call[c].key
           /\ call'[c].found \in {{}, call[c].found}
<1>1. call[c] \in Calls  BY DEF Typed
<1>2. UNCHANGED <<status, stale, claims>>
  BY DEF Tick, RunByHand, Settle, Lock, Load, Create, End, Rows
<1>3. Idle.at = "idle" /\ Idle.found = {}  BY DEF Idle
<1>5. CASE Tick(c)
  <2> DEFINE next == [Idle EXCEPT !.at = "settle", !.key = [NoKey EXCEPT !.day = day, !.trigger = "schedule"]]
  <2>1. next.at = "settle" /\ next.found = {}  BY DEF Idle
  <2>2. To(c, next)  BY <1>5 DEF Tick
  <2> HIDE DEF next
  <2> QED  BY <1>2, <2>1, <2>2, OneCallMoves
<1>6. CASE RunByHand(c)
  <2> DEFINE next == [Idle EXCEPT !.at = "lock", !.key = [NoKey EXCEPT !.day = day]]
  <2>1. next.at = "lock" /\ next.found = {}  BY DEF Idle
  <2>2. To(c, next)  BY <1>6 DEF RunByHand
  <2> HIDE DEF next
  <2> QED  BY <1>2, <2>1, <2>2, OneCallMoves
<1>7. CASE Settle(c)  BY <1>2, <1>3, <1>7, OneCallMoves, GoesThere DEF Settle
<1>8. CASE Lock(c)  BY <1>2, <1>8, GoesThere DEF Lock
<1>9. CASE Load(c)
  <2>1. /\ [call[c] EXCEPT !.at = "create", !.key.skip = ~active].at = "create"
        /\ [call[c] EXCEPT !.at = "create", !.key.skip = ~active].found = call[c].found
    BY <1>1 DEF Calls
  <2> QED  BY <1>2, <1>9, <2>1, OneCallMoves DEF Load
<1>10. CASE Create(c)
  <2>1. AfterCreate(c) \in {"claim", "finish"}  BY DEF AfterCreate
  <2> QED  BY <1>2, <1>10, <2>1, GoesThere DEF Create
<1>11. CASE End(c)  BY <1>2, <1>3, <1>11, OneCallMoves DEF End
<1> QED  BY <1>5, <1>6, <1>7, <1>8, <1>9, <1>10, <1>11

\* Where a step that writes a run takes its call.
LEMMA AfterWriting ==
    ASSUME Typed, NEW c \in Callers, Insert(c) \/ Claim(c) \/ Progress(c) \/ Finish(c) \/ Recover(c)
    PROVE  /\ \A e \in Callers \ {c} : call'[e] = call[e]
           /\ call'[c].at \in {"noteRead", "finish", "end", "idle"}
           /\ Recover(c) \/ call'[c].key = call[c].key
           /\ call'[c].found \subseteq call[c].found
           /\ call'[c].at = "noteRead" =>
                 \/ Insert(c) /\ call'[c].then = AfterCreate(c)
                 \/ Claim(c) /\ call'[c].then = "work" /\ Claimable(Key(c))
                 \/ Finish(c) /\ call'[c].then = "end"
                 \/ Recover(c) /\ call'[c].then = "recover"
           /\ call'[c].at = "finish" => Progress(c)
<1>1. call[c] \in Calls  BY DEF Typed
<1>2. Idle.at = "idle" /\ Idle.found = {}  BY DEF Idle
<1>3. \A p : To(c, [call[c] EXCEPT !.at = "noteRead", !.then = p]) =>
        /\ call'[c].at = "noteRead" /\ call'[c].then = p /\ call'[c].key = call[c].key
        /\ call'[c].found = call[c].found
        /\ \A e \in Callers \ {c} : call'[e] = call[e]
  <2> SUFFICES ASSUME NEW p, To(c, [call[c] EXCEPT !.at = "noteRead", !.then = p])
               PROVE  /\ call'[c].at = "noteRead" /\ call'[c].then = p /\ call'[c].key = call[c].key
                      /\ call'[c].found = call[c].found
                      /\ \A e \in Callers \ {c} : call'[e] = call[e]
    OBVIOUS
  <2> DEFINE next == [call[c] EXCEPT !.at = "noteRead", !.then = p]
  <2>1. next.at = "noteRead" /\ next.then = p /\ next.key = call[c].key /\ next.found = call[c].found
    BY <1>1 DEF Calls
  <2>2. call'[c] = next /\ \A e \in Callers \ {c} : call'[e] = call[e]
    BY OneCallMoves
  <2> HIDE DEF next
  <2> QED  BY <2>1, <2>2
<1>4. CASE Insert(c)
  <2>1. \/ To(c, [call[c] EXCEPT !.at = "noteRead", !.then = AfterCreate(c)])
        \/ Goes(c, "end")
    BY <1>4 DEF Insert
  <2>2. CASE Goes(c, "end")  BY <1>4, <2>2, GoesThere
  <2> QED  BY <1>3, <1>4, <2>1, <2>2
<1>5. CASE Claim(c)
  <2>1. \/ Claimable(Key(c)) /\ To(c, [call[c] EXCEPT !.at = "noteRead", !.then = "work"])
        \/ Goes(c, "end")
    BY <1>5 DEF Claim
  <2>2. CASE Goes(c, "end")  BY <1>5, <2>2, GoesThere
  <2> QED  BY <1>3, <1>5, <2>1, <2>2
<1>6. CASE Progress(c)
  <2>1. Goes(c, "finish")  BY <1>6 DEF Progress
  <2> QED  BY <1>6, <2>1, GoesThere
<1>7. CASE Finish(c)
  <2>1. PICK s : To(c, [call[c] EXCEPT !.at = "noteRead", !.then = "end", !.seen = s])
    BY <1>7 DEF Finish
  <2> DEFINE next == [call[c] EXCEPT !.at = "noteRead", !.then = "end", !.seen = s]
  <2>2. next.at = "noteRead" /\ next.then = "end" /\ next.key = call[c].key /\ next.found = call[c].found
    BY <1>1 DEF Calls
  <2>3. call'[c] = next /\ \A e \in Callers \ {c} : call'[e] = call[e]
    BY <2>1, OneCallMoves
  <2> HIDE DEF next
  <2> QED  BY <1>7, <2>2, <2>3
<1>8. CASE Recover(c)
  <2>1. CASE To(c, Idle)  BY <1>2, <1>8, <2>1, OneCallMoves
  <2>2. ASSUME NEW k, To(c, [call[c] EXCEPT !.at = "noteRead", !.then = "recover", !.found = @ \ {k}])
        PROVE  /\ \A e \in Callers \ {c} : call'[e] = call[e]
               /\ call'[c].at = "noteRead" /\ call'[c].then = "recover"
               /\ call'[c].found \subseteq call[c].found
    <3> DEFINE next == [call[c] EXCEPT !.at = "noteRead", !.then = "recover", !.found = @ \ {k}]
    <3>1. next.at = "noteRead" /\ next.then = "recover" /\ next.found \subseteq call[c].found
      BY <1>1 DEF Calls
    <3>2. call'[c] = next /\ \A e \in Callers \ {c} : call'[e] = call[e]
      BY <2>2, OneCallMoves
    <3> HIDE DEF next
    <3> QED  BY <3>1, <3>2
  <2>3. To(c, Idle) \/ \E k : To(c, [call[c] EXCEPT !.at = "noteRead", !.then = "recover", !.found = @ \ {k}])
    BY <1>8 DEF Recover
  <2> QED  BY <1>8, <2>1, <2>2, <2>3
<1> QED  BY <1>4, <1>5, <1>6, <1>7, <1>8

\* Restarts and crashes leave a call alone or start it anew.
LEMMA Elsewhere ==
    ASSUME Typed,
           (\E n \in Nodes : Restart(n) \/ Crash(n)) \/ (\E k \in Keys : Lapse(k)) \/ Switch \/ NextDay
    PROVE  /\ UNCHANGED <<status, claims>>
           /\ \A e \in Callers : \/ call'[e] = call[e]
                                 \/ call'[e].at = "idle" /\ call'[e].found = {}
                                 \/ call'[e].at = "recover" /\ call'[e].found = {k \in Keys : Recoverable(k)}
<1>1. UNCHANGED <<status, claims>>
  BY DEF Restart, Crash, Lapse, Switch, NextDay, Rows
<1>2. Idle.at = "idle" /\ Idle.found = {}  BY DEF Idle
<1>4. CASE \E n \in Nodes : Restart(n)
  <2> DEFINE next == [Idle EXCEPT !.at = "recover", !.found = {k \in Keys : Recoverable(k)}]
  <2>1. next.at = "recover" /\ next.found = {k \in Keys : Recoverable(k)}  BY DEF Idle
  <2>2. \A e \in Callers : call'[e] = next \/ call'[e] = call[e]  BY <1>4 DEF Restart
  <2> HIDE DEF next
  <2> QED  BY <1>1, <2>1, <2>2
<1>5. CASE \E n \in Nodes : Crash(n)  BY <1>1, <1>2, <1>5 DEF Crash
<1>6. CASE \/ \E k \in Keys : Lapse(k)
           \/ Switch \/ NextDay
  BY <1>1, <1>6 DEF Lapse, Switch, NextDay
<1> QED  BY <1>4, <1>5, <1>6

\* What changes no row and takes nobody to the work on a run.
LEMMA OtherCallsKeepClaims ==
    ASSUME Typed, ClaimsCount, WorksOnBegun, UNCHANGED <<status, claims>>,
           \A c \in Callers : \/ call'[c] = call[c]
                              \/ call'[c].at \notin {"work", "progress"} \cup Noting
                              \/ call'[c].at \in Noting /\ call'[c].then # "work"
    PROVE  ClaimsCount' /\ WorksOnBegun'
BY DEF ClaimsCount, WorksOnBegun, Works, Begun, Key, Noting

\* "A scheduled date can only produce one run" (automation.py:106): a run is
\* claimed once, whatever nodes tick, callers repeat, crashes and recoveries meet.
THEOREM RunOnceHolds == Spec => []RunOnce
<1> DEFINE Inv == ClaimsCount /\ WorksOnBegun
<1>1. Init => Inv
  BY DEF Init, ClaimsCount, WorksOnBegun, Works, Begun, Idle, Noting
<1>2. Typed /\ Inv /\ [Next]_vars => Inv'
  <2> SUFFICES ASSUME Typed, Inv, [Next]_vars PROVE Inv'
    OBVIOUS
  <2>0. call \in [Callers -> Calls] /\ status \in [Keys -> RunStatuses] /\ claims \in [Keys -> Nat]
    BY DEF Typed, TypeOK
  <2> USE DEF World, Rows, At, To, Goes
  <2>1. CASE UNCHANGED vars
    BY <2>1 DEF vars, ClaimsCount, WorksOnBegun, Works, Begun, Key
  <2>2. ASSUME NEW c \in Callers,
               Tick(c) \/ RunByHand(c) \/ Settle(c) \/ Lock(c) \/ Load(c) \/ Create(c) \/ End(c)
        PROVE  Inv'
    <3>1. UNCHANGED <<status, claims>>
      BY <2>2, AroundTheRun
    <3>2. \A e \in Callers : call'[e] = call[e] \/ call'[e].at \notin {"work", "progress"} \cup Noting
      BY <2>2, AroundTheRun DEF Noting
    <3> QED  BY <3>1, <3>2, OtherCallsKeepClaims
  <2>3. ASSUME NEW c \in Callers, NoteRead(c) \/ NoteWrite(c)
        PROVE  Inv'
    <3>1. UNCHANGED <<status, claims>>  BY <2>3 DEF NoteRead, NoteWrite
    <3>2. call[c].at \in Noting /\ (call[c].then \in Followups)
      BY <2>3 DEF NoteRead, NoteWrite, Noting, Typed
    <3>3. call'[c].key = call[c].key /\ \A e \in Callers \ {c} : call'[e] = call[e]
      BY ZenonT(60), <2>0, <2>3 DEF NoteRead, NoteWrite, Calls
    <3>4. call'[c].at # "progress" /\ (Works(c)' => Works(c))
      BY <2>0, <2>3, <3>2 DEF NoteRead, NoteWrite, Calls, Works, Noting, Followups
    <3> QED  BY <3>1, <3>3, <3>4 DEF ClaimsCount, WorksOnBegun, Works, Begun, Key
  <2>4. ASSUME NEW c \in Callers, Work(c)
        PROVE  Inv'
    <3>1. UNCHANGED <<status, claims>> /\ Begun(Key(c))
      BY <2>4 DEF Work, WorksOnBegun, Works
    <3>2. \A e \in Callers \ {c} : call'[e] = call[e]  BY <2>0, <2>4 DEF Work
    <3>3. ~Works(c)'  BY <2>0, <2>4 DEF Work, Works, Noting, Calls
    <3>4. call'[c].at = "progress" => call'[c].seen = status[Key(c)]
      BY <2>0, <2>4 DEF Work, Calls
    <3> QED  BY <3>1, <3>2, <3>3, <3>4 DEF ClaimsCount, WorksOnBegun, Works, Begun, Key
  \* The steps that write a run.
  <2>5. ASSUME NEW c \in Callers, Insert(c)
        PROVE  Inv'
    <3>1. \A e \in Callers \ {c} : call'[e] = call[e]  BY <2>5, AfterWriting
    <3>2. ~Works(c)' /\ call'[c].at # "progress"
      <4>1. call[c].at = "insert"  BY <2>5 DEF Insert
      <4>2. AfterCreate(c) # "work"  BY DEF AfterCreate
      <4>3. ~Claim(c) /\ ~Finish(c) /\ ~Recover(c)  BY <4>1 DEF Claim, Finish, Recover
      <4> QED  BY <2>5, <4>2, <4>3, AfterWriting DEF Works, Noting
    <3>3. \A k \in Keys : (Begun(k) <=> Begun(k)') /\ claims'[k] = claims[k]
      BY <2>0, <2>5 DEF Insert, Put, Begun
    <3>4. \A e \in Callers : Key(e) \in Keys  BY <2>0 DEF Calls, Key
    <3> QED  BY <3>1, <3>2, <3>3, <3>4 DEF ClaimsCount, WorksOnBegun, Works, Key
  <2>6. ASSUME NEW c \in Callers, Claim(c)
        PROVE  Inv'
    <3>1. \A e \in Callers \ {c} : call'[e] = call[e]  BY <2>6, AfterWriting
    <3>2. call'[c].key = call[c].key /\ call'[c].at # "progress"
      BY <2>6, AfterWriting DEF Recover, Claim
    <3>3. \A e \in Callers : Key(e) \in Keys  BY <2>0 DEF Calls, Key
    <3>4. CASE Claimable(Key(c))
      <4>1. ~Begun(Key(c)) /\ Begun(Key(c))'
        BY <2>0, <2>6, <3>2, <3>3, <3>4 DEF Claim, Claimable, Put, Begun, Key
      <4>2. \A k \in Keys \ {Key(c)} : (Begun(k) <=> Begun(k)') /\ claims'[k] = claims[k]
        BY <2>0, <2>6, <3>3, <3>4 DEF Claim, Put, Begun
      <4>3. claims'[Key(c)] = 1
        BY <2>0, <2>6, <3>3, <3>4, <4>1 DEF Claim, ClaimsCount
      <4> QED  BY <3>1, <3>2, <3>3, <4>1, <4>2, <4>3 DEF ClaimsCount, WorksOnBegun, Works, Begun, Key
    <3>5. CASE ~Claimable(Key(c))
      <4>1. UNCHANGED <<status, claims>> /\ call'[c].at = "end"
        BY <2>0, <2>6, <3>5 DEF Claim, Calls
      <4> QED  BY <3>1, <4>1, OtherCallsKeepClaims DEF Noting
    <3> QED  BY <3>4, <3>5
  <2>7. ASSUME NEW c \in Callers, Progress(c) \/ Finish(c) \/ Recover(c)
        PROVE  Inv'
    <3>1. UNCHANGED claims /\ \A e \in Callers \ {c} : call'[e] = call[e]
      BY <2>0, <2>7 DEF Progress, Finish, Recover
    <3>2. ~Works(c)' /\ call'[c].at # "progress"
      <4>1. call[c].at \in {"progress", "finish", "recover"}
        BY <2>7 DEF Progress, Finish, Recover
      <4>2. ~Claim(c) /\ ~Insert(c)  BY <4>1 DEF Claim, Insert
      <4> QED  BY <2>7, <4>2, AfterWriting DEF Works, Noting
    <3>3. \A k \in Keys : Begun(k) => Begun(k)'
      <4>1. CASE Progress(c)
        BY <2>0, <4>1 DEF Progress, Put, Begun, WorksOnBegun
      <4>2. CASE Finish(c)
        BY <2>0, <4>2 DEF Finish, OutcomesOf, Put, Begun
      <4>3. CASE Recover(c)
        BY <2>0, <4>3 DEF Recover, Put, Begun
      <4> QED  BY <2>7, <4>1, <4>2, <4>3
    <3>4. \A e \in Callers : Key(e) \in Keys  BY <2>0 DEF Calls, Key
    <3> QED  BY <3>1, <3>2, <3>3, <3>4 DEF ClaimsCount, WorksOnBegun, Works, Key
  <2>8. ASSUME \/ \E n \in Nodes : Restart(n) \/ Crash(n)
               \/ \E k \in Keys : Lapse(k)
               \/ Switch \/ NextDay
        PROVE  Inv'
    <3>1. UNCHANGED <<status, claims>>
      BY <2>8, Elsewhere
    <3>2. \A e \in Callers : call'[e] = call[e] \/ call'[e].at \in {"idle", "recover"}
      BY <2>8, Elsewhere
    <3> QED  BY <3>1, <3>2, OtherCallsKeepClaims DEF Noting
  <2> QED
    BY <2>1, <2>2, <2>3, <2>4, <2>5, <2>6, <2>7, <2>8 DEF Next, Step
<1>3. Inv => RunOnce  BY DEF ClaimsCount, RunOnce
<1> HIDE DEF Inv
<1> QED  BY <1>1, <1>2, <1>3, TypedHolds, PTL DEF Spec

-----------------------------------------------------------------------------
\* The caller that claimed a run, until the run has ended.
Carries(c) == Works(c) \/ call[c].at = "progress" \/ (call[c].at = "finish" /\ ~Key(c).skip)
CarriedAlone ==
    \A c \in Callers : Carries(c) =>
        /\ status[Key(c)] = "running" /\ Key(c) \notin stale
        /\ \A e \in Callers : /\ Key(c) \notin call[e].found
                              /\ e # c /\ Carries(e) => Key(e) # Key(c)
StaleAreRunning == \A k \in stale : status[k] = "running"
FoundWereRunning == \A c \in Callers : \A k \in call[c].found : status[k] \in {"running", "failed"}
ProgressIsRunning == \A c \in Callers : call[c].at = "progress" => call[c].seen = "running"
SkipsAreSkipped == \A k \in Keys : k.skip => status[k] \in {"none", "queued", "skipped"}
\* The record of a skipped run is never on the way to a claim, and a run of its
\* own does not end before one.
OnTheWay(c) ==
    /\ call[c].at = "claim" \/ (call[c].at \in Noting /\ call[c].then = "claim") => ~Key(c).skip
    /\ Works(c) \/ call[c].at = "progress" => ~Key(c).skip
    /\ call[c].at \in Noting /\ call[c].then = "finish" => Key(c).skip
WaysAreApart == \A c \in Callers : OnTheWay(c)
Inv == /\ CarriedAlone /\ StaleAreRunning /\ FoundWereRunning
       /\ ProgressIsRunning /\ SkipsAreSkipped /\ WaysAreApart

\* A step of one call that writes no run, and claims none.
LEMMA QuietSteps ==
    ASSUME Typed, Inv, UNCHANGED <<status, stale>>, NEW c \in Callers,
           \A e \in Callers \ {c} : call'[e] = call[e],
           call'[c].found \subseteq call[c].found,
           OnTheWay(c)', call'[c].at = "progress" => call'[c].seen = "running",
           Carries(c)' => Carries(c) /\ call'[c].key = call[c].key
    PROVE  Inv'
<1>1. StaleAreRunning' /\ SkipsAreSkipped'
  BY DEF Inv, StaleAreRunning, SkipsAreSkipped
<1>2. FoundWereRunning' /\ ProgressIsRunning'
  BY DEF Inv, FoundWereRunning, ProgressIsRunning
<1>3. \A e \in Callers \ {c} : (Carries(e)' <=> Carries(e)) /\ (OnTheWay(e)' <=> OnTheWay(e)) /\ Key(e)' = Key(e)
  BY DEF Carries, OnTheWay, Works, Key
<1>4. WaysAreApart'
  BY <1>3 DEF Inv, WaysAreApart
<1>5. CarriedAlone'
  <2>1. \A e \in Callers : Carries(e)' => Carries(e) /\ Key(e)' = Key(e)
    BY <1>3 DEF Key
  <2>2. \A e \in Callers : call'[e].found \subseteq call[e].found
    OBVIOUS
  <2> QED  BY <2>1, <2>2 DEF Inv, CarriedAlone
<1> QED  BY <1>1, <1>2, <1>4, <1>5 DEF Inv

\* A step of one call that writes one run, which no other call carries; what it
\* found stays found.
LEMMA WritingSteps ==
    ASSUME Typed, Inv, NEW c \in Callers, NEW k \in Keys, NEW s \in RunStatuses, Put(k, s),
           \A e \in Callers \ {c} : call'[e] = call[e],
           \A e \in Callers \ {c} : Carries(e) => Key(e) # k,
           call'[c].found \subseteq call[c].found,
           (\E e \in Callers : k \in call[e].found) => s \in {"running", "failed"},
           k.skip => s \in {"none", "queued", "skipped"},
           OnTheWay(c)', call'[c].at # "progress",
           Carries(c)' => /\ Key(c)' = k /\ s = "running"
                          /\ \A e \in Callers : k \notin call[e].found
    PROVE  Inv'
<1>1. StaleAreRunning' /\ SkipsAreSkipped'
  BY DEF Inv, StaleAreRunning, SkipsAreSkipped, Put, Typed, TypeOK
<1>2. FoundWereRunning'
  <2> SUFFICES ASSUME NEW e \in Callers, NEW w \in call'[e].found
               PROVE  status'[w] \in {"running", "failed"}
    BY DEF FoundWereRunning
  <2>1. w \in call[e].found /\ w \in Keys
    BY DEF Typed, Calls
  <2> QED  BY <2>1 DEF Inv, FoundWereRunning, Put, Typed, TypeOK
<1>3. ProgressIsRunning'
  BY DEF Inv, ProgressIsRunning
<1>4. \A e \in Callers \ {c} : (Carries(e)' <=> Carries(e)) /\ (OnTheWay(e)' <=> OnTheWay(e)) /\ Key(e)' = Key(e)
  BY DEF Carries, OnTheWay, Works, Key
<1>5. WaysAreApart'
  BY <1>4 DEF Inv, WaysAreApart
<1>6. CarriedAlone'
  <2>1. \A e \in Callers : call'[e].found \subseteq call[e].found
    OBVIOUS
  <2>2. \A e \in Callers : Key(e) \in Keys
    BY DEF Typed, Calls, Key
  <2>3. ASSUME NEW e \in Callers \ {c}, Carries(e)'
        PROVE  /\ status'[Key(e)'] = "running" /\ Key(e)' \notin stale'
               /\ \A w \in Callers : Key(e)' \notin call'[w].found
               /\ \A w \in Callers : w # e /\ Carries(w)' => Key(w)' # Key(e)'
    <3>1. Carries(e) /\ Key(e)' = Key(e) /\ Key(e) # k  BY <1>4, <2>3
    <3>2. status'[Key(e)] = status[Key(e)] /\ Key(e) \notin stale'
      BY <2>2, <3>1 DEF Put, Typed, TypeOK, Inv, CarriedAlone
    <3>3. \A w \in Callers : Key(e) \notin call'[w].found
      BY <2>1, <3>1 DEF Inv, CarriedAlone
    <3>4. \A w \in Callers : w # e /\ Carries(w)' => Key(w)' # Key(e)
      BY <1>4, <3>1 DEF Inv, CarriedAlone
    <3> QED  BY <3>1, <3>2, <3>3, <3>4 DEF Inv, CarriedAlone
  <2>4. ASSUME Carries(c)'
        PROVE  /\ status'[Key(c)'] = "running" /\ Key(c)' \notin stale'
               /\ \A w \in Callers : Key(c)' \notin call'[w].found
               /\ \A w \in Callers : w # c /\ Carries(w)' => Key(w)' # Key(c)'
    <3>1. Key(c)' = k /\ s = "running"  BY <2>4
    <3>2. status'[k] = "running" /\ k \notin stale'
      BY <3>1 DEF Put, Typed, TypeOK
    <3>3. \A w \in Callers : k \notin call'[w].found
      BY <2>1, <2>4
    <3>4. \A w \in Callers : w # c /\ Carries(w)' => Key(w)' # k
      BY <1>4
    <3> QED  BY <3>1, <3>2, <3>3, <3>4
  <2> QED  BY <2>3, <2>4 DEF CarriedAlone
<1> QED  BY <1>1, <1>2, <1>3, <1>5, <1>6 DEF Inv

LEMMA InvHolds == Spec => []Inv
<1>1. Init => Inv
  BY DEF Init, Inv, CarriedAlone, StaleAreRunning, FoundWereRunning, ProgressIsRunning, SkipsAreSkipped,
         WaysAreApart, OnTheWay, Carries, Works, Idle, Noting
<1>2. Typed /\ Inv /\ [Next]_vars => Inv'
  <2> SUFFICES ASSUME Typed, Inv, [Next]_vars PROVE Inv'
    OBVIOUS
  <2>0. \A c \in Callers : call[c] \in Calls /\ Key(c) \in Keys
    BY DEF Typed, Calls, Key
  <2>1. CASE UNCHANGED vars
    BY <2>1 DEF vars, Inv, CarriedAlone, StaleAreRunning, FoundWereRunning, ProgressIsRunning, SkipsAreSkipped,
                WaysAreApart, OnTheWay, Carries, Works, Key
  <2>2. ASSUME NEW c \in Callers,
               Tick(c) \/ RunByHand(c) \/ Settle(c) \/ Lock(c) \/ Load(c) \/ Create(c) \/ End(c)
        PROVE  Inv'
    <3>1. /\ UNCHANGED <<status, stale>>
          /\ \A e \in Callers \ {c} : call'[e] = call[e]
          /\ call'[c].at \in {"settle", "lock", "idle", "load", "create", "insert", "claim", "finish", "end"}
          /\ call'[c].at \in {"claim", "finish"} => call'[c].at = AfterCreate(c) /\ call'[c].key = call[c].key
          /\ call'[c].found \in {{}, call[c].found}
      BY <2>2, AroundTheRun
    <3>2. ~Carries(c)' /\ OnTheWay(c)'
      BY <3>1 DEF Carries, OnTheWay, Works, Noting, AfterCreate, Key
    <3> QED  BY <3>1, <3>2, QuietSteps
  <2>3. ASSUME NEW c \in Callers, NoteRead(c)
        PROVE  Inv'
    <3> DEFINE next == [call[c] EXCEPT !.at = "noteWrite", !.task = task]
    <3>1. /\ next.at = "noteWrite" /\ next.key = call[c].key /\ next.then = call[c].then
          /\ next.found = call[c].found
      BY <2>0 DEF Calls
    <3>2. call'[c] = next /\ \A e \in Callers \ {c} : call'[e] = call[e]
      BY <2>3, OneCallMoves DEF NoteRead
    <3>3. UNCHANGED <<status, stale>> /\ call[c].at = "noteRead"  BY <2>3 DEF NoteRead, Rows, At
    <3> HIDE DEF next
    <3>4. OnTheWay(c)' /\ (Carries(c)' => Carries(c) /\ call'[c].key = call[c].key) /\ call'[c].at # "progress"
      BY <3>1, <3>2, <3>3 DEF Inv, WaysAreApart, OnTheWay, Carries, Works, Noting, Key
    <3> QED  BY <3>1, <3>2, <3>3, <3>4, QuietSteps
  <2>4. ASSUME NEW c \in Callers, NoteWrite(c)
        PROVE  Inv'
    <3>1. Goes(c, call[c].then) /\ UNCHANGED <<status, stale>> /\ call[c].at = "noteWrite"
      BY <2>4 DEF NoteWrite, At
    <3>2. /\ call'[c].at = call[c].then /\ call'[c].key = call[c].key /\ call'[c].then = call[c].then
          /\ call'[c].found = call[c].found /\ \A e \in Callers \ {c} : call'[e] = call[e]
      BY <3>1, GoesThere
    <3>3. call[c].then \in Followups  BY <3>1 DEF Typed, Noting
    <3>4. OnTheWay(c)' /\ (Carries(c)' => Carries(c) /\ call'[c].key = call[c].key) /\ call'[c].at # "progress"
      BY <3>1, <3>2, <3>3 DEF Inv, WaysAreApart, OnTheWay, Carries, Works, Noting, Key, Followups
    <3> QED  BY <3>1, <3>2, <3>4, QuietSteps
  <2>5. ASSUME NEW c \in Callers, Work(c)
        PROVE  Inv'
    <3>1. UNCHANGED <<status, stale>> /\ call[c].at = "work"  BY <2>5 DEF Work, Rows, At
    <3>2. Carries(c) /\ ~Key(c).skip /\ status[Key(c)] = "running"
      BY <3>1 DEF Carries, Works, Inv, WaysAreApart, OnTheWay, CarriedAlone
    <3>3. CASE To(c, [call[c] EXCEPT !.at = "progress", !.seen = status[Key(c)]])
      <4> DEFINE next == [call[c] EXCEPT !.at = "progress", !.seen = status[Key(c)]]
      <4>1. next.at = "progress" /\ next.key = call[c].key /\ next.found = call[c].found
            /\ next.seen = status[Key(c)]
        BY <2>0 DEF Calls
      <4>2. call'[c] = next /\ \A e \in Callers \ {c} : call'[e] = call[e]
        BY <3>3, OneCallMoves
      <4> HIDE DEF next
      <4>3. OnTheWay(c)'  BY <3>2, <4>1, <4>2 DEF OnTheWay, Works, Noting, Key
      <4> QED  BY <3>1, <3>2, <4>1, <4>2, <4>3, QuietSteps
    <3>4. ASSUME NEW p \in {"finish", "end"}, Goes(c, p) PROVE Inv'
      <4>1. /\ call'[c].at = p /\ call'[c].key = call[c].key /\ call'[c].found = call[c].found
            /\ \A e \in Callers \ {c} : call'[e] = call[e]
        BY <3>4, GoesThere
      <4>2. OnTheWay(c)'  BY <4>1 DEF OnTheWay, Works, Noting
      <4> QED  BY <3>1, <3>2, <4>1, <4>2, QuietSteps
    <3> QED  BY <2>5, <3>3, <3>4 DEF Work
  <2>6. ASSUME NEW c \in Callers, Insert(c)
        PROVE  Inv'
    <3>1. call[c].at = "insert"  BY <2>6 DEF Insert, At
    <3>2. ~Claim(c) /\ ~Progress(c) /\ ~Finish(c) /\ ~Recover(c)
      BY <3>1 DEF Claim, Progress, Finish, Recover, At
    <3>3. /\ \A e \in Callers \ {c} : call'[e] = call[e]
          /\ call'[c].at \in {"noteRead", "end", "idle"} /\ call'[c].key = call[c].key
          /\ call'[c].found \subseteq call[c].found
          /\ call'[c].at = "noteRead" => call'[c].then = AfterCreate(c)
      BY <2>6, <3>2, AfterWriting
    <3>4. ~Carries(c)' /\ OnTheWay(c)'
      BY <3>3 DEF Carries, OnTheWay, Works, Noting, AfterCreate, Key
    <3>5. CASE status[Key(c)] = "none"
      <4>1. Put(Key(c), "queued") /\ "queued" \in RunStatuses  BY <2>6, <3>5 DEF Insert, RunStatuses
      <4>2. \A e \in Callers : Carries(e) => Key(e) # Key(c)
        BY <3>5 DEF Inv, CarriedAlone
      <4>3. \A e \in Callers : Key(c) \notin call[e].found
        BY <3>5 DEF Inv, FoundWereRunning
      <4> QED  BY <2>0, <3>3, <3>4, <4>1, <4>2, <4>3, WritingSteps
    <3>6. CASE status[Key(c)] # "none"
      <4>1. UNCHANGED <<status, stale>>  BY <2>6, <3>6 DEF Insert
      <4> QED  BY <3>3, <3>4, <4>1, QuietSteps
    <3> QED  BY <3>5, <3>6
  <2>7. ASSUME NEW c \in Callers, Claim(c)
        PROVE  Inv'
    <3>1. call[c].at = "claim"  BY <2>7 DEF Claim, At
    <3>2. ~Insert(c) /\ ~Progress(c) /\ ~Finish(c) /\ ~Recover(c)
      BY <3>1 DEF Insert, Progress, Finish, Recover, At
    <3>3. /\ \A e \in Callers \ {c} : call'[e] = call[e]
          /\ call'[c].at \in {"noteRead", "end", "idle"} /\ call'[c].key = call[c].key
          /\ call'[c].found \subseteq call[c].found
          /\ call'[c].at = "noteRead" => call'[c].then = "work" /\ Claimable(Key(c))
      BY <2>7, <3>2, AfterWriting
    <3>4. ~Key(c).skip  BY <3>1 DEF Inv, WaysAreApart, OnTheWay
    <3>5. OnTheWay(c)'  BY <3>3, <3>4 DEF OnTheWay, Works, Noting, Key
    <3>6. CASE Claimable(Key(c))
      <4>1. Put(Key(c), "running") /\ "running" \in RunStatuses  BY <2>7, <3>6 DEF Claim, RunStatuses
      <4>2. \A e \in Callers : Carries(e) => Key(e) # Key(c)
        BY <3>6 DEF Inv, CarriedAlone, Claimable
      <4>3. \A e \in Callers : Key(c) \notin call[e].found
        BY <3>6 DEF Inv, FoundWereRunning, Claimable
      <4>4. Key(c)' = Key(c)  BY <3>3 DEF Key
      <4> QED  BY <2>0, <3>3, <3>4, <3>5, <4>1, <4>2, <4>3, <4>4, WritingSteps
    <3>7. CASE ~Claimable(Key(c))
      <4>1. UNCHANGED <<status, stale>>  BY <2>7, <3>7 DEF Claim
      <4>2. ~Carries(c)'  BY <3>3, <3>7 DEF Carries, Works, Noting
      <4> QED  BY <3>3, <3>5, <4>1, <4>2, QuietSteps
    <3> QED  BY <3>6, <3>7
  <2>8. ASSUME NEW c \in Callers, Progress(c)
        PROVE  Inv'
    <3>1. call[c].at = "progress" /\ Put(Key(c), call[c].seen) /\ Goes(c, "finish")
      BY <2>8 DEF Progress, At
    <3>2. Carries(c) /\ ~Key(c).skip /\ call[c].seen = "running" /\ "running" \in RunStatuses
      BY <3>1 DEF Carries, Inv, WaysAreApart, OnTheWay, ProgressIsRunning, RunStatuses
    <3>3. /\ call'[c].at = "finish" /\ call'[c].key = call[c].key /\ call'[c].found = call[c].found
          /\ \A e \in Callers \ {c} : call'[e] = call[e]
      BY <3>1, GoesThere
    <3>4. OnTheWay(c)' /\ Key(c)' = Key(c)  BY <3>3 DEF OnTheWay, Works, Noting, Key
    <3>5. /\ \A e \in Callers : Key(c) \notin call[e].found
          /\ \A e \in Callers \ {c} : Carries(e) => Key(e) # Key(c)
      BY <3>2 DEF Inv, CarriedAlone
    <3> QED  BY <2>0, <3>1, <3>2, <3>3, <3>4, <3>5, WritingSteps
  <2>9. ASSUME NEW c \in Callers, Finish(c)
        PROVE  Inv'
    <3>1. call[c].at = "finish"  BY <2>9 DEF Finish, At
    <3>2. ~Insert(c) /\ ~Claim(c) /\ ~Progress(c) /\ ~Recover(c)
      BY <3>1 DEF Insert, Claim, Progress, Recover, At
    <3>3. /\ \A e \in Callers \ {c} : call'[e] = call[e]
          /\ call'[c].at \in {"noteRead", "end", "idle"}
          /\ call'[c].found \subseteq call[c].found
          /\ call'[c].at = "noteRead" => call'[c].then = "end"
      BY <2>9, <3>2, AfterWriting
    <3>4. ~Carries(c)' /\ OnTheWay(c)'  BY <3>3 DEF Carries, OnTheWay, Works, Noting
    <3>5. PICK s \in OutcomesOf(c) : Put(Key(c), s)  BY <2>9 DEF Finish
    <3>6. s \in RunStatuses /\ (Key(c).skip => s = "skipped")
      BY DEF OutcomesOf, RunStatuses, Ended
    <3>7. /\ \A e \in Callers : Key(c) \notin call[e].found
          /\ \A e \in Callers \ {c} : Carries(e) => Key(e) # Key(c)
      <4>1. CASE Key(c).skip
        <5>1. status[Key(c)] \in {"none", "queued", "skipped"}
          BY <2>0, <4>1 DEF Inv, SkipsAreSkipped
        <5> QED  BY <5>1 DEF Inv, CarriedAlone, FoundWereRunning
      <4>2. CASE ~Key(c).skip
        BY <3>1, <4>2 DEF Carries, Inv, CarriedAlone
      <4> QED  BY <4>1, <4>2
    <3> QED  BY <2>0, <3>3, <3>4, <3>5, <3>6, <3>7, WritingSteps
  <2>10. ASSUME NEW c \in Callers, Recover(c)
         PROVE  Inv'
    <3>1. call[c].at = "recover"  BY <2>10 DEF Recover, At
    <3>2. ~Insert(c) /\ ~Claim(c) /\ ~Progress(c) /\ ~Finish(c)
      BY <3>1 DEF Insert, Claim, Progress, Finish, At
    <3>3. /\ \A e \in Callers \ {c} : call'[e] = call[e]
          /\ call'[c].at \in {"noteRead", "end", "idle"}
          /\ call'[c].found \subseteq call[c].found
          /\ call'[c].at = "noteRead" => call'[c].then = "recover"
      BY <2>10, <3>2, AfterWriting
    <3>4. ~Carries(c)' /\ OnTheWay(c)'  BY <3>3 DEF Carries, OnTheWay, Works, Noting
    <3>5. CASE UNCHANGED <<status, stale>>
      BY <3>3, <3>4, <3>5, QuietSteps
    <3>6. ASSUME NEW k \in call[c].found, Put(k, "failed") PROVE Inv'
      <4>1. k \in Keys  BY <2>0 DEF Calls
      <4>2. status[k] \in {"running", "failed"}  BY DEF Inv, FoundWereRunning
      <4>3. ~k.skip  BY <4>1, <4>2 DEF Inv, SkipsAreSkipped
      <4>4. \A e \in Callers : Carries(e) => Key(e) # k  BY DEF Inv, CarriedAlone
      <4>5. "failed" \in RunStatuses  BY DEF RunStatuses, Ended
      <4> QED  BY <3>3, <3>4, <3>6, <4>1, <4>3, <4>4, <4>5, WritingSteps
    <3> QED  BY <2>10, <3>5, <3>6 DEF Recover
  <2>11. ASSUME \/ \E n \in Nodes : Restart(n) \/ Crash(n)
                \/ Switch \/ NextDay
         PROVE  Inv'
    <3>1. UNCHANGED <<status, stale>>
      BY <2>11 DEF Restart, Crash, Switch, NextDay, Rows
    <3>2. \A e \in Callers : \/ call'[e] = call[e]
                             \/ call'[e].at = "idle" /\ call'[e].found = {}
                             \/ call'[e].at = "recover" /\ call'[e].found = {k \in Keys : Recoverable(k)}
      BY <2>11, Elsewhere
    <3>3. \A e \in Callers : Carries(e)' => Carries(e) /\ Key(e)' = Key(e)
      BY <3>2 DEF Carries, Works, Noting, Key
    <3>4. \A e \in Callers : \A k \in call'[e].found : k \in call[e].found \/ k \in stale
      BY <3>2 DEF Recoverable
    <3>5. CarriedAlone'
      BY <3>1, <3>3, <3>4 DEF Inv, CarriedAlone
    <3>6. FoundWereRunning'
      BY <3>1, <3>4 DEF Inv, FoundWereRunning, StaleAreRunning
    <3>7. WaysAreApart' /\ ProgressIsRunning'
      BY <3>2 DEF Inv, WaysAreApart, OnTheWay, Works, Noting, Key, ProgressIsRunning
    <3> QED  BY <3>1, <3>5, <3>6, <3>7 DEF Inv, StaleAreRunning, SkipsAreSkipped
  <2>12. ASSUME NEW k \in Keys, Lapse(k)
         PROVE  Inv'
    <3>1. status[k] = "running" /\ stale' = stale \cup {k} /\ UNCHANGED <<status, call>> /\ ~WorkedOn(k)
      BY <2>12 DEF Lapse
    <3>2. \A c \in Callers : Carries(c) => Key(c) # k
      BY <3>1 DEF WorkedOn, Carries, Works, Noting, Locked
    <3>3. CarriedAlone'
      BY <3>1, <3>2 DEF Inv, CarriedAlone, Carries, Works, Key
    <3> QED  BY <3>1, <3>3 DEF Inv, StaleAreRunning, FoundWereRunning, ProgressIsRunning, SkipsAreSkipped,
                               WaysAreApart, OnTheWay, Works, Key
  <2> QED
    BY <2>1, <2>2, <2>3, <2>4, <2>5, <2>6, <2>7, <2>8, <2>9, <2>10, <2>11, <2>12 DEF Next, Step
<1> QED  BY <1>1, <1>2, TypedHolds, PTL DEF Spec

\* As long as no symbol outlasts the thirty minutes (automation_store.py:167), a run that has
\* ended keeps its outcome: no recovery, no late progress and no second caller
\* writes over it.
THEOREM EndedStaysHolds == Spec => EndedStays
<1>1. Typed /\ Inv /\ [Next]_vars => [\A k \in Keys : status[k] \in Ended => status'[k] = status[k]]_vars
  <2> SUFFICES ASSUME Typed, Inv, Next, NEW k \in Keys, status[k] \in Ended
               PROVE  status'[k] = status[k]
    OBVIOUS
  <2>1. \A w \in Keys : \A s : Put(w, s) /\ (w = k => s = status[k]) => status'[k] = status[k]
    BY DEF Put, Typed, TypeOK
  <2>2. \A c \in Callers : Key(c) \in Keys  BY DEF Typed, Calls, Key
  <2>3. ASSUME NEW c \in Callers, Insert(c) \/ Claim(c)
        PROVE  status'[k] = status[k]
    BY <2>1, <2>2, <2>3 DEF Insert, Claim, Claimable, Ended
  <2>4. ASSUME NEW c \in Callers, Progress(c)
        PROVE  status'[k] = status[k]
    <3>1. Carries(c) /\ Put(Key(c), call[c].seen)  BY <2>4 DEF Progress, At, Carries
    <3>2. status[Key(c)] = "running"  BY <3>1 DEF Inv, CarriedAlone
    <3> QED  BY <2>1, <2>2, <3>1, <3>2 DEF Ended
  <2>5. ASSUME NEW c \in Callers, Finish(c)
        PROVE  status'[k] = status[k]
    <3>1. PICK s \in OutcomesOf(c) : Put(Key(c), s)  BY <2>5 DEF Finish
    <3>2. CASE Key(c).skip
      <4>1. status[Key(c)] \in {"none", "queued", "skipped"}  BY <2>2, <3>2 DEF Inv, SkipsAreSkipped
      <4>2. s = "skipped"  BY <3>2 DEF OutcomesOf
      <4> QED  BY <2>1, <2>2, <3>1, <4>1, <4>2 DEF Ended
    <3>3. CASE ~Key(c).skip
      <4>1. status[Key(c)] = "running"  BY <2>5, <3>3 DEF Finish, At, Carries, Inv, CarriedAlone
      <4> QED  BY <2>1, <2>2, <3>1, <4>1 DEF Ended
    <3> QED  BY <3>2, <3>3
  <2>6. ASSUME NEW c \in Callers, Recover(c)
        PROVE  status'[k] = status[k]
    <3>1. CASE UNCHANGED status  BY <3>1
    <3>2. ASSUME NEW w \in call[c].found, Put(w, "failed") PROVE status'[k] = status[k]
      <4>1. w \in Keys  BY DEF Typed, Calls
      <4>2. status[w] \in {"running", "failed"}  BY DEF Inv, FoundWereRunning
      <4> QED  BY <2>1, <3>2, <4>1, <4>2 DEF Ended
    <3> QED  BY <2>6, <3>1, <3>2 DEF Recover
  <2>7. ASSUME NEW c \in Callers,
               \/ Tick(c) \/ RunByHand(c) \/ Settle(c) \/ Lock(c) \/ Load(c) \/ Create(c) \/ End(c)
               \/ NoteRead(c) \/ NoteWrite(c) \/ Work(c)
        PROVE  status'[k] = status[k]
    BY <2>7, AroundTheRun DEF NoteRead, NoteWrite, Work, Rows
  <2>8. ASSUME (\E n \in Nodes : Restart(n) \/ Crash(n)) \/ (\E w \in Keys : Lapse(w)) \/ Switch \/ NextDay
        PROVE  status'[k] = status[k]
    BY <2>8, Elsewhere
  <2> QED
    BY <2>3, <2>4, <2>5, <2>6, <2>7, <2>8 DEF Next, Step
<1> QED  BY <1>1, TypedHolds, InvHolds, PTL DEF Spec, EndedStays

-----------------------------------------------------------------------------
(***************************************************************************)
(* The parts of MCAutomation.  What AutomationOrder and Deployment promise is *)
(* proved for every value of their constants in the module instantiated here; *)
(* a behaviour of MCAutomation is one of the part that "part" names.         *)
(***************************************************************************)

ByUsers == INSTANCE AutomationOrderProofs WITH
    Decisions <- {d1, d2}, Callers <- {u1, u2}, Deployed <- TRUE, Execution <- "paper",
    Mode <- "confirm", FillTime <- "same_close", MaxOrders <- 1, MaxAttempts <- 2,
    Limit <- Once, call <- request, used <- spent,
    Deployments <- {x, y, z}, Sandbox <- {z}, Users <- {u1, u2}, DeploymentLimit <- [calls |-> 4, crashes |-> 0],
    listed <- row, spent <- budget
ByItself == INSTANCE AutomationOrderProofs WITH
    Decisions <- {d1, d2}, Callers <- {u1}, Deployed <- TRUE, Execution <- "paper",
    Mode <- "auto", FillTime <- "next_open", MaxOrders <- 1, MaxAttempts <- 2,
    Limit <- Turns, call <- request, used <- spent,
    Deployments <- {x, y, z}, Sandbox <- {z}, Users <- {u1}, DeploymentLimit <- [calls |-> 7, crashes |-> 1],
    listed <- row, spent <- budget
OnBroker == INSTANCE AutomationOrderProofs WITH
    Decisions <- {d1, d2}, Callers <- {u1}, Deployed <- FALSE, Execution <- "live",
    Mode <- "confirm", FillTime <- "next_open", MaxOrders <- 1, MaxAttempts <- 2,
    Limit <- Turns, call <- request, used <- spent,
    Deployments <- {x, y, z}, Sandbox <- {z}, Users <- {u1}, DeploymentLimit <- [calls |-> 7, crashes |-> 1],
    listed <- row, spent <- budget
ByFiles == INSTANCE AutomationOrderProofs WITH
    Decisions <- {d1, d2}, Callers <- {u1}, Deployed <- FALSE, Execution <- "external",
    Mode <- "auto", FillTime <- "next_open", MaxOrders <- 1, MaxAttempts <- 2,
    Limit <- Turns, call <- request, used <- spent,
    Deployments <- {x, y, z}, Sandbox <- {z}, Users <- {u1}, DeploymentLimit <- [calls |-> 7, crashes |-> 1],
    listed <- row, spent <- budget
\* These are the orders of MCAutomation, and its deployments.
LEMMA SameConfirming ==
    /\ ByUsers!Init <=> Confirming!Init
    /\ ByUsers!vars = Confirming!vars
    /\ ByUsers!Next <=> Confirming!Next
    /\ ByUsers!TypeOK <=> Confirming!TypeOK
    /\ ByUsers!OneOrder <=> Confirming!OneOrder
<1>1. (ByUsers!Init <=> Confirming!Init) /\ ByUsers!vars = Confirming!vars
  BY DEF
    Confirming!Init, Confirming!vars, Confirming!NoAudit, Confirming!OrderIds, Confirming!Idle,
    Confirming!NoOrder, ByUsers!Init, ByUsers!vars, ByUsers!NoAudit, ByUsers!OrderIds,
    ByUsers!Idle, ByUsers!NoOrder
<1>2. ByUsers!Next <=> Confirming!Next
  BY DEF
    Confirming!Next, Confirming!StartRun, Confirming!EndRun, Confirming!Refuse,
    Confirming!ConfirmRun, Confirming!NextOfRun, Confirming!Settle, Confirming!SettleNext,
    Confirming!Crash, Confirming!Propose, Confirming!Decide, Confirming!AddDecision,
    Confirming!CreateOrder, Confirming!SubmitLive, Confirming!Update, Confirming!Write,
    Confirming!Confirm, Confirming!Reject, Confirming!OrderIds, Confirming!SubmitToBroker,
    Confirming!Fill, Confirming!FillRaises, Confirming!CancelOrder, Confirming!DayEnds,
    Confirming!At, Confirming!To, Confirming!Idle, Confirming!Env, Confirming!Done,
    Confirming!Outcome, Confirming!NoOrder, Confirming!Known, Confirming!Spend,
    Confirming!Waiting, Confirming!Orderable, Confirming!Confirmed, Confirming!Add,
    Confirming!WithinLimit, Confirming!NoAudit, Confirming!IdOf, Confirming!FillsAtOnce,
    Confirming!Count, Confirming!Risks, Confirming!LiveId, Confirming!Written,
    Confirming!Rejectable, Confirming!Goes, Confirming!Expired, Confirming!FreshId,
    Confirming!Attempts, Confirming!Cardinality, ByUsers!Next, ByUsers!StartRun, ByUsers!EndRun,
    ByUsers!Refuse, ByUsers!ConfirmRun, ByUsers!NextOfRun, ByUsers!Settle, ByUsers!SettleNext,
    ByUsers!Crash, ByUsers!Propose, ByUsers!Decide, ByUsers!AddDecision, ByUsers!CreateOrder,
    ByUsers!SubmitLive, ByUsers!Update, ByUsers!Write, ByUsers!Confirm, ByUsers!Reject,
    ByUsers!OrderIds, ByUsers!SubmitToBroker, ByUsers!Fill, ByUsers!FillRaises,
    ByUsers!CancelOrder, ByUsers!DayEnds, ByUsers!At, ByUsers!To, ByUsers!Idle, ByUsers!Env,
    ByUsers!Done, ByUsers!Outcome, ByUsers!NoOrder, ByUsers!Known, ByUsers!Spend,
    ByUsers!Waiting, ByUsers!Orderable, ByUsers!Confirmed, ByUsers!Add, ByUsers!WithinLimit,
    ByUsers!NoAudit, ByUsers!IdOf, ByUsers!FillsAtOnce, ByUsers!Count, ByUsers!Risks,
    ByUsers!LiveId, ByUsers!Written, ByUsers!Rejectable, ByUsers!Goes, ByUsers!Expired,
    ByUsers!FreshId, ByUsers!Attempts, ByUsers!Cardinality
<1>3. ByUsers!TypeOK <=> Confirming!TypeOK
  BY DEF
    Confirming!TypeOK, Confirming!Audits, Confirming!OrderIds, Confirming!OrderStatuses,
    Confirming!Phases, Confirming!Risks, Confirming!Confirmations, ByUsers!TypeOK,
    ByUsers!Audits, ByUsers!OrderIds, ByUsers!OrderStatuses, ByUsers!Phases, ByUsers!Risks,
    ByUsers!Confirmations
<1>4. ByUsers!OneOrder <=> Confirming!OneOrder
  BY DEF
    Confirming!OneOrder, Confirming!Attempts, Confirming!OrderIds, Confirming!Cardinality,
    ByUsers!OneOrder, ByUsers!Attempts, ByUsers!OrderIds, ByUsers!Cardinality
<1> QED  BY <1>1, <1>2, <1>3, <1>4

LEMMA ConfirmingIsSound == ByUsers!AutomationOrderAssumption
  BY DEF ByUsers!AutomationOrderAssumption, Once

LEMMA SameAutomatic ==
    /\ ByItself!Init <=> Automatic!Init
    /\ ByItself!vars = Automatic!vars
    /\ ByItself!Next <=> Automatic!Next
    /\ ByItself!WithinOrderLimit <=> Automatic!WithinOrderLimit
<1>1. (ByItself!Init <=> Automatic!Init) /\ ByItself!vars = Automatic!vars
  BY DEF
    Automatic!Init, Automatic!vars, Automatic!NoAudit, Automatic!OrderIds, Automatic!Idle,
    Automatic!NoOrder, ByItself!Init, ByItself!vars, ByItself!NoAudit, ByItself!OrderIds,
    ByItself!Idle, ByItself!NoOrder
<1>2. ByItself!Next <=> Automatic!Next
  BY DEF
    Automatic!Next, Automatic!StartRun, Automatic!EndRun, Automatic!Refuse,
    Automatic!ConfirmRun, Automatic!NextOfRun, Automatic!Settle, Automatic!SettleNext,
    Automatic!Crash, Automatic!Propose, Automatic!Decide, Automatic!AddDecision,
    Automatic!CreateOrder, Automatic!SubmitLive, Automatic!Update, Automatic!Write,
    Automatic!Confirm, Automatic!Reject, Automatic!OrderIds, Automatic!SubmitToBroker,
    Automatic!Fill, Automatic!FillRaises, Automatic!CancelOrder, Automatic!DayEnds,
    Automatic!At, Automatic!To, Automatic!Idle, Automatic!Env, Automatic!Done,
    Automatic!Outcome, Automatic!NoOrder, Automatic!Known, Automatic!Spend, Automatic!Waiting,
    Automatic!Orderable, Automatic!Confirmed, Automatic!Add, Automatic!WithinLimit,
    Automatic!NoAudit, Automatic!IdOf, Automatic!FillsAtOnce, Automatic!Count, Automatic!Risks,
    Automatic!LiveId, Automatic!Written, Automatic!Rejectable, Automatic!Goes,
    Automatic!Expired, Automatic!FreshId, Automatic!Attempts, Automatic!Cardinality,
    ByItself!Next, ByItself!StartRun, ByItself!EndRun, ByItself!Refuse, ByItself!ConfirmRun,
    ByItself!NextOfRun, ByItself!Settle, ByItself!SettleNext, ByItself!Crash, ByItself!Propose,
    ByItself!Decide, ByItself!AddDecision, ByItself!CreateOrder, ByItself!SubmitLive,
    ByItself!Update, ByItself!Write, ByItself!Confirm, ByItself!Reject, ByItself!OrderIds,
    ByItself!SubmitToBroker, ByItself!Fill, ByItself!FillRaises, ByItself!CancelOrder,
    ByItself!DayEnds, ByItself!At, ByItself!To, ByItself!Idle, ByItself!Env, ByItself!Done,
    ByItself!Outcome, ByItself!NoOrder, ByItself!Known, ByItself!Spend, ByItself!Waiting,
    ByItself!Orderable, ByItself!Confirmed, ByItself!Add, ByItself!WithinLimit,
    ByItself!NoAudit, ByItself!IdOf, ByItself!FillsAtOnce, ByItself!Count, ByItself!Risks,
    ByItself!LiveId, ByItself!Written, ByItself!Rejectable, ByItself!Goes, ByItself!Expired,
    ByItself!FreshId, ByItself!Attempts, ByItself!Cardinality
<1>3. ByItself!WithinOrderLimit <=> Automatic!WithinOrderLimit
  BY DEF
    Automatic!WithinOrderLimit, Automatic!OrderIds, Automatic!Alive, Automatic!Cardinality,
    ByItself!WithinOrderLimit, ByItself!OrderIds, ByItself!Alive, ByItself!Cardinality
<1> QED  BY <1>1, <1>2, <1>3

LEMMA AutomaticIsSound == ByItself!AutomationOrderAssumption
  BY DEF ByItself!AutomationOrderAssumption, Turns

LEMMA SameLive ==
    /\ OnBroker!Init <=> Live!Init
    /\ OnBroker!vars = Live!vars
    /\ OnBroker!Next <=> Live!Next
    /\ OnBroker!SentOnce <=> Live!SentOnce
<1>1. (OnBroker!Init <=> Live!Init) /\ OnBroker!vars = Live!vars
  BY DEF
    Live!Init, Live!vars, Live!NoAudit, Live!OrderIds, Live!Idle, Live!NoOrder, OnBroker!Init,
    OnBroker!vars, OnBroker!NoAudit, OnBroker!OrderIds, OnBroker!Idle, OnBroker!NoOrder
<1>2. OnBroker!Next <=> Live!Next
  BY DEF
    Live!Next, Live!StartRun, Live!EndRun, Live!Refuse, Live!ConfirmRun, Live!NextOfRun,
    Live!Settle, Live!SettleNext, Live!Crash, Live!Propose, Live!Decide, Live!AddDecision,
    Live!CreateOrder, Live!SubmitLive, Live!Update, Live!Write, Live!Confirm, Live!Reject,
    Live!OrderIds, Live!SubmitToBroker, Live!Fill, Live!FillRaises, Live!CancelOrder,
    Live!DayEnds, Live!At, Live!To, Live!Idle, Live!Env, Live!Done, Live!Outcome, Live!NoOrder,
    Live!Known, Live!Spend, Live!Waiting, Live!Orderable, Live!Confirmed, Live!Add,
    Live!WithinLimit, Live!NoAudit, Live!IdOf, Live!FillsAtOnce, Live!Count, Live!Risks,
    Live!LiveId, Live!Written, Live!Rejectable, Live!Goes, Live!Expired, Live!FreshId,
    Live!Attempts, Live!Cardinality, OnBroker!Next, OnBroker!StartRun, OnBroker!EndRun,
    OnBroker!Refuse, OnBroker!ConfirmRun, OnBroker!NextOfRun, OnBroker!Settle,
    OnBroker!SettleNext, OnBroker!Crash, OnBroker!Propose, OnBroker!Decide,
    OnBroker!AddDecision, OnBroker!CreateOrder, OnBroker!SubmitLive, OnBroker!Update,
    OnBroker!Write, OnBroker!Confirm, OnBroker!Reject, OnBroker!OrderIds,
    OnBroker!SubmitToBroker, OnBroker!Fill, OnBroker!FillRaises, OnBroker!CancelOrder,
    OnBroker!DayEnds, OnBroker!At, OnBroker!To, OnBroker!Idle, OnBroker!Env, OnBroker!Done,
    OnBroker!Outcome, OnBroker!NoOrder, OnBroker!Known, OnBroker!Spend, OnBroker!Waiting,
    OnBroker!Orderable, OnBroker!Confirmed, OnBroker!Add, OnBroker!WithinLimit,
    OnBroker!NoAudit, OnBroker!IdOf, OnBroker!FillsAtOnce, OnBroker!Count, OnBroker!Risks,
    OnBroker!LiveId, OnBroker!Written, OnBroker!Rejectable, OnBroker!Goes, OnBroker!Expired,
    OnBroker!FreshId, OnBroker!Attempts, OnBroker!Cardinality
<1>3. OnBroker!SentOnce <=> Live!SentOnce
  BY DEF
    Live!SentOnce, OnBroker!SentOnce
<1> QED  BY <1>1, <1>2, <1>3

LEMMA LiveIsSound == OnBroker!AutomationOrderAssumption
  BY DEF OnBroker!AutomationOrderAssumption, Turns

LEMMA SameExternal ==
    /\ ByFiles!Init <=> External!Init
    /\ ByFiles!vars = External!vars
    /\ ByFiles!Next <=> External!Next
    /\ ByFiles!OrderIsRecorded <=> External!OrderIsRecorded
<1>1. (ByFiles!Init <=> External!Init) /\ ByFiles!vars = External!vars
  BY DEF
    External!Init, External!vars, External!NoAudit, External!OrderIds, External!Idle,
    External!NoOrder, ByFiles!Init, ByFiles!vars, ByFiles!NoAudit, ByFiles!OrderIds,
    ByFiles!Idle, ByFiles!NoOrder
<1>2. ByFiles!Next <=> External!Next
  BY DEF
    External!Next, External!StartRun, External!EndRun, External!Refuse, External!ConfirmRun,
    External!NextOfRun, External!Settle, External!SettleNext, External!Crash, External!Propose,
    External!Decide, External!AddDecision, External!CreateOrder, External!SubmitLive,
    External!Update, External!Write, External!Confirm, External!Reject, External!OrderIds,
    External!SubmitToBroker, External!Fill, External!FillRaises, External!CancelOrder,
    External!DayEnds, External!At, External!To, External!Idle, External!Env, External!Done,
    External!Outcome, External!NoOrder, External!Known, External!Spend, External!Waiting,
    External!Orderable, External!Confirmed, External!Add, External!WithinLimit,
    External!NoAudit, External!IdOf, External!FillsAtOnce, External!Count, External!Risks,
    External!LiveId, External!Written, External!Rejectable, External!Goes, External!Expired,
    External!FreshId, External!Attempts, External!Cardinality, ByFiles!Next, ByFiles!StartRun,
    ByFiles!EndRun, ByFiles!Refuse, ByFiles!ConfirmRun, ByFiles!NextOfRun, ByFiles!Settle,
    ByFiles!SettleNext, ByFiles!Crash, ByFiles!Propose, ByFiles!Decide, ByFiles!AddDecision,
    ByFiles!CreateOrder, ByFiles!SubmitLive, ByFiles!Update, ByFiles!Write, ByFiles!Confirm,
    ByFiles!Reject, ByFiles!OrderIds, ByFiles!SubmitToBroker, ByFiles!Fill, ByFiles!FillRaises,
    ByFiles!CancelOrder, ByFiles!DayEnds, ByFiles!At, ByFiles!To, ByFiles!Idle, ByFiles!Env,
    ByFiles!Done, ByFiles!Outcome, ByFiles!NoOrder, ByFiles!Known, ByFiles!Spend,
    ByFiles!Waiting, ByFiles!Orderable, ByFiles!Confirmed, ByFiles!Add, ByFiles!WithinLimit,
    ByFiles!NoAudit, ByFiles!IdOf, ByFiles!FillsAtOnce, ByFiles!Count, ByFiles!Risks,
    ByFiles!LiveId, ByFiles!Written, ByFiles!Rejectable, ByFiles!Goes, ByFiles!Expired,
    ByFiles!FreshId, ByFiles!Attempts, ByFiles!Cardinality
<1>3. ByFiles!OrderIsRecorded <=> External!OrderIsRecorded
  BY DEF
    External!OrderIsRecorded, External!OrderIds, External!Alive, ByFiles!OrderIsRecorded,
    ByFiles!OrderIds, ByFiles!Alive
<1> QED  BY <1>1, <1>2, <1>3

LEMMA ExternalIsSound == ByFiles!AutomationOrderAssumption
  BY DEF ByFiles!AutomationOrderAssumption, Turns

LEMMA SameDeploying ==
    /\ ByItself!Deploying!Init <=> Deploying!Init
    /\ ByItself!Deploying!vars = Deploying!vars
    /\ ByItself!Deploying!Next <=> Deploying!Next
    /\ ByItself!Deploying!OneActive <=> Deploying!OneActive
    /\ ByItself!Deploying!SwitchedTogether <=> Deploying!SwitchedTogether
<1>1. (ByItself!Deploying!Init <=> Deploying!Init) /\ ByItself!Deploying!vars = Deploying!vars
  BY DEF
    Deploying!Init, Deploying!vars, Deploying!Idle, ByItself!Deploying!Init,
    ByItself!Deploying!vars, ByItself!Deploying!Idle
<1>2. ByItself!Deploying!Next <=> Deploying!Next
  BY DEF
    Deploying!Next, Deploying!CreateAccount, Deploying!CheckEmpty, Deploying!CheckVacant,
    Deploying!Bind, Deploying!ReadTask, Deploying!WriteTask, Deploying!Follow,
    Deploying!OpenAccount, Deploying!Trade, Deploying!Crash, Deploying!Review,
    Deploying!SaveCandidate, Deploying!DeployCandidate, Deploying!DeployExperiment,
    Deploying!Look, Deploying!InsertRow, Deploying!SetStatus, Deploying!WriteStatus,
    Deploying!At, Deploying!Ends, Deploying!Goes, Deploying!Vacant, Deploying!Deployed,
    Deploying!To, Deploying!Switched, Deploying!Begins, Deploying!Spend, Deploying!Approvable,
    Deploying!Idle, Deploying!Deployable, Deploying!Statuses, Deploying!MayTake,
    Deploying!Active, ByItself!Deploying!Next, ByItself!Deploying!CreateAccount,
    ByItself!Deploying!CheckEmpty, ByItself!Deploying!CheckVacant, ByItself!Deploying!Bind,
    ByItself!Deploying!ReadTask, ByItself!Deploying!WriteTask, ByItself!Deploying!Follow,
    ByItself!Deploying!OpenAccount, ByItself!Deploying!Trade, ByItself!Deploying!Crash,
    ByItself!Deploying!Review, ByItself!Deploying!SaveCandidate,
    ByItself!Deploying!DeployCandidate, ByItself!Deploying!DeployExperiment,
    ByItself!Deploying!Look, ByItself!Deploying!InsertRow, ByItself!Deploying!SetStatus,
    ByItself!Deploying!WriteStatus, ByItself!Deploying!At, ByItself!Deploying!Ends,
    ByItself!Deploying!Goes, ByItself!Deploying!Vacant, ByItself!Deploying!Deployed,
    ByItself!Deploying!To, ByItself!Deploying!Switched, ByItself!Deploying!Begins,
    ByItself!Deploying!Spend, ByItself!Deploying!Approvable, ByItself!Deploying!Idle,
    ByItself!Deploying!Deployable, ByItself!Deploying!Statuses, ByItself!Deploying!MayTake,
    ByItself!Deploying!Active
<1>3. ByItself!Deploying!OneActive <=> Deploying!OneActive
  BY DEF
    Deploying!OneActive, Deploying!Active, Deploying!Cardinality, ByItself!Deploying!OneActive,
    ByItself!Deploying!Active, ByItself!Deploying!Cardinality
<1>4. ByItself!Deploying!SwitchedTogether <=> Deploying!SwitchedTogether
  BY DEF
    Deploying!SwitchedTogether, Deploying!Active, ByItself!Deploying!SwitchedTogether,
    ByItself!Deploying!Active
<1> QED  BY <1>1, <1>2, <1>3, <1>4

LEMMA SameReviewing ==
    /\ ByUsers!Deploying!Init <=> Reviewing!Init
    /\ ByUsers!Deploying!vars = Reviewing!vars
    /\ ByUsers!Deploying!Next <=> Reviewing!Next
    /\ ByUsers!Deploying!NothingUnreviewed <=> Reviewing!NothingUnreviewed
<1>1. (ByUsers!Deploying!Init <=> Reviewing!Init) /\ ByUsers!Deploying!vars = Reviewing!vars
  BY DEF
    Reviewing!Init, Reviewing!vars, Reviewing!Idle, ByUsers!Deploying!Init,
    ByUsers!Deploying!vars, ByUsers!Deploying!Idle
<1>2. ByUsers!Deploying!Next <=> Reviewing!Next
  BY DEF
    Reviewing!Next, Reviewing!CreateAccount, Reviewing!CheckEmpty, Reviewing!CheckVacant,
    Reviewing!Bind, Reviewing!ReadTask, Reviewing!WriteTask, Reviewing!Follow,
    Reviewing!OpenAccount, Reviewing!Trade, Reviewing!Crash, Reviewing!Review,
    Reviewing!SaveCandidate, Reviewing!DeployCandidate, Reviewing!DeployExperiment,
    Reviewing!Look, Reviewing!InsertRow, Reviewing!SetStatus, Reviewing!WriteStatus,
    Reviewing!At, Reviewing!Ends, Reviewing!Goes, Reviewing!Vacant, Reviewing!Deployed,
    Reviewing!To, Reviewing!Switched, Reviewing!Begins, Reviewing!Spend, Reviewing!Approvable,
    Reviewing!Idle, Reviewing!Deployable, Reviewing!Statuses, Reviewing!MayTake,
    Reviewing!Active, ByUsers!Deploying!Next, ByUsers!Deploying!CreateAccount,
    ByUsers!Deploying!CheckEmpty, ByUsers!Deploying!CheckVacant, ByUsers!Deploying!Bind,
    ByUsers!Deploying!ReadTask, ByUsers!Deploying!WriteTask, ByUsers!Deploying!Follow,
    ByUsers!Deploying!OpenAccount, ByUsers!Deploying!Trade, ByUsers!Deploying!Crash,
    ByUsers!Deploying!Review, ByUsers!Deploying!SaveCandidate,
    ByUsers!Deploying!DeployCandidate, ByUsers!Deploying!DeployExperiment,
    ByUsers!Deploying!Look, ByUsers!Deploying!InsertRow, ByUsers!Deploying!SetStatus,
    ByUsers!Deploying!WriteStatus, ByUsers!Deploying!At, ByUsers!Deploying!Ends,
    ByUsers!Deploying!Goes, ByUsers!Deploying!Vacant, ByUsers!Deploying!Deployed,
    ByUsers!Deploying!To, ByUsers!Deploying!Switched, ByUsers!Deploying!Begins,
    ByUsers!Deploying!Spend, ByUsers!Deploying!Approvable, ByUsers!Deploying!Idle,
    ByUsers!Deploying!Deployable, ByUsers!Deploying!Statuses, ByUsers!Deploying!MayTake,
    ByUsers!Deploying!Active
<1>3. ByUsers!Deploying!NothingUnreviewed <=> Reviewing!NothingUnreviewed
  BY DEF
    Reviewing!NothingUnreviewed, ByUsers!Deploying!NothingUnreviewed
<1> QED  BY <1>1, <1>2, <1>3

LEMMA RunsAlone == PartsSpec => Spec
<1>1. PartsInit => Init  BY DEF PartsInit
<1>2. [PartsNext]_<<part, vars, OrderVars, DeployVars>> => [Next]_vars
  BY DEF PartsNext, vars
<1> QED  BY <1>1, <1>2, PTL DEF PartsSpec, Spec

LEMMA ConfirmingRun == PartsSpec /\ part = "confirm" => ByUsers!Spec
<1>1. PartsInit /\ part = "confirm" => ByUsers!Init
  BY SameConfirming DEF PartsInit
<1>2. part = "confirm" /\ [PartsNext]_<<part, vars, OrderVars, DeployVars>> =>
        (part = "confirm")' /\ [Confirming!Next]_(Confirming!vars)
  BY DEF PartsNext, Confirming!vars, OrderVars, DeployVars
<1>3. [Confirming!Next]_(Confirming!vars) => [ByUsers!Next]_(ByUsers!vars)
  BY SameConfirming DEF Confirming!vars, ByUsers!vars
<1> QED  BY <1>1, <1>2, <1>3, PTL DEF PartsSpec, ByUsers!Spec

LEMMA AutomaticRun == PartsSpec /\ part = "auto" => ByItself!Spec
<1>1. PartsInit /\ part = "auto" => ByItself!Init
  BY SameAutomatic DEF PartsInit
<1>2. part = "auto" /\ [PartsNext]_<<part, vars, OrderVars, DeployVars>> =>
        (part = "auto")' /\ [Automatic!Next]_(Automatic!vars)
  BY DEF PartsNext, Automatic!vars, OrderVars, DeployVars
<1>3. [Automatic!Next]_(Automatic!vars) => [ByItself!Next]_(ByItself!vars)
  BY SameAutomatic DEF Automatic!vars, ByItself!vars
<1> QED  BY <1>1, <1>2, <1>3, PTL DEF PartsSpec, ByItself!Spec

LEMMA LiveRun == PartsSpec /\ part = "live" => OnBroker!Spec
<1>1. PartsInit /\ part = "live" => OnBroker!Init
  BY SameLive DEF PartsInit
<1>2. part = "live" /\ [PartsNext]_<<part, vars, OrderVars, DeployVars>> => (part = "live")' /\ [Live!Next]_(Live!vars)
  BY DEF PartsNext, Live!vars, OrderVars, DeployVars
<1>3. [Live!Next]_(Live!vars) => [OnBroker!Next]_(OnBroker!vars)
  BY SameLive DEF Live!vars, OnBroker!vars
<1> QED  BY <1>1, <1>2, <1>3, PTL DEF PartsSpec, OnBroker!Spec

LEMMA ExternalRun == PartsSpec /\ part = "external" => ByFiles!Spec
<1>1. PartsInit /\ part = "external" => ByFiles!Init
  BY SameExternal DEF PartsInit
<1>2. part = "external" /\ [PartsNext]_<<part, vars, OrderVars, DeployVars>> =>
        (part = "external")' /\ [External!Next]_(External!vars)
  BY DEF PartsNext, External!vars, OrderVars, DeployVars
<1>3. [External!Next]_(External!vars) => [ByFiles!Next]_(ByFiles!vars)
  BY SameExternal DEF External!vars, ByFiles!vars
<1> QED  BY <1>1, <1>2, <1>3, PTL DEF PartsSpec, ByFiles!Spec

LEMMA DeployingRun == PartsSpec /\ part = "deploy" => ByItself!Deploying!Spec
<1>1. PartsInit /\ part = "deploy" => ByItself!Deploying!Init
  BY SameDeploying DEF PartsInit
<1>2. part = "deploy" /\ [PartsNext]_<<part, vars, OrderVars, DeployVars>> =>
        (part = "deploy")' /\ [Deploying!Next]_(Deploying!vars)
  BY DEF PartsNext, Deploying!vars, OrderVars, DeployVars
<1>3. [Deploying!Next]_(Deploying!vars) => [ByItself!Deploying!Next]_(ByItself!Deploying!vars)
  BY SameDeploying DEF Deploying!vars, ByItself!Deploying!vars
<1> QED  BY <1>1, <1>2, <1>3, PTL DEF PartsSpec, ByItself!Deploying!Spec

LEMMA ReviewingRun == PartsSpec /\ part = "review" => ByUsers!Deploying!Spec
<1>1. PartsInit /\ part = "review" => ByUsers!Deploying!Init
  BY SameReviewing DEF PartsInit
<1>2. part = "review" /\ [PartsNext]_<<part, vars, OrderVars, DeployVars>> =>
        (part = "review")' /\ [Reviewing!Next]_(Reviewing!vars)
  BY DEF PartsNext, Reviewing!vars, OrderVars, DeployVars
<1>3. [Reviewing!Next]_(Reviewing!vars) => [ByUsers!Deploying!Next]_(ByUsers!Deploying!vars)
  BY SameReviewing DEF Reviewing!vars, ByUsers!Deploying!vars
<1> QED  BY <1>1, <1>2, <1>3, PTL DEF PartsSpec, ByUsers!Deploying!Spec


\* The types of the runs, and of the orders that two users confirm and reject at
\* once while a process dies (automation.py, automation_store.py).
THEOREM PartsTypeOKHolds == PartsSpec => []PartsTypeOK
<1>1. Spec => []TypeOK
  <2>1. Typed => TypeOK  BY DEF Typed
  <2> QED  BY <2>1, TypeCorrect, PTL
<1>2. ByUsers!Spec => []ByUsers!TypeOK
  <2>1. ByUsers!Typed => ByUsers!TypeOK  BY DEF ByUsers!Typed
  <2>2. ByUsers!Spec => []ByUsers!Typed  BY ConfirmingIsSound, ByUsers!TypeCorrect
  <2> QED  BY <2>1, <2>2, PTL
<1>3. TypeOK /\ (part = "confirm" => ByUsers!TypeOK) => PartsTypeOK
  BY SameConfirming DEF PartsTypeOK
<1>4. PartsSpec /\ ~(part = "confirm") => [](~(part = "confirm"))
  <2>1. ~(part = "confirm") /\ [PartsNext]_<<part, vars, OrderVars, DeployVars>> => (~(part = "confirm"))'  BY DEF PartsNext
  <2> QED  BY <2>1, PTL DEF PartsSpec
<1> QED  BY <1>1, <1>2, <1>3, <1>4, RunsAlone, ConfirmingRun, PTL

\* A decision gives rise to one order however two users confirm it and a process
\* dies, and to one request to the live broker, also when the outcome of the
\* request is unknown (automation.py:752).
THEOREM OrderedOnceHolds == PartsSpec => []OrderedOnce
<1>1. ByUsers!Spec => []ByUsers!OneOrder
  BY ConfirmingIsSound, ByUsers!OneOrderHolds
<1>2. OnBroker!Spec => []OnBroker!SentOnce
  <2>1. OnBroker!OneCaller /\ Turns["crashes"] = 0  BY DEF OnBroker!OneCaller, Turns
  <2> QED  BY <2>1, LiveIsSound, OnBroker!SentOnceHolds
<1>3. (part = "confirm" => ByUsers!OneOrder) /\ (part = "live" => OnBroker!SentOnce) => OrderedOnce
  BY SameConfirming, SameLive DEF OrderedOnce
<1>4. PartsSpec /\ ~(part = "confirm") => [](~(part = "confirm"))
  <2>1. ~(part = "confirm") /\ [PartsNext]_<<part, vars, OrderVars, DeployVars>> => (~(part = "confirm"))'  BY DEF PartsNext
  <2> QED  BY <2>1, PTL DEF PartsSpec
<1>5. PartsSpec /\ ~(part = "live") => [](~(part = "live"))
  <2>1. ~(part = "live") /\ [PartsNext]_<<part, vars, OrderVars, DeployVars>> => (~(part = "live"))'  BY DEF PartsNext
  <2> QED  BY <2>1, PTL DEF PartsSpec
<1> QED  BY <1>1, <1>2, <1>3, <1>4, <1>5, ConfirmingRun, LiveRun, PTL

\* A run that orders by itself leaves no more orders than its limit, and every
\* order of the broker of files belongs to a decision that says so
\* (automation.py:441).
THEOREM OrdersAreAccountedHolds == PartsSpec => []OrdersAreAccounted
<1>1. ByItself!Spec => []ByItself!WithinOrderLimit
  <2>1. ByItself!OneCaller /\ Turns["crashes"] = 0  BY DEF ByItself!OneCaller, Turns
  <2> QED  BY <2>1, AutomaticIsSound, ByItself!WithinOrderLimitHolds
<1>2. ByFiles!Spec => []ByFiles!OrderIsRecorded
  <2>1. ByFiles!OneCaller /\ Turns["crashes"] = 0  BY DEF ByFiles!OneCaller, Turns
  <2> QED  BY <2>1, ExternalIsSound, ByFiles!OrderIsRecordedHolds
<1>3. (part = "auto" => ByItself!WithinOrderLimit) /\ (part = "external" => ByFiles!OrderIsRecorded) => OrdersAreAccounted
  BY SameAutomatic, SameExternal DEF OrdersAreAccounted
<1>4. PartsSpec /\ ~(part = "auto") => [](~(part = "auto"))
  <2>1. ~(part = "auto") /\ [PartsNext]_<<part, vars, OrderVars, DeployVars>> => (~(part = "auto"))'  BY DEF PartsNext
  <2> QED  BY <2>1, PTL DEF PartsSpec
<1>5. PartsSpec /\ ~(part = "external") => [](~(part = "external"))
  <2>1. ~(part = "external") /\ [PartsNext]_<<part, vars, OrderVars, DeployVars>> =>
          (~(part = "external"))'  BY DEF PartsNext
  <2> QED  BY <2>1, PTL DEF PartsSpec
<1> QED  BY <1>1, <1>2, <1>3, <1>4, <1>5, AutomaticRun, ExternalRun, PTL

\* Whatever two users review and deploy at once, or one of them with a crash, no
\* candidate is deployed that no person approved (strategy_candidates.py:238).
THEOREM NothingUnreviewedHolds == PartsSpec => []NothingUnreviewed
<1>1. ByUsers!Deploying!Spec => []ByUsers!Deploying!NothingUnreviewed
  <2>1. {z} \subseteq {x, y, z}  OBVIOUS
  <2> QED  BY <2>1, ByUsers!NothingUnreviewedHolds
<1>2. ByItself!Deploying!Spec => []ByItself!Deploying!NothingUnreviewed
  <2>1. {z} \subseteq {x, y, z}  OBVIOUS
  <2> QED  BY <2>1, ByItself!NothingUnreviewedHolds
<1>3. /\ ByUsers!Deploying!NothingUnreviewed => NothingUnreviewed
      /\ ByItself!Deploying!NothingUnreviewed => NothingUnreviewed
  BY DEF NothingUnreviewed, Reviewing!NothingUnreviewed, ByUsers!Deploying!NothingUnreviewed,
     ByItself!Deploying!NothingUnreviewed
<1>4. PartsSpec /\ ~(part = "deploy") /\ ~(part = "review") => []NothingUnreviewed
  <2>1. PartsInit /\ ~(part = "deploy") /\ ~(part = "review") => NothingUnreviewed
    BY DEF PartsInit, Deploying!Init, NothingUnreviewed, Reviewing!NothingUnreviewed
  <2>2. ~(part = "deploy") /\ ~(part = "review") /\ NothingUnreviewed /\ [PartsNext]_<<part, vars, OrderVars, DeployVars>>
           => (~(part = "deploy"))' /\ (~(part = "review"))' /\ NothingUnreviewed'
    BY DEF PartsNext, DeployVars, NothingUnreviewed, Reviewing!NothingUnreviewed
  <2> QED  BY <2>1, <2>2, PTL DEF PartsSpec
<1> QED  BY <1>1, <1>2, <1>3, <1>4, DeployingRun, ReviewingRun, PTL

\* An account has one active deployment, at whichever statement a process dies, and
\* unless one dies its automation is on for an active one (deployments.py:216).
THEOREM DeploymentsAgreeHolds == PartsSpec => []DeploymentsAgree
<1> DEFINE Agree == ByItself!Deploying!OneActive /\ ByItself!Deploying!SwitchedTogether
<1>1. ByItself!Deploying!Spec => []Agree
  <2>1. {z} \subseteq {x, y, z} /\ \A c, e \in {u1} : c = e  OBVIOUS
  <2>2. ByItself!Deploying!Spec => []ByItself!Deploying!OneActive  BY <2>1, ByItself!OneActiveHolds
  <2>3. ByItself!Deploying!Spec => []ByItself!Deploying!SwitchedTogether  BY <2>1, ByItself!SwitchedTogetherHolds
  <2> QED  BY <2>2, <2>3, PTL
<1>2. (part = "deploy" => Agree) => DeploymentsAgree
  BY SameDeploying DEF DeploymentsAgree
<1>3. PartsSpec /\ ~(part = "deploy") => [](~(part = "deploy"))
  <2>1. ~(part = "deploy") /\ [PartsNext]_<<part, vars, OrderVars, DeployVars>> => (~(part = "deploy"))'  BY DEF PartsNext
  <2> QED  BY <2>1, PTL DEF PartsSpec
<1> QED  BY <1>1, <1>2, <1>3, DeployingRun, PTL
=============================================================================
