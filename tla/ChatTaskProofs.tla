---------------------------- MODULE ChatTaskProofs ----------------------------
(***************************************************************************)
(* Type correctness of ChatTask, that every coroutine a dictionary or a     *)
(* call refers to is one the node really runs, exclusion, and what follows  *)
(* from it about answers, outcomes and cancellations.  Then the agent that  *)
(* works on a task (AgentLoop): what it changes was approved, and is done   *)
(* once.                                                                    *)
(***************************************************************************)
EXTENDS ChatTask, FiniteSetTheorems, SequenceTheorems, WellFoundedInduction, TLAPS

USE ChatTaskAssumption DEF Tasks, Bounds, database, processes

(***************************************************************************)
(* A coroutine named by _tasks or by a cancel call is alive, and on the     *)
(* node that names it: what setting its cancel flag relies on.              *)
(***************************************************************************)
RunRefs ==
    /\ \A n \in Nodes, t \in Tasks : entry[n][t] \in Runs =>
         /\ run[entry[n][t]] # Idle
         /\ run[entry[n][t]].node = n
         /\ run[entry[n][t]].task = t
    /\ \A k \in Slots : call[k] # NoCall /\ call[k].run \in Runs =>
         /\ run[call[k].run] # Idle
         /\ run[call[k].run].node = call[k].node

-----------------------------------------------------------------------------
(***************************************************************************)
(* What the helpers of ChatTask do to the types.                            *)
(***************************************************************************)

\* A call suspended before some operation is a call.
LEMMA CallAt ==
    ASSUME CallsOK, NEW k \in Slots, NEW op \in Ops, At(k, op)
    PROVE  /\ call[k] # NoCall /\ call[k] \in Call
           /\ call[k].task \in Tasks /\ call[k].node \in Nodes
           /\ call[k].run \in Runs \cup {NoRun}
BY DEF CallsOK, At, Call, NoCall, Ops

\* A coroutine that is at some place is alive.
LEMMA RunHere ==
    ASSUME RunsOK, NEW r \in Runs, NEW pc \in Pcs, Here(r, pc)
    PROVE  /\ run[r] # Idle /\ run[r] \in Coroutine
           /\ run[r].node \in Nodes /\ run[r].task \in Tasks
BY DEF RunsOK, Here, Coroutine, Idle, Pcs, Trying, Handling

\* A live coroutine has the fields of one.
LEMMA RunAlive ==
    ASSUME RunsOK, NEW r \in Runs, run[r] # Idle
    PROVE  /\ run[r] \in Coroutine
           /\ run[r].node \in Nodes /\ run[r].task \in Tasks
BY DEF RunsOK, Coroutine

\* Accepting a call keeps the calls well typed.
LEMMA AcceptCall ==
    ASSUME CallsOK, asked \in [Tasks -> Nat],
           NEW op \in Ops, NEW n \in Nodes, NEW t \in Tasks,
           NEW r \in Runs \cup {NoRun}, NEW v \in 0..NTasks, NEW b \in BOOLEAN,
           Accept(op, n, t, r, v, b)
    PROVE  CallsOK'
BY DEF CallsOK, Accept, Call

\* So does moving one to its next operation ...
LEMMA GotoCall ==
    ASSUME CallsOK, NEW k \in Slots, call[k] # NoCall, NEW op \in Ops, Goto(k, op)
    PROVE  CallsOK'
<1>1. call[k] \in Call BY DEF CallsOK
<1>2. [call[k] EXCEPT !.op = op] \in Call BY <1>1 DEF Call
<1>3. QED BY <1>2 DEF CallsOK, Goto

\* ... to the call of start ...
LEMMA GotoStartCall ==
    ASSUME CallsOK, NEW k \in Slots, call[k] # NoCall, NEW b \in BOOLEAN, GotoStart(k, b)
    PROVE  CallsOK'
<1>1. call[k] \in Call BY DEF CallsOK
<1>2. [call[k] EXCEPT !.op = "start", !.resumed = b] \in Call BY <1>1 DEF Call, Ops
<1>3. call' = [call EXCEPT ![k] = [call[k] EXCEPT !.op = "start", !.resumed = b]]
  BY DEF GotoStart, CallsOK
<1>4. QED BY <1>2, <1>3 DEF CallsOK

\* ... and its return.
LEMMA ReturnCall ==
    ASSUME CallsOK, NEW k \in Slots, Return(k)
    PROVE  CallsOK'
BY DEF CallsOK, Return

\* Moving a live coroutine keeps the coroutines well typed ...
LEMMA MoveRun ==
    ASSUME RunsOK, NEW r \in Runs, NEW pc \in Pcs, run[r] # Idle, Move(r, pc)
    PROVE  RunsOK'
<1>1. run[r] \in Coroutine BY DEF RunsOK
<1>2. [run[r] EXCEPT !.pc = pc] \in Coroutine BY <1>1 DEF Coroutine
<1>3. QED BY <1>2 DEF RunsOK, Move

\* ... and so does its end, which also touches the calls that hold it.
LEMMA ExitRun ==
    ASSUME CallsOK, RunsOK, NEW r \in Runs, Exit(r)
    PROVE  CallsOK' /\ RunsOK'
<1>1. \A k \in Slots : call[k] # NoCall => [call[k] EXCEPT !.run = NoRun] \in Call
  BY DEF Call, CallsOK
<1>2. QED BY <1>1 DEF RunsOK, Exit, CallsOK

\* Cancelling a live coroutine leaves it a coroutine.
LEMMA KillRun ==
    ASSUME RunsOK, NEW r \in Runs, run[r] # Idle
    PROVE  LET killed == [run[r] EXCEPT !.kill = TRUE]
           IN killed \in Coroutine /\ killed # Idle
              /\ killed.node = run[r].node /\ killed.task = run[r].task
              /\ killed.pc = run[r].pc
<1>1. run[r] \in Coroutine BY DEF RunsOK
<1>2. QED BY <1>1 DEF Coroutine, Idle, Pcs, Trying, Handling

\* An interrupted one goes to a handler.
LEMMA InterruptedRun ==
    ASSUME RunsOK, NEW r \in Runs, run[r] # Idle, NEW pc \in Pcs
    PROVE  LET moved == [run[r] EXCEPT !.kill = FALSE, !.pc = pc]
           IN moved \in Coroutine /\ moved # Idle
              /\ moved.node = run[r].node /\ moved.task = run[r].task
              /\ moved.pc = pc
<1>1. run[r] \in Coroutine BY DEF RunsOK
<1>2. QED BY <1>1 DEF Coroutine, Idle, Pcs, Trying, Handling

-----------------------------------------------------------------------------
\* A step keeps the database rows well typed.
LEMMA RowsStep ==
    ASSUME TypeOK, [Next]_vars
    PROVE  RowsOK'
<1> USE DEF TypeOK, RowsOK, Statuses, Active, Terminal, TaskOf
<1>1. CASE UNCHANGED vars
  BY <1>1 DEF vars
<1>2. ASSUME NEW n \in Nodes, Api(n) PROVE RowsOK'
  <2>1. ASSUME NEW t \in Tasks, SendAgain(n, t) PROVE RowsOK'
    BY <2>1 DEF SendAgain
  <2>2. ASSUME NEW t \in Tasks, Send(n, t) PROVE RowsOK'
    BY <2>2 DEF Send
  <2>3. ASSUME NEW t \in Tasks, Respond(n, t) PROVE RowsOK'
    BY <2>3 DEF Respond
  <2>4. ASSUME NEW t \in Tasks, RequestCancel(n, t) PROVE RowsOK'
    BY <2>4 DEF RequestCancel, Write
  <2>5. CASE DeleteCheck(n)
    BY <2>5 DEF DeleteCheck
  <2>6. QED BY <1>2, <2>1, <2>2, <2>3, <2>4, <2>5 DEF Api
<1>3. ASSUME NEW k \in Slots, CallStep(k) PROVE RowsOK'
  <2>1. CASE Answer(k)
    BY <2>1, CallAt DEF Answer, Write, Overwrite, CloseCancelled, Ops
  <2>2. CASE StoreAnswer(k)
    BY <2>2, CallAt DEF StoreAnswer, Write, Overwrite, CloseCancelled, Ops
  <2>3. CASE Requeue(k)
    BY ZenonT(60), <2>3, CallAt DEF Requeue, Write, Overwrite, CloseCancelled, Ops
  <2>4. CASE FinishCancel(k)
    BY <2>4, CallAt DEF FinishCancel, Write, Overwrite, CloseCancelled, Ops
  <2>5. CASE Delete(k)
    BY <2>5, CallAt DEF Delete, Write, Overwrite, CloseCancelled, Ops
  <2>6. CASE Load(k)
    BY <2>6, CallAt DEF Load, Write, Overwrite, CloseCancelled, Ops
  <2>7. CASE Start(k)
    BY <2>7, CallAt DEF Start, Write, Overwrite, CloseCancelled, Ops
  <2>8. CASE Drop(k)
    BY ZenonT(60), <2>8, CallAt DEF Drop, Write, Overwrite, CloseCancelled, Ops
  <2>9. CASE Begin(k)
    BY <2>9, CallAt DEF Begin, Write, Overwrite, CloseCancelled, Ops
  <2>10. CASE BeginRefused(k)
    BY <2>10, CallAt DEF BeginRefused, Write, Overwrite, CloseCancelled, Ops
  <2>11. ASSUME NEW p \in 1..NTasks + 1, Prepare(k, p) PROVE RowsOK'
    BY <2>11 DEF Prepare
  <2>12. CASE VoidQuestion(k)
    BY <2>12, CallAt DEF VoidQuestion, Ops
  <2>13. CASE PrepareFails(k)
    BY <2>13 DEF PrepareFails
  <2>14. QED
    BY <1>3, <2>1, <2>2, <2>3, <2>4, <2>5, <2>6, <2>7, <2>8, <2>9, <2>10, <2>11, <2>12,
       <2>13
       DEF CallStep
<1>4. ASSUME NEW r \in Runs, RunStep(r) PROVE RowsOK'
  <2>1. CASE EmitRefused(r)
    BY <2>1, RunHere
       DEF EmitRefused, Write, Overwrite, CloseCancelled, Pcs, Trying, Handling
  <2>2. CASE CreateInteraction(r)
    <3>1. run[r].task \in Tasks BY <2>2, RunHere DEF CreateInteraction, Pcs, Trying
    <3>2. asked' = [asked EXCEPT ![run[r].task] = asked[run[r].task] + 1]
      BY <2>2 DEF CreateInteraction
    <3>3. asked[run[r].task] + 1 \in Nat
      <4>1. asked[run[r].task] \in Nat BY <3>1
      <4>2. \A x \in Nat : x + 1 \in Nat OBVIOUS
      <4>3. QED BY <4>1, <4>2
    <3>4. asked' \in [Tasks -> Nat] BY <3>2, <3>3
    <3>5. QED BY <2>2, <3>1, <3>4 DEF CreateInteraction
  <2>3. CASE ShowInteraction(r)
    BY <2>3, RunHere
       DEF ShowInteraction, Write, Overwrite, CloseCancelled, Pcs, Trying, Handling
  <2>4. CASE Pause(r)
    BY ZenonT(60), <2>4, RunHere
       DEF Pause, Write, Overwrite, CloseCancelled, Pcs, Trying, Handling
  <2>5. CASE StreamEnds(r)
    BY <2>5, RunHere
       DEF StreamEnds, Write, Overwrite, CloseCancelled, Pcs, Trying, Handling
  <2>6. CASE Raise(r)
    BY <2>6, RunHere
       DEF Raise, Write, Overwrite, CloseCancelled, Pcs, Trying, Handling
  <2>7. CASE Complete(r)
    BY <2>7, RunHere
       DEF Complete, Write, Overwrite, CloseCancelled, Pcs, Trying, Handling
  <2>8. CASE Report(r)
    BY <2>8, RunHere
       DEF Report, Write, Overwrite, CloseCancelled, Pcs, Trying, Handling
  <2>9. CASE MarkFailed(r)
    BY ZenonT(60), <2>9, RunHere
       DEF MarkFailed, Write, Overwrite, CloseCancelled, Pcs, Trying, Handling
  <2>10. CASE MarkCancelled(r)
    BY <2>10, RunHere
       DEF MarkCancelled, Write, Overwrite, CloseCancelled, Pcs, Trying, Handling
  <2>11. CASE CloseStream(r)
    BY <2>11, RunHere
       DEF CloseStream, Write, Overwrite, CloseCancelled, Pcs, Trying, Handling
  <2>12. CASE Cleanup(r)
    BY <2>12, RunHere
       DEF Cleanup, Write, Overwrite, CloseCancelled, Pcs, Trying, Handling
  <2>13. CASE Interrupt(r)
    BY <2>13, RunHere
       DEF Interrupt, Write, Overwrite, CloseCancelled, Pcs, Trying, Handling
  <2>14. QED BY <1>4, <2>1, <2>2, <2>3, <2>4, <2>5, <2>6, <2>7, <2>8, <2>9, <2>10, <2>11, <2>12, <2>13 DEF RunStep, Ends
<1>5. ASSUME NEW n \in Nodes, Process(n) PROVE RowsOK'
  <2>1. CASE Recover(n)
    BY <2>1 DEF Recover, Expiring, Write, Overwrite
  <2>2. ASSUME NEW t \in Tasks, Poll(n, t) PROVE RowsOK'
    BY <2>2 DEF Poll, Expiring, Write, Overwrite
  <2>3. CASE Crash(n)
    BY <2>3 DEF Crash, Expiring, Write, Overwrite
  <2>4. CASE Restart(n)
    BY <2>4 DEF Restart, Expiring, Write, Overwrite
  <2>5. CASE StopWorker(n)
    BY <2>5 DEF StopWorker, Expiring, Write, Overwrite
  <2>6. CASE WorkerStopped(n)
    BY <2>6 DEF WorkerStopped, Expiring, Write, Overwrite
  <2>7. ASSUME NEW t \in Tasks, HandOver(n, t) PROVE RowsOK'
    BY <2>7 DEF HandOver, Expiring, Write, Overwrite
  <2>8. CASE CancelRuns(n)
    BY <2>8 DEF CancelRuns, Expiring, Write, Overwrite
  <2>9. CASE Exited(n)
    BY <2>9 DEF Exited, Expiring, Write, Overwrite
  <2>10. QED BY <1>5, <2>1, <2>2, <2>3, <2>4, <2>5, <2>6, <2>7, <2>8, <2>9 DEF Process, Shutdown
<1>6. ASSUME NEW t \in Tasks, Lapse(t) PROVE RowsOK'
  BY <1>6 DEF Lapse
<1>7. QED BY <1>1, <1>2, <1>3, <1>4, <1>5, <1>6 DEF Next

\* A step keeps the calls well typed.
LEMMA CallsStep ==
    ASSUME TypeOK, [Next]_vars
    PROVE  CallsOK'
<1> USE DEF TypeOK, RowsOK
<1>0. 0 \in 0..NTasks OBVIOUS
<1>1. CASE UNCHANGED vars
  BY <1>1 DEF vars, CallsOK
<1>2. ASSUME NEW n \in Nodes, Api(n) PROVE CallsOK'
  <2>1. ASSUME NEW t \in Tasks, SendAgain(n, t) PROVE CallsOK'
    BY <1>0, <2>1, AcceptCall DEF SendAgain, Ops
  <2>2. ASSUME NEW t \in Tasks, Send(n, t) PROVE CallsOK'
    BY <2>2, AcceptCall DEF Send, Ops
  <2>3. ASSUME NEW t \in Tasks, Respond(n, t) PROVE CallsOK'
    BY <1>0, <2>3, AcceptCall DEF Respond, Ops
  <2>4. ASSUME NEW t \in Tasks, RequestCancel(n, t) PROVE CallsOK'
    <3>1. PICK r \in Runs \cup {NoRun} : Accept("void", n, t, r, 0, FALSE)
      BY <2>4 DEF RequestCancel
    <3>2. QED BY <1>0, <3>1, AcceptCall DEF Ops
  <2>5. CASE DeleteCheck(n)
    <3>1. 1 \in Tasks
      <4>1. PICK t \in Tasks : status[t] \notin {"absent", "deleted"}
        BY <2>5 DEF DeleteCheck
      <4>2. QED BY <4>1
    <3>2. QED BY <1>0, <2>5, <3>1, AcceptCall DEF DeleteCheck, Ops
  <2>6. QED BY <1>2, <2>1, <2>2, <2>3, <2>4, <2>5 DEF Api
<1>3. ASSUME NEW k \in Slots, CallStep(k) PROVE CallsOK'
  BY <1>3, CallAt, GotoCall, GotoStartCall, ReturnCall
     DEF CallStep, Prepare, PrepareFails, VoidQuestion, Answer, StoreAnswer, Requeue, FinishCancel, Delete, Load, Start,
     Drop, Begin, BeginRefused, Ops
<1>4. ASSUME NEW r \in Runs, RunStep(r) PROVE CallsOK'
  BY <1>4, ExitRun
     DEF RunStep, Ends, EmitRefused, CreateInteraction, ShowInteraction, Pause,
     StreamEnds, Raise, Complete, Report, MarkFailed, MarkCancelled, CloseStream,
     Cleanup, Interrupt, CallsOK
<1>5. ASSUME NEW n \in Nodes, Process(n) PROVE CallsOK'
  <2>1. ASSUME NEW t \in Tasks, Poll(n, t) PROVE CallsOK'
    BY <1>0, <2>1, AcceptCall DEF Poll, Ops
  <2>2. CASE Crash(n) \/ Exited(n)
    BY <2>2 DEF Crash, Exited, Vanish, CallsOK
  <2>3. CASE call' = call BY <2>3 DEF CallsOK
  <2>4. QED BY <1>5, <2>1, <2>2, <2>3
            DEF Process, Shutdown, Recover, Restart, StopWorker, WorkerStopped, HandOver,
            CancelRuns
<1>6. ASSUME NEW t \in Tasks, Lapse(t) PROVE CallsOK'
  BY <1>6 DEF Lapse, CallsOK
<1>7. QED BY <1>1, <1>2, <1>3, <1>4, <1>5, <1>6 DEF Next

\* A step keeps the coroutines well typed.
LEMMA RunsStep ==
    ASSUME TypeOK, RunRefs, [Next]_vars
    PROVE  RunsOK'
<1> USE DEF TypeOK
<1>1. CASE UNCHANGED vars
  BY <1>1 DEF vars, RunsOK
<1>2. ASSUME NEW n \in Nodes, Api(n) PROVE RunsOK'
  BY <1>2 DEF Api, SendAgain, Send, Respond, RequestCancel, DeleteCheck, RunsOK
<1>3. ASSUME NEW k \in Slots, CallStep(k) PROVE RunsOK'
  <2>1. CASE Answer(k)
    BY <2>1, CallAt DEF Answer, RunsOK, Ops
  <2>2. CASE StoreAnswer(k)
    BY <2>2, CallAt DEF StoreAnswer, RunsOK, Ops
  <2>3. CASE Requeue(k)
    BY <2>3, CallAt DEF Requeue, RunsOK, Ops
  <2>4. CASE FinishCancel(k)
    <3>1. CASE call[k].run \in Runs
      <4>1. run[call[k].run] # Idle BY <2>4, <3>1, CallAt DEF FinishCancel, Ops, RunRefs
      <4>2. run' = [run EXCEPT ![call[k].run] = [run[call[k].run] EXCEPT !.kill = TRUE]]
        BY <2>4, <3>1 DEF FinishCancel, RunsOK
      <4>3. QED BY <3>1, <4>1, <4>2, KillRun DEF RunsOK
    <3>2. CASE call[k].run \notin Runs BY <2>4, <3>2 DEF FinishCancel, RunsOK
    <3>3. QED BY <3>1, <3>2
  <2>5. CASE Delete(k)
    BY <2>5, CallAt DEF Delete, RunsOK, Ops
  <2>6. CASE Load(k)
    BY <2>6, CallAt DEF Load, RunsOK, Ops
  <2>7. CASE Start(k)
    BY <2>7, CallAt DEF Start, RunsOK, Ops
  <2>8. CASE Drop(k)
    BY <2>8, CallAt DEF Drop, RunsOK, Ops
  <2>9. CASE Begin(k)
    <3>1. PICK r \in Runs :
            run' = [run EXCEPT ![r] = [pc |-> "work", node |-> call[k].node,
                      task |-> call[k].task, resumed |-> call[k].resumed, kill |-> FALSE]]
      BY <2>9 DEF Begin
    <3>2. call[k] \in Call BY <2>9, CallAt DEF Begin, Ops
    <3>3. QED BY <3>1, <3>2 DEF RunsOK, Coroutine, Call, Pcs, Trying
  <2>10. CASE BeginRefused(k)
    BY <2>10, CallAt DEF BeginRefused, RunsOK, Ops
  <2>11. ASSUME NEW p \in 1..NTasks + 1, Prepare(k, p) PROVE RunsOK'
    BY <2>11 DEF Prepare, RunsOK
  <2>12. CASE VoidQuestion(k)
    BY <2>12 DEF VoidQuestion, RunsOK
  <2>13. CASE PrepareFails(k)
    BY <2>13 DEF PrepareFails, RunsOK
  <2>14. QED
    BY <1>3, <2>1, <2>2, <2>3, <2>4, <2>5, <2>6, <2>7, <2>8, <2>9, <2>10, <2>11, <2>12,
       <2>13
       DEF CallStep
<1>4. ASSUME NEW r \in Runs, RunStep(r) PROVE RunsOK'
  <2>1. CASE EmitRefused(r)
    BY <2>1, RunHere, MoveRun, ExitRun DEF EmitRefused, Pcs, Trying, Handling
  <2>2. CASE CreateInteraction(r)
    BY <2>2, RunHere, MoveRun, ExitRun DEF CreateInteraction, Pcs, Trying, Handling
  <2>3. CASE ShowInteraction(r)
    BY <2>3, RunHere, MoveRun, ExitRun DEF ShowInteraction, Pcs, Trying, Handling
  <2>4. CASE Pause(r)
    BY <2>4, RunHere, MoveRun, ExitRun DEF Pause, Pcs, Trying, Handling
  <2>5. CASE StreamEnds(r)
    BY <2>5, RunHere, MoveRun, ExitRun DEF StreamEnds, Pcs, Trying, Handling
  <2>6. CASE Raise(r)
    BY <2>6, RunHere, MoveRun, ExitRun DEF Raise, Pcs, Trying, Handling
  <2>7. CASE Complete(r)
    BY <2>7, RunHere, MoveRun, ExitRun DEF Complete, Pcs, Trying, Handling
  <2>8. CASE Report(r)
    BY <2>8, RunHere, MoveRun, ExitRun DEF Report, Pcs, Trying, Handling
  <2>9. CASE MarkFailed(r)
    BY <2>9, RunHere, MoveRun, ExitRun DEF MarkFailed, Pcs, Trying, Handling
  <2>10. CASE MarkCancelled(r)
    BY <2>10, RunHere, MoveRun, ExitRun DEF MarkCancelled, Pcs, Trying, Handling
  <2>11. CASE CloseStream(r)
    BY <2>11, RunHere, MoveRun, ExitRun DEF CloseStream, Pcs, Trying, Handling
  <2>12. CASE Cleanup(r)
    BY <2>12, RunHere, MoveRun, ExitRun DEF Cleanup, Pcs, Trying, Handling
  <2>13. CASE Interrupt(r)
    <3>1. run[r] # Idle BY <2>13 DEF Interrupt, Live
    <3>2. CASE run[r].pc = "cleanup" BY <2>13, <3>2, ExitRun DEF Interrupt
    <3>3. CASE run[r].pc # "cleanup"
      <4> DEFINE pc == IF run[r].pc \in Trying THEN "dropping" ELSE "cleanup"
                 moved == [run[r] EXCEPT !.kill = FALSE, !.pc = pc]
      <4>1. run' = [run EXCEPT ![r] = moved] BY <2>13, <3>3 DEF Interrupt, RunsOK
      <4>2. pc \in Pcs BY DEF Pcs, Handling
      <4>3. moved \in Coroutine BY <3>1, <4>2, InterruptedRun
      <4>4. QED BY <4>1, <4>3 DEF RunsOK
    <3>4. QED BY <3>2, <3>3
  <2>14. QED BY <1>4, <2>1, <2>2, <2>3, <2>4, <2>5, <2>6, <2>7, <2>8, <2>9, <2>10, <2>11, <2>12, <2>13 DEF RunStep, Ends
<1>5. ASSUME NEW n \in Nodes, Process(n) PROVE RunsOK'
  <2>1. CASE Recover(n)
    BY <2>1 DEF Recover, RunsOK, Vanish
  <2>2. ASSUME NEW t \in Tasks, Poll(n, t) PROVE RunsOK'
    BY <2>2 DEF Poll, RunsOK, Vanish
  <2>3. CASE Crash(n)
    BY <2>3 DEF Crash, RunsOK, Vanish
  <2>4. CASE Restart(n)
    BY <2>4 DEF Restart, RunsOK, Vanish
  <2>5. CASE StopWorker(n)
    BY <2>5 DEF StopWorker, RunsOK, Vanish
  <2>6. CASE WorkerStopped(n)
    BY <2>6 DEF WorkerStopped, RunsOK, Vanish
  <2>7. ASSUME NEW t \in Tasks, HandOver(n, t) PROVE RunsOK'
    BY <2>7 DEF HandOver, RunsOK, Vanish
  <2>8. CASE CancelRuns(n)
    <3>1. \A r \in Runs : (\E t \in Tasks : entry[n][t] = r) => run[r] # Idle
      BY DEF RunRefs
    <3>2. QED BY <2>8, <3>1, KillRun DEF CancelRuns, RunsOK
  <2>9. CASE Exited(n)
    BY <2>9 DEF Exited, RunsOK, Vanish
  <2>10. QED BY <1>5, <2>1, <2>2, <2>3, <2>4, <2>5, <2>6, <2>7, <2>8, <2>9 DEF Process, Shutdown
<1>6. ASSUME NEW t \in Tasks, Lapse(t) PROVE RunsOK'
  BY <1>6 DEF Lapse, RunsOK
<1>7. QED BY <1>1, <1>2, <1>3, <1>4, <1>5, <1>6 DEF Next

\* A step keeps the processes and their dictionaries well typed.
LEMMA NodesStep ==
    ASSUME TypeOK, [Next]_vars
    PROVE  NodesOK'
<1> USE DEF TypeOK, NodesOK, TaskOf
<1>1. CASE UNCHANGED vars
  BY <1>1 DEF vars
<1>2. ASSUME NEW n \in Nodes, Api(n) PROVE NodesOK'
  BY <1>2 DEF Api, SendAgain, Send, Respond, RequestCancel, DeleteCheck
<1>3. ASSUME NEW k \in Slots, CallStep(k) PROVE NodesOK'
  <2>1. CASE Answer(k)
    BY <2>1, CallAt DEF Answer, Ops
  <2>2. CASE StoreAnswer(k)
    BY <2>2, CallAt DEF StoreAnswer, Ops
  <2>3. CASE Requeue(k)
    BY <2>3, CallAt DEF Requeue, Ops
  <2>4. CASE FinishCancel(k)
    BY <2>4, CallAt DEF FinishCancel, Ops
  <2>5. CASE Delete(k)
    BY <2>5, CallAt DEF Delete, Ops
  <2>6. CASE Load(k)
    BY <2>6, CallAt DEF Load, Ops
  <2>7. CASE Start(k)
    BY <2>7, CallAt DEF Start, Ops
  <2>8. CASE Drop(k)
    BY <2>8, CallAt DEF Drop, Ops
  <2>9. CASE Begin(k)
    BY SMTT(30), <2>9, CallAt DEF Begin, Ops
  <2>10. CASE BeginRefused(k)
    BY <2>10, CallAt DEF BeginRefused, Ops
  <2>11. ASSUME NEW p \in 1..NTasks + 1, Prepare(k, p) PROVE NodesOK'
    BY <2>11 DEF Prepare
  <2>12. CASE VoidQuestion(k)
    BY <2>12 DEF VoidQuestion
  <2>13. CASE PrepareFails(k)
    BY <2>13 DEF PrepareFails
  <2>14. QED
    BY <1>3, <2>1, <2>2, <2>3, <2>4, <2>5, <2>6, <2>7, <2>8, <2>9, <2>10, <2>11, <2>12,
       <2>13
       DEF CallStep
<1>4. ASSUME NEW r \in Runs, RunStep(r) PROVE NodesOK'
  <2>1. CASE EmitRefused(r)
    BY <2>1, RunHere, RunAlive DEF EmitRefused, Pcs
  <2>2. CASE CreateInteraction(r)
    BY <2>2, RunHere, RunAlive DEF CreateInteraction, Pcs
  <2>3. CASE ShowInteraction(r)
    BY <2>3, RunHere, RunAlive DEF ShowInteraction, Pcs
  <2>4. CASE Pause(r)
    BY <2>4, RunHere, RunAlive DEF Pause, Pcs
  <2>5. CASE StreamEnds(r)
    BY <2>5, RunHere, RunAlive DEF StreamEnds, Pcs
  <2>6. CASE Raise(r)
    BY <2>6, RunHere, RunAlive DEF Raise, Pcs
  <2>7. CASE Complete(r)
    BY <2>7, RunHere, RunAlive DEF Complete, Pcs
  <2>8. CASE Report(r)
    BY <2>8, RunHere, RunAlive DEF Report, Pcs
  <2>9. CASE MarkFailed(r)
    BY <2>9, RunHere, RunAlive DEF MarkFailed, Pcs
  <2>10. CASE MarkCancelled(r)
    BY <2>10, RunHere, RunAlive DEF MarkCancelled, Pcs
  <2>11. CASE CloseStream(r)
    BY <2>11, RunHere, RunAlive DEF CloseStream, Pcs
  <2>12. CASE Cleanup(r)
    BY <2>12, RunHere, RunAlive DEF Cleanup, Pcs
  <2>13. CASE Interrupt(r)
    <3>1. run[r].node \in Nodes /\ run[r].task \in Tasks
      BY <2>13, RunAlive DEF Interrupt, Live
    <3>2. CASE run[r].pc = "cleanup"
      <4>1. entry' = [entry EXCEPT ![run[r].node] = [entry[run[r].node] EXCEPT ![run[r].task] =
                 IF entry[run[r].node][run[r].task] = r
                   THEN Husk ELSE entry[run[r].node][run[r].task]]]
        BY <2>13, <3>1, <3>2 DEF Interrupt
      <4>2. QED BY SMTT(30), <2>13, <3>1, <4>1 DEF Interrupt
    <3>3. CASE run[r].pc # "cleanup" BY <2>13, <3>3 DEF Interrupt
    <3>4. QED BY <3>2, <3>3
  <2>14. QED BY <1>4, <2>1, <2>2, <2>3, <2>4, <2>5, <2>6, <2>7, <2>8, <2>9, <2>10, <2>11, <2>12, <2>13 DEF RunStep, Ends
<1>5. ASSUME NEW n \in Nodes, Process(n) PROVE NodesOK'
  <2>1. CASE Recover(n)
    BY <2>1 DEF Recover, Vanish
  <2>2. ASSUME NEW t \in Tasks, Poll(n, t) PROVE NodesOK'
    BY <2>2 DEF Poll, Vanish
  <2>3. CASE Crash(n)
    BY <2>3 DEF Crash, Vanish
  <2>4. CASE Restart(n)
    BY <2>4 DEF Restart, Vanish
  <2>5. CASE StopWorker(n)
    BY <2>5 DEF StopWorker, Vanish
  <2>6. CASE WorkerStopped(n)
    BY <2>6 DEF WorkerStopped, Vanish
  <2>7. ASSUME NEW t \in Tasks, HandOver(n, t) PROVE NodesOK'
    BY <2>7 DEF HandOver, Vanish
  <2>8. CASE CancelRuns(n)
    BY <2>8 DEF CancelRuns, Vanish
  <2>9. CASE Exited(n)
    BY <2>9 DEF Exited, Vanish
  <2>10. QED BY <1>5, <2>1, <2>2, <2>3, <2>4, <2>5, <2>6, <2>7, <2>8, <2>9 DEF Process, Shutdown
<1>6. ASSUME NEW t \in Tasks, Lapse(t) PROVE NodesOK'
  BY <1>6 DEF Lapse
<1>7. QED BY <1>1, <1>2, <1>3, <1>4, <1>5, <1>6 DEF Next

\* A step keeps the counts of what was spent well typed.
LEMMA UsedStep ==
    ASSUME TypeOK, [Next]_vars
    PROVE  used' \in [Bounds -> Nat]
<1> USE DEF TypeOK, Spend
<1>1. CASE UNCHANGED vars
  BY <1>1 DEF vars
<1>2. ASSUME NEW n \in Nodes, Api(n) PROVE used' \in [Bounds -> Nat]
  <2>1. ASSUME NEW t \in Tasks, SendAgain(n, t) PROVE used' \in [Bounds -> Nat]
    BY <2>1 DEF SendAgain
  <2>2. ASSUME NEW t \in Tasks, Send(n, t) PROVE used' \in [Bounds -> Nat]
    BY <2>2 DEF Send
  <2>3. ASSUME NEW t \in Tasks, Respond(n, t) PROVE used' \in [Bounds -> Nat]
    BY <2>3 DEF Respond
  <2>4. ASSUME NEW t \in Tasks, RequestCancel(n, t) PROVE used' \in [Bounds -> Nat]
    BY <2>4 DEF RequestCancel
  <2>5. CASE DeleteCheck(n)
    BY <2>5 DEF DeleteCheck
  <2>6. QED BY <1>2, <2>1, <2>2, <2>3, <2>4, <2>5 DEF Api
<1>3. ASSUME NEW k \in Slots, CallStep(k) PROVE used' \in [Bounds -> Nat]
  BY <1>3
     DEF CallStep, Prepare, PrepareFails, VoidQuestion, Answer, StoreAnswer, Requeue, FinishCancel, Delete, Load, Start,
     Drop, Begin, BeginRefused
<1>4. ASSUME NEW r \in Runs, RunStep(r) PROVE used' \in [Bounds -> Nat]
  <2>1. CASE EmitRefused(r)
    BY <2>1 DEF EmitRefused
  <2>2. CASE CreateInteraction(r)
    BY <2>2 DEF CreateInteraction
  <2>3. CASE ShowInteraction(r)
    BY <2>3 DEF ShowInteraction
  <2>4. CASE Pause(r)
    BY <2>4 DEF Pause
  <2>5. CASE StreamEnds(r)
    BY <2>5 DEF StreamEnds
  <2>6. CASE Raise(r)
    BY <2>6 DEF Raise
  <2>7. CASE Complete(r)
    BY <2>7 DEF Complete
  <2>8. CASE Report(r)
    BY <2>8 DEF Report
  <2>9. CASE MarkFailed(r)
    BY <2>9 DEF MarkFailed
  <2>10. CASE MarkCancelled(r)
    BY <2>10 DEF MarkCancelled
  <2>11. CASE CloseStream(r)
    BY <2>11 DEF CloseStream
  <2>12. CASE Cleanup(r)
    BY <2>12 DEF Cleanup
  <2>13. CASE Interrupt(r)
    BY <2>13 DEF Interrupt
  <2>14. QED BY <1>4, <2>1, <2>2, <2>3, <2>4, <2>5, <2>6, <2>7, <2>8, <2>9, <2>10, <2>11, <2>12, <2>13 DEF RunStep, Ends
<1>5. ASSUME NEW n \in Nodes, Process(n) PROVE used' \in [Bounds -> Nat]
  <2>1. CASE Recover(n)
    BY <2>1 DEF Recover, Vanish
  <2>2. ASSUME NEW t \in Tasks, Poll(n, t) PROVE used' \in [Bounds -> Nat]
    BY <2>2 DEF Poll, Vanish
  <2>3. CASE Crash(n)
    BY <2>3 DEF Crash, Vanish
  <2>4. CASE Restart(n)
    BY <2>4 DEF Restart, Vanish
  <2>5. CASE StopWorker(n)
    BY <2>5 DEF StopWorker, Vanish
  <2>6. CASE WorkerStopped(n)
    BY <2>6 DEF WorkerStopped, Vanish
  <2>7. ASSUME NEW t \in Tasks, HandOver(n, t) PROVE used' \in [Bounds -> Nat]
    BY <2>7 DEF HandOver, Vanish
  <2>8. CASE CancelRuns(n)
    BY <2>8 DEF CancelRuns, Vanish
  <2>9. CASE Exited(n)
    BY <2>9 DEF Exited, Vanish
  <2>10. QED BY <1>5, <2>1, <2>2, <2>3, <2>4, <2>5, <2>6, <2>7, <2>8, <2>9 DEF Process, Shutdown
<1>6. ASSUME NEW t \in Tasks, Lapse(t) PROVE used' \in [Bounds -> Nat]
  BY <1>6 DEF Lapse
<1>7. QED BY <1>1, <1>2, <1>3, <1>4, <1>5, <1>6 DEF Next

(***************************************************************************)
(* Most steps keep every coroutine where it is, and no call gets to hold    *)
(* another coroutine; such a step keeps the references.                     *)
(***************************************************************************)
SamePlaces ==
    \A q \in Runs : run[q] # Idle =>
        run'[q] # Idle /\ run'[q].node = run[q].node /\ run'[q].task = run[q].task
SameHolds ==
    \A j \in Slots : call'[j] # NoCall =>
        call[j] # NoCall /\ call'[j].run = call[j].run /\ call'[j].node = call[j].node

LEMMA KeepRefs ==
    ASSUME RunRefs, SamePlaces, SameHolds, entry' = entry
    PROVE  RunRefs'
BY DEF RunRefs, SamePlaces, SameHolds

\* Moving a coroutine keeps all places.
LEMMA MovePlaces ==
    ASSUME RunsOK, NEW r \in Runs, NEW pc \in Pcs, run[r] # Idle, Move(r, pc)
    PROVE  SamePlaces
<1>1. run[r] \in Coroutine BY DEF RunsOK
<1>2. run' = [run EXCEPT ![r] = [run[r] EXCEPT !.pc = pc]] BY DEF Move, RunsOK
<1>3. /\ [run[r] EXCEPT !.pc = pc] # Idle
      /\ [run[r] EXCEPT !.pc = pc].node = run[r].node
      /\ [run[r] EXCEPT !.pc = pc].task = run[r].task
  BY <1>1 DEF Coroutine, Idle, Pcs, Trying, Handling
<1>4. QED BY <1>2, <1>3 DEF SamePlaces, RunsOK

\* Moving a call, or its return, lets it hold nothing new.
LEMMA GotoHolds ==
    ASSUME CallsOK, NEW k \in Slots, call[k] # NoCall, NEW op \in Ops, NEW b \in BOOLEAN,
           Goto(k, op) \/ GotoStart(k, b) \/ Return(k)
    PROVE  SameHolds
<1>1. call[k] \in Call BY DEF CallsOK
<1>2. CASE Goto(k, op)
  <2>1. call' = [call EXCEPT ![k] = [call[k] EXCEPT !.op = op]] BY <1>2 DEF Goto, CallsOK
  <2>2. QED BY <1>1, <2>1 DEF SameHolds, Call, CallsOK
<1>3. CASE GotoStart(k, b)
  <2>1. call' = [call EXCEPT ![k] = [call[k] EXCEPT !.op = "start", !.resumed = b]]
    BY <1>3 DEF GotoStart, CallsOK
  <2>2. QED BY <1>1, <2>1 DEF SameHolds, Call, CallsOK
<1>4. CASE Return(k) BY <1>4 DEF Return, SameHolds, CallsOK
<1>5. QED BY <1>2, <1>3, <1>4

\* After a coroutine's end no call holds it, and the others hold what they held.
LEMMA ExitHolds ==
    ASSUME CallsOK, NEW r \in Runs, Exit(r), NEW k \in Slots,
           call'[k] # NoCall, call'[k].run \in Runs
    PROVE  /\ call[k] # NoCall /\ call[k].run # r
           /\ call'[k].run = call[k].run /\ call'[k].node = call[k].node
<1>1. call[k] # NoCall BY DEF Exit
<1>2. call[k] \in Call BY <1>1 DEF CallsOK
<1>3. CASE call[k].run = r
  <2>1. call'[k] = [call[k] EXCEPT !.run = NoRun] BY <1>1, <1>3 DEF Exit
  <2>2. call'[k].run = NoRun BY <1>2, <2>1 DEF Call
  <2>3. QED BY <2>2
<1>4. CASE call[k].run # r BY <1>1, <1>4 DEF Exit
<1>5. QED BY <1>3, <1>4

\* When a process ends, what is left refers to what is left.
LEMMA VanishRefs ==
    ASSUME TypeOK, RunRefs, NEW n \in Nodes, Vanish(n)
    PROVE  RunRefs'
<1>1. \A m \in Nodes, t \in Tasks : entry'[m][t] \in Runs => m # n /\ entry'[m][t] = entry[m][t]
  BY DEF Vanish, TypeOK, NodesOK
<1>2. \A q \in Runs : run[q] # Idle /\ run[q].node # n => run'[q] = run[q]
  BY DEF Vanish, Live
<1>3. \A k \in Slots : call'[k] # NoCall => call'[k] = call[k] /\ call[k].node # n
  BY DEF Vanish
<1>4. QED BY <1>1, <1>2, <1>3 DEF RunRefs

\* An accepted call holds no coroutine but the one it was given.
LEMMA AcceptRefs ==
    ASSUME TypeOK, RunRefs, NEW op, NEW n \in Nodes, NEW t \in Tasks,
           NEW r \in Runs \cup {NoRun}, NEW v, NEW b, Accept(op, n, t, r, v, b),
           r \in Runs => run[r] # Idle /\ run[r].node = n,
           run' = run, entry' = entry
    PROVE  RunRefs'
<1>1. PICK i \in Slots : call' = [call EXCEPT ![i] =
               [op |-> op, node |-> n, task |-> t, resumed |-> FALSE,
                question |-> asked[t], run |-> r, victim |-> v, poller |-> b]]
  BY DEF Accept
<1>2. \A k \in Slots : k # i => call'[k] = call[k] BY <1>1 DEF TypeOK, CallsOK
<1>3. call'[i].run = r /\ call'[i].node = n BY <1>1 DEF TypeOK, CallsOK
<1>4. QED BY <1>2, <1>3 DEF RunRefs

\* A step keeps the references to coroutines intact.
LEMMA RefsStep ==
    ASSUME TypeOK, RunRefs, [Next]_vars
    PROVE  RunRefs'
<1> USE DEF TypeOK, TaskOf
<1>1. CASE UNCHANGED vars
  BY <1>1 DEF vars, RunRefs
<1>2. ASSUME NEW n \in Nodes, Api(n) PROVE RunRefs'
  <2>1. ASSUME NEW t \in Tasks, SendAgain(n, t) PROVE RunRefs'
    BY <2>1, AcceptRefs DEF SendAgain
  <2>2. ASSUME NEW t \in Tasks, Send(n, t) PROVE RunRefs'
    BY <2>2, AcceptRefs DEF Send
  <2>3. ASSUME NEW t \in Tasks, Respond(n, t) PROVE RunRefs'
    BY <2>3, AcceptRefs DEF Respond
  <2>4. ASSUME NEW t \in Tasks, RequestCancel(n, t) PROVE RunRefs'
    <3>1. PICK r \in Runs \cup {NoRun} :
            (r \in Runs => entry[n][t] = r) /\ Accept("void", n, t, r, 0, FALSE)
      BY <2>4 DEF RequestCancel
    <3>2. r \in Runs => run[r] # Idle /\ run[r].node = n BY <3>1 DEF RunRefs
    <3>3. run' = run /\ entry' = entry BY <2>4 DEF RequestCancel
    <3>4. QED BY <3>1, <3>2, <3>3, AcceptRefs
  <2>5. CASE DeleteCheck(n)
    <3>1. 1 \in Tasks
      <4>1. PICK t \in Tasks : status[t] \notin {"absent", "deleted"}
        BY <2>5 DEF DeleteCheck
      <4>2. QED BY <4>1
    <3>2. QED BY <2>5, <3>1, AcceptRefs DEF DeleteCheck
  <2>6. QED BY <1>2, <2>1, <2>2, <2>3, <2>4, <2>5 DEF Api
<1>3. ASSUME NEW k \in Slots, CallStep(k) PROVE RunRefs'
  <2>1. CASE Answer(k)
    <3>1. SameHolds BY <2>1, GotoHolds, CallAt DEF Answer, Ops
    <3>2. SamePlaces BY <2>1 DEF Answer, SamePlaces
    <3>3. QED BY <2>1, <3>1, <3>2, KeepRefs DEF Answer
  <2>2. CASE StoreAnswer(k)
    <3>1. SameHolds BY <2>2, GotoHolds, CallAt DEF StoreAnswer, Ops
    <3>2. SamePlaces BY <2>2 DEF StoreAnswer, SamePlaces
    <3>3. QED BY <2>2, <3>1, <3>2, KeepRefs DEF StoreAnswer
  <2>3. CASE Requeue(k)
    <3>1. SameHolds BY <2>3, GotoHolds, CallAt DEF Requeue, Ops
    <3>2. SamePlaces BY <2>3 DEF Requeue, SamePlaces
    <3>3. QED BY <2>3, <3>1, <3>2, KeepRefs DEF Requeue
  <2>4. CASE FinishCancel(k)
    <3>1. SameHolds BY <2>4, GotoHolds, CallAt DEF FinishCancel, Ops
    <3>2. SamePlaces
      <4>1. CASE call[k].run \in Runs
        <5>1. run[call[k].run] # Idle BY <2>4, <4>1, CallAt DEF FinishCancel, Ops, RunRefs
        <5>2. run' = [run EXCEPT ![call[k].run] = [run[call[k].run] EXCEPT !.kill = TRUE]]
          BY <2>4, <4>1 DEF FinishCancel, RunsOK
        <5>3. QED BY <4>1, <5>1, <5>2, KillRun DEF SamePlaces, RunsOK
      <4>2. CASE call[k].run \notin Runs BY <2>4, <4>2 DEF FinishCancel, SamePlaces
      <4>3. QED BY <4>1, <4>2
    <3>3. QED BY <2>4, <3>1, <3>2, KeepRefs DEF FinishCancel
  <2>5. CASE Delete(k)
    <3>1. SameHolds BY <2>5, GotoHolds, CallAt DEF Delete, Ops
    <3>2. SamePlaces BY <2>5 DEF Delete, SamePlaces
    <3>3. QED BY <2>5, <3>1, <3>2, KeepRefs DEF Delete
  <2>6. CASE Load(k)
    <3>1. SameHolds
      BY <2>6, GotoHolds, CallAt DEF Load, Ops, RowsOK
    <3>2. SamePlaces BY <2>6 DEF Load, SamePlaces
    <3>3. QED BY <2>6, <3>1, <3>2, KeepRefs DEF Load
  <2>7. CASE Start(k)
    <3>1. SameHolds BY <2>7, GotoHolds, CallAt DEF Start, Ops
    <3>2. SamePlaces BY <2>7 DEF Start, SamePlaces
    <3>3. QED BY <2>7, <3>1, <3>2, KeepRefs DEF Start
  <2>8. CASE Drop(k)
    <3>1. SameHolds BY <2>8, GotoHolds, CallAt DEF Drop, Ops
    <3>2. SamePlaces BY <2>8 DEF Drop, SamePlaces
    <3>3. QED BY <2>8, <3>1, <3>2, KeepRefs DEF Drop
  <2>9. CASE Begin(k)
    <3>1. SameHolds BY <2>9, GotoHolds, CallAt DEF Begin, Ops
    <3>2. PICK r \in Runs :
            /\ run[r] = Idle
            /\ run' = [run EXCEPT ![r] = [pc |-> "work", node |-> call[k].node,
                      task |-> call[k].task, resumed |-> call[k].resumed, kill |-> FALSE]]
            /\ entry' = [entry EXCEPT ![call[k].node][call[k].task] = r]
      BY <2>9 DEF Begin, Live
    <3>3. SamePlaces BY <3>2 DEF SamePlaces, RunsOK
    <3>4. call[k].node \in Nodes /\ call[k].task \in Tasks
      BY <2>9, CallAt DEF Begin, Ops
    <3>5. /\ run'[r] # Idle
          /\ run'[r].node = call[k].node /\ run'[r].task = call[k].task
      BY <3>2 DEF Idle, RunsOK
    <3>6. \A m \in Nodes, t \in Tasks : entry'[m][t] \in Runs =>
            /\ run'[entry'[m][t]] # Idle
            /\ run'[entry'[m][t]].node = m /\ run'[entry'[m][t]].task = t
      <4> SUFFICES ASSUME NEW m \in Nodes, NEW t \in Tasks, entry'[m][t] \in Runs
                   PROVE  /\ run'[entry'[m][t]] # Idle
                          /\ run'[entry'[m][t]].node = m /\ run'[entry'[m][t]].task = t
        OBVIOUS
      <4>1. CASE m = call[k].node /\ t = call[k].task
        <5>1. entry'[m][t] = r BY <3>2, <3>4, <4>1 DEF NodesOK
        <5>2. QED BY <3>5, <4>1, <5>1
      <4>2. CASE ~(m = call[k].node /\ t = call[k].task)
        <5>1. entry'[m][t] = entry[m][t] BY <3>2, <4>2 DEF NodesOK
        <5>2. QED BY <3>3, <5>1 DEF SamePlaces, RunRefs
      <4>3. QED BY <4>1, <4>2
    <3>7. QED BY <3>1, <3>3, <3>6 DEF SamePlaces, SameHolds, RunRefs
  <2>10. CASE BeginRefused(k)
    <3>1. SameHolds BY <2>10, GotoHolds, CallAt DEF BeginRefused, Ops
    <3>2. SamePlaces BY <2>10 DEF BeginRefused, SamePlaces
    <3>3. QED BY <2>10, <3>1, <3>2, KeepRefs DEF BeginRefused
  <2>11. ASSUME NEW p \in 1..NTasks + 1, Prepare(k, p) PROVE RunRefs'
    <3>1. SameHolds BY <2>11, GotoHolds, CallAt DEF Prepare, Ops
    <3>2. SamePlaces BY <2>11 DEF Prepare, SamePlaces
    <3>3. QED BY <2>11, <3>1, <3>2, KeepRefs DEF Prepare
  <2>12. CASE VoidQuestion(k)
    <3>1. SameHolds BY <2>12, GotoHolds, CallAt DEF VoidQuestion, Ops
    <3>2. SamePlaces BY <2>12 DEF VoidQuestion, SamePlaces
    <3>3. QED BY <2>12, <3>1, <3>2, KeepRefs DEF VoidQuestion
  <2>13. CASE PrepareFails(k)
    <3>1. SameHolds BY <2>13, GotoHolds, CallAt DEF PrepareFails, Ops
    <3>2. SamePlaces BY <2>13 DEF PrepareFails, SamePlaces
    <3>3. QED BY <2>13, <3>1, <3>2, KeepRefs DEF PrepareFails
  <2>14. QED
    BY <1>3, <2>1, <2>2, <2>3, <2>4, <2>5, <2>6, <2>7, <2>8, <2>9, <2>10, <2>11, <2>12,
       <2>13
       DEF CallStep
<1>4. ASSUME NEW r \in Runs, RunStep(r) PROVE RunRefs'
  <2>1. CASE EmitRefused(r)
    <3>1. SamePlaces BY <2>1, RunHere, MovePlaces DEF EmitRefused, Pcs, Trying, Handling
    <3>2. SameHolds BY <2>1 DEF EmitRefused, SameHolds
    <3>3. QED BY <2>1, <3>1, <3>2, KeepRefs DEF EmitRefused
  <2>2. CASE CreateInteraction(r)
    <3>1. SamePlaces BY <2>2, RunHere, MovePlaces DEF CreateInteraction, Pcs, Trying, Handling
    <3>2. SameHolds BY <2>2 DEF CreateInteraction, SameHolds
    <3>3. QED BY <2>2, <3>1, <3>2, KeepRefs DEF CreateInteraction
  <2>3. CASE ShowInteraction(r)
    <3>1. SamePlaces BY <2>3, RunHere, MovePlaces DEF ShowInteraction, Pcs, Trying, Handling
    <3>2. SameHolds BY <2>3 DEF ShowInteraction, SameHolds
    <3>3. QED BY <2>3, <3>1, <3>2, KeepRefs DEF ShowInteraction
  <2>4. CASE Pause(r)
    <3>1. SamePlaces BY <2>4, RunHere, MovePlaces DEF Pause, Pcs, Trying, Handling
    <3>2. SameHolds BY <2>4 DEF Pause, SameHolds
    <3>3. QED BY <2>4, <3>1, <3>2, KeepRefs DEF Pause
  <2>5. CASE StreamEnds(r)
    <3>1. SamePlaces BY <2>5, RunHere, MovePlaces DEF StreamEnds, Pcs, Trying, Handling
    <3>2. SameHolds BY <2>5 DEF StreamEnds, SameHolds
    <3>3. QED BY <2>5, <3>1, <3>2, KeepRefs DEF StreamEnds
  <2>6. CASE Raise(r)
    <3>1. SamePlaces BY <2>6, RunHere, MovePlaces DEF Raise, Pcs, Trying, Handling
    <3>2. SameHolds BY <2>6 DEF Raise, SameHolds
    <3>3. QED BY <2>6, <3>1, <3>2, KeepRefs DEF Raise
  <2>7. CASE Complete(r)
    <3>1. SamePlaces BY <2>7, RunHere, MovePlaces DEF Complete, Pcs, Trying, Handling
    <3>2. SameHolds BY <2>7 DEF Complete, SameHolds
    <3>3. QED BY <2>7, <3>1, <3>2, KeepRefs DEF Complete
  <2>8. CASE Report(r)
    <3>1. SamePlaces BY <2>8, RunHere, MovePlaces DEF Report, Pcs, Trying, Handling
    <3>2. SameHolds BY <2>8 DEF Report, SameHolds
    <3>3. QED BY <2>8, <3>1, <3>2, KeepRefs DEF Report
  <2>9. CASE MarkFailed(r)
    <3>1. SamePlaces BY <2>9, RunHere, MovePlaces DEF MarkFailed, Pcs, Trying, Handling
    <3>2. SameHolds BY <2>9 DEF MarkFailed, SameHolds
    <3>3. QED BY <2>9, <3>1, <3>2, KeepRefs DEF MarkFailed
  <2>10. CASE MarkCancelled(r)
    <3>1. SamePlaces BY <2>10, RunHere, MovePlaces DEF MarkCancelled, Pcs, Trying, Handling
    <3>2. SameHolds BY <2>10 DEF MarkCancelled, SameHolds
    <3>3. QED BY <2>10, <3>1, <3>2, KeepRefs DEF MarkCancelled
  <2>11. CASE CloseStream(r)
    <3>1. SamePlaces BY <2>11, RunHere, MovePlaces DEF CloseStream, Pcs, Trying, Handling
    <3>2. SameHolds BY <2>11 DEF CloseStream, SameHolds
    <3>3. QED BY <2>11, <3>1, <3>2, KeepRefs DEF CloseStream
  <2>12. CASE Cleanup(r)
    <3>1. run[r] # Idle /\ run[r].node \in Nodes /\ run[r].task \in Tasks
      BY <2>12, RunHere DEF Cleanup, Pcs
    <3>2. \A q \in Runs : q # r => run'[q] = run[q] BY <2>12 DEF Cleanup, Exit, RunsOK
    <3>3. \A m \in Nodes, t \in Tasks : entry'[m][t] \in Runs =>
            entry'[m][t] = entry[m][t] /\ entry[m][t] # r
      BY SMTT(30), <2>12, <3>1 DEF Cleanup, NodesOK, RunRefs
    <3>4. \A k \in Slots : call'[k] # NoCall /\ call'[k].run \in Runs =>
            /\ call[k] # NoCall /\ call[k].run # r
            /\ call'[k].run = call[k].run /\ call'[k].node = call[k].node
      BY <2>12, ExitHolds DEF Cleanup
    <3>5. QED BY <3>2, <3>3, <3>4 DEF RunRefs
  <2>13. CASE Interrupt(r)
    <3>1. run[r] # Idle /\ run[r].node \in Nodes /\ run[r].task \in Tasks
      BY <2>13, RunAlive DEF Interrupt, Live
    <3>2. CASE run[r].pc = "cleanup"
      <4>1. \A q \in Runs : q # r => run'[q] = run[q] BY <2>13, <3>2 DEF Interrupt, Exit, RunsOK
      <4>2. \A m \in Nodes, t \in Tasks : entry'[m][t] \in Runs =>
              entry'[m][t] = entry[m][t] /\ entry[m][t] # r
        <5>1. entry' = [entry EXCEPT ![run[r].node] = [entry[run[r].node] EXCEPT ![run[r].task] =
                   IF entry[run[r].node][run[r].task] = r
                     THEN Husk ELSE entry[run[r].node][run[r].task]]]
          BY <2>13, <3>1, <3>2 DEF Interrupt, NodesOK
        <5>2. SUFFICES ASSUME NEW m \in Nodes, NEW t \in Tasks, entry'[m][t] \in Runs
                       PROVE  entry'[m][t] = entry[m][t] /\ entry[m][t] # r
          OBVIOUS
        <5>3. CASE m = run[r].node /\ t = run[r].task BY <3>1, <5>1, <5>2, <5>3 DEF NodesOK
        <5>4. CASE ~(m = run[r].node /\ t = run[r].task)
          <6>1. entry'[m][t] = entry[m][t] BY <3>1, <5>1, <5>4 DEF NodesOK
          <6>2. entry[m][t] # r BY <5>2, <5>4, <6>1 DEF RunRefs
          <6>3. QED BY <6>1, <6>2
        <5>5. QED BY <5>3, <5>4
      <4>3. \A k \in Slots : call'[k] # NoCall /\ call'[k].run \in Runs =>
              /\ call[k] # NoCall /\ call[k].run # r
              /\ call'[k].run = call[k].run /\ call'[k].node = call[k].node
        BY <2>13, <3>2, ExitHolds DEF Interrupt
      <4>4. QED BY <4>1, <4>2, <4>3 DEF RunRefs
    <3>3. CASE run[r].pc # "cleanup"
      <4> DEFINE pc == IF run[r].pc \in Trying THEN "dropping" ELSE "cleanup"
                 moved == [run[r] EXCEPT !.kill = FALSE, !.pc = pc]
      <4>1. run' = [run EXCEPT ![r] = moved] BY <2>13, <3>3 DEF Interrupt, RunsOK
      <4>2. pc \in Pcs BY DEF Pcs, Handling
      <4>3. moved # Idle /\ moved.node = run[r].node /\ moved.task = run[r].task
        BY ZenonT(60), <3>1, <4>2, InterruptedRun
      <4>4. SamePlaces BY <4>1, <4>3 DEF SamePlaces, RunsOK
      <4>5. SameHolds BY <2>13, <3>3 DEF Interrupt, SameHolds
      <4>6. QED BY <2>13, <3>3, <4>4, <4>5, KeepRefs DEF Interrupt
    <3>4. QED BY <3>2, <3>3
  <2>14. QED BY <1>4, <2>1, <2>2, <2>3, <2>4, <2>5, <2>6, <2>7, <2>8, <2>9, <2>10, <2>11, <2>12, <2>13 DEF RunStep, Ends
<1>5. ASSUME NEW n \in Nodes, Process(n) PROVE RunRefs'
  <2>1. CASE Recover(n)
    BY <2>1 DEF Recover, RunRefs
  <2>2. ASSUME NEW t \in Tasks, Poll(n, t) PROVE RunRefs'
    BY <2>2, AcceptRefs DEF Poll
  <2>3. CASE Crash(n)
    BY <2>3, VanishRefs DEF Crash
  <2>4. CASE Restart(n)
    BY <2>4 DEF Restart, RunRefs
  <2>5. CASE StopWorker(n)
    BY <2>5 DEF StopWorker, RunRefs
  <2>6. CASE WorkerStopped(n)
    BY <2>6 DEF WorkerStopped, RunRefs
  <2>7. ASSUME NEW t \in Tasks, HandOver(n, t) PROVE RunRefs'
    BY <2>7 DEF HandOver, RunRefs
  <2>8. CASE CancelRuns(n)
    <3>1. \A r \in Runs : (\E t \in Tasks : entry[n][t] = r) => run[r] # Idle
      BY DEF RunRefs
    <3>2. SamePlaces BY <2>8, <3>1, KillRun DEF CancelRuns, SamePlaces
    <3>3. SameHolds BY <2>8 DEF CancelRuns, SameHolds
    <3>4. QED BY <2>8, <3>2, <3>3, KeepRefs DEF CancelRuns
  <2>9. CASE Exited(n)
    BY <2>9, VanishRefs DEF Exited
  <2>10. QED BY <1>5, <2>1, <2>2, <2>3, <2>4, <2>5, <2>6, <2>7, <2>8, <2>9 DEF Process, Shutdown
<1>6. ASSUME NEW t \in Tasks, Lapse(t) PROVE RunRefs'
  BY <1>6 DEF Lapse, RunRefs
<1>7. QED BY <1>1, <1>2, <1>3, <1>4, <1>5, <1>6 DEF Next

(***************************************************************************)
(* Every variable keeps its type, and the references hold with it.          *)
(***************************************************************************)
THEOREM TypeCorrect == Spec => [](TypeOK /\ RunRefs)
<1>1. Init => TypeOK /\ RunRefs
  BY DEF Init, TypeOK, RowsOK, RunsOK, NodesOK, CallsOK, RunRefs, Statuses
<1>2. TypeOK /\ RunRefs /\ [Next]_vars => (TypeOK /\ RunRefs)'
  BY RowsStep, RunsStep, NodesStep, CallsStep, UsedStep, RefsStep DEF TypeOK
<1>3. QED BY <1>1, <1>2, PTL DEF Spec

-----------------------------------------------------------------------------
(***************************************************************************)
(* Exclusion in ChatTask.  While no node is shut down in order, one         *)
(* coroutine at most works on a task, and one user at most answers a        *)
(* question, for any number of nodes, tasks, coroutines and calls.          *)
(*                                                                         *)
(* Most steps are calm: no coroutine starts to work, no call gets past the  *)
(* answer, no question is asked, and a row that changes either gets a       *)
(* status that bars new claims or is nobody's.  Calm shows once that such a *)
(* step keeps Exclusion.  Three steps are not calm: the claim (Begin), the  *)
(* question (CreateInteraction) and the answer (Answer).                    *)
(***************************************************************************)
Barring == {"cancel_requested", "cancelled", "superseded", "deleted"}

WorkersKept ==
    \A r \in Runs : Working(r)' => Working(r) /\ run'[r].task = run[r].task

\* A call is one that was there and came no closer to a requeue, or a new one
\* that has read its question from the row.
Continued(k) ==
    /\ call[k] # NoCall
    /\ call'[k].task = call[k].task /\ call'[k].question = call[k].question
    /\ Resuming(k)' => Resuming(k)
    /\ call'[k].op = "answer" => call[k].op = "answer"
Fresh(k) ==
    /\ call'[k].task \in Tasks
    /\ call'[k].question = asked[call'[k].task]
    /\ call'[k].op \notin {"store", "requeue"}
    /\ call'[k].op = "answer" => /\ status[call'[k].task] = "waiting_user"
                                 /\ status'[call'[k].task] = "waiting_user"
CallsKept == \A k \in Slots : call'[k] # NoCall => Continued(k) \/ Fresh(k)

QuestionsKept ==
    /\ asked' = asked
    /\ \A t \in Tasks : interaction'[t] = "pending" => interaction[t] = "pending"

\* Nobody works on the task or can still answer it after the step.
Unattended(t) ==
    /\ \A r \in Runs : Working(r)' => run'[r].task # t
    /\ \A k \in Slots : Pressing(k)' => call'[k].task # t
RowKept(t) ==
    \/ /\ status'[t] = status[t]
       /\ stale'[t] /\ status[t] = "running" =>
            stale[t] \/ \A r \in Runs : Working(r) => run[r].task # t
    \/ status'[t] \in Barring
    \/ Unattended(t)
RowsKept == \A t \in Tasks : RowKept(t)

LEMMA WorkerTask ==
    ASSUME RunsOK, NEW r \in Runs, Working(r)
    PROVE  run[r] # Idle /\ run[r] \in Coroutine /\ run[r].task \in Tasks
BY DEF RunsOK, Working, Idle, Coroutine

LEMMA PressingTask ==
    ASSUME CallsOK, NEW k \in Slots, Pressing(k)
    PROVE  call[k] # NoCall /\ call[k] \in Call /\ call[k].task \in Tasks
BY DEF CallsOK, Pressing, Resuming, NoCall, Call

\* A calm step keeps Exclusion.
LEMMA Calm ==
    ASSUME TypeOK, TypeOK', Exclusion, WorkersKept, CallsKept, QuestionsKept,
           RowsKept, NoShutdown'
    PROVE  Exclusion'
<1> USE DEF Exclusion, TypeOK
<1>1. OneWorker'
  BY DEF OneWorker, WorkersKept, TaskOf
<1>2. ASSUME NEW k \in Slots, Resuming(k)' PROVE Resuming(k) /\ call'[k].task = call[k].task
  <2>1. call'[k] # NoCall BY <1>2 DEF Resuming, NoCall
  <2>2. ~Fresh(k) BY <1>2 DEF Fresh, Resuming
  <2>3. QED BY <1>2, <2>1, <2>2 DEF CallsKept, Continued
<1>3. AnsweredOnce' BY <1>2 DEF AnsweredOnce
<1>4. Taken'
  <2> SUFFICES ASSUME NEW k \in Slots, Resuming(k)' PROVE interaction'[call'[k].task] # "pending"
    BY DEF Taken
  <2>1. Resuming(k) /\ call'[k].task = call[k].task BY <1>2
  <2>2. call[k].task \in Tasks BY <2>1, PressingTask DEF Pressing
  <2>3. QED BY <2>1, <2>2 DEF Taken, QuestionsKept
<1>5. Numbered'
  <2> SUFFICES ASSUME NEW k \in Slots, call'[k] # NoCall
               PROVE  call'[k].question <= asked'[call'[k].task]
    BY DEF Numbered
  <2>1. CASE Continued(k) BY <2>1 DEF Continued, Numbered, QuestionsKept
  <2>2. CASE Fresh(k)
    <3>1. call'[k].task \in Tasks /\ call'[k].question = asked[call'[k].task] BY <2>2 DEF Fresh
    <3>2. asked \in [Tasks -> Nat] /\ asked' = asked BY DEF QuestionsKept, RowsOK
    <3>3. call'[k].question \in Nat /\ asked'[call'[k].task] = call'[k].question BY <3>1, <3>2
    <3>4. QED BY <3>3
  <2>3. QED BY <2>1, <2>2 DEF CallsKept
<1>6. Held'
  <2> SUFFICES ASSUME NEW r \in Runs, Working(r)'
               PROVE  /\ status'[run'[r].task] \in {"running"} \cup Barring
                      /\ status'[run'[r].task] = "running" => ~stale'[run'[r].task]
    BY DEF Held, TaskOf, Barring
  <2>1. Working(r) /\ run'[r].task = run[r].task BY DEF WorkersKept
  <2>2. run[r].task \in Tasks BY <2>1, WorkerTask
  <2>3. /\ status[run[r].task] \in {"running"} \cup Barring
        /\ status[run[r].task] = "running" => ~stale[run[r].task]
    BY <2>1 DEF Held, TaskOf, Barring
  <2>4. RowKept(run[r].task) BY <2>2 DEF RowsKept
  <2>5. QED BY <2>1, <2>3, <2>4 DEF RowKept, Unattended, Barring
<1>7. Suspended'
  <2> SUFFICES ASSUME NEW k \in Slots, Pressing(k)'
               PROVE  /\ status'[call'[k].task] \in {"waiting_user"} \cup Barring
                      /\ \A r \in Runs : Working(r)' => run'[r].task # call'[k].task
    BY DEF Suspended, TaskOf, Barring
  <2>1. call'[k] # NoCall /\ call'[k].task \in Tasks
    BY DEF CallsOK, Pressing, Resuming, NoCall, Call
  <2>2. CASE Continued(k)
    <3>1. call'[k].task = call[k].task BY <2>2 DEF Continued
    <3>2. Pressing(k)
      BY <2>1, <2>2, <3>1 DEF Pressing, Continued, Answerable, QuestionsKept
    <3>3. /\ status[call[k].task] \in {"waiting_user"} \cup Barring
          /\ \A r \in Runs : Working(r) => run[r].task # call[k].task
      BY <3>2 DEF Suspended, TaskOf, Barring
    <3>4. RowKept(call[k].task) BY <2>1, <3>1 DEF RowsKept
    <3>5. QED BY <3>1, <3>3, <3>4 DEF RowKept, Unattended, WorkersKept
  <2>3. CASE Fresh(k)
    <3>1. status[call'[k].task] = "waiting_user" /\ status'[call'[k].task] = "waiting_user"
      BY <2>3 DEF Fresh, Pressing, Resuming
    <3>2. \A r \in Runs : Working(r) => run[r].task # call'[k].task
      BY <3>1 DEF Held, TaskOf
    <3>3. QED BY <3>1, <3>2 DEF WorkersKept
  <2>4. QED BY <2>1, <2>2, <2>3 DEF CallsKept
<1>8. QED BY <1>1, <1>3, <1>4, <1>5, <1>6, <1>7

-----------------------------------------------------------------------------
(***************************************************************************)
(* What the helpers of ChatTask do to coroutines, calls and rows.           *)
(***************************************************************************)

\* A new call that is not an answer is a fresh one.
LEMMA AcceptFresh ==
    ASSUME TypeOK, NEW op \in {"prepare", "load", "start", "void", "delete"}, NEW n \in Nodes,
           NEW t \in Tasks, NEW r \in Runs \cup {NoRun}, NEW v \in 0..NTasks, NEW b \in BOOLEAN,
           Accept(op, n, t, r, v, b)
    PROVE  CallsKept
<1>1. PICK i \in Slots : call' = [call EXCEPT ![i] =
               [op |-> op, node |-> n, task |-> t, resumed |-> FALSE,
                question |-> asked[t], run |-> r, victim |-> v, poller |-> b]]
  BY DEF Accept
<1>2. Fresh(i) BY <1>1 DEF Fresh, TypeOK, CallsOK
<1>3. \A k \in Slots : k # i => call'[k] = call[k] BY <1>1 DEF TypeOK, CallsOK
<1>4. QED BY <1>2, <1>3 DEF CallsKept, Continued, Resuming

\* A call that moves on without coming closer to a requeue is a continued one ...
LEMMA GotoContinues ==
    ASSUME TypeOK, NEW k \in Slots, call[k] # NoCall, NEW op \in {"drop", "begin", "kill"}, Goto(k, op)
    PROVE  CallsKept
<1>1. call[k] \in Call BY DEF TypeOK, CallsOK
<1>2. \A j \in Slots : j # k => call'[j] = call[j] BY DEF Goto, TypeOK, CallsOK
<1>3. call'[k] = [call[k] EXCEPT !.op = op] BY DEF Goto, TypeOK, CallsOK
<1>4. /\ call'[k].op = op /\ call'[k].task = call[k].task
      /\ call'[k].question = call[k].question
  BY <1>1, <1>3 DEF Call
<1>5. QED BY <1>2, <1>4 DEF CallsKept, Continued, Resuming

\* ... and so is one that stored the answer, ...
LEMMA RequeueContinues ==
    ASSUME TypeOK, NEW k \in Slots, At(k, "store"), Goto(k, "requeue")
    PROVE  CallsKept
<1>1. call[k] # NoCall /\ call[k] \in Call BY CallAt DEF TypeOK, Ops
<1>2. \A j \in Slots : j # k => call'[j] = call[j] BY DEF Goto, TypeOK, CallsOK
<1>3. call'[k] = [call[k] EXCEPT !.op = "requeue"] BY DEF Goto, TypeOK, CallsOK
<1>4. call'[k].op = "requeue" /\ call'[k].task = call[k].task
      /\ call'[k].question = call[k].question
  BY <1>1, <1>3 DEF Call
<1>5. QED BY <1>1, <1>2, <1>4 DEF CallsKept, Continued, Resuming, At

\* ... one that goes on to start, ...
LEMMA GotoStartContinues ==
    ASSUME TypeOK, NEW k \in Slots, call[k] # NoCall, NEW b \in BOOLEAN, GotoStart(k, b)
    PROVE  CallsKept
<1>1. call[k] \in Call BY DEF TypeOK, CallsOK
<1>2. \A j \in Slots : j # k => call'[j] = call[j] BY DEF GotoStart, TypeOK, CallsOK
<1>3. call'[k] = [call[k] EXCEPT !.op = "start", !.resumed = b]
  BY DEF GotoStart, TypeOK, CallsOK
<1>4. /\ call'[k].op = "start" /\ call'[k].task = call[k].task
      /\ call'[k].question = call[k].question
  BY <1>1, <1>3 DEF Call
<1>5. QED BY <1>2, <1>4 DEF CallsKept, Continued, Resuming

\* ... and one that returns.
LEMMA ReturnContinues ==
    ASSUME TypeOK, NEW k \in Slots, Return(k)
    PROVE  CallsKept
BY DEF CallsKept, Continued, Resuming, Return, TypeOK, CallsOK

\* Moving a coroutine, unless into work, makes nobody a worker.
LEMMA MoveKept ==
    ASSUME TypeOK, NEW r \in Runs, run[r] # Idle, NEW pc \in Pcs, Move(r, pc),
           \/ Working(r)
           \/ pc \notin {"work", "asking", "pausing", "finishing", "failing"}
    PROVE  WorkersKept
<1>1. run[r] \in Coroutine BY DEF TypeOK, RunsOK
<1>2. run'[r] = [run[r] EXCEPT !.pc = pc] BY DEF Move, TypeOK, RunsOK
<1>3. run'[r].pc = pc /\ run'[r].task = run[r].task BY <1>1, <1>2 DEF Coroutine
<1>4. \A q \in Runs : q # r => run'[q] = run[q] BY DEF Move, TypeOK, RunsOK
<1>5. QED BY <1>3, <1>4 DEF WorkersKept, Working

\* The end of a coroutine leaves the others and the calls what they were.
LEMMA ExitKept ==
    ASSUME TypeOK, NEW r \in Runs, Exit(r)
    PROVE  WorkersKept /\ CallsKept
<1>1. WorkersKept BY DEF Exit, WorkersKept, Working, Idle, TypeOK, RunsOK
<1>2. \A k \in Slots : call'[k] # NoCall => Continued(k)
  <2> SUFFICES ASSUME NEW k \in Slots, call'[k] # NoCall PROVE Continued(k)
    OBVIOUS
  <2>1. call[k] # NoCall BY DEF Exit
  <2>2. call[k] \in Call BY <2>1 DEF TypeOK, CallsOK
  <2>3. call'[k] \in {call[k], [call[k] EXCEPT !.run = NoRun]} BY DEF Exit
  <2>4. /\ call'[k].op = call[k].op /\ call'[k].task = call[k].task
        /\ call'[k].question = call[k].question
    BY <2>2, <2>3 DEF Call
  <2>5. QED BY <2>1, <2>4 DEF Continued, Resuming
<1>3. QED BY <1>1, <1>2 DEF CallsKept

\* So does the end of a process.
LEMMA VanishKept ==
    ASSUME TypeOK, NEW n \in Nodes, Vanish(n)
    PROVE  WorkersKept /\ CallsKept
<1>1. WorkersKept BY DEF Vanish, WorkersKept, Working, Idle, Live
<1>2. CallsKept BY DEF Vanish, CallsKept, Continued, Resuming
<1>3. QED BY <1>1, <1>2

\* One row is written with a status that bars claims, or is nobody's.
LEMMA WriteKept ==
    ASSUME TypeOK, NEW t \in Tasks, NEW s,
           Write(t, s) \/ Overwrite(t, s) \/ UNCHANGED <<status, stale>>,
           s \in Barring \/ Unattended(t)
    PROVE  RowsKept
<1>1. \A u \in Tasks : u # t => status'[u] = status[u] /\ stale'[u] = stale[u]
  BY DEF Write, Overwrite, TypeOK, RowsOK
<1>2. status'[t] = s \/ (status'[t] = status[t] /\ stale'[t] = stale[t])
  BY DEF Write, Overwrite, TypeOK, RowsOK
<1>3. QED BY <1>1, <1>2 DEF RowsKept, RowKept, TypeOK, RowsOK

\* A row nobody writes is kept.
LEMMA SameRows ==
    ASSUME UNCHANGED <<status, stale>>
    PROVE  RowsKept
BY DEF RowsKept, RowKept

\* A worker that leaves its task leaves it unattended.
LEMMA Leaves ==
    ASSUME TypeOK, Exclusion, NEW r \in Runs, Working(r), ~Working(r)',
           WorkersKept, call' = call, asked' = asked, interaction' = interaction
    PROVE  Unattended(run[r].task)
<1>1. \A q \in Runs : Working(q)' => run'[q].task # run[r].task
  BY DEF WorkersKept, Exclusion, OneWorker, TaskOf
<1>2. \A k \in Slots : Pressing(k)' => Pressing(k) /\ call'[k].task = call[k].task
  BY DEF Pressing, Resuming, Answerable
<1>3. \A k \in Slots : Pressing(k)' => call'[k].task # run[r].task
  BY <1>2 DEF Exclusion, Suspended, TaskOf
<1>4. QED BY <1>1, <1>3 DEF Unattended

-----------------------------------------------------------------------------
(***************************************************************************)
(* The steps, one lemma per group of Next.                                  *)
(***************************************************************************)

LEMMA StutterKeeps ==
    ASSUME Exclusion, UNCHANGED vars
    PROVE  Exclusion'
BY DEF vars, database, processes, Exclusion, NoShutdown, OneWorker, AnsweredOnce, Held,
   Suspended, Taken, Numbered, Working, TaskOf, Resuming, Pressing, Answerable

\* The requests.
LEMMA ApiKeeps ==
    ASSUME TypeOK, TypeOK', Exclusion, NEW n \in Nodes, Api(n)
    PROVE  Exclusion'
<1> USE DEF database, processes
<1>0. 0 \in 0..NTasks BY ChatTaskAssumption
<1>1. WorkersKept /\ NoShutdown'
  BY DEF Api, SendAgain, Send, Respond, RequestCancel, DeleteCheck, WorkersKept, Working,
     Exclusion, NoShutdown
<1>2. ASSUME NEW t \in Tasks, SendAgain(n, t) PROVE Exclusion'
  <2>1. CallsKept BY <1>0, <1>2, AcceptFresh DEF SendAgain
  <2>2. RowsKept /\ QuestionsKept BY <1>2, SameRows DEF SendAgain, QuestionsKept
  <2>3. QED BY <1>1, <2>1, <2>2, Calm
<1>3. ASSUME NEW t \in Tasks, Send(n, t) PROVE Exclusion'
  <2>1. PICK v \in 0..NTasks : Accept("prepare", n, t, NoRun, v, FALSE) BY <1>3 DEF Send
  <2>2. CallsKept BY <2>1, AcceptFresh
  <2>3. RowsKept /\ QuestionsKept BY <1>3, SameRows DEF Send, QuestionsKept
  <2>4. QED BY <1>1, <2>2, <2>3, Calm
<1>4. ASSUME NEW t \in Tasks, Respond(n, t) PROVE Exclusion'
  <2>1. PICK i \in Slots : call' = [call EXCEPT ![i] =
               [op |-> "answer", node |-> n, task |-> t, resumed |-> FALSE,
                question |-> asked[t], run |-> NoRun, victim |-> 0, poller |-> FALSE]]
    BY <1>4 DEF Respond, Accept
  <2>2. Fresh(i) BY <1>4, <2>1 DEF Respond, Fresh, TypeOK, CallsOK
  <2>3. \A k \in Slots : k # i => call'[k] = call[k] BY <2>1 DEF TypeOK, CallsOK
  <2>4. CallsKept BY <2>2, <2>3 DEF CallsKept, Continued, Resuming
  <2>5. RowsKept /\ QuestionsKept BY <1>4, SameRows DEF Respond, QuestionsKept
  <2>6. QED BY <1>1, <2>4, <2>5, Calm
<1>5. ASSUME NEW t \in Tasks, RequestCancel(n, t) PROVE Exclusion'
  <2>1. CallsKept
    <3>1. PICK r \in Runs \cup {NoRun} : Accept("void", n, t, r, 0, FALSE)
      BY <1>5 DEF RequestCancel
    <3>2. QED BY <1>0, <3>1, AcceptFresh
  <2>2. RowsKept BY <1>5, WriteKept DEF RequestCancel, Barring
  <2>3. QuestionsKept BY <1>5 DEF RequestCancel, QuestionsKept, TypeOK, RowsOK
  <2>4. QED BY <1>1, <2>1, <2>2, <2>3, Calm
<1>6. CASE DeleteCheck(n)
  <2>1. 1 \in Tasks
    <3>1. PICK t \in Tasks : status[t] \notin {"absent", "deleted"}
      BY <1>6 DEF DeleteCheck
    <3>2. QED BY <3>1, ChatTaskAssumption DEF Tasks
  <2>2. CallsKept BY <1>0, <1>6, <2>1, AcceptFresh DEF DeleteCheck
  <2>3. RowsKept /\ QuestionsKept BY <1>6, SameRows DEF DeleteCheck, QuestionsKept
  <2>4. QED BY <1>1, <2>2, <2>3, Calm
<1>7. QED BY <1>2, <1>3, <1>4, <1>5, <1>6 DEF Api

\* The answer: of the calls that could take the question one does, and takes
\* the question from the others.
LEMMA AnswerKeeps ==
    ASSUME TypeOK, Exclusion, NEW k \in Slots, Answer(k)
    PROVE  Exclusion'
<1> USE DEF database, processes
<1>1. /\ call[k] \in Call /\ call[k] # NoCall /\ call[k].task \in Tasks
      /\ call[k].op = "answer"
  BY CallAt DEF Answer, TypeOK, Ops, At
<1>2. UNCHANGED <<status, stale, asked, run, node>> BY DEF Answer
<1>3. NoShutdown' /\ OneWorker' /\ Held'
  BY <1>2 DEF Exclusion, NoShutdown, OneWorker, Held, Working, TaskOf
<1>4. CASE Answerable(k)
  <2>1. interaction[call[k].task] = "pending" BY <1>4 DEF Answerable
  <2>2. \A t \in Tasks : interaction'[t] = "pending" => interaction[t] = "pending"
    BY <1>1, <1>4 DEF Answer, TypeOK, RowsOK
  <2>3. interaction'[call[k].task] = "answered" BY <1>1, <1>4 DEF Answer, TypeOK, RowsOK
  <2>4. \A j \in Slots : j # k => call'[j] = call[j]
    BY <1>4 DEF Answer, Goto, TypeOK, CallsOK
  <2>5. call'[k] = [call[k] EXCEPT !.op = "store"]
    BY <1>4 DEF Answer, Goto, TypeOK, CallsOK
  <2>6. /\ call'[k].op = "store" /\ call'[k].task = call[k].task
        /\ call'[k].question = call[k].question
    BY <1>1, <2>5 DEF Call
  <2>7. \A j \in Slots : Resuming(j) => call[j].task # call[k].task
    BY <2>1 DEF Exclusion, Taken
  <2>8. AnsweredOnce' BY <2>4, <2>6, <2>7 DEF AnsweredOnce, Resuming, Exclusion
  <2>9. Taken'
    <3> SUFFICES ASSUME NEW j \in Slots, Resuming(j)'
                 PROVE  interaction'[call'[j].task] # "pending"
      BY DEF Taken
    <3>1. CASE j = k BY <2>3, <2>6, <3>1
    <3>2. CASE j # k
      <4>1. Resuming(j) /\ call'[j] = call[j] BY <2>4, <3>2 DEF Resuming
      <4>2. call[j].task \in Tasks BY <4>1, PressingTask DEF Pressing, TypeOK
      <4>3. QED BY <2>2, <4>1, <4>2 DEF Exclusion, Taken
    <3>3. QED BY <3>1, <3>2
  <2>10. Numbered' BY <1>1, <1>2, <2>4, <2>6 DEF Exclusion, Numbered
  <2>11. \A j \in Slots : Pressing(j)' => Pressing(j) /\ call'[j].task = call[j].task
    <3> SUFFICES ASSUME NEW j \in Slots, Pressing(j)'
                 PROVE  Pressing(j) /\ call'[j].task = call[j].task
      OBVIOUS
    <3>1. CASE j = k BY <1>1, <1>4, <2>6, <3>1 DEF Pressing
    <3>2. CASE j # k
      <4>1. call'[j] = call[j] BY <2>4, <3>2
      <4>2. CASE Resuming(j) BY <4>1, <4>2 DEF Pressing
      <4>3. CASE ~Resuming(j)
        <5>1. call[j].op = "answer" /\ Answerable(j)'
          BY <4>1, <4>3 DEF Pressing, Resuming
        <5>2. call[j].task \in Tasks BY <5>1 DEF TypeOK, CallsOK, Call, NoCall
        <5>3. QED BY <1>2, <2>2, <4>1, <5>1, <5>2 DEF Answerable, Pressing
      <4>4. QED BY <4>2, <4>3
    <3>3. QED BY <3>1, <3>2
  <2>12. Suspended' BY <1>2, <2>11 DEF Exclusion, Suspended, Working, TaskOf
  <2>13. QED BY <1>3, <2>8, <2>9, <2>10, <2>12 DEF Exclusion
<1>5. CASE ~Answerable(k)
  <2>1. Return(k) /\ interaction' = interaction BY <1>5 DEF Answer
  <2>2. \A j \in Slots : call'[j] = IF j = k THEN NoCall ELSE call[j]
    BY <2>1 DEF Return, TypeOK, CallsOK
  <2>3. \A j \in Slots : Pressing(j)' => Pressing(j) /\ call'[j] = call[j]
    BY <1>2, <2>1, <2>2 DEF Pressing, Resuming, Answerable, NoCall
  <2>4. \A j \in Slots : Resuming(j)' => Resuming(j) /\ call'[j] = call[j]
    BY <2>2 DEF Resuming, NoCall
  <2>5. AnsweredOnce' /\ Taken'
    BY <2>1, <2>4 DEF Exclusion, AnsweredOnce, Taken
  <2>6. Numbered' BY <1>2, <2>2 DEF Exclusion, Numbered
  <2>7. Suspended' BY <1>2, <2>3 DEF Exclusion, Suspended, Working, TaskOf
  <2>8. QED BY <1>3, <2>5, <2>6, <2>7 DEF Exclusion
<1>6. QED BY <1>4, <1>5

\* The claim: a runnable task has no worker and nobody about to requeue it.
LEMMA BeginKeeps ==
    ASSUME TypeOK, TypeOK', Exclusion, NEW k \in Slots, Begin(k)
    PROVE  Exclusion'
<1> DEFINE t == call[k].task
<1>1. call[k] \in Call /\ call[k] # NoCall /\ t \in Tasks
  BY CallAt DEF Begin, TypeOK, Ops
<1>2. status[t] \in Runnable /\ Write(t, "running") BY DEF Begin
<1>3. PICK r \in Runs :
        run' = [run EXCEPT ![r] = [pc |-> "work", node |-> call[k].node, task |-> t,
                                   resumed |-> call[k].resumed, kill |-> FALSE]]
  BY DEF Begin
<1>4. \A q \in Runs : q # r => run'[q] = run[q] BY <1>3 DEF TypeOK, RunsOK
<1>5. run'[r].task = t BY <1>3 DEF TypeOK, RunsOK
<1>6. \A q \in Runs : Working(q) => run[q].task # t
  BY <1>2 DEF Exclusion, Held, TaskOf, Runnable
<1>7. UNCHANGED <<asked, interaction, node>> /\ Return(k) BY DEF Begin
<1>8. \A j \in Slots : call'[j] = IF j = k THEN NoCall ELSE call[j]
  BY <1>7 DEF Return, TypeOK, CallsOK
<1>9. \A j \in Slots : Pressing(j)' => Pressing(j) /\ call'[j] = call[j]
  BY <1>7, <1>8 DEF Pressing, Resuming, Answerable, NoCall
<1>10. \A j \in Slots : Pressing(j) => call[j].task # t
  BY <1>2 DEF Exclusion, Suspended, Runnable
<1>11. NoShutdown' BY <1>7 DEF Exclusion, NoShutdown
<1>12. OneWorker'
  <2>1. \A q \in Runs : Working(q)' /\ q # r => Working(q) /\ run'[q].task # t
    BY <1>4, <1>6 DEF Working
  <2>2. QED BY <1>4, <1>5, <2>1 DEF OneWorker, TaskOf, Exclusion
<1>13. AnsweredOnce' /\ Taken' /\ Numbered'
  BY <1>7, <1>8 DEF Exclusion, AnsweredOnce, Taken, Numbered, Resuming, NoCall
<1>14. status'[t] = "running" /\ ~stale'[t]
       /\ \A u \in Tasks : u # t => status'[u] = status[u] /\ stale'[u] = stale[u]
  BY <1>1, <1>2 DEF Write, TypeOK, RowsOK
<1>15. Held'
  <2> SUFFICES ASSUME NEW q \in Runs, Working(q)'
               PROVE  /\ status'[run'[q].task] \in
                           {"running", "cancel_requested", "cancelled", "superseded", "deleted"}
                      /\ status'[run'[q].task] = "running" => ~stale'[run'[q].task]
    BY DEF Held, TaskOf
  <2>1. CASE q = r BY <1>5, <1>14, <2>1
  <2>2. CASE q # r
    <3>1. Working(q) /\ run'[q] = run[q] BY <1>4, <2>2 DEF Working
    <3>2. run[q].task \in Tasks /\ run[q].task # t
      BY <1>6, <3>1, WorkerTask DEF TypeOK
    <3>3. QED BY <1>14, <3>1, <3>2 DEF Exclusion, Held, TaskOf
  <2>3. QED BY <2>1, <2>2
<1>16. Suspended'
  <2> SUFFICES ASSUME NEW j \in Slots, Pressing(j)'
               PROVE  /\ status'[call'[j].task] \in {"waiting_user", "cancel_requested",
                           "cancelled", "superseded", "deleted"}
                      /\ \A q \in Runs : Working(q)' => run'[q].task # call'[j].task
    BY DEF Suspended, TaskOf
  <2>1. Pressing(j) /\ call'[j] = call[j] BY <1>9
  <2>2. call[j].task \in Tasks /\ call[j].task # t
    BY <1>10, <2>1, PressingTask DEF TypeOK
  <2>3. \A q \in Runs : Working(q)' => run'[q].task # call[j].task
    BY <1>4, <1>5, <2>1, <2>2 DEF Exclusion, Suspended, Working, TaskOf
  <2>4. QED BY <1>14, <2>1, <2>2, <2>3 DEF Exclusion, Suspended
<1>17. QED BY <1>11, <1>12, <1>13, <1>15, <1>16 DEF Exclusion

\* The calls under way.
LEMMA CallStepKeeps ==
    ASSUME TypeOK, TypeOK', Exclusion, NEW k \in Slots, CallStep(k)
    PROVE  Exclusion'
<1> USE DEF database, processes
<1> DEFINE t == call[k].task
<1>1. NoShutdown'
  BY DEF CallStep, Prepare, PrepareFails, VoidQuestion, Answer, StoreAnswer, Requeue, FinishCancel, Delete,
     Load, Start, Drop, Begin, BeginRefused, Exclusion, NoShutdown
<1>2. \A op \in Ops : At(k, op) => call[k] # NoCall /\ call[k] \in Call /\ t \in Tasks
  BY CallAt DEF TypeOK
<1>3. CASE Answer(k) BY <1>3, AnswerKeeps
<1>4. CASE StoreAnswer(k)
  <2>1. CallsKept
    BY <1>4, RequeueContinues, ReturnContinues DEF StoreAnswer
  <2>2. RowsKept /\ QuestionsKept BY <1>4, SameRows DEF StoreAnswer, QuestionsKept
  <2>3. WorkersKept BY <1>4 DEF StoreAnswer, WorkersKept, Working
  <2>4. QED BY <1>1, <2>1, <2>2, <2>3, Calm
<1>5. CASE Requeue(k)
  <2>1. call[k] # NoCall /\ call[k] \in Call /\ t \in Tasks /\ Resuming(k)
    BY <1>2, <1>5 DEF Requeue, Ops, At, Resuming
  <2>2. CallsKept BY <1>5, <2>1, GotoStartContinues DEF Requeue
  <2>3. QuestionsKept BY <1>5 DEF Requeue, QuestionsKept
  <2>4. WorkersKept BY <1>5 DEF Requeue, WorkersKept, Working
  <2>5. Unattended(t)
    <3>1. \A r \in Runs : Working(r)' => run'[r].task # t
      BY <2>1, <2>4 DEF WorkersKept, Exclusion, Suspended, Pressing, TaskOf
    <3>2. \A j \in Slots : j # k => call'[j] = call[j]
      BY <1>5 DEF Requeue, GotoStart, TypeOK, CallsOK
    <3>3. call'[k].op = "start"
      <4>1. call'[k] = [call[k] EXCEPT !.op = "start", !.resumed = TRUE]
        BY <1>5 DEF Requeue, GotoStart, TypeOK, CallsOK
      <4>2. QED BY <2>1, <4>1 DEF Call
    <3>4. ASSUME NEW j \in Slots, Pressing(j)' PROVE call'[j].task # t
      <4>1. j # k BY <3>3, <3>4 DEF Pressing, Resuming
      <4>2. call'[j] = call[j] BY <3>2, <4>1
      <4>3. CASE Resuming(j)
        BY <2>1, <4>1, <4>2, <4>3 DEF Exclusion, AnsweredOnce
      <4>4. CASE ~Resuming(j)
        <5>1. Answerable(j)' BY <3>4, <4>2, <4>4 DEF Pressing, Resuming
        <5>2. interaction[call[j].task] = "pending"
          BY <1>5, <4>2, <5>1 DEF Answerable, Requeue
        <5>3. QED BY <2>1, <4>2, <5>2 DEF Exclusion, Taken
      <4>5. QED BY <4>3, <4>4
    <3>5. QED BY <3>1, <3>4 DEF Unattended
  <2>6. RowsKept BY <1>5, <2>1, <2>5, WriteKept DEF Requeue
  <2>7. QED BY <1>1, <2>2, <2>3, <2>4, <2>6, Calm
<1>6. CASE FinishCancel(k)
  <2>1. t \in Tasks BY <1>2, <1>6 DEF FinishCancel, Ops
  <2>2. CallsKept BY <1>6, ReturnContinues DEF FinishCancel
  <2>3. QuestionsKept BY <1>6 DEF FinishCancel, QuestionsKept
  <2>4. RowsKept
    BY <1>6, <2>1, WriteKept, SameRows DEF FinishCancel, CloseCancelled, Barring
  <2>5. WorkersKept
    <3>1. CASE call[k].run \in Runs
      <4>1. PICK r \in Runs : r = call[k].run BY <3>1
      <4>2. run'[r] = [run[r] EXCEPT !.kill = TRUE]
            /\ \A q \in Runs : q # r => run'[q] = run[q]
        BY <1>6, <4>1 DEF FinishCancel, TypeOK, RunsOK
      <4>3. Working(r)' => Working(r) /\ run'[r].task = run[r].task
        <5>1. CASE run[r] = Idle BY <4>2, <5>1 DEF Working, Idle
        <5>2. CASE run[r] # Idle BY <4>2, <5>2, KillRun DEF Working, TypeOK
        <5>3. QED BY <5>1, <5>2
      <4>4. QED BY <4>2, <4>3 DEF WorkersKept, Working
    <3>2. CASE call[k].run \notin Runs BY <1>6, <3>2 DEF FinishCancel, WorkersKept, Working
    <3>3. QED BY <3>1, <3>2
  <2>6. QED BY <1>1, <2>2, <2>3, <2>4, <2>5, Calm
<1>7. CASE Delete(k)
  <2>1. CallsKept BY <1>7, ReturnContinues DEF Delete
  <2>2. QuestionsKept BY <1>7 DEF Delete, QuestionsKept
  <2>3. RowsKept BY <1>7 DEF Delete, RowsKept, RowKept, Barring, TypeOK, RowsOK
  <2>4. WorkersKept BY <1>7 DEF Delete, WorkersKept, Working
  <2>5. QED BY <1>1, <2>1, <2>2, <2>3, <2>4, Calm
<1>8. CASE Load(k) \/ Start(k) \/ BeginRefused(k) \/ PrepareFails(k)
  <2>1. call[k] # NoCall /\ t \in Tasks
    BY <1>2, <1>8 DEF Load, Start, BeginRefused, PrepareFails, Ops
  <2>2. CallsKept
    <3>1. CASE Load(k)
      BY <2>1, <3>1, GotoStartContinues, ReturnContinues DEF Load, TypeOK, RowsOK
    <3>2. CASE Start(k) BY <2>1, <3>2, GotoContinues, ReturnContinues DEF Start
    <3>3. CASE BeginRefused(k) BY <3>3, ReturnContinues DEF BeginRefused
    <3>4. CASE PrepareFails(k) BY <3>4, ReturnContinues DEF PrepareFails
    <3>5. QED BY <1>8, <3>1, <3>2, <3>3, <3>4
  <2>3. UNCHANGED <<status, stale, asked, interaction, run>>
    BY <1>8 DEF Load, Start, BeginRefused, PrepareFails
  <2>4. RowsKept /\ QuestionsKept /\ WorkersKept
    BY <2>3, SameRows DEF QuestionsKept, WorkersKept, Working
  <2>5. QED BY <1>1, <2>2, <2>4, Calm
<1>9. CASE Drop(k)
  <2>1. t \in Tasks BY <1>2, <1>9 DEF Drop, Ops
  <2>2. CallsKept BY <1>9, ReturnContinues DEF Drop
  <2>3. QuestionsKept /\ WorkersKept BY <1>9 DEF Drop, QuestionsKept, WorkersKept, Working
  <2>4. RowsKept BY <1>9, <2>1, WriteKept DEF Drop, Barring
  <2>5. QED BY <1>1, <2>2, <2>3, <2>4, Calm
<1>10. CASE Begin(k) BY <1>10, BeginKeeps
<1>11. ASSUME NEW p \in 1..NTasks + 1, Prepare(k, p) PROVE Exclusion'
  <2>1. call[k] # NoCall /\ t \in Tasks /\ call[k] \in Call BY <1>2, <1>11 DEF Prepare, Ops
  <2>2. CallsKept BY <1>11, <2>1, GotoStartContinues DEF Prepare
  <2>3. QuestionsKept BY <1>11 DEF Prepare, QuestionsKept
  <2>4. WorkersKept BY <1>11 DEF Prepare, WorkersKept, Working
  <2>5. PICK u \in Tasks : u = t BY <2>1
  <2>6. Unattended(u)
    <3>1. status[u] = "absent" BY <1>11, <2>5 DEF Prepare
    <3>2. \A r \in Runs : Working(r)' => run'[r].task # u
      BY <2>4, <3>1 DEF WorkersKept, Exclusion, Held, TaskOf
    <3>3. ASSUME NEW j \in Slots, Pressing(j)' PROVE call'[j].task # u
      <4>1. call'[j] # NoCall BY <3>3 DEF Pressing, Resuming, NoCall
      <4>2. CASE Continued(j)
        <5>1. call'[j].task = call[j].task /\ call[j].task \in Tasks
          BY <4>2 DEF Continued, TypeOK, CallsOK, Call
        <5>2. Pressing(j)
          BY <2>3, <3>3, <4>2, <5>1 DEF Pressing, Continued, Answerable, QuestionsKept
        <5>3. QED BY <3>1, <5>1, <5>2 DEF Exclusion, Suspended
      <4>3. CASE Fresh(j) BY <3>1, <3>3, <4>3 DEF Fresh, Pressing, Resuming
      <4>4. QED BY <2>2, <4>1, <4>2, <4>3 DEF CallsKept
    <3>4. QED BY <3>2, <3>3 DEF Unattended
  <2>7. RowsKept
    <3> SUFFICES ASSUME NEW w \in Tasks PROVE RowKept(w)
      BY DEF RowsKept
    <3>1. CASE w = u BY <2>6, <3>1 DEF RowKept
    <3>2. CASE w # u BY <1>11, <2>5, <3>2 DEF Prepare, RowKept, Barring, TypeOK, RowsOK
    <3>3. QED BY <3>1, <3>2
  <2>8. QED BY <1>1, <2>2, <2>3, <2>4, <2>7, Calm
<1>12. CASE VoidQuestion(k)
  <2>1. call[k] # NoCall /\ t \in Tasks BY <1>2, <1>12 DEF VoidQuestion, Ops
  <2>2. CallsKept BY <1>12, <2>1, GotoContinues DEF VoidQuestion
  <2>3. RowsKept BY <1>12, SameRows DEF VoidQuestion
  <2>4. QuestionsKept /\ WorkersKept
    BY <1>12, <2>1 DEF VoidQuestion, QuestionsKept, WorkersKept, Working, TypeOK, RowsOK
  <2>5. QED BY <1>1, <2>2, <2>3, <2>4, Calm
<1>13. QED
  BY <1>3, <1>4, <1>5, <1>6, <1>7, <1>8, <1>9, <1>10, <1>11, <1>12 DEF CallStep

\* The question: only its worker could ask it, and it makes old answers void.
LEMMA QuestionKeeps ==
    ASSUME TypeOK, TypeOK', Exclusion, NEW r \in Runs, CreateInteraction(r)
    PROVE  Exclusion'
<1> USE DEF database, processes
<1>1. run[r] # Idle /\ run[r] \in Coroutine BY RunHere DEF CreateInteraction, TypeOK, Pcs, Trying
<1>2. Working(r) BY DEF CreateInteraction, Here, Working
<1>3. PICK t \in Tasks : t = run[r].task BY <1>1 DEF Coroutine
<1>4. UNCHANGED <<status, stale, node, call>> BY DEF CreateInteraction
<1>5. WorkersKept
  BY <1>1, <1>2, MoveKept DEF CreateInteraction, Pcs, Trying
<1>6. NoShutdown' /\ OneWorker' /\ AnsweredOnce'
  BY <1>4, <1>5 DEF Exclusion, NoShutdown, OneWorker, AnsweredOnce, Resuming, WorkersKept,
     TaskOf
<1>7. Held' BY <1>4, <1>5 DEF Exclusion, Held, WorkersKept, TaskOf
<1>8. \A k \in Slots : Pressing(k) => call[k].task # t
  BY <1>2, <1>3 DEF Exclusion, Suspended, TaskOf
<1>9. asked' = [asked EXCEPT ![t] = asked[t] + 1]
      /\ interaction' = [interaction EXCEPT ![t] = "pending"]
  BY <1>3 DEF CreateInteraction, TaskOf
<1>10. \A u \in Tasks : u # t => asked'[u] = asked[u] /\ interaction'[u] = interaction[u]
  BY <1>9 DEF TypeOK, RowsOK
<1>11. asked'[t] = asked[t] + 1 /\ asked[t] \in Nat BY <1>9 DEF TypeOK, RowsOK
<1>12. \A k \in Slots : call[k] # NoCall =>
         call[k].task \in Tasks /\ call[k].question \in Nat
  BY DEF TypeOK, CallsOK, Call
<1>13. Numbered'
  <2> SUFFICES ASSUME NEW k \in Slots, call[k] # NoCall
               PROVE  call[k].question <= asked'[call[k].task]
    BY <1>4 DEF Numbered
  <2>1. call[k].question <= asked[call[k].task] BY DEF Exclusion, Numbered
  <2>2. QED BY <1>10, <1>11, <1>12, <2>1
<1>14. \A k \in Slots : Pressing(k)' => Pressing(k)
  <2> SUFFICES ASSUME NEW k \in Slots, Pressing(k)', ~Resuming(k) PROVE Pressing(k)
    BY DEF Pressing
  <2>1. /\ call[k].op = "answer" /\ call[k].question = asked'[call[k].task]
        /\ interaction'[call[k].task] = "pending"
    BY <1>4 DEF Pressing, Resuming, Answerable
  <2>2. call[k] # NoCall BY <2>1 DEF NoCall
  <2>3. call[k].question <= asked[call[k].task] BY <2>2 DEF Exclusion, Numbered
  <2>4. call[k].task # t BY <1>11, <1>12, <2>1, <2>2, <2>3
  <2>5. QED BY <1>10, <1>12, <2>1, <2>2, <2>4 DEF Pressing, Answerable
<1>15. Taken'
  <2> SUFFICES ASSUME NEW k \in Slots, Resuming(k)
               PROVE  interaction'[call[k].task] # "pending"
    BY <1>4 DEF Taken, Resuming
  <2>1. call[k].task # t /\ call[k].task \in Tasks
    BY <1>8, PressingTask DEF Pressing, TypeOK
  <2>2. QED BY <1>10, <2>1 DEF Exclusion, Taken
<1>16. Suspended'
  BY <1>4, <1>5, <1>14 DEF Exclusion, Suspended, WorkersKept, TaskOf
<1>17. QED BY <1>6, <1>7, <1>13, <1>15, <1>16 DEF Exclusion

\* The coroutines.
LEMMA RunStepKeeps ==
    ASSUME TypeOK, TypeOK', Exclusion, NEW r \in Runs, RunStep(r)
    PROVE  Exclusion'
<1> USE DEF database, processes, TaskOf
<1>1. NoShutdown'
  BY DEF RunStep, Ends, EmitRefused, CreateInteraction, ShowInteraction, Pause, StreamEnds,
     Raise, Complete, Report, MarkFailed, MarkCancelled, CloseStream, Cleanup, Interrupt,
     Exclusion, NoShutdown
<1>2. CASE CreateInteraction(r) BY <1>2, QuestionKeeps
<1>3. CASE \/ EmitRefused(r) \/ ShowInteraction(r) \/ StreamEnds(r) \/ Raise(r)
           \/ Report(r) \/ CloseStream(r)
  <2>1. run[r] # Idle
    BY <1>3, RunHere DEF EmitRefused, ShowInteraction, StreamEnds, Raise, Report,
       CloseStream, TypeOK, Pcs, Trying, Handling
  <2>2. UNCHANGED <<status, stale, asked, interaction, call>>
    BY <1>3 DEF EmitRefused, ShowInteraction, StreamEnds, Raise, Report, CloseStream
  <2>3. WorkersKept
    BY <1>3, <2>1, MoveKept
       DEF EmitRefused, ShowInteraction, StreamEnds, Raise, Report, CloseStream, Pcs,
       Trying, Handling, Working, Here
  <2>4. RowsKept /\ QuestionsKept /\ CallsKept
    BY <2>2, SameRows DEF QuestionsKept, CallsKept, Continued, Resuming
  <2>5. QED BY <1>1, <2>3, <2>4, Calm
<1>4. CASE Pause(r) \/ Complete(r) \/ MarkFailed(r)
  <2>1. run[r] # Idle /\ run[r] \in Coroutine
    BY <1>4, RunHere DEF Pause, Complete, MarkFailed, TypeOK, Pcs, Trying, Handling
  <2>2. PICK t \in Tasks : t = run[r].task BY <2>1 DEF Coroutine
  <2>3. UNCHANGED <<asked, interaction, call>> BY <1>4 DEF Pause, Complete, MarkFailed
  <2>4. Working(r) BY <1>4 DEF Pause, Complete, MarkFailed, Here, Working
  <2>5. PICK pc \in {"reporting", "closing", "dropping"} : Move(r, pc)
    BY <1>4 DEF Pause, Complete, MarkFailed
  <2>6. WorkersKept BY <2>1, <2>4, <2>5, MoveKept DEF Pcs, Trying, Handling
  <2>7. ~Working(r)'
    <3>1. run'[r] = [run[r] EXCEPT !.pc = pc] BY <2>5 DEF Move, TypeOK, RunsOK
    <3>2. run'[r].pc = pc BY <2>1, <3>1 DEF Coroutine
    <3>3. QED BY <3>2 DEF Working
  <2>8. Unattended(t) BY <2>2, <2>3, <2>4, <2>6, <2>7, Leaves
  <2>9. RowsKept
    BY <1>4, <2>2, <2>8, WriteKept, SameRows DEF Pause, Complete, MarkFailed
  <2>10. QuestionsKept /\ CallsKept
    BY <2>3 DEF QuestionsKept, CallsKept, Continued, Resuming
  <2>11. QED BY <1>1, <2>6, <2>9, <2>10, Calm
<1>5. CASE MarkCancelled(r)
  <2>1. run[r] # Idle /\ run[r].task \in Tasks
    BY <1>5, RunHere DEF MarkCancelled, TypeOK, Pcs, Handling
  <2>2. WorkersKept BY <1>5, <2>1, MoveKept DEF MarkCancelled, Pcs, Handling
  <2>3. RowsKept
    BY <1>5, <2>1, WriteKept, SameRows DEF MarkCancelled, CloseCancelled, Barring
  <2>4. QuestionsKept /\ CallsKept
    BY <1>5 DEF MarkCancelled, QuestionsKept, CallsKept, Continued, Resuming
  <2>5. QED BY <1>1, <2>2, <2>3, <2>4, Calm
<1>6. CASE Cleanup(r)
  <2>1. WorkersKept /\ CallsKept BY <1>6, ExitKept DEF Cleanup
  <2>2. RowsKept /\ QuestionsKept BY <1>6, SameRows DEF Cleanup, QuestionsKept
  <2>3. QED BY <1>1, <2>1, <2>2, Calm
<1>7. CASE Interrupt(r)
  <2>1. RowsKept /\ QuestionsKept BY <1>7, SameRows DEF Interrupt, QuestionsKept
  <2>2. WorkersKept /\ CallsKept
    <3>1. CASE run[r].pc = "cleanup" BY <1>7, <3>1, ExitKept DEF Interrupt
    <3>2. CASE run[r].pc # "cleanup"
      <4> DEFINE pc == IF run[r].pc \in Trying THEN "dropping" ELSE "cleanup"
      <4>1. run' = [run EXCEPT ![r] = [run[r] EXCEPT !.kill = FALSE, !.pc = pc]]
        BY <1>7, <3>2 DEF Interrupt, TypeOK, RunsOK
      <4>2. run[r] # Idle BY <1>7 DEF Interrupt, Live
      <4>3. pc \in Pcs BY DEF Pcs, Handling
      <4>4. run'[r].pc = pc BY <4>1, <4>2, <4>3, InterruptedRun DEF TypeOK, RunsOK
      <4>5. ~Working(r)' BY <4>4 DEF Working
      <4>6. WorkersKept BY <4>1, <4>5 DEF WorkersKept, Working, TypeOK, RunsOK
      <4>7. CallsKept BY <1>7, <3>2 DEF Interrupt, CallsKept, Continued, Resuming
      <4>8. QED BY <4>6, <4>7
    <3>3. QED BY <3>1, <3>2
  <2>3. QED BY <1>1, <2>1, <2>2, Calm
<1>8. QED BY <1>2, <1>3, <1>4, <1>5, <1>6, <1>7 DEF RunStep, Ends

\* The processes, none of which is shut down in order.
LEMMA ProcessKeeps ==
    ASSUME TypeOK, TypeOK', Exclusion, Limit["stops"] = 0, NEW n \in Nodes, Process(n)
    PROVE  Exclusion'
<1> USE DEF database, processes
<1>1. node[n] \in {"up", "down"} BY DEF Exclusion, NoShutdown
<1>2. ~StopWorker(n) BY DEF StopWorker, Spend, TypeOK, Bounds
<1>3. ~Shutdown(n) BY <1>1 DEF Shutdown, WorkerStopped, HandOver, CancelRuns, Exited
<1>4. CASE Recover(n)
  <2>1. NoShutdown' /\ WorkersKept /\ CallsKept /\ QuestionsKept
    BY <1>4 DEF Recover, Exclusion, NoShutdown, WorkersKept, Working, CallsKept, Continued,
       Resuming, QuestionsKept
  <2>2. RowsKept
    <3> SUFFICES ASSUME NEW t \in Tasks PROVE RowKept(t)
      BY DEF RowsKept
    <3>1. CASE ~(stale[t] /\ status[t] \in Expiring)
      BY <1>4, <3>1 DEF Recover, RowKept, TypeOK, RowsOK
    <3>2. CASE stale[t] /\ status[t] = "cancel_requested"
      BY <1>4, <3>2 DEF Recover, RowKept, Barring, Expiring
    <3>3. CASE stale[t] /\ status[t] = "running"
      <4>1. \A r \in Runs : Working(r) => run[r].task # t
        BY <3>3 DEF Exclusion, Held, TaskOf
      <4>2. \A k \in Slots : Pressing(k) => call[k].task # t
        BY <3>3 DEF Exclusion, Suspended
      <4>3. UNCHANGED <<run, call, asked, interaction>> BY <1>4 DEF Recover
      <4>4. Unattended(t)
        BY <4>1, <4>2, <4>3 DEF Unattended, Working, Pressing, Resuming, Answerable
      <4>5. QED BY <4>4 DEF RowKept
    <3>4. QED BY <3>1, <3>2, <3>3 DEF Expiring
  <2>3. QED BY <2>1, <2>2, Calm
<1>5. ASSUME NEW t \in Tasks, Poll(n, t) PROVE Exclusion'
  <2>0. 0 \in 0..NTasks BY ChatTaskAssumption
  <2>1. CallsKept BY <1>5, <2>0, AcceptFresh DEF Poll
  <2>2. RowsKept /\ QuestionsKept /\ WorkersKept /\ NoShutdown'
    BY <1>5, SameRows
       DEF Poll, QuestionsKept, WorkersKept, Working, Exclusion, NoShutdown
  <2>3. QED BY <2>1, <2>2, Calm
<1>6. CASE Crash(n)
  <2>1. WorkersKept /\ CallsKept BY <1>6, VanishKept DEF Crash
  <2>2. RowsKept /\ QuestionsKept BY <1>6, SameRows DEF Crash, QuestionsKept
  <2>3. NoShutdown' BY <1>6 DEF Crash, Vanish, Exclusion, NoShutdown, TypeOK, NodesOK
  <2>4. QED BY <2>1, <2>2, <2>3, Calm
<1>7. CASE Restart(n)
  <2>1. RowsKept /\ QuestionsKept /\ WorkersKept /\ CallsKept
    BY <1>7, SameRows
       DEF Restart, QuestionsKept, WorkersKept, Working, CallsKept, Continued, Resuming
  <2>2. NoShutdown' BY <1>7 DEF Restart, Exclusion, NoShutdown, TypeOK, NodesOK
  <2>3. QED BY <2>1, <2>2, Calm
<1>8. QED BY <1>2, <1>3, <1>4, <1>5, <1>6, <1>7 DEF Process

\* The two minutes: a row somebody works on is refreshed.
LEMMA LapseKeeps ==
    ASSUME TypeOK, TypeOK', Exclusion, NEW t \in Tasks, Lapse(t)
    PROVE  Exclusion'
<1> USE DEF database, processes
<1>1. NoShutdown' /\ WorkersKept /\ CallsKept /\ QuestionsKept
  BY DEF Lapse, Exclusion, NoShutdown, WorkersKept, Working, CallsKept, Continued, Resuming,
     QuestionsKept
<1>2. status[t] = "running" => \A r \in Runs : Working(r) => run[r].task # t
  BY DEF Lapse, Working, Live, Idle, TaskOf
<1>3. RowsKept BY <1>2 DEF Lapse, RowsKept, RowKept, TypeOK, RowsOK
<1>4. QED BY <1>1, <1>3, Calm

-----------------------------------------------------------------------------
\* Without orderly shutdowns, whatever is claimed, asked, answered, cancelled,
\* superseded, deleted or taken over: who works on a task holds a status that
\* nobody claims, and an answer that is not yet requeued bars claims as well.
THEOREM ExclusionHolds ==
    ASSUME Limit["stops"] = 0
    PROVE  Spec => []Exclusion
<1>1. Init => Exclusion
  BY DEF Init, Exclusion, NoShutdown, OneWorker, AnsweredOnce, Held, Suspended, Taken,
     Numbered, Working, Resuming, Pressing, Idle, NoCall
<1>2. TypeOK /\ TypeOK' /\ Exclusion /\ [Next]_vars => Exclusion'
  BY StutterKeeps, ApiKeeps, ProcessKeeps, CallStepKeeps, RunStepKeeps, LapseKeeps DEF Next
<1>3. QED BY <1>1, <1>2, TypeCorrect, PTL DEF Spec

(***************************************************************************)
(* Without orderly shutdowns, at every moment one coroutine at most works   *)
(* on a task and one user at most has answered its question and not yet     *)
(* requeued it: the claims of ChatStore.begin_task, the heartbeat of _run   *)
(* and the conditional update of answer_interaction suffice for that.       *)
(***************************************************************************)
THEOREM ExclusiveWork ==
    ASSUME Limit["stops"] = 0
    PROVE  Spec => [](OneWorker /\ AnsweredOnce)
<1>1. Exclusion => OneWorker /\ AnsweredOnce BY DEF Exclusion
<1>2. QED BY <1>1, ExclusionHolds, PTL

\* Without orderly shutdowns, of two answers to one question, sent at once or
\* again, on one node or on two, one resumes the task.
COROLLARY AnsweredOnceHolds ==
    ASSUME Limit["stops"] = 0
    PROVE  Spec => []AnsweredOnce
BY ExclusiveWork, PTL

\* No step rewrites the outcome of a task, but for a late drop or superseding,
\* or a deletion.
LEMMA StepConcludes ==
    ASSUME TypeOK, Exclusion, Limit["stops"] = 0, [Next]_vars, NEW t \in Tasks,
           status[t] \in {"completed", "failed"}
    PROVE  status'[t] \in {status[t], "cancelled", "superseded", "deleted"}
<1> DEFINE Goal == status'[t] \in {status[t], "cancelled", "superseded", "deleted"}
<1> USE DEF database, processes, TaskOf, TypeOK, RowsOK
<1>1. CASE UNCHANGED vars BY <1>1 DEF vars
<1>2. ASSUME NEW n \in Nodes, Api(n) PROVE Goal
  BY <1>2 DEF Api, SendAgain, Send, Respond, RequestCancel, DeleteCheck, Write, Active,
     NewestActive
<1>3. ASSUME NEW k \in Slots, CallStep(k) PROVE Goal
  <2>1. CASE Requeue(k)
    <3>1. Resuming(k) BY <2>1 DEF Requeue, At, Resuming
    <3>2. call[k].task # t BY <3>1 DEF Exclusion, Suspended, Pressing
    <3>3. QED BY <2>1, <3>2 DEF Requeue, Overwrite, Write
  <2>2. CASE FinishCancel(k) BY <2>2 DEF FinishCancel, CloseCancelled, Write
  <2>3. CASE Delete(k) BY <2>3 DEF Delete
  <2>4. CASE Drop(k) BY <2>4 DEF Drop, Overwrite, Write
  <2>5. CASE Begin(k) BY <2>5 DEF Begin, Runnable, Write
  <2>6. CASE \/ Answer(k) \/ StoreAnswer(k) \/ Load(k) \/ Start(k) \/ BeginRefused(k)
             \/ PrepareFails(k) \/ VoidQuestion(k)
    BY <2>6 DEF Answer, StoreAnswer, Load, Start, BeginRefused, PrepareFails, VoidQuestion
  <2>7. ASSUME NEW p \in 1..NTasks + 1, Prepare(k, p) PROVE Goal
    BY <2>7 DEF Prepare
  <2>8. QED BY <1>3, <2>1, <2>2, <2>3, <2>4, <2>5, <2>6, <2>7 DEF CallStep
<1>4. ASSUME NEW r \in Runs, RunStep(r) PROVE Goal
  <2>1. CASE Pause(r) \/ MarkFailed(r) \/ Complete(r)
    <3>1. Working(r) BY <2>1 DEF Pause, MarkFailed, Complete, Here, Working
    <3>2. run[r].task # t BY <3>1 DEF Exclusion, Held
    <3>3. QED BY <2>1, <3>2 DEF Pause, MarkFailed, Complete, Overwrite, Write
  <2>2. CASE MarkCancelled(r) BY <2>2 DEF MarkCancelled, CloseCancelled, Write
  <2>3. CASE \/ EmitRefused(r) \/ CreateInteraction(r) \/ ShowInteraction(r) \/ Ends(r)
             \/ Report(r) \/ CloseStream(r) \/ Cleanup(r) \/ Interrupt(r)
    BY <2>3 DEF EmitRefused, CreateInteraction, ShowInteraction, Ends, StreamEnds, Raise,
       Report, CloseStream, Cleanup, Interrupt
  <2>4. QED BY <1>4, <2>1, <2>2, <2>3 DEF RunStep
<1>5. ASSUME NEW n \in Nodes, Process(n) PROVE Goal
  <2>1. node[n] \in {"up", "down"} BY DEF Exclusion, NoShutdown
  <2>2. ~Shutdown(n) BY <2>1 DEF Shutdown, WorkerStopped, HandOver, CancelRuns, Exited
  <2>3. QED BY <1>5, <2>2 DEF Process, Recover, Expiring, Crash, Restart, StopWorker, Poll
<1>6. ASSUME NEW u \in Tasks, Lapse(u) PROVE Goal BY <1>6 DEF Lapse
<1>7. QED BY <1>1, <1>2, <1>3, <1>4, <1>5, <1>6 DEF Next

(***************************************************************************)
(* Without orderly shutdowns a task that completed or failed is never run,  *)
(* paused or requeued again: no claim, retry, late answer or takeover       *)
(* rewrites the outcome the user saw.                                       *)
(***************************************************************************)
THEOREM OutcomesStay ==
    ASSUME Limit["stops"] = 0
    PROVE  Spec => ConcludedStays
<1> DEFINE Stays == \A t \in Tasks : status[t] \in {"completed", "failed"} =>
                      status'[t] \in {status[t], "cancelled", "superseded", "deleted"}
<1>1. TypeOK /\ Exclusion /\ [Next]_vars => [Stays]_vars BY StepConcludes
<1>2. QED BY <1>1, ExclusionHolds, TypeCorrect, PTL DEF Spec, ConcludedStays

\* A task completes in the last statement of its own coroutine, which asks for a
\* status that no accepted cancellation leaves.
LEMMA StepCompletes ==
    ASSUME TypeOK, [Next]_vars, NEW t \in Tasks, status[t] = "cancel_requested"
    PROVE  status'[t] # "completed"
<1> DEFINE Goal == status'[t] # "completed"
<1> USE DEF database, processes, TaskOf, TypeOK, RowsOK
<1>1. CASE UNCHANGED vars BY <1>1 DEF vars
<1>2. ASSUME NEW n \in Nodes, Api(n) PROVE Goal
  BY <1>2 DEF Api, SendAgain, Send, Respond, RequestCancel, DeleteCheck, Write, Active,
     NewestActive
<1>3. ASSUME NEW k \in Slots, CallStep(k) PROVE Goal
  <2>1. CASE Requeue(k) BY <2>1 DEF Requeue, Overwrite, Write
  <2>2. CASE FinishCancel(k) BY <2>2 DEF FinishCancel, CloseCancelled, Write
  <2>3. CASE Delete(k) BY <2>3 DEF Delete
  <2>4. CASE Drop(k) BY <2>4 DEF Drop, Overwrite, Write
  <2>5. CASE Begin(k) BY <2>5 DEF Begin, Runnable, Write
  <2>6. CASE \/ Answer(k) \/ StoreAnswer(k) \/ Load(k) \/ Start(k) \/ BeginRefused(k)
             \/ PrepareFails(k) \/ VoidQuestion(k)
    BY <2>6 DEF Answer, StoreAnswer, Load, Start, BeginRefused, PrepareFails, VoidQuestion
  <2>7. ASSUME NEW p \in 1..NTasks + 1, Prepare(k, p) PROVE Goal
    BY <2>7 DEF Prepare
  <2>8. QED BY <1>3, <2>1, <2>2, <2>3, <2>4, <2>5, <2>6, <2>7 DEF CallStep
<1>4. ASSUME NEW r \in Runs, RunStep(r) PROVE Goal
  <2>1. CASE Complete(r) BY <2>1 DEF Complete, Completable, Write
  <2>2. CASE Pause(r) \/ MarkFailed(r) BY <2>2 DEF Pause, MarkFailed, Overwrite, Write
  <2>3. CASE MarkCancelled(r) BY <2>3 DEF MarkCancelled, CloseCancelled, Write
  <2>4. CASE \/ EmitRefused(r) \/ CreateInteraction(r) \/ ShowInteraction(r) \/ Ends(r)
             \/ Report(r) \/ CloseStream(r) \/ Cleanup(r) \/ Interrupt(r)
    BY <2>4 DEF EmitRefused, CreateInteraction, ShowInteraction, Ends, StreamEnds, Raise,
       Report, CloseStream, Cleanup, Interrupt
  <2>5. QED BY <1>4, <2>1, <2>2, <2>3, <2>4 DEF RunStep
<1>5. ASSUME NEW n \in Nodes, Process(n) PROVE Goal
  <2>1. CASE Shutdown(n)
    BY <2>1 DEF Shutdown, WorkerStopped, HandOver, CancelRuns, Exited, Overwrite, Write
  <2>2. QED BY <1>5, <2>1 DEF Process, Recover, Expiring, Crash, Restart, StopWorker, Poll
<1>6. ASSUME NEW u \in Tasks, Lapse(u) PROVE Goal BY <1>6 DEF Lapse
<1>7. QED BY <1>1, <1>2, <1>3, <1>4, <1>5, <1>6 DEF Next

\* Orderly shutdowns included: a task whose cancellation was accepted does not
\* complete, however late its worker finishes and whoever takes it over.
THEOREM CancelNotCompletedHolds == Spec => CancelNotCompleted
<1> DEFINE Stays == \A t \in Tasks : status[t] = "cancel_requested" => status'[t] # "completed"
<1>1. TypeOK /\ [Next]_vars => [Stays]_vars BY StepCompletes
<1>2. QED BY <1>1, TypeCorrect, PTL DEF Spec, CancelNotCompleted

-----------------------------------------------------------------------------
(***************************************************************************)
(* The agent that a task runs (AgentLoop): what it changes was approved,    *)
(* and happens once, whatever crashes and resumptions happen.  The main     *)
(* thing is where the thread is relative to its checkpoint when an answer   *)
(* is consumed: at it.  So an answer goes to the call that was shown, or,   *)
(* after a crash, to the first open call of the checkpoint, which is not    *)
(* shown again.                                                            *)
(***************************************************************************)
HIDE ChatTaskAssumption DEF Tasks, Bounds, database, processes

CONSTANTS InputLimit, RecoveryFloor, Spare, Envelope, ToolTokens,
    Histories, Menu, MaxSteps, MaxCalls, NeedsTools, Sizes, MaxTroubles
VARIABLES thread, saved, process, given, question, answer, verdicts, finished, effects, sent, troubles
Agent == INSTANCE AgentLoop WITH used <- troubles

(***************************************************************************)
(* What the interrupts of a node are about, in the thread and in its        *)
(* checkpoint.                                                             *)
(***************************************************************************)
CallsIn(t) == t.messages[Len(t.messages)].calls
WritesIn(t) == {c \in CallsIn(t) : c.n <= Agent!Max({0, MaxCalls - t.events}) /\ Agent!RequiresConfirmation(c.kind)}
OpenIn(t) == WritesIn(t) \ DOMAIN t.replies
Crashes == troubles["crashes"]

Fields(t) ==
    t = [node |-> t.node, messages |-> t.messages, step |-> t.step, events |-> t.events,
         evidence |-> t.evidence, candidate |-> t.candidate, replies |-> t.replies]
ThreadOK(t) ==
    /\ Fields(t)
    /\ t.node \in {"decide", "tools", "judge", "end"}
    /\ t.step \in Nat
    /\ t.messages \in Seq({t.messages[i] : i \in DOMAIN t.messages})
    /\ \A c \in DOMAIN t.replies : t.replies[c] \in BOOLEAN
\* The calls of a decision are its own, and in an order.
DecisionOK(t) ==
    t.node = "tools" =>
        /\ \A c \in CallsIn(t) :
              c.step = t.step /\ c.life \in 0..Crashes /\ c.n \in Nat /\ c.kind \in Agent!Kinds
        /\ \A c, d \in CallsIn(t) : c.n = d.n => c = d
        /\ IsFiniteSet(CallsIn(t))
Threads ==
    /\ ThreadOK(thread) /\ ThreadOK(saved) /\ saved.step <= thread.step
    /\ DecisionOK(thread) /\ DecisionOK(saved)
Within(t) ==
    /\ t.node = "decide" => t.step < MaxSteps
    /\ t.node = "tools" => t.step < MaxSteps
    /\ t.step <= MaxSteps
ProcessOK ==
    /\ process \in {"running", "interrupted", "waiting", "lost", "ended"}
    /\ given \in {"none", "approve", "reject"} /\ answer \in {"none", "approve", "reject"}
    /\ troubles \in [Agent!Troubles -> Nat]
    /\ process = "running" /\ given # "none" => given = answer
\* When an answer is to be consumed, the thread is at its checkpoint.
Synced ==
    /\ process \in {"interrupted", "waiting", "lost"} => saved = thread
    /\ process = "running" /\ given # "none" => saved = thread
    /\ process \in {"interrupted", "waiting"} => thread.node = "tools" /\ OpenIn(thread) # {} /\ given = "none"
    /\ process = "waiting" => question = Agent!First(OpenIn(thread))
\* No call has a verdict or an effect before it was made.
Known ==
    \A c \in DOMAIN effects \cup DOMAIN verdicts :
        /\ c.life \in 0..Crashes /\ c.step \in Nat /\ c.kind \in Agent!Kinds
        /\ Agent!RequiresConfirmation(c.kind)
        /\ c.life = Crashes => c.step <= thread.step
Replied(t) == \A c \in DOMAIN t.replies \cap DOMAIN verdicts : t.replies[c] <=> verdicts[c] = "approve"
InTurn(t) ==
    t.node = "tools" =>
        \A c \in DOMAIN verdicts \cap WritesIn(t), d \in WritesIn(t) : d.n < c.n => d \in DOMAIN t.replies
NotAskedTwice ==
    process \in {"running", "interrupted", "waiting"} /\ given = "none" /\ thread.node = "tools" =>
        OpenIn(thread) \cap DOMAIN verdicts = {}
NextAnswer ==
    LET next == Agent!First(OpenIn(saved))
    IN saved.node = "tools" /\ OpenIn(saved) # {} /\ next \in DOMAIN verdicts => verdicts[next] = answer
Answering == Replied(thread) /\ Replied(saved) /\ InTurn(thread) /\ InTurn(saved) /\ NotAskedTwice /\ NextAnswer
AtMostOne(S) == \A c, d \in S : c = d
Ahead ==
    thread.node = "tools" /\ saved.node = "tools" /\ WritesIn(thread) \cap WritesIn(saved) # {} =>
        WritesIn(thread) = WritesIn(saved) /\ AtMostOne(OpenIn(saved) \ OpenIn(thread))
TakenUp ==
    /\ /\ process \in {"running", "interrupted", "waiting"} /\ thread.node = "tools"
       /\ OpenIn(thread) # {} /\ WritesIn(thread) \cap DOMAIN effects # {}
       => process = "running" /\ given # "none"
    /\ saved.node = "tools" /\ WritesIn(saved) \cap DOMAIN effects # {} => AtMostOne(OpenIn(saved))
Heeded == \A c \in DOMAIN effects \cap DOMAIN verdicts : verdicts[c] = "approve"
Told ==
    Crashes = 0 =>
        /\ process # "lost"
        /\ DOMAIN thread.replies \subseteq DOMAIN verdicts
        /\ process = "running" /\ given # "none" =>
              thread.node = "tools" /\ OpenIn(thread) # {} /\ Agent!First(OpenIn(thread)) \in DOMAIN verdicts
        /\ DOMAIN effects \subseteq DOMAIN verdicts
Consenting == Threads /\ ProcessOK /\ Synced /\ Known /\ Answering /\ Ahead /\ TakenUp /\ Heeded /\ Told
Again(c) == IF thread.node = "tools" /\ c \in WritesIn(thread) \ finished THEN 1 ELSE 0
Counted ==
    \A c \in DOMAIN effects :
        /\ effects[c] \in Nat
        /\ c.kind = "keyed" => effects[c] = 1
        /\ c.kind # "keyed" =>
              effects[c] + Again(c) <= 1 + Crashes + (IF c.kind = "set" THEN troubles["failures"] ELSE 0)

(***************************************************************************)
(* Calls and observations in a list of messages, by their steps: what is    *)
(* asked for last belongs to this step, and all the rest to earlier ones,   *)
(* so that an observation answers one call only.                            *)
(***************************************************************************)
Latest(t, i) == t.node = "tools" /\ i = Len(t.messages)
Timely(t, i, step) == step \in Nat /\ step <= t.step /\ (t.node = "tools" => Latest(t, i) \/ step < t.step)
ObservedOnce(messages, i, c) ==
    \E k \in Nat : {j \in Agent!Answers(messages, i) : messages[j].answers = c} = {k}
CallsNumbered(t) ==
    /\ t.messages # <<>> /\ t.messages[Len(t.messages)].role = "assistant"
    /\ \A n \in 1..Cardinality(CallsIn(t)) : \E c \in CallsIn(t) : c.n = n
    /\ \A c \in CallsIn(t) : c.n \in 1..Cardinality(CallsIn(t))
Paired(t) ==
    /\ \A i \in DOMAIN t.messages : \A c \in t.messages[i].calls :
          Timely(t, i, c.step) /\ (Latest(t, i) \/ ObservedOnce(t.messages, i, c))
    /\ \A i \in DOMAIN t.messages : t.messages[i].role = "tool" =>
          Timely(t, i, t.messages[i].answers.step)
    /\ t.node = "tools" => CallsNumbered(t)
Pairing == Paired(thread) /\ Paired(saved)

-----------------------------------------------------------------------------
\* A set of numbers has a least one.
LEMMA Least ==
    ASSUME NEW S, S \subseteq Nat, S # {}
    PROVE  \E x \in S : \A y \in S : x <= y
<1>1. PICK x \in S : \A y \in S : ~ (<<y, x>> \in OpToRel(<, Nat))
  BY NatLessThanWellFounded, WFMin
<1>2. ASSUME NEW y \in S PROVE x <= y
  <2>1. ~ (<<y, x>> \in OpToRel(<, Nat)) BY <1>1
  <2>2. ~ (y < x) BY <2>1 DEF OpToRel
  <2>3. QED BY <2>2
<1>3. QED BY <1>2

\* The first of some calls is one of them, and before the others.
LEMMA FirstIs ==
    ASSUME NEW S, S # {}, \A c \in S : c.n \in Nat
    PROVE  Agent!First(S) \in S /\ \A d \in S : Agent!First(S).n <= d.n
<1> DEFINE numbers == {c.n : c \in S}
<1>1. PICK x \in numbers : \A y \in numbers : x <= y
  <2>1. numbers \subseteq Nat /\ numbers # {} OBVIOUS
  <2>2. QED BY <2>1, Least
<1>2. PICK c \in S : c.n = x OBVIOUS
<1>3. \A d \in S : c.n <= d.n BY <1>1, <1>2
<1>4. QED BY <1>3 DEF Agent!First

\* A sequence is one of its own elements.
LEMMA SelfRange ==
    ASSUME NEW S, NEW s \in Seq(S)
    PROVE  s \in Seq({s[i] : i \in DOMAIN s})
OBVIOUS

\* What is appended to a sequence is the last of a sequence.
LEMMA AppendIs ==
    ASSUME NEW s, s \in Seq({s[i] : i \in DOMAIN s}), NEW e, NEW t, t = Append(s, e)
    PROVE  /\ t \in Seq({t[i] : i \in DOMAIN t})
           /\ t[Len(t)] = e
<1> DEFINE S == {s[i] : i \in DOMAIN s} \cup {e}
<1>1. s \in Seq(S) OBVIOUS
<1>2. t \in Seq(S) /\ t[Len(t)] = e BY <1>1, AppendProperties
<1>3. QED BY <1>2
LEMMA ConcatIs ==
    ASSUME NEW s, s \in Seq({s[i] : i \in DOMAIN s}), NEW r, r \in Seq({r[i] : i \in DOMAIN r}),
           NEW t, t = s \o r
    PROVE  t \in Seq({t[i] : i \in DOMAIN t})
<1> DEFINE S == {s[i] : i \in DOMAIN s} \cup {r[i] : i \in DOMAIN r}
<1>1. s \in Seq(S) /\ r \in Seq(S) OBVIOUS
<1>2. t \in Seq(S) BY <1>1, ConcatProperties
<1> HIDE DEF S
<1>3. QED BY ONLY <1>2, SelfRange

\* The instance counts as the module does.
LEMMA SameCount == ASSUME NEW S PROVE Agent!Cardinality(S) = Cardinality(S)
BY DEF Agent!Cardinality, Cardinality
LEMMA SameFinite == ASSUME NEW S PROVE Agent!IsFiniteSet(S) <=> IsFiniteSet(S)
BY DEF Agent!IsFiniteSet, IsFiniteSet

\* A set of numbers up to a bound has a greatest one.
LEMMA Greatest ==
    ASSUME NEW N \in Nat, NEW S, S \subseteq 1..N, S # {}
    PROVE  \E x \in S : \A y \in S : y <= x
<1> DEFINE away == {N - i : i \in S}
<1>1. away \subseteq Nat /\ away # {}
  <2>1. \A i \in S : i \in 1..N OBVIOUS
  <2>2. \A i \in S : N - i \in Nat BY <2>1
  <2>3. QED BY <2>2
<1>2. PICK d \in away : \A e \in away : d <= e BY <1>1, Least
<1>3. PICK x \in S : d = N - x BY <1>2
<1>4. ASSUME NEW y \in S PROVE y <= x
  <2>1. N - y \in away OBVIOUS
  <2>2. d <= N - y BY <1>2, <2>1
  <2>3. x \in Nat /\ y \in Nat OBVIOUS
  <2>4. QED BY <1>3, <2>2, <2>3
<1>5. QED BY <1>4

\* A set of indices has an n-th one.
LEMMA NthIs ==
    ASSUME NEW N \in Nat, NEW S, S \subseteq 1..N, NEW n \in 1..Cardinality(S)
    PROVE  Agent!Nth(S, n) \in S
<1> DEFINE Upto(i) == {k \in S : k <= i}
<1>1. IsFiniteSet(S) /\ Cardinality(S) \in Nat
  <2>1. IsFiniteSet(1..N) BY FS_Interval
  <2>2. QED BY <2>1, FS_Subset, FS_CardinalityType
<1>2. S # {} BY FS_EmptySet, <1>1
<1>3. PICK g \in S : \A y \in S : y <= g BY <1>2, Greatest
<1>4. \A i : IsFiniteSet(Upto(i)) /\ Cardinality(Upto(i)) \in Nat
  <2> SUFFICES ASSUME NEW i PROVE IsFiniteSet(Upto(i)) /\ Cardinality(Upto(i)) \in Nat OBVIOUS
  <2>1. Upto(i) \in SUBSET S OBVIOUS
  <2> HIDE DEF Upto
  <2>2. QED BY <1>1, <2>1, FS_Subset, FS_CardinalityType
<1> DEFINE enough == {i \in S : Cardinality(Upto(i)) >= n}
<1>5. g \in enough
  <2>1. Upto(g) = S BY <1>3
  <2>2. QED BY <1>1, <2>1
<1>6. PICK x \in enough : \A y \in enough : x <= y
  <2>1. enough # {} BY <1>5
  <2>2. enough \subseteq S /\ S \subseteq Nat OBVIOUS
  <2> HIDE DEF enough
  <2>3. QED BY <2>1, <2>2, Least
<1>7. x \in S /\ x \in Upto(x) BY <1>6
<1> DEFINE before == Upto(x) \ {x}
<1>8. Cardinality(before) = Cardinality(Upto(x)) - 1 BY <1>4, <1>7, FS_RemoveElement
<1>9. Cardinality(Upto(x)) = n
  <2>1. Cardinality(Upto(x)) >= n BY <1>6
  <2>2. CASE before = {}
    <3>1. Cardinality(before) = 0 BY <2>2, FS_EmptySet
    <3> HIDE DEF before, Upto
    <3>2. Cardinality(Upto(x)) = 1 BY <1>4, <1>8, <3>1
    <3>3. QED BY <2>1, <3>2
  <2>3. CASE before # {}
    <3>1. before \subseteq 1..N OBVIOUS
    <3>2. PICK y \in before : \A z \in before : z <= y BY <2>3, <3>1, Greatest
    <3>3. y \in S /\ y < x BY <3>2, <1>7
    <3>4. Upto(y) = before
      <4>1. ASSUME NEW k \in S, k <= y PROVE k <= x /\ k # x BY <3>3, <4>1
      <4>2. ASSUME NEW k \in S, k <= x, k # x PROVE k <= y BY <3>2, <4>2
      <4>3. QED BY <4>1, <4>2
    <3>5. y \notin enough BY <1>6, <1>7, <3>3
    <3>6. Cardinality(Upto(y)) < n BY <1>4, <3>3, <3>5
    <3>7. QED BY <1>4, <1>8, <2>1, <3>4, <3>6
  <2>4. QED BY <2>2, <2>3
<1>10. \E i \in S : Agent!Cardinality({k \in S : k <= i}) = n BY <1>7, <1>9, SameCount
<1>11. QED BY <1>10 DEF Agent!Nth

Listed(t) == t \in Seq({t[i] : i \in DOMAIN t})
TakenFrom(t, history) == \A i \in DOMAIN t : \E k \in DOMAIN history : t[i] = history[k]
\* What a run takes over from the conversation is a sequence, of its messages.
LEMMA HistoryIs ==
    ASSUME NEW S, NEW history \in Seq(S), NEW opening, NEW limit,
           NEW t, t = Agent!History(history, opening, limit)
    PROVE  Listed(t) /\ TakenFrom(t, history)
<1> DEFINE pending == {i \in DOMAIN history : history[i].pending}
           room == Agent!Counted(opening, DOMAIN opening) + Agent!Costs(history, pending)
           Since(i) == (i..Len(history)) \ pending
           fitting == {i \in Agent!TurnStarts(history) : room + Agent!Costs(history, Since(i)) <= limit}
           kept == pending \cup UNION {Since(i) : i \in fitting}
           item == [n \in 1..Agent!Cardinality(kept) |-> history[Agent!Nth(kept, n)]]
<1>1. t = item BY DEF Agent!History
<1>2. DOMAIN history = 1..Len(history) /\ Len(history) \in Nat OBVIOUS
<1>3. \A i \in fitting : i \in Nat /\ 1 <= i BY <1>2 DEF Agent!TurnStarts, Agent!Indices
<1>4. kept \subseteq 1..Len(history)
  <2> HIDE DEF fitting
  <2>1. pending \subseteq 1..Len(history) BY <1>2
  <2>2. \A i \in fitting : Since(i) \subseteq 1..Len(history) BY <1>2, <1>3
  <2>3. QED BY <2>1, <2>2
<1>5. Agent!Cardinality(kept) \in Nat
  <2>1. IsFiniteSet(1..Len(history)) BY <1>2, FS_Interval
  <2>2. QED BY <2>1, <1>4, FS_Subset, FS_CardinalityType, SameCount
<1> HIDE DEF kept
<1>6. item \in Seq({item[i] : i \in DOMAIN item}) BY <1>5
<1>7. ASSUME NEW n \in DOMAIN item PROVE \E k \in DOMAIN history : item[n] = history[k]
  <2>1. n \in 1..Cardinality(kept) BY SameCount
  <2>2. Agent!Nth(kept, n) \in kept BY <1>2, <1>4, <2>1, NthIs
  <2>3. QED BY <1>2, <1>4, <2>2
<1> HIDE DEF item
<1>8. QED BY <1>1, <1>6, <1>7 DEF TakenFrom, Listed

\* The calls of the thread are those of its last message.
LEMMA CallsOfTheThread ==
    /\ Agent!Requested = CallsIn(thread)
    /\ Agent!Writes = WritesIn(thread)
    /\ Agent!Unanswered = OpenIn(thread)
BY DEF Agent!Requested, Agent!Writes, Agent!Accepted, Agent!Remaining, Agent!Unanswered, Agent!Last,
       CallsIn, WritesIn, OpenIn

\* Of some calls in an order, the first comes before the others.
LEMMA FirstBefore ==
    ASSUME NEW S, S # {}, \A c \in S : c.n \in Nat, \A c, d \in S : c.n = d.n => c = d
    PROVE  /\ Agent!First(S) \in S
           /\ \A d \in S \ {Agent!First(S)} : Agent!First(S).n < d.n
<1>1. Agent!First(S) \in S /\ \A d \in S : Agent!First(S).n <= d.n BY FirstIs
<1>2. QED BY <1>1

\* Steps that leave the thread, its checkpoint, and what was said and done.
LEMMA Undisturbed ==
    ASSUME Consenting, Counted, thread' = thread, saved' = saved, verdicts' = verdicts, effects' = effects,
           given' = given, answer' = answer, question' = question, process' \in {process, "ended"},
           troubles' \in [Agent!Troubles -> Nat], Crashes' = Crashes,
           troubles'["failures"] >= troubles["failures"], finished \subseteq finished'
    PROVE  Consenting' /\ Counted'
<1> USE DEF Consenting
<1>1. Threads' BY DEF Threads, ThreadOK, Fields, DecisionOK, CallsIn
<1>2. ProcessOK' BY DEF ProcessOK
<1>3. Synced' BY DEF Synced, OpenIn, WritesIn, CallsIn
<1>4. Known' BY DEF Known
<1>5. Answering' BY DEF Answering, Replied, InTurn, NotAskedTwice, NextAnswer, OpenIn, WritesIn, CallsIn
<1>6. Ahead'
  <2>1. /\ WritesIn(thread)' = WritesIn(thread) /\ WritesIn(saved)' = WritesIn(saved)
        /\ OpenIn(thread)' = OpenIn(thread) /\ OpenIn(saved)' = OpenIn(saved)
    BY DEF OpenIn, WritesIn, CallsIn
  <2>2. QED BY <2>1 DEF Ahead, AtMostOne
<1>7. TakenUp' BY DEF TakenUp, AtMostOne, OpenIn, WritesIn, CallsIn
<1>8. Heeded' BY DEF Heeded
<1>9. Told' BY DEF Told, OpenIn, WritesIn, CallsIn
<1>10. Counted'
  <2> SUFFICES ASSUME NEW c \in DOMAIN effects
               PROVE  /\ effects[c] \in Nat
                      /\ c.kind = "keyed" => effects[c] = 1
                      /\ c.kind # "keyed" =>
                            effects[c] + Again(c)' <= 1 + Crashes' + (IF c.kind = "set" THEN troubles'["failures"] ELSE 0)
    BY DEF Counted
  <2>1. Again(c) \in Nat /\ Again(c)' \in Nat /\ Again(c)' <= Again(c) BY DEF Again, WritesIn, CallsIn
  <2>2. Crashes \in Nat /\ troubles["failures"] \in Nat /\ troubles'["failures"] \in Nat
    BY DEF ProcessOK, Crashes, Agent!Troubles
  <2>3. QED BY <2>1, <2>2 DEF Counted
<1>11. QED BY <1>1, <1>2, <1>3, <1>4, <1>5, <1>6, <1>7, <1>8, <1>9, <1>10

\* A node is done: the next one is another decision's, or none.
LEMMA Committed ==
    ASSUME Consenting, Counted, process = "running", process' = process,
           ThreadOK(thread'), thread'.replies = <<>>, thread'.step >= thread.step,
           thread'.node = "tools" =>
               /\ thread'.step = thread.step + 1
               /\ \A c \in CallsIn(thread') :
                     c.step = thread'.step /\ c.life = Crashes /\ c.n \in Nat /\ c.kind \in Agent!Kinds
               /\ \A c, d \in CallsIn(thread') : c.n = d.n => c = d
               /\ IsFiniteSet(CallsIn(thread')),
           saved' \in {saved, thread'}, given' = "none", finished' = {},
           verdicts' = verdicts, effects' = effects, answer' = answer, question' = question,
           troubles' \in [Agent!Troubles -> Nat], Crashes' = Crashes,
           troubles'["failures"] >= troubles["failures"]
    PROVE  Consenting' /\ Counted'
<1> USE DEF Consenting
<1>1. Crashes \in Nat /\ thread.step \in Nat /\ thread'.step \in Nat /\ saved.step \in Nat
  BY DEF ProcessOK, Crashes, Agent!Troubles, Threads, ThreadOK
<1>2. /\ Known => \A c \in DOMAIN effects \cup DOMAIN verdicts : c.life = Crashes => c.step <= thread.step /\ c.step \in Nat
  BY DEF Known
<1>3. thread'.node = "tools" => \A c \in WritesIn(thread') : c \notin DOMAIN effects \cup DOMAIN verdicts
  BY <1>1, <1>2 DEF WritesIn
<1>4. thread'.node = "tools" /\ saved.node = "tools" => WritesIn(thread') \cap WritesIn(saved) = {}
  <2>1. \A n, m \in Nat : m <= n => m # n + 1 OBVIOUS
  <2>2. saved.step <= thread.step BY DEF Threads
  <2>3. saved.step # thread.step + 1 BY <1>1, <2>1, <2>2
  <2>4. saved.node = "tools" => \A c \in WritesIn(saved) : c.step = saved.step BY DEF Threads, DecisionOK, WritesIn
  <2>5. QED BY <2>3, <2>4 DEF WritesIn
<1>5. \/ saved' = saved /\ WritesIn(saved)' = WritesIn(saved) /\ OpenIn(saved)' = OpenIn(saved)
      \/ saved' = thread' /\ WritesIn(saved)' = WritesIn(thread') /\ OpenIn(saved)' = OpenIn(thread')
  BY DEF OpenIn, WritesIn, CallsIn
<1>6. Threads'
  <2>1. ThreadOK(thread)' /\ ThreadOK(saved)' BY DEF Threads, ThreadOK, Fields
  <2>2. DecisionOK(thread)' BY <1>1 DEF DecisionOK, CallsIn
  <2>3. DecisionOK(saved)'
    <3>1. CASE saved' = saved BY <3>1 DEF DecisionOK, CallsIn, Threads
    <3>2. CASE saved' = thread' BY <3>2, <2>2 DEF DecisionOK, CallsIn
    <3>3. QED BY <3>1, <3>2
  <2>4. saved'.step <= thread'.step BY <1>1 DEF Threads
  <2>5. QED BY <2>1, <2>2, <2>3, <2>4 DEF Threads
<1>7. ProcessOK' BY DEF ProcessOK
<1>8. Synced' BY DEF Synced
<1>9. Known' BY <1>1 DEF Known
<1>10. Answering'
  <2>1. Replied(thread)' /\ Replied(saved)' BY DEF Answering, Replied
  <2>2. InTurn(thread)' BY <1>3 DEF InTurn, WritesIn, CallsIn
  <2>3. InTurn(saved)' BY <1>3, <1>5 DEF InTurn, Answering
  <2>4. NotAskedTwice' BY <1>3 DEF NotAskedTwice, OpenIn, WritesIn, CallsIn
  <2>5. NextAnswer'
    <3>1. CASE saved' = saved BY <3>1 DEF NextAnswer, Answering, OpenIn, WritesIn, CallsIn
    <3>2. CASE saved' = thread' /\ thread'.node = "tools" /\ OpenIn(thread') # {}
      <4>1. \A c \in OpenIn(thread') : c.n \in Nat BY <3>2 DEF OpenIn, WritesIn
      <4>2. Agent!First(OpenIn(thread')) \in OpenIn(thread') BY <3>2, <4>1, FirstIs
      <4>3. Agent!First(OpenIn(thread')) \notin DOMAIN verdicts BY <3>2, <4>2, <1>3 DEF OpenIn
      <4>4. QED BY <3>2, <4>3 DEF NextAnswer, OpenIn, WritesIn, CallsIn
    <3>3. CASE saved' = thread' /\ ~(thread'.node = "tools" /\ OpenIn(thread') # {})
      BY <3>3 DEF NextAnswer, OpenIn, WritesIn, CallsIn
    <3>4. QED BY <3>1, <3>2, <3>3
  <2>6. QED BY <2>1, <2>2, <2>3, <2>4, <2>5 DEF Answering
<1>11. Ahead'
  <2>1. CASE saved' = saved
    <3>1. thread'.node = "tools" /\ saved'.node = "tools" => WritesIn(thread') \cap WritesIn(saved') = {} BY <2>1, <1>4
    <3>2. QED BY <3>1 DEF Ahead, WritesIn, CallsIn
  <2>2. CASE saved' = thread' BY <2>2 DEF Ahead, AtMostOne, OpenIn, WritesIn, CallsIn
  <2>3. QED BY <2>1, <2>2
<1>12. TakenUp'
  <2>1. thread'.node = "tools" => WritesIn(thread') \cap DOMAIN effects = {} BY <1>3
  <2>2. CASE saved' = saved BY <2>1, <2>2 DEF TakenUp, AtMostOne, OpenIn, WritesIn, CallsIn
  <2>3. CASE saved' = thread' BY <2>1, <2>3 DEF TakenUp, AtMostOne, OpenIn, WritesIn, CallsIn
  <2>4. QED BY <2>2, <2>3
<1>13. Heeded' BY DEF Heeded
<1>14. Told' BY DEF Told
<1>15. Counted'
  <2> SUFFICES ASSUME NEW c \in DOMAIN effects
               PROVE  /\ effects[c] \in Nat
                      /\ c.kind = "keyed" => effects[c] = 1
                      /\ c.kind # "keyed" =>
                            effects[c] + Again(c)' <= 1 + Crashes' + (IF c.kind = "set" THEN troubles'["failures"] ELSE 0)
    BY DEF Counted
  <2>1. Again(c) \in Nat /\ Again(c)' = 0 BY <1>3 DEF Again, WritesIn, CallsIn
  <2>2. troubles["failures"] \in Nat /\ troubles'["failures"] \in Nat
    BY DEF ProcessOK, Agent!Troubles
  <2>3. QED BY <1>1, <2>1, <2>2 DEF Counted
<1>16. QED BY <1>6, <1>7, <1>8, <1>9, <1>10, <1>11, <1>12, <1>13, <1>14, <1>15

\* The order of a decision's open calls.
LEMMA OpenOrder ==
    ASSUME NEW t, DecisionOK(t), t.node = "tools", OpenIn(t) # {}
    PROVE  /\ Agent!First(OpenIn(t)) \in OpenIn(t)
           /\ \A d \in OpenIn(t) \ {Agent!First(OpenIn(t))} : Agent!First(OpenIn(t)).n < d.n
<1>1. /\ \A c \in OpenIn(t) : c.n \in Nat
      /\ \A c, d \in OpenIn(t) : c.n = d.n => c = d
  BY DEF DecisionOK, OpenIn, WritesIn
<1>2. QED BY <1>1, FirstBefore

\* Bounds grow with the troubles only.
LEMMA CountedStays ==
    ASSUME Counted, ProcessOK, effects' = effects, troubles' = troubles,
           \A c \in DOMAIN effects : Again(c)' = Again(c)
    PROVE  Counted'
BY DEF Counted, Crashes

\* The node stops: the checkpoint is the thread, and no open call has a verdict.
LEMMA InterruptStep ==
    ASSUME Consenting, Counted, Agent!Interrupt
    PROVE  Consenting' /\ Counted'
<1> USE DEF Consenting
<1>1. /\ process = "running" /\ thread.node = "tools" /\ OpenIn(thread) # {} /\ given = "none"
      /\ process' = "interrupted" /\ saved' = thread /\ thread' = thread /\ given' = given
      /\ question' = question /\ answer' = answer /\ verdicts' = verdicts /\ finished' = finished
      /\ effects' = effects /\ troubles' = troubles
  BY CallsOfTheThread DEF Agent!Interrupt, Agent!At, Agent!talk
<1>2. /\ WritesIn(thread)' = WritesIn(thread) /\ OpenIn(thread)' = OpenIn(thread)
      /\ WritesIn(saved)' = WritesIn(thread) /\ OpenIn(saved)' = OpenIn(thread)
  BY <1>1 DEF OpenIn, WritesIn, CallsIn
<1>3. Threads' BY <1>1 DEF Threads, ThreadOK, Fields, DecisionOK, CallsIn, Crashes
<1>4. ProcessOK' BY <1>1 DEF ProcessOK
<1>5. Synced' BY <1>1, <1>2 DEF Synced
<1>6. Known' BY <1>1 DEF Known, Crashes
<1>7. Answering'
  <2>1. OpenIn(thread) \cap DOMAIN verdicts = {} BY <1>1 DEF Answering, NotAskedTwice
  <2>2. Agent!First(OpenIn(thread)) \in OpenIn(thread) BY <1>1, OpenOrder DEF Threads
  <2>3. NextAnswer' BY <1>1, <1>2, <2>1, <2>2 DEF NextAnswer
  <2>4. Replied(thread)' /\ Replied(saved)' BY <1>1 DEF Answering, Replied
  <2>5. InTurn(thread)' /\ InTurn(saved)' BY <1>1, <1>2 DEF Answering, InTurn
  <2>6. NotAskedTwice' BY <1>1, <1>2, <2>1 DEF NotAskedTwice
  <2>7. QED BY <2>3, <2>4, <2>5, <2>6 DEF Answering
<1>8. Ahead' BY <1>1, <1>2 DEF Ahead, AtMostOne
<1>9. TakenUp'
  <2>1. WritesIn(thread) \cap DOMAIN effects = {} BY <1>1 DEF TakenUp
  <2>2. QED BY <1>1, <1>2, <2>1 DEF TakenUp
<1>10. Heeded' BY <1>1 DEF Heeded
<1>11. Told' BY <1>1, <1>2 DEF Told, Crashes
<1>12. Counted' BY <1>1, <1>2, CountedStays DEF Again
<1>13. QED BY <1>3, <1>4, <1>5, <1>6, <1>7, <1>8, <1>9, <1>10, <1>11, <1>12

\* The call is shown.
LEMMA ShowStep ==
    ASSUME Consenting, Counted, Agent!Show
    PROVE  Consenting' /\ Counted'
<1> USE DEF Consenting
<1>1. /\ process = "interrupted" /\ process' = "waiting" /\ question' = Agent!First(OpenIn(thread))
      /\ saved' = saved /\ thread' = thread /\ given' = given
      /\ answer' = answer /\ verdicts' = verdicts /\ finished' = finished
      /\ effects' = effects /\ troubles' = troubles
  BY CallsOfTheThread DEF Agent!Show, Agent!At, Agent!talk
<1>2. /\ WritesIn(thread)' = WritesIn(thread) /\ OpenIn(thread)' = OpenIn(thread)
      /\ WritesIn(saved)' = WritesIn(saved) /\ OpenIn(saved)' = OpenIn(saved)
  BY <1>1 DEF OpenIn, WritesIn, CallsIn
<1>3. Threads' BY <1>1 DEF Threads, ThreadOK, Fields, DecisionOK, CallsIn, Crashes
<1>4. ProcessOK' BY <1>1 DEF ProcessOK
<1>5. Synced' BY <1>1, <1>2 DEF Synced
<1>6. Known' BY <1>1 DEF Known, Crashes
<1>7. Answering' BY <1>1, <1>2 DEF Answering, Replied, InTurn, NotAskedTwice, NextAnswer
<1>8. Ahead' BY <1>1, <1>2 DEF Ahead, AtMostOne
<1>9. TakenUp' BY <1>1, <1>2 DEF TakenUp, AtMostOne
<1>10. Heeded' BY <1>1 DEF Heeded
<1>11. Told' BY <1>1, <1>2 DEF Told, Crashes
<1>12. Counted' BY <1>1, <1>2, CountedStays DEF Again
<1>13. QED BY <1>3, <1>4, <1>5, <1>6, <1>7, <1>8, <1>9, <1>10, <1>11, <1>12

\* The user says something of a call nothing was said or done about.
LEMMA RespondStep ==
    ASSUME Consenting, Counted, NEW reply \in {"approve", "reject"}, Agent!Respond(reply)
    PROVE  Consenting' /\ Counted'
<1> USE DEF Consenting
<1>1. /\ process = "waiting" /\ process' = "running" /\ given' = reply /\ answer' = reply
      /\ DOMAIN verdicts' = DOMAIN verdicts \cup {question} /\ verdicts'[question] = reply
      /\ \A c \in DOMAIN verdicts \ {question} : verdicts'[c] = verdicts[c]
      /\ saved' = saved /\ thread' = thread /\ finished' = finished
      /\ effects' = effects /\ troubles' = troubles
  BY DEF Agent!Respond, Agent!Noted
<1>2. /\ WritesIn(thread)' = WritesIn(thread) /\ OpenIn(thread)' = OpenIn(thread)
      /\ WritesIn(saved)' = WritesIn(saved) /\ OpenIn(saved)' = OpenIn(saved)
  BY <1>1 DEF OpenIn, WritesIn, CallsIn
<1>3. /\ saved = thread /\ thread.node = "tools" /\ OpenIn(thread) # {} /\ given = "none"
      /\ question = Agent!First(OpenIn(thread))
  BY <1>1 DEF Synced
<1>4. /\ question \in OpenIn(thread) /\ \A d \in OpenIn(thread) \ {question} : question.n < d.n
  BY <1>3, OpenOrder DEF Threads
<1>5. /\ question \notin DOMAIN verdicts /\ question \notin DOMAIN effects /\ question \notin DOMAIN thread.replies
      /\ question \in WritesIn(thread)
  BY <1>1, <1>3, <1>4 DEF Answering, NotAskedTwice, TakenUp, OpenIn
<1>6. /\ question.step = thread.step /\ question.life \in 0..Crashes /\ question.n \in Nat
      /\ question.kind \in Agent!Kinds /\ Agent!RequiresConfirmation(question.kind)
  BY <1>3, <1>5 DEF Threads, DecisionOK, WritesIn
<1>7. Threads' BY <1>1 DEF Threads, ThreadOK, Fields, DecisionOK, CallsIn, Crashes
<1>8. ProcessOK' BY <1>1 DEF ProcessOK
<1>9. Synced' BY <1>1, <1>2, <1>3 DEF Synced
<1>10. Known'
  <2>1. thread.step \in Nat BY DEF Threads, ThreadOK
  <2>2. QED BY <1>1, <1>6, <2>1 DEF Known, Crashes
<1>11. Answering'
  <2>1. Replied(thread)' /\ Replied(saved)' BY <1>1, <1>3, <1>5 DEF Answering, Replied
  <2>2. \A d \in WritesIn(thread) : d.n < question.n => d \in DOMAIN thread.replies
    <3>1. \A d \in WritesIn(thread) : d.n \in Nat BY <1>3 DEF Threads, DecisionOK, WritesIn
    <3>2. QED BY <3>1, <1>4, <1>6 DEF OpenIn
  <2>3. InTurn(thread)' /\ InTurn(saved)' BY <1>1, <1>2, <1>3, <2>2 DEF Answering, InTurn
  <2>4. NotAskedTwice' BY <1>1 DEF NotAskedTwice
  <2>5. NextAnswer' BY <1>1, <1>2, <1>3 DEF NextAnswer
  <2>6. QED BY <2>1, <2>3, <2>4, <2>5 DEF Answering
<1>12. Ahead' BY <1>1, <1>2 DEF Ahead, AtMostOne
<1>13. TakenUp' BY <1>1, <1>2 DEF TakenUp, AtMostOne
<1>14. Heeded' BY <1>1, <1>5 DEF Heeded
<1>15. Told' BY <1>1, <1>2, <1>3 DEF Told, Crashes
<1>16. Counted' BY <1>1, <1>2, CountedStays DEF Again
<1>17. QED BY <1>7, <1>8, <1>9, <1>10, <1>11, <1>12, <1>13, <1>14, <1>15, <1>16

\* An interrupt takes the answer of the first open call.
LEMMA ConsumeStep ==
    ASSUME Consenting, Counted, Agent!Consume
    PROVE  Consenting' /\ Counted'
<1> USE DEF Consenting
<1> DEFINE next == Agent!First(OpenIn(thread))
<1>1. /\ process = "running" /\ process' = "running" /\ thread.node = "tools" /\ OpenIn(thread) # {}
      /\ given # "none" /\ given' = "none" /\ answer' = answer /\ question' = question
      /\ verdicts' = verdicts /\ finished' = finished /\ effects' = effects /\ troubles' = troubles
      /\ thread' = [thread EXCEPT !.replies = Agent!Noted(@, next, given = "approve")]
      /\ saved' \in {saved, IF saved = thread THEN thread' ELSE saved}
  BY CallsOfTheThread DEF Agent!Consume, Agent!At, Agent!talk
<1>2. saved = thread /\ given = answer BY <1>1 DEF Synced, ProcessOK
<1>3. saved' \in {thread, thread'} BY <1>1, <1>2
<1>4. /\ Fields(thread') /\ thread'.node = "tools" /\ thread'.messages = thread.messages /\ thread'.step = thread.step
      /\ thread'.events = thread.events /\ DOMAIN thread'.replies = DOMAIN thread.replies \cup {next}
      /\ thread'.replies[next] = (given = "approve")
      /\ \A c \in DOMAIN thread.replies \ {next} : thread'.replies[c] = thread.replies[c]
  BY <1>1 DEF Threads, ThreadOK, Fields, Agent!Noted
<1>5. /\ WritesIn(thread)' = WritesIn(thread) /\ OpenIn(thread)' = OpenIn(thread) \ {next}
      /\ WritesIn(saved)' = WritesIn(thread) /\ WritesIn(saved) = WritesIn(thread)
      /\ CallsIn(thread)' = CallsIn(thread)
      /\ OpenIn(saved)' \in {OpenIn(thread), OpenIn(thread) \ {next}}
  BY <1>2, <1>3, <1>4 DEF OpenIn, WritesIn, CallsIn
<1>6. next \in OpenIn(thread) /\ \A d \in OpenIn(thread) \ {next} : next.n < d.n
  BY <1>1, OpenOrder DEF Threads
<1>7. next \in WritesIn(thread) /\ next \notin DOMAIN thread.replies BY <1>6 DEF OpenIn
<1>8. (OpenIn(thread) \ {next}) \cap DOMAIN verdicts = {}
  BY <1>1, <1>6, <1>7 DEF Answering, InTurn, OpenIn
<1>9. next \in DOMAIN verdicts => verdicts[next] = given
  BY <1>1, <1>2 DEF Answering, NextAnswer
<1>10. Threads'
  <2>1. ThreadOK(thread)' BY ZenonT(60), <1>4, <1>7 DEF Threads, ThreadOK
  <2>2. DecisionOK(thread)' BY <1>1, <1>4, <1>5 DEF Threads, DecisionOK, Crashes
  <2>3. DecisionOK(thread) /\ DecisionOK(thread)' => DecisionOK(saved)' BY <1>1, <1>3 DEF DecisionOK, CallsIn, Crashes
  <2>4. ThreadOK(saved)' BY <1>3, <2>1 DEF Threads, ThreadOK, Fields
  <2>5. saved'.step <= thread'.step BY <1>3, <1>4 DEF Threads, ThreadOK
  <2>6. QED BY <2>1, <2>2, <2>3, <2>4, <2>5 DEF Threads
<1>11. ProcessOK' BY <1>1 DEF ProcessOK
<1>12. Synced' BY <1>1 DEF Synced
<1>13. Known' BY <1>1, <1>4 DEF Known, Crashes
<1>14. Answering'
  <2>1. Replied(thread)' BY ZenonT(60), <1>1, <1>4, <1>9 DEF Answering, Replied
  <2>2. Replied(saved)' BY <1>1, <1>2, <1>3, <2>1 DEF Answering, Replied
  <2>3. InTurn(thread)' BY <1>1, <1>4, <1>5 DEF Answering, InTurn
  <2>4. InTurn(saved)' BY <1>1, <1>3, <1>4, <1>5, <2>3 DEF Answering, InTurn
  <2>5. NotAskedTwice' BY <1>1, <1>5, <1>8 DEF NotAskedTwice
  <2>6. NextAnswer'
    <3>1. CASE saved' = thread BY <1>1, <1>2, <3>1 DEF Answering, NextAnswer, OpenIn, WritesIn, CallsIn
    <3>2. CASE saved' = thread' /\ OpenIn(thread)' # {}
      <4>1. OpenIn(saved)' = OpenIn(thread) \ {next} BY <1>5, <3>2 DEF OpenIn, WritesIn, CallsIn
      <4>2. Agent!First(OpenIn(thread) \ {next}) \in OpenIn(thread) \ {next}
        <5>1. \A c \in OpenIn(thread) : c.n \in Nat BY <1>1 DEF Threads, DecisionOK, OpenIn, WritesIn
        <5>2. QED BY <1>5, <3>2, <5>1, FirstIs
      <4>3. QED BY <4>1, <4>2, <1>1, <1>8 DEF NextAnswer
    <3>3. CASE saved' = thread' /\ OpenIn(thread)' = {}
      BY <3>3 DEF NextAnswer, OpenIn, WritesIn, CallsIn
    <3>4. QED BY <1>3, <3>1, <3>2, <3>3
  <2>7. QED BY <2>1, <2>2, <2>3, <2>4, <2>5, <2>6 DEF Answering
<1>15. Ahead' BY <1>5 DEF Ahead, AtMostOne
<1>16. TakenUp'
  <2>1. WritesIn(thread) \cap DOMAIN effects # {} => AtMostOne(OpenIn(thread)) BY <1>1, <1>2 DEF TakenUp
  <2>2. WritesIn(thread) \cap DOMAIN effects # {} => OpenIn(thread)' = {} BY <2>1, <1>5, <1>6 DEF AtMostOne
  <2>3. QED BY <1>1, <1>5, <2>1, <2>2 DEF TakenUp, AtMostOne
<1>17. Heeded' BY <1>1 DEF Heeded
<1>18. Told' BY <1>1, <1>4 DEF Told, Crashes
<1>19. Counted' BY <1>1, <1>4, <1>5, CountedStays DEF Again
<1>20. QED BY <1>10, <1>11, <1>12, <1>13, <1>14, <1>15, <1>16, <1>17, <1>18, <1>19

\* What a trouble costs.
LEMMA Spending ==
    ASSUME ProcessOK, NEW b \in Agent!Troubles, Agent!Spend(b)
    PROVE  /\ troubles' \in [Agent!Troubles -> Nat]
           /\ troubles'[b] = troubles[b] + 1
           /\ \A a \in Agent!Troubles \ {b} : troubles'[a] = troubles[a]
BY DEF ProcessOK, Agent!Spend

\* A write takes effect, or seems to fail.
LEMMA AttemptStep ==
    ASSUME Consenting, Counted, NEW write \in Agent!Writes, Agent!Attempt(write)
    PROVE  Consenting' /\ Counted'
<1> USE DEF Consenting
<1>1. /\ process = "running" /\ thread.node = "tools" /\ OpenIn(thread) = {}
      /\ write \in WritesIn(thread) \ finished /\ thread.replies[write]
      /\ thread' = thread /\ saved' = saved /\ process' = process /\ given' = given
      /\ question' = question /\ answer' = answer /\ verdicts' = verdicts
  BY CallsOfTheThread DEF Agent!Attempt, Agent!Due, Agent!At, Agent!Approved, Agent!talk
<1>2. /\ write \in DOMAIN thread.replies
      /\ write.step = thread.step /\ write.life \in 0..Crashes /\ write.kind \in Agent!Kinds
      /\ Agent!RequiresConfirmation(write.kind)
  BY <1>1 DEF Threads, DecisionOK, WritesIn, OpenIn
<1>3. \/ finished' = finished \cup {write} /\ troubles' = troubles
      \/ finished' = finished /\ write.kind = "set" /\ Agent!Spend("failures")
  BY <1>2 DEF Agent!Attempt, Agent!ToolAttempts, Agent!Kinds, Agent!RequiresConfirmation
<1>4. /\ troubles' \in [Agent!Troubles -> Nat] /\ Crashes' = Crashes
      /\ Crashes \in Nat /\ troubles["failures"] \in Nat
      /\ \/ finished' = finished \cup {write} /\ troubles' = troubles
         \/ finished' = finished /\ write.kind = "set" /\ troubles'["failures"] = troubles["failures"] + 1
  <2>1. {"failures", "crashes"} \subseteq Agent!Troubles BY DEF Agent!Troubles
  <2>2. QED BY <1>3, <2>1, Spending DEF ProcessOK, Crashes
<1>5. /\ DOMAIN effects' = DOMAIN effects \cup {write}
      /\ \A c \in DOMAIN effects \ {write} : effects'[c] = effects[c]
      /\ write \notin DOMAIN effects => effects'[write] = 1
      /\ write \in DOMAIN effects => effects'[write] = IF write.kind = "keyed" THEN effects[write] ELSE effects[write] + 1
  BY DEF Agent!Attempt, Agent!Noted
<1>6. /\ WritesIn(thread)' = WritesIn(thread) /\ OpenIn(thread)' = OpenIn(thread)
      /\ WritesIn(saved)' = WritesIn(saved) /\ OpenIn(saved)' = OpenIn(saved)
  BY <1>1 DEF OpenIn, WritesIn, CallsIn
<1>7. Threads' BY <1>1, <1>4 DEF Threads, ThreadOK, Fields, DecisionOK, CallsIn
<1>8. ProcessOK' BY <1>1, <1>4 DEF ProcessOK
<1>9. Synced' BY <1>1, <1>6 DEF Synced
<1>10. Known'
  <2>1. thread.step \in Nat BY DEF Threads, ThreadOK
  <2>2. QED BY <1>1, <1>2, <1>4, <1>5, <2>1 DEF Known
<1>11. Answering' BY <1>1, <1>6 DEF Answering, Replied, InTurn, NotAskedTwice, NextAnswer
<1>12. Ahead' BY <1>1, <1>6 DEF Ahead, AtMostOne
<1>13. TakenUp'
  <2>1. saved.node = "tools" /\ write \in WritesIn(saved) => AtMostOne(OpenIn(saved))
    BY <1>1 DEF Ahead, AtMostOne
  <2>2. QED BY <1>1, <1>5, <1>6, <2>1 DEF TakenUp, AtMostOne
<1>14. Heeded'
  <2>1. write \in DOMAIN verdicts => verdicts[write] = "approve" BY <1>1, <1>2 DEF Answering, Replied
  <2>2. QED BY <1>1, <1>5, <2>1 DEF Heeded
<1>15. Told' BY <1>1, <1>2, <1>4, <1>5, <1>6 DEF Told
<1>16. Counted'
  <2> SUFFICES ASSUME NEW c \in DOMAIN effects'
               PROVE  /\ effects'[c] \in Nat
                      /\ c.kind = "keyed" => effects'[c] = 1
                      /\ c.kind # "keyed" =>
                            effects'[c] + Again(c)' <= 1 + Crashes' + (IF c.kind = "set" THEN troubles'["failures"] ELSE 0)
    BY DEF Counted
  <2>1. troubles'["failures"] \in Nat /\ troubles'["failures"] >= troubles["failures"] BY <1>4 DEF Agent!Troubles
  <2>2. CASE c # write
    <3>1. c \in DOMAIN effects /\ effects'[c] = effects[c] BY <1>5, <2>2
    <3>2. Again(c)' = Again(c) /\ Again(c) \in Nat BY <1>1, <1>4, <1>6, <2>2 DEF Again
    <3>3. QED BY <1>4, <2>1, <3>1, <3>2 DEF Counted
  <2>3. CASE c = write /\ troubles' = troubles /\ finished' = finished \cup {write}
    <3>1. Again(c)' = 0 /\ Again(c) = 1 BY <1>1, <1>6, <2>3 DEF Again
    <3>2. QED BY <1>4, <1>5, <2>1, <2>3, <3>1 DEF Counted
  <2>4. CASE c = write /\ finished' = finished /\ write.kind = "set" /\ troubles'["failures"] = troubles["failures"] + 1
    <3>1. Again(c)' = 1 /\ Again(c) = 1 BY <1>1, <1>6, <2>4 DEF Again
    <3>2. QED BY <1>4, <1>5, <2>1, <2>4, <3>1 DEF Counted
  <2>5. QED BY <1>4, <2>2, <2>3, <2>4
<1>17. QED BY <1>7, <1>8, <1>9, <1>10, <1>11, <1>12, <1>13, <1>14, <1>15, <1>16

\* A process dies: the thread is what its checkpoint was.
LEMMA CrashStep ==
    ASSUME Consenting, Counted, Agent!Crash
    PROVE  Consenting' /\ Counted'
<1> USE DEF Consenting
<1>1. /\ process' = "lost" /\ thread' = saved /\ saved' = saved /\ given' = "none" /\ finished' = {}
      /\ question' = question /\ answer' = answer /\ verdicts' = verdicts /\ effects' = effects
      /\ Agent!Spend("crashes")
  BY DEF Agent!Crash, Agent!talk
<1>2. /\ troubles' \in [Agent!Troubles -> Nat] /\ Crashes' = Crashes + 1 /\ Crashes \in Nat
      /\ troubles'["failures"] = troubles["failures"] /\ troubles["failures"] \in Nat
  <2>1. {"failures", "crashes"} \subseteq Agent!Troubles BY DEF Agent!Troubles
  <2>2. QED BY <1>1, <2>1, Spending DEF ProcessOK, Crashes
<1>3. /\ WritesIn(thread)' = WritesIn(saved) /\ OpenIn(thread)' = OpenIn(saved)
      /\ WritesIn(saved)' = WritesIn(saved) /\ OpenIn(saved)' = OpenIn(saved)
  BY <1>1 DEF OpenIn, WritesIn, CallsIn
<1>4. Threads' BY <1>1, <1>2 DEF Threads, ThreadOK, Fields, DecisionOK, CallsIn
<1>5. ProcessOK' BY <1>1, <1>2 DEF ProcessOK
<1>6. Synced' BY <1>1 DEF Synced
<1>7. Known' BY <1>1, <1>2 DEF Known
<1>8. Answering' BY <1>1, <1>3 DEF Answering, Replied, InTurn, NotAskedTwice, NextAnswer
<1>9. Ahead' BY <1>3 DEF Ahead, AtMostOne
<1>10. TakenUp' BY <1>1, <1>3 DEF TakenUp, AtMostOne
<1>11. Heeded' BY <1>1 DEF Heeded
<1>12. Told' BY <1>2 DEF Told
<1>13. Counted'
  <2> SUFFICES ASSUME NEW c \in DOMAIN effects
               PROVE  /\ effects[c] \in Nat
                      /\ c.kind = "keyed" => effects[c] = 1
                      /\ c.kind # "keyed" =>
                            effects[c] + Again(c)' <= 1 + Crashes' + (IF c.kind = "set" THEN troubles'["failures"] ELSE 0)
    BY <1>1 DEF Counted
  <2>1. Again(c) \in 0..1 /\ Again(c)' \in 0..1 BY DEF Again
  <2>2. QED BY <1>2, <2>1 DEF Counted
<1>14. QED BY <1>4, <1>5, <1>6, <1>7, <1>8, <1>9, <1>10, <1>11, <1>12, <1>13

\* Another process resumes the thread with the last answer.
LEMMA ClaimStep ==
    ASSUME Consenting, Counted, Agent!Claim
    PROVE  Consenting' /\ Counted'
<1> USE DEF Consenting
<1>1. /\ process = "lost" /\ saved = thread
      /\ \/ process' = "ended" /\ given' = given
         \/ process' = "running" /\ given' = answer /\ answer # "none"
      /\ saved' = saved /\ thread' = thread /\ question' = question
      /\ answer' = answer /\ verdicts' = verdicts /\ finished' = finished
      /\ effects' = effects /\ troubles' = troubles
  BY DEF Agent!Claim, Agent!talk, Synced
<1>2. /\ WritesIn(thread)' = WritesIn(thread) /\ OpenIn(thread)' = OpenIn(thread)
      /\ WritesIn(saved)' = WritesIn(saved) /\ OpenIn(saved)' = OpenIn(saved)
  BY <1>1 DEF OpenIn, WritesIn, CallsIn
<1>3. Threads' BY <1>1 DEF Threads, ThreadOK, Fields, DecisionOK, CallsIn, Crashes
<1>4. ProcessOK' BY <1>1 DEF ProcessOK
<1>5. Synced' BY <1>1, <1>2 DEF Synced
<1>6. Known' BY <1>1 DEF Known, Crashes
<1>7. Answering' BY <1>1, <1>2 DEF Answering, Replied, InTurn, NotAskedTwice, NextAnswer
<1>8. Ahead' BY <1>1, <1>2 DEF Ahead, AtMostOne
<1>9. TakenUp' BY <1>1, <1>2 DEF TakenUp, AtMostOne
<1>10. Heeded' BY <1>1 DEF Heeded
<1>11. Told' BY <1>1, <1>2 DEF Told, Crashes
<1>12. Counted' BY <1>1, <1>2, CountedStays DEF Again
<1>13. QED BY <1>3, <1>4, <1>5, <1>6, <1>7, <1>8, <1>9, <1>10, <1>11, <1>12

-----------------------------------------------------------------------------
(***************************************************************************)
(* Calls and their observations.                                            *)
(***************************************************************************)

\* A list that goes on otherwise leaves a call its one observation.
LEMMA StaysObserved ==
    ASSUME NEW m, NEW all, Len(m) \in Nat, Len(all) \in Nat, Len(m) <= Len(all),
           \A j \in 1..Len(m) : all[j] = m[j],
           NEW i \in 1..Len(m), NEW c \in m[i].calls, ObservedOnce(m, i, c),
           \A j \in (Len(m) + 1)..Len(all) : all[j].role = "tool" => all[j].answers # c
    PROVE  ObservedOnce(all, i, c)
<1>1. {j \in Agent!Answers(all, i) : all[j].answers = c} = {j \in Agent!Answers(m, i) : m[j].answers = c}
  <2>1. ASSUME NEW j \in Agent!Answers(all, i), all[j].answers = c
        PROVE  j \in Agent!Answers(m, i) /\ m[j].answers = c
    <3>1. j \in (i + 1)..Len(all) /\ all[j].role = "tool" BY DEF Agent!Answers
    <3>2. j <= Len(m) BY <2>1, <3>1
    <3>3. QED BY <2>1, <3>1, <3>2 DEF Agent!Answers
  <2>2. ASSUME NEW j \in Agent!Answers(m, i), m[j].answers = c
        PROVE  j \in Agent!Answers(all, i) /\ all[j].answers = c
    <3>1. j \in (i + 1)..Len(m) /\ m[j].role = "tool" BY DEF Agent!Answers
    <3>2. j \in 1..Len(m) /\ j \in (i + 1)..Len(all) BY <3>1
    <3>3. QED BY <2>2, <3>1, <3>2 DEF Agent!Answers
  <2>3. QED BY <2>1, <2>2
<1>2. QED BY <1>1 DEF ObservedOnce

\* The same messages in a node that waits for the same.
LEMMA SamePairs ==
    ASSUME NEW t, NEW u, Paired(t), u.messages = t.messages, u.step = t.step,
           u.node = t.node \/ (u.node # "tools" /\ t.node # "tools")
    PROVE  Paired(u)
<1>1. CASE u.node = t.node
  <2>1. \A i : Latest(u, i) <=> Latest(t, i) BY <1>1 DEF Latest
  <2>2. \A i, step : Timely(u, i, step) <=> Timely(t, i, step) BY <1>1, <2>1 DEF Timely
  <2>3. CallsNumbered(u) <=> CallsNumbered(t) BY DEF CallsNumbered, CallsIn
  <2>4. QED BY <1>1, <2>1, <2>2, <2>3 DEF Paired
<1>2. CASE u.node # "tools" /\ t.node # "tools"
  <2>1. \A i : ~Latest(u, i) /\ ~Latest(t, i) BY <1>2 DEF Latest
  <2>2. \A i, step : Timely(u, i, step) <=> Timely(t, i, step) BY <1>2, <2>1 DEF Timely
  <2>3. QED BY <1>2, <2>1, <2>2 DEF Paired
<1>3. QED BY <1>1, <1>2

\* One more message, which observes nothing: if it calls, in a step of its own.
LEMMA AppendPairs ==
    ASSUME NEW t, NEW u, NEW e, ThreadOK(t), Paired(t), t.node # "tools", u.step \in Nat, t.step <= u.step,
           u.messages = Append(t.messages, e), e.role # "tool",
           \A c \in e.calls : c.step = u.step,
           IF u.node = "tools" THEN t.step < u.step /\ CallsNumbered(u) ELSE e.calls = {}
    PROVE  Paired(u)
<1> DEFINE m == t.messages
           all == u.messages
<1>1. m \in Seq({m[i] : i \in DOMAIN m}) BY DEF ThreadOK
<1>2. /\ Len(m) \in Nat /\ Len(all) = Len(m) + 1 /\ DOMAIN m = 1..Len(m) /\ DOMAIN all = 1..Len(all)
      /\ \A j \in 1..Len(m) : all[j] = m[j]
      /\ all[Len(all)] = e
  <2> DEFINE S == {m[i] : i \in DOMAIN m} \cup {e}
  <2>1. m \in Seq(S) /\ e \in S BY <1>1
  <2>2. all = Append(m, e) OBVIOUS
  <2> HIDE DEF S, m, all
  <2>3. QED BY <2>1, <2>2, AppendProperties
<1>3. t.step \in Nat BY DEF ThreadOK
<1>4. \A i : Latest(u, i) <=> u.node = "tools" /\ i = Len(all) BY DEF Latest
<1>5. \A i : ~Latest(t, i) BY DEF Latest
<1>6. ASSUME NEW i \in 1..Len(m), NEW step, Timely(t, i, step) PROVE Timely(u, i, step)
  BY <1>3, <1>6 DEF Timely
<1> HIDE DEF m, all
<1>7. ASSUME NEW i \in DOMAIN all, NEW c \in all[i].calls
      PROVE  Timely(u, i, c.step) /\ (Latest(u, i) \/ ObservedOnce(all, i, c))
  <2>1. CASE i \in 1..Len(m)
    <3>1. i \in DOMAIN m /\ all[i] = m[i] /\ c \in m[i].calls BY <1>2, <1>7, <2>1
    <3>2. Timely(t, i, c.step) /\ ObservedOnce(m, i, c) BY <1>5, <3>1 DEF Paired, m
    <3>3. \A j \in (Len(m) + 1)..Len(all) : all[j].role # "tool" BY <1>2
    <3>4. Len(all) \in Nat /\ Len(m) <= Len(all) BY <1>2
    <3>5. ObservedOnce(all, i, c) BY <1>2, <2>1, <3>1, <3>2, <3>3, <3>4, StaysObserved
    <3>6. QED BY <1>6, <2>1, <3>2, <3>5
  <2>2. CASE i = Len(all)
    <3>1. c \in e.calls BY <1>2, <1>7, <2>2
    <3>2. u.node = "tools" /\ c.step = u.step BY <3>1
    <3>3. Latest(u, i) BY <1>4, <2>2, <3>2
    <3>4. QED BY <1>3, <3>2, <3>3 DEF Timely
  <2>3. QED BY <1>2, <2>1, <2>2
<1>8. ASSUME NEW i \in DOMAIN all, all[i].role = "tool" PROVE Timely(u, i, all[i].answers.step)
  <2>1. i \in 1..Len(m) BY <1>2, <1>8
  <2>2. all[i] = m[i] /\ i \in DOMAIN m BY <1>2, <2>1
  <2>3. QED BY <1>6, <1>8, <2>1, <2>2 DEF Paired, m
<1>9. QED BY <1>7, <1>8 DEF Paired, all

\* Every call of the decision gets its observation.
Tells(t, told) ==
    /\ told \in Seq({told[i] : i \in DOMAIN told}) /\ Len(told) = Cardinality(CallsIn(t))
    /\ \A n \in 1..Len(told) : /\ told[n].role = "tool" /\ told[n].calls = {}
                               /\ told[n].answers \in CallsIn(t) /\ told[n].answers.n = n
LEMMA ObservePairs ==
    ASSUME NEW t, NEW u, NEW told, ThreadOK(t), Paired(t), DecisionOK(t), t.node = "tools",
           u.node # "tools", u.step = t.step, u.messages = t.messages \o told, Tells(t, told)
    PROVE  Paired(u)
<1> USE DEF Tells
<1> DEFINE m == t.messages
           all == u.messages
<1>1. m \in Seq({m[i] : i \in DOMAIN m}) BY DEF ThreadOK
<1>2. /\ Len(m) \in Nat /\ Len(told) \in Nat /\ Len(all) = Len(m) + Len(told)
      /\ DOMAIN m = 1..Len(m) /\ DOMAIN all = 1..Len(all)
      /\ \A j \in 1..Len(m) : all[j] = m[j]
      /\ \A n \in 1..Len(told) : all[Len(m) + n] = told[n]
  <2> DEFINE S == {m[i] : i \in DOMAIN m} \cup {told[i] : i \in DOMAIN told}
  <2>1. m \in Seq(S) /\ told \in Seq(S) BY <1>1
  <2>2. all = m \o told OBVIOUS
  <2> HIDE DEF S, m, all
  <2>3. Len(all) = Len(m) + Len(told) /\ all \in Seq(S) BY ONLY <2>1, <2>2, ConcatProperties
  <2>4. \A i \in 1..Len(m) + Len(told) : all[i] = IF i <= Len(m) THEN m[i] ELSE told[i - Len(m)]
    BY <2>1, <2>2, ConcatProperties
  <2>5. Len(m) \in Nat /\ Len(told) \in Nat /\ DOMAIN m = 1..Len(m) /\ DOMAIN all = 1..Len(all)
    BY <2>1, <2>3
  <2>6. ASSUME NEW n \in 1..Len(told) PROVE all[Len(m) + n] = told[n]
    <3>1. Len(m) + n \in 1..Len(m) + Len(told) /\ ~(Len(m) + n <= Len(m)) /\ Len(m) + n - Len(m) = n BY <2>5
    <3>2. QED BY ONLY <2>4, <3>1
  <2>7. \A j \in 1..Len(m) : all[j] = m[j] BY <2>4, <2>5
  <2>8. QED BY <2>3, <2>5, <2>6, <2>7
<1>3. t.step \in Nat BY DEF ThreadOK
<1>4. \A i : ~Latest(u, i) BY DEF Latest
<1>5. ASSUME NEW i, NEW step, Timely(t, i, step) PROVE Timely(u, i, step)
  BY <1>3, <1>5 DEF Timely
<1>6. /\ Len(m) >= 1 /\ m[Len(m)].role = "assistant" /\ CallsIn(t) = m[Len(m)].calls
      /\ \A c \in CallsIn(t) : c.n \in 1..Len(told)
  BY <1>1, <1>2 DEF Paired, CallsNumbered, CallsIn
<1>7. /\ \A c \in CallsIn(t) : c.step = t.step
      /\ \A c, d \in CallsIn(t) : c.n = d.n => c = d
  BY DEF DecisionOK
<1>8. \A i \in DOMAIN m : (\A c \in m[i].calls : Timely(t, i, c.step) /\ (Latest(t, i) \/ ObservedOnce(m, i, c)))
                         /\ (m[i].role = "tool" => Timely(t, i, m[i].answers.step))
  BY DEF Paired
<1>9. \A i : Latest(t, i) <=> i = Len(m) BY DEF Latest
<1>10. \A i \in 1..Len(all) : i > Len(m) => i - Len(m) \in 1..Len(told) /\ all[i] = told[i - Len(m)]
  BY <1>2
<1> HIDE DEF m, all
<1>11. ASSUME NEW i \in DOMAIN all, NEW c \in all[i].calls
       PROVE  Timely(u, i, c.step) /\ ObservedOnce(all, i, c)
  <2>1. i \in 1..Len(m)
    <3>1. i \in 1..Len(all) BY <1>2
    <3>2. i > Len(m) => all[i].calls = {} BY <1>10, <3>1
    <3>3. QED BY <1>2, <1>11, <3>1, <3>2
  <2>2. c \in m[i].calls /\ i \in DOMAIN m BY <1>2, <1>11, <2>1
  <2>3. Timely(u, i, c.step) BY <1>5, <1>8, <2>2
  <2>4. CASE i = Len(m)
    <3>1. c \in CallsIn(t) /\ c.n \in 1..Len(told) BY <1>6, <2>2, <2>4
    <3>2. ASSUME NEW j \in Agent!Answers(all, i), all[j].answers = c PROVE j = Len(m) + c.n
      <4>1. j \in (i + 1)..Len(all) BY DEF Agent!Answers
      <4>2. j > Len(m) /\ j \in 1..Len(all) BY <1>2, <2>4, <4>1
      <4>3. c.n = j - Len(m) BY <1>10, <3>2, <4>2
      <4>4. QED BY <1>2, <4>2, <4>3
    <3>3. Len(m) + c.n \in Agent!Answers(all, i) /\ all[Len(m) + c.n].answers = c
      <4>1. Len(m) + c.n \in (i + 1)..Len(all) BY <1>2, <2>4, <3>1
      <4>2. all[Len(m) + c.n] = told[c.n] BY <1>2, <3>1
      <4>3. told[c.n].answers = c BY <1>7, <3>1
      <4>4. QED BY <1>11, <3>1, <4>1, <4>2, <4>3 DEF Agent!Answers
    <3>4. {j \in Agent!Answers(all, i) : all[j].answers = c} = {Len(m) + c.n} BY <3>2, <3>3
    <3>5. Len(m) + c.n \in Nat BY <1>2, <3>1
    <3>6. QED BY <2>3, <3>4, <3>5 DEF ObservedOnce
  <2>5. CASE i # Len(m)
    <3>1. ObservedOnce(m, i, c) /\ Timely(t, i, c.step) /\ ~Latest(t, i) BY <1>8, <1>9, <2>2, <2>5
    <3>2. c.step < t.step BY <3>1 DEF Timely
    <3>3. \A j \in (Len(m) + 1)..Len(all) : all[j].answers # c
      <4> SUFFICES ASSUME NEW j \in (Len(m) + 1)..Len(all), all[j].answers = c PROVE FALSE OBVIOUS
      <4>1. j \in 1..Len(all) /\ j > Len(m) BY <1>2
      <4>2. c \in CallsIn(t) BY <1>10, <4>1
      <4>3. QED BY <1>3, <1>7, <3>2, <4>2
    <3>4. Len(all) \in Nat /\ Len(m) <= Len(all) BY <1>2
    <3>5. ObservedOnce(all, i, c) BY <1>2, <2>1, <2>2, <3>1, <3>3, <3>4, StaysObserved
    <3>6. QED BY <2>3, <3>5
  <2>6. QED BY <2>4, <2>5
<1>12. ASSUME NEW i \in DOMAIN all, all[i].role = "tool" PROVE Timely(u, i, all[i].answers.step)
  <2>1. CASE i \in 1..Len(m) BY <1>2, <1>5, <1>8, <1>12, <2>1
  <2>2. CASE i > Len(m)
    <3>1. all[i].answers \in CallsIn(t) BY <1>2, <1>10, <2>2
    <3>2. all[i].answers.step = t.step BY <1>7, <3>1
    <3>3. QED BY <1>3, <3>2 DEF Timely
  <2>3. QED BY <1>2, <2>1, <2>2
<1>13. QED BY <1>4, <1>11, <1>12 DEF Paired, all

\* A run whose messages call nothing and observe nothing.
LEMMA PairedBegins ==
    ASSUME NEW t, t.node # "tools",
           \A i \in DOMAIN t.messages : t.messages[i].calls = {} /\ t.messages[i].role # "tool"
    PROVE  Paired(t)
BY DEF Paired

LEMMA PairingStays ==
    ASSUME Pairing, Paired(thread'), saved' \in {saved, thread'}
    PROVE  Pairing'
<1>1. Paired(saved') BY DEF Pairing
<1>2. QED BY <1>1 DEF Pairing

\* Steps that leave the messages, or go back to the checkpoint.
LEMMA PairingKept ==
    ASSUME Pairing, thread' \in {thread, saved}, saved' \in {thread, saved}
    PROVE  Pairing'
<1>1. Paired(thread') /\ Paired(saved') BY DEF Pairing
<1>2. QED BY <1>1 DEF Pairing

\* What a node leaves when it is done.
LEMMA CommitIs ==
    ASSUME NEW result, Fields(result), result.node \in {"decide", "tools", "judge", "end"}, result.step \in Nat,
           result.messages \in Seq({result.messages[i] : i \in DOMAIN result.messages}),
           Agent!Commit(result)
    PROVE  /\ ThreadOK(thread') /\ thread'.node = result.node /\ thread'.step = result.step
           /\ thread'.messages = result.messages
           /\ thread'.replies = <<>> /\ saved' \in {saved, thread'} /\ given' = "none" /\ finished' = {}
<1> DEFINE new == [node |-> result.node, messages |-> result.messages, step |-> result.step,
                   events |-> result.events, evidence |-> result.evidence, candidate |-> result.candidate,
                   replies |-> <<>>]
<1>1. thread' = new BY DEF Agent!Commit, Fields
<1>2. ThreadOK(new) BY DEF ThreadOK, Fields
<1>3. QED BY <1>1, <1>2 DEF Agent!Commit

\* The calls of a decision are as many as the model asks for, in their order.
LEMMA CallsOfADecision ==
    ASSUME Threads, ProcessOK, Agent!AgentLoopAssumption, NEW kinds \in Menu,
           NEW calls, calls = {Agent!Call(n, kinds[n]) : n \in DOMAIN kinds}
    PROVE  /\ \A c \in calls : c.step = thread.step + 1 /\ c.life = Crashes /\ c.n \in Nat /\ c.kind \in Agent!Kinds
           /\ \A c, d \in calls : c.n = d.n => c = d
           /\ IsFiniteSet(calls)
           /\ \A n \in 1..Cardinality(calls) : \E c \in calls : c.n = n
           /\ \A c \in calls : c.n \in 1..Cardinality(calls)
<1>1. kinds \in Seq(Agent!Kinds) BY DEF Agent!AgentLoopAssumption
<1>2. DOMAIN kinds = 1..Len(kinds) /\ Len(kinds) \in Nat BY <1>1
<1>3. \A n \in DOMAIN kinds : n \in Nat /\ kinds[n] \in Agent!Kinds BY <1>1, <1>2
<1>4. \A c \in calls : \E n \in DOMAIN kinds : c = Agent!Call(n, kinds[n]) OBVIOUS
<1>5. \A n \in DOMAIN kinds : LET c == Agent!Call(n, kinds[n])
                                IN c.step = thread.step + 1 /\ c.life = Crashes /\ c.n = n /\ c.kind = kinds[n]
  BY DEF Agent!Call, Crashes
<1>6. \A c \in calls : c.step = thread.step + 1 /\ c.life = Crashes /\ c.n \in Nat /\ c.kind \in Agent!Kinds
  BY <1>3, <1>4, <1>5
<1>7. \A c, d \in calls : c.n = d.n => c = d BY <1>4, <1>5
<1>8. IsFiniteSet(calls) /\ Cardinality(calls) = Len(kinds)
  <2> DEFINE f == [n \in 1..Len(kinds) |-> Agent!Call(n, kinds[n])]
  <2>1. f \in Surjection(1..Len(kinds), calls) BY <1>2 DEF Surjection
  <2>2. \A n \in 1..Len(kinds) : f[n].n = n BY <1>2, <1>5
  <2> HIDE DEF f
  <2>3. f \in Injection(1..Len(kinds), calls) BY <2>1, <2>2 DEF Injection, IsInjective, Surjection
  <2>4. f \in Bijection(1..Len(kinds), calls) BY <2>1, <2>3 DEF Bijection
  <2>5. /\ IsFiniteSet(1..Len(kinds))
        /\ Cardinality(1..Len(kinds)) = IF 1 > Len(kinds) THEN 0 ELSE Len(kinds) - 1 + 1
    BY <1>2, FS_Interval
  <2>6. Cardinality(1..Len(kinds)) = Len(kinds) BY <1>2, <2>5
  <2>7. QED BY <2>4, <2>5, <2>6, FS_Bijection DEF ExistsBijection
<1>9. \A n \in 1..Len(kinds) : \E c \in calls : c.n = n BY <1>2, <1>5
<1>10. \A c \in calls : c.n \in 1..Len(kinds) BY <1>2, <1>4, <1>5
<1>11. QED BY <1>6, <1>7, <1>8, <1>9, <1>10

\* Where a run is in its steps.
Stepping == Within(thread) /\ Within(saved)
LEMMA SteppingStays ==
    ASSUME Stepping, Within(thread'), saved' \in {saved, thread'}
    PROVE  Stepping'
BY DEF Stepping, Within

Inv == Consenting /\ Counted /\ Stepping /\ Pairing

\* The model answers in words, or a text says so for it.
LEMMA SayStep ==
    ASSUME Inv, Agent!AgentLoopAssumption, NEW candidate, Agent!Say(candidate), Agent!At("decide"),
           troubles' \in [Agent!Troubles -> Nat], Crashes' = Crashes, troubles'["failures"] >= troubles["failures"]
    PROVE  Inv'
<1> USE DEF Inv
<1> DEFINE message == Agent!Message("assistant", 1, {}, Agent!NoCall)
           new == [thread EXCEPT !.node = "judge", !.step = @ + 1, !.candidate = candidate,
                                 !.messages = Append(@, message)]
<1>1. /\ process = "running" /\ process' = process /\ effects' = effects /\ question' = question /\ answer' = answer
      /\ verdicts' = verdicts /\ thread.node = "decide" /\ Agent!Commit(new)
  BY DEF Agent!Say, Agent!At, Agent!talk
<1>2. ThreadOK(thread) BY DEF Consenting, Threads
<1>3. /\ Fields(new) /\ new.node = "judge" /\ new.step = thread.step + 1 /\ thread.step \in Nat
      /\ new.messages = Append(thread.messages, message)
  <2>1. Fields(thread) /\ thread.step \in Nat BY <1>2 DEF ThreadOK
  <2> DEFINE list == Append(thread.messages, message)
  <2>2. new = [thread EXCEPT !.node = "judge", !.step = @ + 1, !.candidate = candidate, !.messages = list] OBVIOUS
  <2> HIDE DEF new, message, list
  <2>3. Fields(new) /\ new.node = "judge" /\ new.step = thread.step + 1 /\ new.messages = list
    BY <2>1, <2>2 DEF Fields
  <2>4. QED BY <2>1, <2>3 DEF list
<1>4. /\ new.messages \in Seq({new.messages[i] : i \in DOMAIN new.messages})
      /\ new.messages[Len(new.messages)] = message
  <2>1. thread.messages \in Seq({thread.messages[i] : i \in DOMAIN thread.messages}) BY <1>2 DEF ThreadOK
  <2> HIDE DEF new, message
  <2>2. QED BY ONLY <2>1, <1>3, AppendIs
<1>5. /\ ThreadOK(thread') /\ thread'.node = "judge" /\ thread'.step = thread.step + 1
      /\ thread'.messages = Append(thread.messages, message)
      /\ thread'.replies = <<>> /\ saved' \in {saved, thread'} /\ given' = "none" /\ finished' = {}
  <2> HIDE DEF new
  <2>1. new.node \in {"decide", "tools", "judge", "end"} /\ new.step \in Nat BY <1>3
  <2>2. QED BY <1>1, <1>3, <1>4, <2>1, CommitIs
<1>6. Within(thread')
  BY <1>1, <1>3, <1>5 DEF Stepping, Within, Agent!AgentLoopAssumption
<1>7. Stepping' BY <1>5, <1>6, SteppingStays
<1>8. Consenting' /\ Counted'
  <2>1. thread'.step >= thread.step /\ thread'.node # "tools" BY <1>3, <1>5
  <2>2. QED BY <1>1, <1>5, <2>1, Committed
<1>9. Pairing'
  <2>1. message.role # "tool" /\ message.calls = {} BY DEF Agent!Message
  <2> HIDE DEF message, new
  <2>2. thread'.step \in Nat /\ thread.step <= thread'.step BY <1>3, <1>5
  <2>3. Paired(thread') BY <1>1, <1>2, <1>5, <2>1, <2>2, AppendPairs DEF Pairing
  <2>4. QED BY <1>5, <2>3, PairingStays
<1>10. QED BY <1>7, <1>8, <1>9

\* The model asks for tools.
LEMMA RequestStep ==
    ASSUME Inv, Agent!AgentLoopAssumption, Agent!Request
    PROVE  Inv'
<1>1. PICK kinds \in Menu :
        LET calls == {Agent!Call(n, kinds[n]) : n \in DOMAIN kinds}
        IN Agent!Commit([thread EXCEPT !.node = "tools", !.step = @ + 1, !.candidate = "none",
                            !.messages = Append(@, Agent!Message("assistant", Len(kinds), calls, Agent!NoCall))])
  BY DEF Agent!Request
<1> USE DEF Inv
<1> DEFINE calls == {Agent!Call(n, kinds[n]) : n \in DOMAIN kinds}
           message == Agent!Message("assistant", Len(kinds), calls, Agent!NoCall)
           new == [thread EXCEPT !.node = "tools", !.step = @ + 1, !.candidate = "none",
                                 !.messages = Append(@, message)]
<1>2. /\ process = "running" /\ process' = process /\ effects' = effects /\ question' = question /\ answer' = answer
      /\ verdicts' = verdicts /\ troubles' = troubles /\ thread.node = "decide" /\ Agent!Commit(new)
      /\ ~Agent!Exhausted
  BY <1>1 DEF Agent!Request, Agent!At, Agent!talk
<1>3. ThreadOK(thread) /\ ProcessOK BY DEF Consenting, Threads
<1>4. /\ Fields(new) /\ new.node = "tools" /\ new.step = thread.step + 1 /\ thread.step \in Nat
      /\ new.messages = Append(thread.messages, message)
  <2>1. Fields(thread) /\ thread.step \in Nat BY <1>3 DEF ThreadOK
  <2> DEFINE list == Append(thread.messages, message)
  <2>2. new = [thread EXCEPT !.node = "tools", !.step = @ + 1, !.candidate = "none", !.messages = list] OBVIOUS
  <2> HIDE DEF new, message, list
  <2>3. Fields(new) /\ new.node = "tools" /\ new.step = thread.step + 1 /\ new.messages = list
    BY <2>1, <2>2 DEF Fields
  <2>4. QED BY <2>1, <2>3 DEF list
<1>5. /\ new.messages \in Seq({new.messages[i] : i \in DOMAIN new.messages})
      /\ new.messages[Len(new.messages)] = message
  <2>1. thread.messages \in Seq({thread.messages[i] : i \in DOMAIN thread.messages}) BY <1>3 DEF ThreadOK
  <2> HIDE DEF new, message
  <2>2. QED BY ONLY <2>1, <1>4, AppendIs
<1>6. message.calls = calls BY DEF Agent!Message
<1> HIDE DEF calls, message, new
<1>7. /\ ThreadOK(thread') /\ thread'.node = "tools" /\ thread'.step = thread.step + 1
      /\ CallsIn(thread') = calls /\ thread'.messages = new.messages
      /\ thread'.replies = <<>> /\ saved' \in {saved, thread'} /\ given' = "none" /\ finished' = {}
  <2>1. new.node \in {"decide", "tools", "judge", "end"} /\ new.step \in Nat BY <1>4
  <2>2. QED BY <1>2, <1>4, <1>5, <1>6, <2>1, CommitIs DEF CallsIn
<1>8. /\ \A c \in calls : c.step = thread.step + 1 /\ c.life = Crashes /\ c.n \in Nat /\ c.kind \in Agent!Kinds
      /\ \A c, d \in calls : c.n = d.n => c = d
      /\ IsFiniteSet(calls)
      /\ \A n \in 1..Cardinality(calls) : \E c \in calls : c.n = n
      /\ \A c \in calls : c.n \in 1..Cardinality(calls)
  BY CallsOfADecision DEF calls, Consenting
<1>9. Within(thread')
  BY <1>2, <1>4, <1>7 DEF Stepping, Within, Agent!AgentLoopAssumption, Agent!Exhausted
<1>10. Stepping' BY <1>7, <1>9, SteppingStays
<1>11. Consenting' /\ Counted'
  <2>1. thread'.step >= thread.step BY <1>4, <1>7
  <2>2. troubles' \in [Agent!Troubles -> Nat] /\ Crashes' = Crashes /\ troubles'["failures"] >= troubles["failures"]
    BY <1>2, <1>3 DEF ProcessOK, Crashes, Agent!Troubles
  <2>3. QED BY <1>2, <1>7, <1>8, <2>1, <2>2, Committed
<1>12. Pairing'
  <2>1. message.role = "assistant" BY DEF message, Agent!Message
  <2>2. thread'.messages = Append(thread.messages, message) BY <1>4, <1>7
  <2>3. CallsNumbered(thread')
    <3>1. thread'.messages # <<>> /\ thread'.messages[Len(thread'.messages)] = message
      <4>1. thread.messages \in Seq({thread.messages[i] : i \in DOMAIN thread.messages}) BY <1>3 DEF ThreadOK
      <4>2. QED BY <1>5, <1>7, <2>2, <4>1
    <3>2. QED BY <1>7, <1>8, <2>1, <3>1 DEF CallsNumbered
  <2>4. /\ thread'.step \in Nat /\ thread.step < thread'.step /\ thread.step <= thread'.step
        /\ \A c \in message.calls : c.step = thread'.step
    BY <1>4, <1>6, <1>7, <1>8
  <2>5. Paired(thread') BY <1>2, <1>3, <1>7, <2>1, <2>2, <2>3, <2>4, AppendPairs DEF Pairing
  <2>6. QED BY <1>7, <2>5, PairingStays
<1>13. QED BY <1>10, <1>11, <1>12

\* Every call has its observation.
LEMMA ObserveStep ==
    ASSUME Inv, Agent!AgentLoopAssumption, Agent!Observe
    PROVE  Inv'
<1>1. PICK size \in Sizes, reused \in 0..Agent!Cardinality(Agent!Accepted \ Agent!Writes), succeeded \in BOOLEAN :
        Agent!Commit([thread EXCEPT !.node = "decide",
            !.events = @ + Agent!Cardinality(Agent!Requested) - reused, !.evidence = @ \/ succeeded,
            !.messages = @ \o [n \in DOMAIN Agent!Answered |->
                                   Agent!Message("tool", size, {}, Agent!Answered[n])]])
  BY DEF Agent!Observe
<1> USE DEF Inv
<1> DEFINE told == [n \in DOMAIN Agent!Answered |-> Agent!Message("tool", size, {}, Agent!Answered[n])]
           new == [thread EXCEPT !.node = "decide",
                      !.events = @ + Agent!Cardinality(Agent!Requested) - reused, !.evidence = @ \/ succeeded,
                      !.messages = @ \o told]
<1>2. /\ process = "running" /\ process' = process /\ effects' = effects /\ question' = question /\ answer' = answer
      /\ verdicts' = verdicts /\ troubles' = troubles /\ thread.node = "tools" /\ Agent!Commit(new)
  BY <1>1 DEF Agent!Observe, Agent!At, Agent!talk
<1>3. ThreadOK(thread) /\ ProcessOK BY DEF Consenting, Threads
<1>4. /\ Fields(new) /\ new.node = "decide" /\ new.step = thread.step /\ thread.step \in Nat
      /\ new.messages = thread.messages \o told
  <2>1. Fields(thread) /\ thread.step \in Nat BY <1>3 DEF ThreadOK
  <2> DEFINE list == thread.messages \o told
             events == thread.events + Agent!Cardinality(Agent!Requested) - reused
             evidence == thread.evidence \/ succeeded
  <2>2. new = [thread EXCEPT !.node = "decide", !.events = events, !.evidence = evidence, !.messages = list] OBVIOUS
  <2> HIDE DEF new, told, list, events, evidence
  <2>3. Fields(new) /\ new.node = "decide" /\ new.step = thread.step /\ new.messages = list
    BY <2>1, <2>2 DEF Fields
  <2>4. QED BY <2>1, <2>3 DEF list
<1>5. told \in Seq({told[i] : i \in DOMAIN told})
  <2>1. IsFiniteSet(Agent!Requested) BY <1>2, CallsOfTheThread DEF Consenting, Threads, DecisionOK
  <2>2. Agent!Cardinality(Agent!Requested) \in Nat BY <2>1, FS_CardinalityType, SameCount
  <2>3. DOMAIN Agent!Answered = 1..Agent!Cardinality(Agent!Requested) BY DEF Agent!Answered
  <2>4. DOMAIN told = 1..Agent!Cardinality(Agent!Requested) BY <2>3
  <2>5. told = [i \in 1..Agent!Cardinality(Agent!Requested) |-> told[i]] BY <2>3, <2>4
  <2> HIDE DEF told
  <2>6. QED BY <2>2, <2>4, <2>5
<1>6. new.messages \in Seq({new.messages[i] : i \in DOMAIN new.messages})
  <2>1. thread.messages \in Seq({thread.messages[i] : i \in DOMAIN thread.messages}) BY <1>3 DEF ThreadOK
  <2> HIDE DEF new, told
  <2>2. new.messages = thread.messages \o told BY <1>4
  <2> DEFINE old == thread.messages
             all == new.messages
  <2>3. old \in Seq({old[i] : i \in DOMAIN old}) /\ all = old \o told BY <2>1, <2>2
  <2> HIDE DEF old, all
  <2> DEFINE S == {old[i] : i \in DOMAIN old} \cup {told[i] : i \in DOMAIN told}
  <2>4. old \in Seq(S) /\ told \in Seq(S) BY <2>3, <1>5
  <2>5. all \in Seq(S) BY <2>3, <2>4, ConcatProperties
  <2> HIDE DEF S
  <2>6. all \in Seq({all[i] : i \in DOMAIN all}) BY ONLY <2>5, SelfRange
  <2>7. QED BY <2>6 DEF all
<1>12. Tells(thread, told)
  <2>1. IsFiniteSet(Agent!Requested) BY <1>2, CallsOfTheThread DEF Consenting, Threads, DecisionOK
  <2>2. Agent!Cardinality(Agent!Requested) \in Nat /\ Agent!Cardinality(Agent!Requested) = Cardinality(CallsIn(thread))
    BY <2>1, FS_CardinalityType, SameCount, CallsOfTheThread
  <2>3. DOMAIN Agent!Answered = 1..Agent!Cardinality(Agent!Requested) BY DEF Agent!Answered
  <2>4. DOMAIN told = 1..Agent!Cardinality(Agent!Requested) BY <2>3
  <2>5. Len(told) = Cardinality(CallsIn(thread)) BY <1>5, <2>2, <2>4
  <2>6. ASSUME NEW n \in 1..Len(told)
        PROVE  /\ told[n].role = "tool" /\ told[n].calls = {}
               /\ told[n].answers \in CallsIn(thread) /\ told[n].answers.n = n
    <3>1. n \in 1..Cardinality(CallsIn(thread)) /\ n \in DOMAIN Agent!Answered BY <2>2, <2>3, <2>5
    <3>2. told[n] = Agent!Message("tool", size, {}, Agent!Answered[n]) BY <3>1
    <3>3. Agent!Answered[n] = CHOOSE c \in CallsIn(thread) : c.n = n
      BY <2>2, <3>1, CallsOfTheThread DEF Agent!Answered
    <3>4. \E c \in CallsIn(thread) : c.n = n BY <1>2, <3>1 DEF Pairing, Paired, CallsNumbered
    <3>5. Agent!Answered[n] \in CallsIn(thread) /\ Agent!Answered[n].n = n BY <3>3, <3>4
    <3>6. QED BY <3>2, <3>5 DEF Agent!Message
  <2> HIDE DEF told
  <2>7. QED BY <1>5, <2>5, <2>6 DEF Tells
<1> HIDE DEF told, new
<1>7. /\ ThreadOK(thread') /\ thread'.node = "decide" /\ thread'.step = thread.step
      /\ thread'.messages = thread.messages \o told
      /\ thread'.replies = <<>> /\ saved' \in {saved, thread'} /\ given' = "none" /\ finished' = {}
  <2>1. new.node \in {"decide", "tools", "judge", "end"} /\ new.step \in Nat BY <1>4
  <2>2. QED BY <1>2, <1>4, <1>6, <2>1, CommitIs
<1>8. Within(thread') BY <1>2, <1>4, <1>7 DEF Stepping, Within
<1>9. Stepping' BY <1>7, <1>8, SteppingStays
<1>10. Consenting' /\ Counted'
  <2>1. thread'.step >= thread.step /\ thread'.node # "tools" BY <1>4, <1>7
  <2>2. troubles' \in [Agent!Troubles -> Nat] /\ Crashes' = Crashes /\ troubles'["failures"] >= troubles["failures"]
    BY <1>2, <1>3 DEF ProcessOK, Crashes, Agent!Troubles
  <2>3. QED BY <1>2, <1>7, <2>1, <2>2, Committed
<1>11. Pairing'
  <2>1. Paired(thread) /\ DecisionOK(thread) /\ thread'.node # "tools"
    BY <1>7 DEF Pairing, Consenting, Threads
  <2>2. /\ ThreadOK(thread) /\ thread.node = "tools" /\ thread'.step = thread.step
        /\ thread'.messages = thread.messages \o told
    BY <1>2, <1>3, <1>7
  <2>3. Paired(thread') BY ONLY <1>12, <2>1, <2>2, ObservePairs
  <2>4. QED BY <1>7, <2>3, PairingStays
<1>13. QED BY <1>9, <1>10, <1>11

\* The judge ends the run, or sends it back.
LEMMA JudgeStep ==
    ASSUME Inv, Agent!AgentLoopAssumption, Agent!JudgeDone \/ Agent!JudgeContinues
    PROVE  Inv'
<1> USE DEF Inv
<1> DEFINE message == Agent!Message("system", 1, {}, Agent!NoCall)
           done == [thread EXCEPT !.node = "end"]
           again == [thread EXCEPT !.node = "decide", !.candidate = "none", !.messages = Append(@, message)]
<1>1. /\ process = "running" /\ process' = process /\ effects' = effects /\ question' = question /\ answer' = answer
      /\ verdicts' = verdicts /\ troubles' = troubles /\ thread.node = "judge"
      /\ \/ Agent!Commit(done)
         \/ Agent!Commit(again) /\ ~Agent!OutOfSteps
  BY DEF Agent!JudgeDone, Agent!JudgeContinues, Agent!At, Agent!talk
<1>2. ThreadOK(thread) /\ ProcessOK BY DEF Consenting, Threads
<1>3. /\ Fields(done) /\ done.node = "end" /\ done.step = thread.step /\ done.messages = thread.messages
      /\ Fields(again) /\ again.node = "decide" /\ again.step = thread.step
      /\ again.messages = Append(thread.messages, message) /\ thread.step \in Nat
  <2>1. Fields(thread) /\ thread.step \in Nat BY <1>2 DEF ThreadOK
  <2>2. Fields(done) /\ done.node = "end" /\ done.step = thread.step /\ done.messages = thread.messages
    BY <2>1 DEF Fields
  <2> DEFINE list == Append(thread.messages, message)
  <2>3. again = [thread EXCEPT !.node = "decide", !.candidate = "none", !.messages = list] BY DEF again
  <2> HIDE DEF message, list, again, done
  <2>4. Fields(again) /\ again.node = "decide" /\ again.step = thread.step /\ again.messages = list
    BY <2>1, <2>3 DEF Fields
  <2>5. QED BY <2>1, <2>2, <2>4 DEF list
<1>4. thread.messages \in Seq({thread.messages[i] : i \in DOMAIN thread.messages}) BY <1>2 DEF ThreadOK
<1> HIDE DEF message, done, again
<1>5. /\ done.messages \in Seq({done.messages[i] : i \in DOMAIN done.messages}) BY <1>3, <1>4
<1>6. /\ again.messages \in Seq({again.messages[i] : i \in DOMAIN again.messages})
      /\ again.messages[Len(again.messages)] = message
  <2>1. again.messages = Append(thread.messages, message) BY <1>3
  <2>2. QED BY ONLY <1>4, <2>1, AppendIs
<1>7. /\ ThreadOK(thread') /\ thread'.step = thread.step
      /\ thread'.node = "end" \/ (thread'.node = "decide" /\ ~Agent!OutOfSteps)
      /\ thread'.messages = thread.messages \/ thread'.messages = Append(thread.messages, message)
      /\ thread'.replies = <<>> /\ saved' \in {saved, thread'} /\ given' = "none" /\ finished' = {}
  <2>1. done.node \in {"decide", "tools", "judge", "end"} /\ done.step \in Nat BY <1>3
  <2>2. again.node \in {"decide", "tools", "judge", "end"} /\ again.step \in Nat BY <1>3
  <2>3. CASE Agent!Commit(done) BY <1>3, <1>5, <2>1, <2>3, CommitIs
  <2>4. CASE Agent!Commit(again) /\ ~Agent!OutOfSteps BY <1>3, <1>6, <2>2, <2>4, CommitIs
  <2>5. QED BY <1>1, <2>3, <2>4
<1>8. Within(thread')
  BY <1>1, <1>3, <1>7 DEF Stepping, Within, Agent!OutOfSteps, Agent!AgentLoopAssumption
<1>9. Stepping' BY <1>7, <1>8, SteppingStays
<1>10. Consenting' /\ Counted'
  <2>1. thread'.step >= thread.step /\ thread'.node # "tools" BY <1>3, <1>7
  <2>2. troubles' \in [Agent!Troubles -> Nat] /\ Crashes' = Crashes /\ troubles'["failures"] >= troubles["failures"]
    BY <1>1, <1>2 DEF ProcessOK, Crashes, Agent!Troubles
  <2>3. QED BY <1>1, <1>7, <2>1, <2>2, Committed
<1>11. Pairing'
  <2>1. message.role # "tool" /\ message.calls = {} BY DEF message, Agent!Message
  <2>2. thread'.step \in Nat /\ thread.step <= thread'.step BY <1>3, <1>7
  <2>3. thread.node # "tools" /\ thread'.node # "tools" BY <1>1, <1>7
  <2>4. CASE thread'.messages = thread.messages
    <3>1. Paired(thread') BY <1>7, <2>3, <2>4, SamePairs DEF Pairing
    <3>2. QED BY <1>7, <3>1, PairingStays
  <2>5. CASE thread'.messages = Append(thread.messages, message)
    <3>1. Paired(thread') BY <1>2, <2>1, <2>2, <2>3, <2>5, AppendPairs DEF Pairing
    <3>2. QED BY <1>7, <3>1, PairingStays
  <2>6. QED BY <1>7, <2>4, <2>5
<1>12. QED BY <1>9, <1>10, <1>11

\* A run begins with a sequence of messages, and nothing was asked or done.
LEMMA AgentBegins ==
    ASSUME Agent!AgentLoopAssumption, Agent!Init
    PROVE  Inv
<1>1. PICK history \in Histories : thread = Agent!Start(history) BY DEF Agent!Init
<1> DEFINE past == Agent!History(history, <<Agent!System, Agent!User>>, InputLimit)
           system == Agent!System
           user == Agent!User
           opening == <<system>> \o past \o <<user>>
<1>2. thread = [node |-> "decide", messages |-> opening, step |-> 0, events |-> 0, evidence |-> FALSE,
                candidate |-> "none", replies |-> <<>>]
  BY <1>1 DEF Agent!Start, Agent!Opening
<1>3. /\ opening \in Seq({opening[i] : i \in DOMAIN opening})
      /\ \A i \in DOMAIN opening : opening[i].calls = {} /\ opening[i].role # "tool"
  <2>1. history \in Seq({history[i] : i \in DOMAIN history}) BY DEF Agent!AgentLoopAssumption
  <2>12. \A i \in DOMAIN history : history[i].calls = {} /\ history[i].role # "tool"
    BY DEF Agent!AgentLoopAssumption
  <2>2. Listed(past) BY ONLY <2>1, HistoryIs
  <2>13. TakenFrom(past, history) BY ONLY <2>1, HistoryIs
  <2>7. /\ system.calls = {} /\ system.role # "tool" /\ user.calls = {} /\ user.role # "tool"
    BY DEF Agent!System, Agent!User, Agent!Message
  <2>8. \A i \in DOMAIN past : past[i].calls = {} /\ past[i].role # "tool" BY <2>12, <2>13 DEF TakenFrom
  <2> HIDE DEF past, system, user
  <2> DEFINE S == {past[i] : i \in DOMAIN past} \cup {system, user}
  <2>3. past \in Seq(S) /\ <<system>> \in Seq(S) /\ <<user>> \in Seq(S) BY <2>2 DEF Listed
  <2>9. \A m \in S : m.calls = {} /\ m.role # "tool" BY <2>7, <2>8
  <2> HIDE DEF S
  <2>4. <<system>> \o past \in Seq(S) BY <2>3, ConcatProperties
  <2>5. opening \in Seq(S) BY <2>3, <2>4, ConcatProperties
  <2> HIDE DEF opening
  <2>6. opening \in Seq({opening[i] : i \in DOMAIN opening}) BY ONLY <2>5, SelfRange
  <2>10. \A i \in DOMAIN opening : opening[i] \in S BY ONLY <2>5
  <2>11. QED BY <2>6, <2>9, <2>10
<1> HIDE DEF opening
<1>4. /\ saved = thread /\ process = "running" /\ given = "none" /\ answer = "none" /\ verdicts = <<>>
      /\ finished = {} /\ effects = <<>> /\ troubles = [b \in Agent!Troubles |-> 0]
  BY DEF Agent!Init
<1>5. Fields(thread) BY <1>2 DEF Fields
<1>6. Threads BY <1>2, <1>3, <1>4, <1>5 DEF Threads, ThreadOK, DecisionOK
<1>7. ProcessOK BY <1>4 DEF ProcessOK
<1>8. Synced BY <1>4 DEF Synced
<1>9. Known BY <1>4 DEF Known
<1>10. Answering BY <1>2, <1>4 DEF Answering, Replied, InTurn, NotAskedTwice, NextAnswer
<1>11. Ahead BY <1>2 DEF Ahead
<1>12. TakenUp BY <1>2, <1>4 DEF TakenUp
<1>13. Heeded BY <1>4 DEF Heeded
<1>14. Told BY <1>2, <1>4 DEF Told
<1>15. Counted BY <1>4 DEF Counted
<1>16. Stepping BY <1>2, <1>4 DEF Stepping, Within, Agent!AgentLoopAssumption
<1>17. Pairing
  <2>1. thread.node # "tools" /\ thread.messages = opening BY <1>2
  <2>2. Paired(thread) BY <1>3, <2>1, PairedBegins
  <2>3. QED BY <1>4, <2>2 DEF Pairing
<1>18. QED BY <1>6, <1>7, <1>8, <1>9, <1>10, <1>11, <1>12, <1>13, <1>14, <1>15, <1>16, <1>17 DEF Inv, Consenting

\* Steps that change neither the thread nor what was said and done.
LEMMA CalmSteps ==
    ASSUME Inv, thread' = thread, saved' = saved, verdicts' = verdicts, effects' = effects,
           given' = given, answer' = answer, question' = question, process' \in {process, "ended"},
           finished \subseteq finished',
           \/ troubles' = troubles
           \/ \E b \in {"rejections", "failures", "deadlines"} : Agent!Spend(b)
    PROVE  Inv'
<1>1. /\ troubles' \in [Agent!Troubles -> Nat] /\ Crashes' = Crashes
      /\ troubles'["failures"] >= troubles["failures"]
  <2>1. {"crashes", "rejections", "failures", "deadlines"} = Agent!Troubles BY DEF Agent!Troubles
  <2>2. ProcessOK BY DEF Inv, Consenting
  <2>3. CASE troubles' = troubles BY <2>1, <2>2, <2>3 DEF ProcessOK, Crashes
  <2>4. ASSUME NEW b \in {"rejections", "failures", "deadlines"}, Agent!Spend(b)
        PROVE  /\ troubles' \in [Agent!Troubles -> Nat] /\ Crashes' = Crashes
               /\ troubles'["failures"] >= troubles["failures"]
    <3>1. /\ troubles' \in [Agent!Troubles -> Nat]
          /\ troubles'[b] = troubles[b] + 1
          /\ \A a \in Agent!Troubles \ {b} : troubles'[a] = troubles[a]
      BY <2>1, <2>2, <2>4, Spending
    <3>2. troubles["failures"] \in Nat BY <2>1, <2>2 DEF ProcessOK
    <3>3. QED BY <2>1, <3>1, <3>2 DEF Crashes
  <2>5. QED BY <2>3, <2>4
<1>2. Consenting' /\ Counted' BY <1>1, Undisturbed DEF Inv
<1>3. Stepping' BY DEF Inv, Stepping, Within
<1>4. Pairing' BY PairingKept DEF Inv
<1>5. QED BY <1>2, <1>3, <1>4 DEF Inv

\* Every step keeps the invariant.
LEMMA AgentKeeps ==
    ASSUME Inv, Agent!AgentLoopAssumption, [Agent!Next]_(Agent!vars)
    PROVE  Inv'
<1>1. CASE UNCHANGED Agent!vars
  BY <1>1, CalmSteps DEF Agent!vars, Agent!talk
<1>2. CASE Agent!Ask
  BY <1>2, CalmSteps DEF Agent!Ask, Agent!talk
<1>3. CASE Agent!AskAgain
  BY <1>3, CalmSteps DEF Agent!AskAgain, Agent!talk
<1>4. CASE Agent!Reply
  <2>1. troubles' = troubles BY <1>4 DEF Agent!Reply
  <2>2. PICK candidate : Agent!Say(candidate) BY <1>4 DEF Agent!Reply
  <2>3. Agent!At("decide") BY <1>4 DEF Agent!Reply
  <2>4. troubles' \in [Agent!Troubles -> Nat] /\ Crashes' = Crashes /\ troubles'["failures"] >= troubles["failures"]
    BY <2>1 DEF Inv, Consenting, ProcessOK, Crashes, Agent!Troubles
  <2>5. QED BY <2>2, <2>3, <2>4, SayStep
<1>5. CASE Agent!FallBack
  <2>1. troubles' = troubles \/ Agent!Spend("rejections") BY <1>5 DEF Agent!FallBack
  <2>2. Agent!Say("answer") /\ Agent!At("decide") BY <1>5 DEF Agent!FallBack
  <2>3. ProcessOK BY DEF Inv, Consenting
  <2>4. troubles' \in [Agent!Troubles -> Nat] /\ Crashes' = Crashes /\ troubles'["failures"] >= troubles["failures"]
    <3>1. {"crashes", "rejections", "failures", "deadlines"} = Agent!Troubles BY DEF Agent!Troubles
    <3>2. CASE troubles' = troubles BY <2>3, <3>1, <3>2 DEF ProcessOK, Crashes
    <3>3. CASE Agent!Spend("rejections")
      <4>1. /\ troubles' \in [Agent!Troubles -> Nat]
            /\ \A a \in Agent!Troubles \ {"rejections"} : troubles'[a] = troubles[a]
        BY <2>3, <3>1, <3>3, Spending
      <4>2. QED BY <2>3, <3>1, <4>1 DEF Crashes, ProcessOK
    <3>4. QED BY <2>1, <3>2, <3>3
  <2>5. QED BY <2>2, <2>4, SayStep
<1>6. CASE Agent!Request BY <1>6, RequestStep
<1>7. CASE Agent!Break
  BY <1>7, CalmSteps DEF Agent!Break, Agent!talk
<1>8. CASE Agent!Consume
  <2>1. Consenting' /\ Counted' BY <1>8, ConsumeStep DEF Inv
  <2>2. /\ saved' \in {saved, thread'} /\ thread'.step = thread.step /\ thread'.node = thread.node
    BY <1>8 DEF Agent!Consume, Inv, Consenting, Threads, ThreadOK, Fields
  <2>3. Stepping' BY <2>2 DEF Inv, Stepping, Within
  <2>4. thread'.messages = thread.messages
    BY <1>8 DEF Agent!Consume, Inv, Consenting, Threads, ThreadOK, Fields
  <2>5. Pairing'
    <3>1. Paired(thread') BY <2>2, <2>4, SamePairs DEF Inv, Pairing
    <3>2. QED BY <2>2, <3>1, PairingStays DEF Inv
  <2>6. QED BY <2>1, <2>3, <2>5 DEF Inv
<1>9. CASE Agent!Interrupt
  <2>1. Stepping' BY <1>9 DEF Inv, Stepping, Within, Agent!Interrupt
  <2>2. Pairing' BY <1>9, PairingKept DEF Inv, Agent!Interrupt
  <2>3. QED BY <1>9, <2>1, <2>2, InterruptStep DEF Inv
<1>10. CASE Agent!Show
  <2>1. Stepping' BY <1>10 DEF Inv, Stepping, Within, Agent!Show
  <2>2. Pairing' BY <1>10, PairingKept DEF Inv, Agent!Show
  <2>3. QED BY <1>10, <2>1, <2>2, ShowStep DEF Inv
<1>11. ASSUME NEW reply \in {"approve", "reject"}, Agent!Respond(reply) PROVE Inv'
  <2>1. Stepping' BY <1>11 DEF Inv, Stepping, Within, Agent!Respond
  <2>2. Pairing' BY <1>11, PairingKept DEF Inv, Agent!Respond
  <2>3. QED BY <1>11, <2>1, <2>2, RespondStep DEF Inv
<1>12. ASSUME NEW write \in Agent!Writes, Agent!Attempt(write) PROVE Inv'
  <2>1. Stepping' BY <1>12 DEF Inv, Stepping, Within, Agent!Attempt
  <2>2. Pairing' BY <1>12, PairingKept DEF Inv, Agent!Attempt
  <2>3. QED BY <1>12, <2>1, <2>2, AttemptStep DEF Inv
<1>13. ASSUME NEW write \in Agent!Writes, Agent!Fail(write) PROVE Inv'
  BY <1>13, CalmSteps DEF Agent!Fail, Agent!talk
<1>14. CASE Agent!Observe BY <1>14, ObserveStep
<1>15. CASE Agent!JudgeDone \/ Agent!JudgeContinues BY <1>15, JudgeStep
<1>16. CASE Agent!End
  BY <1>16, CalmSteps DEF Agent!End, Agent!talk
<1>17. CASE Agent!Deadline
  BY <1>17, CalmSteps DEF Agent!Deadline, Agent!talk
<1>18. CASE Agent!Crash
  <2>1. Stepping' BY <1>18 DEF Inv, Stepping, Within, Agent!Crash
  <2>2. Pairing' BY <1>18, PairingKept DEF Inv, Agent!Crash
  <2>3. QED BY <1>18, <2>1, <2>2, CrashStep DEF Inv
<1>19. CASE Agent!Claim
  <2>1. Stepping' BY <1>19 DEF Inv, Stepping, Within, Agent!Claim
  <2>2. Pairing' BY <1>19, PairingKept DEF Inv, Agent!Claim
  <2>3. QED BY <1>19, <2>1, <2>2, ClaimStep DEF Inv
<1>20. QED
  BY <1>1, <1>2, <1>3, <1>4, <1>5, <1>6, <1>7, <1>8, <1>9, <1>10, <1>11, <1>12, <1>13, <1>14, <1>15,
     <1>16, <1>17, <1>18, <1>19 DEF Agent!Next

\* Agent!ActsOnConsent: while no process dies, what takes effect was
\* shown to the user and approved, and what was denied takes none even if processes
\* die; a call takes effect once, and again for a crash or a failure at most.
THEOREM ActsOnConsentHolds ==
    ASSUME Agent!AgentLoopAssumption
    PROVE  Agent!Spec => []Agent!ActsOnConsent
<1>1. Agent!Init => Inv BY AgentBegins
<1>2. Inv /\ [Agent!Next]_(Agent!vars) => Inv' BY AgentKeeps
<1>3. Inv => Agent!ActsOnConsent
  <2>1. ASSUME Inv PROVE Agent!Consented
    BY <2>1 DEF Inv, Consenting, Heeded, Told, Agent!Consented, Crashes
  <2>2. ASSUME Inv, NEW c \in DOMAIN effects
        PROVE  effects[c] <= 1 + (IF c.kind = "keyed" THEN 0 ELSE troubles["crashes"])
                               + (IF c.kind = "set" THEN troubles["failures"] ELSE 0)
    <3>1. Crashes \in Nat /\ troubles["failures"] \in Nat
      BY <2>2 DEF Inv, Consenting, ProcessOK, Agent!Troubles, Crashes
    <3>2. Again(c) \in {0, 1} BY DEF Again
    <3>3. QED BY <2>2, <3>1, <3>2 DEF Inv, Counted, Crashes
  <2>3. QED BY <2>1, <2>2 DEF Agent!Once, Agent!ActsOnConsent
<1>4. QED BY <1>1, <1>2, <1>3, PTL DEF Agent!Spec

\* Agent!WithinSteps: an agent takes no more steps than its contract gives it, and
\* runs no tools in the last of them.
THEOREM WithinStepsHolds ==
    ASSUME Agent!AgentLoopAssumption
    PROVE  Agent!Spec => []Agent!WithinSteps
<1>1. Agent!Init => Inv BY AgentBegins
<1>2. Inv /\ [Agent!Next]_(Agent!vars) => Inv' BY AgentKeeps
<1>3. Inv => Agent!WithinSteps BY DEF Inv, Stepping, Within, Agent!WithinSteps
<1>4. QED BY <1>1, <1>2, <1>3, PTL DEF Agent!Spec

\* Agent!CallsAreAnswered: before the model is asked again, every call of the
\* conversation has exactly one observation, whatever crashes and resumptions happen.
THEOREM CallsAreAnsweredHolds ==
    ASSUME Agent!AgentLoopAssumption
    PROVE  Agent!Spec => []Agent!CallsAreAnswered
<1>1. Agent!Init => Inv BY AgentBegins
<1>2. Inv /\ [Agent!Next]_(Agent!vars) => Inv' BY AgentKeeps
<1>3. Inv => Agent!CallsAreAnswered
  <2> SUFFICES ASSUME Inv, thread.node # "tools", NEW i \in Agent!Calling(thread.messages),
                      NEW c \in thread.messages[i].calls
               PROVE  Agent!Cardinality({k \in Agent!Answers(thread.messages, i) : thread.messages[k].answers = c}) = 1
    BY DEF Agent!CallsAreAnswered
  <2> DEFINE observed == {k \in Agent!Answers(thread.messages, i) : thread.messages[k].answers = c}
  <2>1. i \in DOMAIN thread.messages BY DEF Agent!Calling, Agent!Indices
  <2>2. ~Latest(thread, i) BY DEF Latest
  <2>3. ObservedOnce(thread.messages, i, c) BY <2>1, <2>2 DEF Inv, Pairing, Paired
  <2>4. \E k : observed = {k} BY <2>3 DEF ObservedOnce
  <2> HIDE DEF observed
  <2>5. Cardinality(observed) = 1 BY <2>4, FS_Singleton
  <2>6. QED BY <2>5, SameCount DEF observed
<1>4. QED BY <1>1, <1>2, <1>3, PTL DEF Agent!Spec
=============================================================================
