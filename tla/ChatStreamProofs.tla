---------------------------- MODULE ChatStreamProofs ----------------------------
(***************************************************************************)
(* The readers of a chat task, for any number of pages and parts, of        *)
(* cancellations, answers, crashes and broken connections: a page shows the *)
(* log from its first event on, in order and nothing twice; and "done" is   *)
(* the last event of the log.  Then the other two streams: the events of an *)
(* account (SimulationEvents), and those of backtests (BacktestJobs).  Last,  *)
(* the rows of conversations (Conversations).                               *)
(***************************************************************************)
EXTENDS ChatStream, SequenceTheorems, FiniteSetTheorems, TLAPS

\* The log is a sequence, and every page stands somewhere in it.
Numbers == Seq(Nat)
PagePhases == {"list", "look", "ended", "closed"}
PageTypes == [at : PagePhases, cursor : Nat, fresh : BOOLEAN, last : Nat, shown : Numbers]
WriterPhases == {"off", "ready", "read", "check", "write", "lock", "look", "number", "insert",
                 "mark", "note", "cancelled", "finally"}
Nexts == {"none", "waiting_user", "completed", "failed", "cancelled"}
WriterTypes == [at : WriterPhases, event : Nat, read : Numbers, last : Nat, status : Nexts]
Typed ==
    /\ log \in Numbers /\ parts \in Numbers /\ emitted \in Nat
    /\ writer \in [Writers -> WriterTypes]
    /\ page \in [Pages -> PageTypes]

LEMMA WritersAreClosed ==
    ASSUME MaxParts \in Nat
    PROVE  /\ Off \in WriterTypes /\ Ready \in WriterTypes
           /\ \A phase \in WriterPhases : [Off EXCEPT !.at = phase] \in WriterTypes
           /\ \A k \in WriterTypes, phase \in WriterPhases : [k EXCEPT !.at = phase] \in WriterTypes
           /\ \A k \in WriterTypes, phase \in WriterPhases, event \in Nat :
                 /\ [k EXCEPT !.at = phase, !.event = event] \in WriterTypes
                 /\ \A next \in Nexts :
                       [k EXCEPT !.at = phase, !.event = event, !.status = next] \in WriterTypes
           /\ \A k \in WriterTypes, phase \in WriterPhases, seq \in Numbers :
                 [k EXCEPT !.at = phase, !.read = seq] \in WriterTypes
           /\ \A k \in WriterTypes, phase \in WriterPhases, n \in Nat :
                 [k EXCEPT !.at = phase, !.last = n] \in WriterTypes
           /\ Done \in Nat /\ Question \in Nat
<1>1. <<>> \in Numbers  BY EmptySeq DEF Numbers
<1>2. Off \in WriterTypes  BY <1>1 DEF Off, WriterTypes, WriterPhases, Nexts
<1>3. \A k \in WriterTypes, phase \in WriterPhases : [k EXCEPT !.at = phase] \in WriterTypes
  BY DEF WriterTypes
<1>6. \A k \in WriterTypes, phase \in WriterPhases, event \in Nat :
         /\ [k EXCEPT !.at = phase, !.event = event] \in WriterTypes
         /\ \A next \in Nexts :
               [k EXCEPT !.at = phase, !.event = event, !.status = next] \in WriterTypes
  BY DEF WriterTypes
<1>7. /\ \A k \in WriterTypes, phase \in WriterPhases, seq \in Numbers :
            [k EXCEPT !.at = phase, !.read = seq] \in WriterTypes
      /\ \A k \in WriterTypes, phase \in WriterPhases, n \in Nat :
            [k EXCEPT !.at = phase, !.last = n] \in WriterTypes
  BY DEF WriterTypes
<1>4. "ready" \in WriterPhases  BY DEF WriterPhases
<1>5. Done \in Nat /\ Question \in Nat  BY DEF Done, Question
<1> QED  BY <1>2, <1>3, <1>4, <1>5, <1>6, <1>7 DEF Ready

LEMMA WriterMoves ==
    ASSUME writer \in [Writers -> WriterTypes], NEW w \in Writers, NEW next \in WriterTypes, Goes(w, next)
    PROVE  writer' \in [Writers -> WriterTypes]
BY DEF Goes

LEMMA PagesAreClosed ==
    /\ \A k \in PageTypes, phase \in PagePhases, n \in Nat :
          /\ [k EXCEPT !.at = phase] \in PageTypes
          /\ [k EXCEPT !.at = phase, !.cursor = n] \in PageTypes
    /\ \A k \in PageTypes, n \in Nat, seq \in Numbers, b \in BOOLEAN :
          [[k EXCEPT !.cursor = n, !.shown = seq, !.last = n] EXCEPT !.at = "look", !.fresh = b] \in PageTypes
BY DEF PageTypes, PagePhases

\* A part of a sequence is one.
LEMMA OnTheLog ==
    ASSUME NEW seq \in Seq(Nat), NEW m \in Nat, NEW n \in Nat, n <= Len(seq)
    PROVE  SubSeq(seq, m + 1, n) \in Seq(Nat)
<1>1. \A i \in (m + 1)..n : seq[i] \in Nat
  BY ElementOfSeq, LenProperties
<1> QED  BY <1>1, SubSeqProperties, LenProperties

LEMMA PageFields ==
    ASSUME NEW k \in PageTypes, NEW phase, NEW n
    PROVE  LET moved == [k EXCEPT !.at = phase]
               back == [k EXCEPT !.at = phase, !.cursor = n]
           IN /\ moved.at = phase /\ moved.cursor = k.cursor /\ moved.last = k.last /\ moved.shown = k.shown
              /\ back.at = phase /\ back.cursor = n /\ back.last = k.last /\ back.shown = k.shown
BY DEF PageTypes

LEMMA PageMoves ==
    ASSUME page \in [Pages -> PageTypes], NEW p \in Pages, NEW next \in PageTypes, ToPage(p, next)
    PROVE  page' \in [Pages -> PageTypes] /\ page'[p] = next /\ \A q \in Pages \ {p} : page'[q] = page[q]
BY DEF ToPage

\* Every variable keeps its type: events are numbers, and pages stand somewhere in
\* the log (chat_store.py, chat_service.py, frontend/src/pages/chat.tsx).
THEOREM TypeCorrect ==
    ASSUME MaxParts \in Nat
    PROVE  Spec => []Typed
<1> USE DEF Task, Store, Rest, World
<1>0. <<>> \in Numbers  BY EmptySeq DEF Numbers
<1>1. Init => Typed
  <2>2. Ready \in WriterTypes  BY WritersAreClosed
  <2>1. NewPage \in PageTypes  BY <1>0 DEF NewPage, PageTypes, PagePhases
  <2> QED  BY <1>0, <2>1, <2>2 DEF Init, Typed
<1>2. Typed /\ [Next]_vars => Typed'
  <2> SUFFICES ASSUME Typed, [Next]_vars PROVE Typed'
    OBVIOUS
  <2>a. /\ writer \in [Writers -> WriterTypes] /\ page \in [Pages -> PageTypes]
        /\ log \in Numbers /\ parts \in Numbers /\ emitted \in Nat
    BY DEF Typed
  <2>b. "agent" \in Writers /\ \A w \in Writers : writer[w] \in WriterTypes
    BY <2>a DEF Writers
  <2>1. ASSUME NEW w \in Writers, Emit(w) PROVE Typed'
    <3>1. \A then \in {"none", "waiting_user"} :
            [Ready EXCEPT !.at = "read", !.event = emitted + 1, !.status = then] \in WriterTypes
      <4>1. emitted + 1 \in Nat  BY <2>a
      <4>2. "read" \in WriterPhases /\ {"none", "waiting_user"} \subseteq Nexts  BY DEF WriterPhases, Nexts
      <4> TAKE then \in {"none", "waiting_user"}
      <4>3. then \in Nexts  BY <4>2
      <4> QED  BY <4>1, <4>2, <4>3, WritersAreClosed
    <3>2. PICK next \in WriterTypes : Goes(w, next)  BY <2>1, <3>1 DEF Emit
    <3>3. emitted' = emitted + 1 /\ UNCHANGED <<log, parts, page>>  BY <2>1 DEF Emit
    <3> QED  BY <2>a, <3>2, <3>3, WriterMoves DEF Typed
  <2>2. ASSUME NEW w \in Writers, ReadMessage(w) PROVE Typed'
    <3>1. [writer[w] EXCEPT !.at = "check", !.read = parts] \in WriterTypes
      BY <2>a, <2>b, WritersAreClosed DEF WriterPhases
    <3> QED  BY <2>2, <2>a, <3>1, WriterMoves DEF ReadMessage, Typed
  <2>3. ASSUME NEW w \in Writers, CheckTask(w) PROVE Typed'
    <3>1. Cancelled(w) \in WriterTypes /\ [writer[w] EXCEPT !.at = "write"] \in WriterTypes
      BY <2>b, WritersAreClosed DEF Cancelled, WriterPhases
    <3> QED  BY <2>3, <2>a, <3>1, WriterMoves DEF CheckTask, Typed
  <2>4. ASSUME NEW w \in Writers, WriteMessage(w) PROVE Typed'
    <3>1. /\ [writer[w] EXCEPT !.at = "lock"] \in WriterTypes
          /\ [writer[w] EXCEPT !.at = "mark", !.event = Question] \in WriterTypes
      BY <2>b, WritersAreClosed DEF WriterPhases
    <3>2. writer[w].read \in Numbers /\ writer[w].event \in Nat  BY <2>b DEF WriterTypes
    <3>3. Append(writer[w].read, writer[w].event) \in Numbers  BY <3>2, AppendProperties DEF Numbers
    <3> QED  BY <2>4, <2>a, <3>1, <3>3, WriterMoves DEF WriteMessage, Typed
  <2>5. ASSUME NEW w \in Writers, Lock(w) PROVE Typed'
    <3>1. [writer[w] EXCEPT !.at = "look"] \in WriterTypes  BY <2>b, WritersAreClosed DEF WriterPhases
    <3> QED  BY <2>5, <2>a, <3>1, WriterMoves DEF Lock, Typed
  <2>d. \A w \in Writers : After(w) \in WriterTypes
    BY WritersAreClosed DEF After, WriterPhases
  <2>6. ASSUME NEW w \in Writers, LookAtTask(w) PROVE Typed'
    <3>1. [writer[w] EXCEPT !.at = "number"] \in WriterTypes  BY <2>b, WritersAreClosed DEF WriterPhases
    <3> QED  BY <2>6, <2>a, <2>d, <3>1, WriterMoves DEF LookAtTask, Typed
  <2>7. ASSUME NEW w \in Writers, ReadNumber(w) PROVE Typed'
    <3>1. Len(log) \in Nat  BY <2>a, LenProperties DEF Numbers
    <3>2. [writer[w] EXCEPT !.at = "insert", !.last = Len(log)] \in WriterTypes
      BY <2>b, <3>1, WritersAreClosed DEF WriterPhases
    <3> QED  BY <2>7, <2>a, <3>2, WriterMoves DEF ReadNumber, Typed
  <2>8. ASSUME NEW w \in Writers, Insert(w) PROVE Typed'
    <3>1. writer[w].event \in Nat  BY <2>b DEF WriterTypes
    <3>2. Append(log, writer[w].event) \in Numbers  BY <2>a, <3>1, AppendProperties DEF Numbers
    <3> QED  BY <2>8, <2>a, <2>d, <3>2, WriterMoves DEF Insert, Typed
  <2>e. /\ [Off EXCEPT !.at = "note", !.event = Done, !.status = "completed"] \in WriterTypes
        /\ [Off EXCEPT !.at = "note", !.event = Done, !.status = "cancelled"] \in WriterTypes
        /\ [Off EXCEPT !.at = "mark", !.event = Done, !.status = "failed"] \in WriterTypes
        /\ [Off EXCEPT !.at = "finally"] \in WriterTypes /\ Cancelled("agent") \in WriterTypes
        /\ [Off EXCEPT !.at = "cancelled"] \in WriterTypes
        /\ [writer["agent"] EXCEPT !.at = "note"] \in WriterTypes
        /\ [writer["agent"] EXCEPT !.at = "lock"] \in WriterTypes
    BY <2>b, WritersAreClosed DEF WriterPhases, Nexts, Cancelled
  <2>9. ASSUME Complete PROVE Typed'
    BY <2>9, <2>a, <2>b, <2>e, WriterMoves DEF Complete, Typed
  <2>10. ASSUME Fail PROVE Typed'
    BY <2>10, <2>a, <2>b, <2>e, WriterMoves DEF Fail, Typed
  <2>11. ASSUME Mark PROVE Typed'
    BY <2>11, <2>a, <2>b, <2>e, WriterMoves DEF Mark, Typed
  <2>12. ASSUME MarkCancelled PROVE Typed'
    BY <2>12, <2>a, <2>b, <2>e, WriterMoves DEF MarkCancelled, Typed
  <2>13. ASSUME Note PROVE Typed'
    BY <2>13, <2>a, <2>b, <2>e, WriterMoves DEF Note, Typed
  <2>14. ASSUME Finally PROVE Typed'
    BY <2>14, <2>a, WritersAreClosed DEF Finally, Typed
  <2>15. ASSUME RequestCancel \/ NoteCancel \/ Answer \/ Crash \/ Recover \/ Begin PROVE Typed'
    BY <2>15, <2>a, WritersAreClosed DEF RequestCancel, NoteCancel, Answer, Crash, Recover, Begin, Typed
  <2>16. ASSUME Deliver PROVE Typed'
    BY <2>16, <2>a, <2>b, <2>e, WriterMoves DEF Deliver, Typed
  <2>17. ASSUME NEW p \in Pages, List(p) PROVE Typed'
    <3> DEFINE arrived == New(p, page[p].cursor)
               skipped == page[p].last - page[p].cursor
               fresh == SubSeq(arrived, (IF skipped > 0 THEN skipped ELSE 0) + 1, Len(arrived))
               next == [Received(p, fresh) EXCEPT !.at = "look", !.fresh = arrived # <<>>]
    <3>1. page[p] \in PageTypes /\ page[p].cursor \in Nat /\ page[p].last \in Nat /\ page[p].shown \in Numbers
      BY <2>a DEF PageTypes
    <3>2. Len(log) \in Nat  BY <2>a, LenProperties DEF Numbers
    <3>3. arrived \in Numbers
      <4>1. log \in Seq(Nat)  BY <2>a DEF Numbers
      <4> QED  BY <3>1, <3>2, <4>1, OnTheLog DEF New, Numbers
    <3>4. fresh \in Numbers  BY <3>1, <3>3, OnTheLog, LenProperties DEF Numbers
    <3>5. page[p].shown \o fresh \in Numbers  BY <3>1, <3>4, ConcatProperties DEF Numbers
    <3> HIDE DEF arrived, skipped, fresh
    <3>6. next \in PageTypes  BY <3>1, <3>2, <3>5, PagesAreClosed DEF Received
    <3>7. ToPage(p, next) /\ UNCHANGED <<log, parts, emitted, writer>>
      BY <2>17 DEF List, arrived, skipped, fresh
    <3> HIDE DEF next
    <3> QED  BY <2>a, <3>6, <3>7, PageMoves DEF Typed
  <2>18. ASSUME NEW p \in Pages, Look(p) \/ Drop(p) \/ Ask(p) \/ Resume(p) PROVE Typed'
    <3>1. page[p] \in PageTypes /\ page[p].last \in Nat  BY <2>a DEF PageTypes
    <3>2. Len(log) \in Nat  BY <2>a, LenProperties DEF Numbers
    <3>3. PICK next \in PageTypes : ToPage(p, next)
      BY <2>18, <3>1, <3>2, PagesAreClosed DEF Look, Drop, Ask, Resume, PagePhases
    <3>4. UNCHANGED <<log, parts, emitted, writer>>
      BY <2>18 DEF Look, Drop, Ask, Resume
    <3> QED  BY <2>a, <3>3, <3>4, PageMoves DEF Typed
  <2>19. CASE UNCHANGED vars
    BY <2>19, <2>a DEF vars, Typed
  <2> QED
    BY <2>1, <2>2, <2>3, <2>4, <2>5, <2>6, <2>7, <2>8, <2>9, <2>10, <2>11, <2>12, <2>13, <2>14, <2>15,
       <2>16, <2>17, <2>18, <2>19 DEF Next, WriterStep, AgentStep, PageStep
<1> QED  BY <1>1, <1>2, PTL DEF Spec
-----------------------------------------------------------------------------
\* Where a page stands: it shows the log up to the last number it knows, and its
\* stream goes on from there.
Follows(p) ==
    /\ page[p].last <= Len(log) /\ page[p].shown = SubSeq(log, 1, page[p].last)
    /\ page[p].at \in {"list", "look"} => page[p].cursor = page[p].last
Following == \A p \in Pages : Follows(p)

LEMMA PrefixStays ==
    ASSUME NEW seq \in Seq(Nat), NEW e \in Nat, NEW n \in Nat, n <= Len(seq)
    PROVE  SubSeq(Append(seq, e), 1, n) = SubSeq(seq, 1, n) /\ n <= Len(Append(seq, e))
<1>1. n <= Len(Append(seq, e))  BY AppendProperties, LenProperties
<1>2. CASE n = 0  BY <1>2, SubSeqEmpty
<1>3. CASE n # 0
  <2>1. <<e>> \in Seq(Nat)  OBVIOUS
  <2>2. Append(seq, e) = seq \o <<e>>  BY AppendIsConcat
  <2> QED  BY <1>3, <2>1, <2>2, SubSeqOfConcat1, LenProperties
<1> QED  BY <1>1, <1>2, <1>3

\* Whatever connections break and processes die, and wherever a stream took up
\* again, a page shows the log from its first event on, in order and nothing twice
\* (subscribe, and the cursors of chat.tsx).
THEOREM ShowsTheLogHolds ==
    ASSUME MaxParts \in Nat
    PROVE  Spec => []ShowsTheLog
<1>1. Init => Following
  <2>1. 0 < 1 /\ 0 \in Int /\ 1 \in Int /\ Len(<<>>) = 0  BY EmptySeq
  <2>2. SubSeq(<<>>, 1, 0) = <<>>  BY <2>1, SubSeqEmpty
  <2>3. NewPage.last = 0 /\ NewPage.cursor = 0 /\ NewPage.shown = <<>>  BY DEF NewPage
  <2> SUFFICES ASSUME Init, NEW p \in Pages PROVE Follows(p)
    BY DEF Following
  <2>4. page[p] = NewPage /\ log = <<>>  BY DEF Init
  <2>5. page[p].last = 0 /\ page[p].cursor = 0 /\ page[p].shown = <<>> /\ Len(log) = 0
    BY <2>1, <2>3, <2>4
  <2>6. SubSeq(log, 1, page[p].last) = <<>>  BY <2>2, <2>4, <2>5
  <2> QED  BY <2>5, <2>6 DEF Follows
<1>2. Typed /\ Following /\ [Next]_vars => Following'
  <2> SUFFICES ASSUME Typed, Following, [Next]_vars PROVE Following'
    OBVIOUS
  <2>a. /\ log \in Seq(Nat) /\ Len(log) \in Nat /\ page \in [Pages -> PageTypes]
        /\ \A w \in Writers : writer[w].event \in Nat
        /\ \A p \in Pages : page[p] \in PageTypes /\ page[p].last \in Nat /\ page[p].cursor \in Nat
    BY LenProperties DEF Typed, Numbers, WriterTypes, PageTypes
  <2>b. ASSUME NEW p \in Pages, NEW next \in PageTypes, ToPage(p, next), UNCHANGED log, Follows(p)'
        PROVE  Following'
    BY <2>a, <2>b, PageMoves DEF Following, Follows
  <2>1. ASSUME NEW w \in Writers, Insert(w) PROVE Following'
    <3>1. log' = Append(log, writer[w].event) /\ UNCHANGED page
      BY <2>1 DEF Insert, Rest
    <3> QED  BY <2>a, <3>1, PrefixStays DEF Following, Follows
  <2>2. CASE UNCHANGED <<log, page>>
    BY <2>2 DEF Following, Follows
  <2>3. ASSUME NEW p \in Pages, List(p) PROVE Following'
    <3>1. page[p].cursor = page[p].last /\ page[p].last <= Len(log) /\ page[p].shown = SubSeq(log, 1, page[p].last)
      BY <2>3 DEF List, Following, Follows
    <3>2. page[p].last \in 0..Len(log)  BY <2>a, <3>1
    <3> DEFINE fresh == SubSeq(New(p, page[p].cursor), 0 + 1, Len(New(p, page[p].cursor)))
    <3>3. New(p, page[p].cursor) = SubSeq(log, page[p].last + 1, Len(log))  BY <3>1 DEF New
    <3>4. New(p, page[p].cursor) \in Seq(Nat)  BY <2>a, <3>2, <3>3, OnTheLog
    <3>5. fresh = New(p, page[p].cursor)  BY <3>4, SubSeqFull
    <3>6. page[p].shown \o fresh = SubSeq(log, 1, Len(log))
      <4>1. SubSeq(log, 1, page[p].last) \o SubSeq(log, page[p].last + 1, Len(log)) = SubSeq(log, 1, Len(log))
        <5>1. /\ 1 \in 1..(Len(log) + 1) /\ page[p].last \in (1 - 1)..Len(log)
              /\ Len(log) \in page[p].last..Len(log)
          BY <2>a, <3>2
        <5> QED  BY <2>a, <5>1, ConcatAdjacentSubSeq
      <4> QED  BY <3>1, <3>3, <3>5, <4>1
    <3>7. page[p].last - page[p].cursor = 0  BY <2>a, <3>1
    <3> HIDE DEF fresh
    <3>8. /\ page' = [page EXCEPT ![p] = [Received(p, fresh) EXCEPT
                !.at = "look", !.fresh = New(p, page[p].cursor) # <<>>]]
          /\ UNCHANGED log
      BY <2>3, <3>7 DEF List, ToPage, World, Store, fresh
    <3>9. /\ page'[p].last = Len(log) /\ page'[p].cursor = Len(log)
          /\ page'[p].shown = page[p].shown \o fresh /\ \A q \in Pages \ {p} : page'[q] = page[q]
      BY <2>a, <3>8 DEF Received, PageTypes
    <3> QED  BY <2>a, <3>6, <3>8, <3>9 DEF Following, Follows
  <2>4. ASSUME NEW p \in Pages, Look(p) \/ Drop(p) \/ Ask(p) \/ Resume(p) PROVE Following'
    <3>1. UNCHANGED log  BY <2>4 DEF Look, Drop, Ask, Resume, World, Store
    <3>2. page[p].at \in {"list", "look"} => page[p].cursor = page[p].last
      BY DEF Following, Follows
    <3>3. PICK next :
            /\ ToPage(p, next) /\ next.last = page[p].last /\ next.shown = page[p].shown
            /\ next.at \in {"list", "look"} => next.cursor = page[p].last
      <4>1. CASE Look(p)
        <5> DEFINE phase == IF NothingComes(p) THEN "ended" ELSE "list"
                   moved == [page[p] EXCEPT !.at = phase]
        <5>1. ToPage(p, moved) /\ page[p].at = "look"  BY <4>1 DEF Look
        <5>2. moved.last = page[p].last /\ moved.shown = page[p].shown /\ moved.cursor = page[p].cursor
          <6> HIDE DEF phase
          <6> QED  BY <2>a, PageFields
        <5> HIDE DEF moved
        <5> QED  BY <3>2, <5>1, <5>2
      <4>2. CASE Drop(p)
        <5> DEFINE back == [page[p] EXCEPT !.at = "ended", !.cursor = Len(log)]
                   moved == [page[p] EXCEPT !.at = "ended"]
        <5>1. ToPage(p, moved) \/ ToPage(p, back)  BY <4>2 DEF Drop
        <5>2. /\ moved.at = "ended" /\ moved.last = page[p].last /\ moved.shown = page[p].shown
              /\ back.at = "ended" /\ back.last = page[p].last /\ back.shown = page[p].shown
          BY <2>a, PageFields
        <5> HIDE DEF back, moved
        <5> QED  BY <5>1, <5>2
      <4>3. CASE Ask(p) \/ Resume(p)
        <5> DEFINE back == [page[p] EXCEPT !.at = "list", !.cursor = page[p].last]
                   moved == [page[p] EXCEPT !.at = "closed"]
        <5>1. ToPage(p, moved) \/ ToPage(p, back)  BY <4>3 DEF Ask, Resume
        <5>2. /\ \A next \in {moved, back} : next.last = page[p].last /\ next.shown = page[p].shown
              /\ moved.at = "closed" /\ back.cursor = page[p].last
          BY <2>a, PageFields
        <5> HIDE DEF back, moved
        <5> QED  BY <5>1, <5>2
      <4> QED  BY <2>4, <4>1, <4>2, <4>3
    <3>4. page'[p] = next /\ \A q \in Pages \ {p} : page'[q] = page[q]
      BY <2>a, <3>3 DEF ToPage
    <3> QED  BY <2>a, <3>1, <3>3, <3>4 DEF Following, Follows
  <2> QED
    <3>1. CASE \E w \in Writers : Emit(w) \/ ReadMessage(w) \/ CheckTask(w) \/ WriteMessage(w) \/ Lock(w)
                                 \/ LookAtTask(w) \/ ReadNumber(w)
      BY <3>1, <2>2 DEF Emit, ReadMessage, CheckTask, WriteMessage, Lock, LookAtTask, ReadNumber, Store, Rest
    <3>2. CASE AgentStep \/ Fail
      BY <3>2, <2>2 DEF AgentStep, Complete, Mark, MarkCancelled, Note, Finally, Fail, Store, Rest
    <3>3. CASE RequestCancel \/ NoteCancel \/ Deliver \/ Answer \/ Crash \/ Recover \/ Begin
      BY <3>3, <2>2 DEF RequestCancel, NoteCancel, Deliver, Answer, Crash, Recover, Begin, Store, Rest
    <3>4. CASE UNCHANGED vars
      BY <3>4, <2>2 DEF vars
    <3> QED  BY <2>1, <2>3, <2>4, <3>1, <3>2, <3>3, <3>4 DEF Next, WriterStep, PageStep
<1>3. Following => ShowsTheLog
  BY DEF Following, Follows, ShowsTheLog
<1> QED  BY <1>1, <1>2, <1>3, TypeCorrect, PTL DEF Spec
-----------------------------------------------------------------------------
\* Who is inside of _broadcast holds the lock; the reporter says no "done" and
\* outlives no agent; an agent that says it has a task with an outcome; and once
\* it is said, nobody is left who could say more.
Final == {"completed", "failed", "cancelled"}
Inside == {"look", "number", "insert"}
Reporting == {"off", "ready", "read", "check", "write", "lock"} \cup Inside
Logged == \E i \in DOMAIN log : log[i] = Done
Locked == \A w \in Writers : writer[w].at \in Inside => lock = {w}
Reports ==
    /\ writer["reporter"].at \in Reporting
    /\ writer["reporter"].event # Done /\ writer["reporter"].status = "none"
    /\ writer["agent"].at = "off" => writer["reporter"].at = "off"
Ends == writer["agent"].event = Done =>
    /\ writer["agent"].at \in {"mark", "note", "lock"} \cup Inside
    /\ writer["agent"].status \in Final
    /\ writer["agent"].at # "mark" => status \in Final
Over == Logged =>
    /\ status \in Final /\ DoneIsLast
    /\ writer["agent"].at \in {"finally", "cancelled", "off"}
    /\ writer["reporter"].at \notin {"number", "insert"}
Ending == Locked /\ Reports /\ Ends /\ Over

LEMMA WriterFields ==
    ASSUME NEW k \in WriterTypes, NEW phase, NEW event, NEW next, NEW any
    PROVE  LET moved == [k EXCEPT !.at = phase]
               about == [k EXCEPT !.at = phase, !.event = event]
               ends == [k EXCEPT !.at = phase, !.event = event, !.status = next]
               reads == [k EXCEPT !.at = phase, !.read = any]
               counts == [k EXCEPT !.at = phase, !.last = any]
           IN /\ moved.at = phase /\ moved.event = k.event /\ moved.status = k.status
              /\ about.at = phase /\ about.event = event /\ about.status = k.status
              /\ ends.at = phase /\ ends.event = event /\ ends.status = next
              /\ reads.at = phase /\ reads.event = k.event /\ reads.status = k.status
              /\ counts.at = phase /\ counts.event = k.event /\ counts.status = k.status
BY DEF WriterTypes

LEMMA OneWriterMoves ==
    ASSUME writer \in [Writers -> WriterTypes], NEW w \in Writers, NEW next, Goes(w, next)
    PROVE  writer'[w] = next /\ \A v \in Writers \ {w} : writer'[v] = writer[v]
BY DEF Goes

\* A writer takes a step of its own: it moves on with its event, and neither the
\* log nor the task changes.
LEMMA StepsKeepEnding ==
    ASSUME Ending, NEW w \in Writers, UNCHANGED <<log, status>>,
           \A v \in Writers \ {w} : writer'[v] = writer[v],
           writer'[w].at \in Inside => lock' = {w},
           \A v \in Writers \ {w} : writer[v].at \in Inside => lock' = {v},
           w = "reporter" => /\ writer'[w].event # Done /\ writer'[w].status = "none"
                             /\ writer'[w].at \in Reporting
                             /\ writer'[w].at # "off" => writer["agent"].at # "off"
                             /\ writer'[w].at \in {"number", "insert"} => ~Logged,
           w = "agent" => /\ writer'[w].event = Done =>
                                /\ writer'[w].at \in {"mark", "note", "lock"} \cup Inside
                                /\ writer'[w].status \in Final
                                /\ writer'[w].at # "mark" => status \in Final
                          /\ writer'[w].at = "off" => writer["reporter"].at = "off"
                          /\ Logged => writer'[w].at \in {"finally", "cancelled", "off"}
    PROVE  Ending'
<1>1. Logged' <=> Logged  BY DEF Logged
<1>2. DoneIsLast' <=> DoneIsLast  BY DEF DoneIsLast
<1>3. CASE w = "agent"
  <2>1. writer'["reporter"] = writer["reporter"]  BY <1>3 DEF Writers
  <2> QED  BY <1>1, <1>2, <1>3, <2>1 DEF Ending, Locked, Reports, Ends, Over, Writers
<1>4. CASE w = "reporter"
  <2>1. writer'["agent"] = writer["agent"]  BY <1>4 DEF Writers
  <2> QED  BY <1>1, <1>2, <1>4, <2>1 DEF Ending, Locked, Reports, Ends, Over, Writers
<1> QED  BY <1>3, <1>4 DEF Writers

\* The end of a task is said once and is the last that is said: no part of the
\* reporter slips in after it, and no cancellation, answer or restart repeats it
\* (_broadcast and the handlers of _run_task, chat_service.py).
THEOREM DoneIsLastHolds ==
    ASSUME MaxParts \in Nat
    PROVE  Spec => []DoneIsLast
<1> USE DEF Task, Store, Rest, World
<1>1. Init => Ending
  <2> SUFFICES ASSUME Init PROVE Ending
    OBVIOUS
  <2>1. \A w \in Writers : writer[w].at = "ready" /\ writer[w].event = 0 /\ writer[w].status = "none"
    BY DEF Init, Ready, Off
  <2>2. 0 # Done  BY DEF Done
  <2>3. ~Logged  BY DEF Init, Logged
  <2> QED  BY <2>1, <2>2, <2>3 DEF Ending, Locked, Reports, Ends, Over, Writers, Reporting, Inside
<1>2. Typed /\ Ending /\ [Next]_vars => Ending'
  <2> SUFFICES ASSUME Typed, Ending, [Next]_vars PROVE Ending'
    OBVIOUS
  <2>a. /\ writer \in [Writers -> WriterTypes] /\ log \in Seq(Nat) /\ emitted \in Nat
        /\ "agent" \in Writers /\ "reporter" \in Writers /\ \A w \in Writers : writer[w] \in WriterTypes
    BY DEF Typed, Numbers, Writers
  <2>b. Done \in Nat /\ Question # Done /\ \A n \in 1..MaxParts : n # Done
    BY DEF Done, Question
  <2>c. /\ Off.at = "off" /\ Off.event = 0 /\ Off.status = "none" /\ Off.event # Done
        /\ Ready.at = "ready" /\ Ready.event = 0 /\ Ready.status = "none" /\ Ready.event # Done
        /\ \A phase : LET k == [Off EXCEPT !.at = phase] IN k.at = phase /\ k.event # Done /\ k.status = "none"
    BY DEF Off, Ready, Done
  <2>d. Locked /\ Reports /\ Ends /\ Over  BY DEF Ending
  <2>1. ASSUME NEW w \in Writers, Emit(w) PROVE Ending'
    <3>1. PICK then \in {"none", "waiting_user"} :
            /\ then = "waiting_user" => w = "agent"
            /\ Goes(w, [Ready EXCEPT !.at = "read", !.event = emitted + 1, !.status = then])
      BY <2>1 DEF Emit
    <3> DEFINE next == [Ready EXCEPT !.at = "read", !.event = emitted + 1, !.status = then]
    <3>2. next.at = "read" /\ next.event = emitted + 1 /\ next.status = then
      BY DEF Ready, Off
    <3>3. emitted + 1 # Done  BY <2>1, <2>a DEF Emit, Done
    <3> HIDE DEF next
    <3>4. writer'[w] = next /\ \A v \in Writers \ {w} : writer'[v] = writer[v]
      BY <2>a, <3>1, OneWriterMoves DEF next
    <3>5. UNCHANGED <<log, status, lock>> /\ writer[w].at = "ready"  BY <2>1 DEF Emit, At
    <3> QED
      BY <2>d, <3>1, <3>2, <3>3, <3>4, <3>5, StepsKeepEnding
      DEF Locked, Reports, Ends, Over, Writers, Reporting, Inside
  <2>2. ASSUME NEW w \in Writers, ReadMessage(w) PROVE Ending'
    <3> DEFINE next == [writer[w] EXCEPT !.at = "check", !.read = parts]
    <3>1. next.at = "check" /\ next.event = writer[w].event /\ next.status = writer[w].status
      BY <2>a, WriterFields
    <3> HIDE DEF next
    <3>2. writer'[w] = next /\ \A v \in Writers \ {w} : writer'[v] = writer[v]
      BY <2>2, <2>a, OneWriterMoves DEF ReadMessage, next
    <3>3. UNCHANGED <<log, status, lock>> /\ writer[w].at = "read"  BY <2>2 DEF ReadMessage, At
    <3> QED
      BY <2>d, <3>1, <3>2, <3>3, StepsKeepEnding
      DEF Locked, Reports, Ends, Over, Writers, Reporting, Inside
  <2>3. ASSUME NEW w \in Writers, CheckTask(w) PROVE Ending'
    <3> DEFINE go == [writer[w] EXCEPT !.at = "write"]
               next == IF status \in Closed THEN Cancelled(w) ELSE go
    <3>1. go.at = "write" /\ go.event = writer[w].event /\ go.status = writer[w].status
      BY <2>a, WriterFields
    <3>2. /\ Cancelled(w).event # Done /\ Cancelled(w).status = "none"
          /\ Cancelled(w).at = IF w = "agent" THEN "cancelled" ELSE "off"
      BY <2>c DEF Cancelled
    <3>3. next = go \/ next = Cancelled(w)  OBVIOUS
    <3> HIDE DEF next, go
    <3>4. writer'[w] = next /\ \A v \in Writers \ {w} : writer'[v] = writer[v]
      BY <2>3, <2>a, OneWriterMoves DEF CheckTask, next, go
    <3>5. UNCHANGED <<log, status, lock>> /\ writer[w].at = "check"  BY <2>3 DEF CheckTask, At
    <3> QED
      BY ZenonT(60), <2>d, <3>1, <3>2, <3>3, <3>4, <3>5, StepsKeepEnding
      DEF Locked, Reports, Ends, Over, Writers, Reporting, Inside
  <2>4. ASSUME NEW w \in Writers, WriteMessage(w) PROVE Ending'
    <3> DEFINE go == [writer[w] EXCEPT !.at = "lock"]
               ask == [writer[w] EXCEPT !.at = "mark", !.event = Question]
               next == IF writer[w].status = "none" THEN go ELSE ask
    <3>1. /\ go.at = "lock" /\ go.event = writer[w].event /\ go.status = writer[w].status
          /\ ask.at = "mark" /\ ask.event = Question
      BY <2>a, WriterFields
    <3>2. IF writer[w].status = "none" THEN next = go ELSE next = ask  OBVIOUS
    <3> HIDE DEF next, go, ask
    <3>3. writer'[w] = next /\ \A v \in Writers \ {w} : writer'[v] = writer[v]
      BY <2>4, <2>a, OneWriterMoves DEF WriteMessage, next, go, ask
    <3>4. UNCHANGED <<log, status, lock>> /\ writer[w].at = "write"  BY <2>4 DEF WriteMessage, At
    <3> QED
      BY ZenonT(60), <2>b, <2>d, <3>1, <3>2, <3>3, <3>4, StepsKeepEnding
      DEF Locked, Reports, Ends, Over, Writers, Reporting, Inside
  <2>5. ASSUME NEW w \in Writers, Lock(w) PROVE Ending'
    <3> DEFINE next == [writer[w] EXCEPT !.at = "look"]
    <3>1. next.at = "look" /\ next.event = writer[w].event /\ next.status = writer[w].status
      BY <2>a, WriterFields
    <3> HIDE DEF next
    <3>2. writer'[w] = next /\ \A v \in Writers \ {w} : writer'[v] = writer[v]
      BY <2>5, <2>a, OneWriterMoves DEF Lock, next
    <3>3. UNCHANGED <<log, status>> /\ writer[w].at = "lock" /\ lock = {} /\ lock' = {w}
      BY <2>5 DEF Lock, At
    <3>4. \A v \in Writers : writer[v].at \notin Inside  BY <2>d, <3>3 DEF Locked
    <3> QED
      BY <2>d, <3>1, <3>2, <3>3, <3>4, StepsKeepEnding
      DEF Reports, Ends, Over, Writers, Reporting, Inside
  <2>e. \A w \in Writers : LET k == After(w) IN
            /\ k.event # Done /\ k.status = "none"
            /\ k.at = IF writer[w].status = "none" THEN "ready" ELSE "finally"
    BY <2>c DEF After
  <2>6. ASSUME NEW w \in Writers, LookAtTask(w) PROVE Ending'
    <3> DEFINE go == [writer[w] EXCEPT !.at = "number"]
    <3>1. go.at = "number" /\ go.event = writer[w].event /\ go.status = writer[w].status
      BY <2>a, WriterFields
    <3> HIDE DEF go
    <3>2. UNCHANGED <<log, status>> /\ writer[w].at = "look" /\ lock = {w}
      BY <2>6, <2>d DEF LookAtTask, At, Locked, Inside
    <3>3. \A v \in Writers \ {w} : writer[v].at \notin Inside  BY <2>d, <3>2 DEF Locked
    <3>4. CASE Dropped(writer[w].event)
      <4>1. writer'[w] = After(w) /\ \A v \in Writers \ {w} : writer'[v] = writer[v]
        BY <2>6, <3>4, <2>a, OneWriterMoves DEF LookAtTask
      <4> QED
        BY ZenonT(60), <2>d, <2>e, <3>2, <3>3, <4>1, StepsKeepEnding
        DEF Reports, Ends, Over, Writers, Reporting, Inside
    <3>5. CASE ~Dropped(writer[w].event)
      <4>1. writer'[w] = go /\ (\A v \in Writers \ {w} : writer'[v] = writer[v]) /\ UNCHANGED lock
        BY <2>6, <3>5, <2>a, OneWriterMoves DEF LookAtTask, go
      <4>2. w = "reporter" => ~Logged
        BY <2>d, <3>5 DEF Reports, Over, Dropped, Final, Closed
      <4> QED
        BY <2>d, <3>1, <3>2, <3>3, <4>1, <4>2, StepsKeepEnding
        DEF Reports, Ends, Over, Writers, Reporting, Inside
    <3> QED  BY <3>4, <3>5
  <2>7. ASSUME NEW w \in Writers, ReadNumber(w) PROVE Ending'
    <3> DEFINE next == [writer[w] EXCEPT !.at = "insert", !.last = Len(log)]
    <3>1. next.at = "insert" /\ next.event = writer[w].event /\ next.status = writer[w].status
      BY <2>a, WriterFields
    <3> HIDE DEF next
    <3>2. writer'[w] = next /\ \A v \in Writers \ {w} : writer'[v] = writer[v]
      BY <2>7, <2>a, OneWriterMoves DEF ReadNumber, next
    <3>3. UNCHANGED <<log, status, lock>> /\ writer[w].at = "number"  BY <2>7 DEF ReadNumber, At
    <3> QED
      BY <2>d, <3>1, <3>2, <3>3, StepsKeepEnding
      DEF Locked, Reports, Ends, Over, Writers, Reporting, Inside
  <2>8. ASSUME NEW w \in Writers, Insert(w) PROVE Ending'
    <3>1. /\ writer[w].at = "insert" /\ lock = {w} /\ lock' = {} /\ UNCHANGED status
          /\ log' = Append(log, writer[w].event) /\ writer[w].event \in Nat
      BY <2>8, <2>a, <2>d DEF Insert, At, Locked, Inside, WriterTypes
    <3>2. writer'[w] = After(w) /\ \A v \in Writers \ {w} : writer'[v] = writer[v]
      BY <2>8, <2>a, OneWriterMoves DEF Insert
    <3>3. \A v \in Writers \ {w} : writer[v].at \notin Inside  BY <2>d, <3>1 DEF Locked
    <3>4. ~Logged  BY <2>d, <3>1 DEF Over, Writers
    <3>5. /\ DOMAIN log = 1..Len(log) /\ Len(log) \in Nat
          /\ DOMAIN log' = 1..(Len(log) + 1) /\ Len(log') = Len(log) + 1
          /\ log'[Len(log) + 1] = writer[w].event /\ \A i \in 1..Len(log) : log'[i] = log[i]
      BY <2>a, <3>1, AppendProperties, LenProperties
    <3>6. DoneIsLast'  BY <3>4, <3>5 DEF Logged, DoneIsLast
    <3>7. Logged' => writer[w].event = Done  BY <3>4, <3>5 DEF Logged
    <3>8. Locked'  BY <2>e, <3>1, <3>2, <3>3 DEF Locked, Inside
    <3>9. CASE w = "agent"
      <4>1. writer'["reporter"] = writer["reporter"]  BY <2>a, <3>2, <3>9
      <4>2. writer["agent"].event = Done => writer["agent"].status # "none" /\ status \in Final
        BY <2>d, <3>1, <3>9 DEF Ends, Final
      <4> QED
        BY <2>d, <2>e, <3>1, <3>2, <3>3, <3>6, <3>7, <3>8, <3>9, <4>1, <4>2
        DEF Ending, Reports, Ends, Over, Writers, Inside
    <3>10. CASE w = "reporter"
      <4>1. writer'["agent"] = writer["agent"]  BY <2>a, <3>2, <3>10
      <4>2. ~Logged'  BY <2>d, <3>7, <3>10 DEF Reports
      <4> QED
        BY <2>d, <2>e, <3>1, <3>2, <3>8, <3>10, <4>1, <4>2
        DEF Ending, Reports, Ends, Over, Reporting
    <3> QED  BY <3>9, <3>10 DEF Writers
  \* A step of the agent that closes the task or not, and says nothing.
  <2>f. ASSUME NEW next, Goes("agent", next), UNCHANGED <<log, lock>>,
               writer["agent"].at \notin {"off", "finally"} \cup Inside,
               next.at \notin {"off"} \cup Inside,
               next.event = Done =>
                  /\ next.at \in {"mark", "note", "lock"} /\ next.status \in Final
                  /\ next.at # "mark" => status' \in Final,
               \/ status' = status /\ (Logged => next.at \in {"finally", "cancelled"})
               \/ ~Logged
        PROVE  Ending'
    <3>1. writer'["agent"] = next /\ writer'["reporter"] = writer["reporter"]
      BY <2>a, <2>f, OneWriterMoves DEF Writers
    <3>2. (Logged' <=> Logged) /\ (DoneIsLast' <=> DoneIsLast)  BY <2>f DEF Logged, DoneIsLast
    <3>3. Locked'  BY <2>d, <2>f, <3>1 DEF Locked, Writers
    <3>4. Reports'  BY <2>d, <2>f, <3>1 DEF Reports
    <3>5. Ends'  BY <2>f, <3>1 DEF Ends
    <3>6. Over'  BY <2>d, <2>f, <3>1, <3>2 DEF Over
    <3> QED  BY <3>3, <3>4, <3>5, <3>6 DEF Ending
  <2>g. writer["agent"].at \notin {"finally", "cancelled", "off"} => ~Logged
    BY <2>d DEF Over
  <2>h. /\ \A next : LET k == [Off EXCEPT !.at = "note", !.event = Done, !.status = next] IN
               k.at = "note" /\ k.event = Done /\ k.status = next
        /\ LET k == [Off EXCEPT !.at = "mark", !.event = Done, !.status = "failed"] IN
               k.at = "mark" /\ k.event = Done /\ k.status = "failed"
    BY DEF Off
  <2>k. \A phase : LET k == [writer["agent"] EXCEPT !.at = phase] IN
               k.at = phase /\ k.event = writer["agent"].event /\ k.status = writer["agent"].status
    BY <2>a, WriterFields
  <2>9. ASSUME Complete PROVE Ending'
    <3> DEFINE done == [Off EXCEPT !.at = "note", !.event = Done, !.status = "completed"]
               stop == [Off EXCEPT !.at = "cancelled"]
    <3>1. writer["agent"].at = "ready" /\ UNCHANGED <<log, lock>>  BY <2>9 DEF Complete, At
    <3>2. (Goes("agent", done) /\ status' = "completed") \/ Goes("agent", stop)
      BY <2>9 DEF Complete, Cancelled
    <3>3. done.at = "note" /\ done.event = Done /\ done.status = "completed"  BY <2>h
    <3>4. stop.at = "cancelled" /\ stop.event # Done  BY <2>c
    <3> HIDE DEF done, stop
    <3> QED  BY <2>f, <2>g, <3>1, <3>2, <3>3, <3>4 DEF Final, Inside
  <2>10. ASSUME Fail PROVE Ending'
    <3> DEFINE fails == [Off EXCEPT !.at = "mark", !.event = Done, !.status = "failed"]
               stop == [Off EXCEPT !.at = "finally"]
    <3>1. writer["agent"].at = "ready" /\ UNCHANGED <<log, lock>>  BY <2>10 DEF Fail, At
    <3>2. Goes("agent", fails) \/ Goes("agent", stop)  BY <2>10 DEF Fail
    <3>3. fails.at = "mark" /\ fails.event = Done /\ fails.status = "failed"  BY <2>h
    <3>4. stop.at = "finally" /\ stop.event # Done  BY <2>c
    <3> HIDE DEF fails, stop
    <3> QED  BY <2>f, <2>g, <3>1, <3>2, <3>3, <3>4 DEF Final, Inside
  <2>11. ASSUME Mark PROVE Ending'
    <3> DEFINE next == [writer["agent"] EXCEPT !.at = "note"]
    <3>1. /\ writer["agent"].at = "mark" /\ UNCHANGED <<log, lock>> /\ Goes("agent", next)
          /\ status' = writer["agent"].status
      BY <2>11 DEF Mark, At
    <3>2. next.at = "note" /\ next.event = writer["agent"].event /\ next.status = writer["agent"].status
      BY <2>k
    <3> HIDE DEF next
    <3> QED  BY <2>d, <2>f, <2>g, <3>1, <3>2 DEF Ends, Inside
  <2>12. ASSUME MarkCancelled PROVE Ending'
    <3>1. writer["agent"].at = "cancelled" /\ UNCHANGED <<log, lock>>  BY <2>12 DEF MarkCancelled, At
    <3>2. CASE status = "cancel_requested"
      <4> DEFINE next == [Off EXCEPT !.at = "note", !.event = Done, !.status = "cancelled"]
      <4>1. Goes("agent", next) /\ status' = "cancelled"  BY <2>12, <3>2 DEF MarkCancelled
      <4>2. next.at = "note" /\ next.event = Done /\ next.status = "cancelled"  BY <2>h
      <4>3. ~Logged  BY <2>d, <3>2 DEF Over, Final
      <4> HIDE DEF next
      <4> QED  BY <2>f, <3>1, <4>1, <4>2, <4>3 DEF Final, Inside
    <3>3. CASE status # "cancel_requested"
      <4> DEFINE next == [Off EXCEPT !.at = "finally"]
      <4>1. Goes("agent", next) /\ status' = status  BY <2>12, <3>3 DEF MarkCancelled
      <4>2. next.at = "finally" /\ next.event # Done  BY <2>c
      <4> HIDE DEF next
      <4> QED  BY <2>f, <3>1, <4>1, <4>2 DEF Inside
    <3> QED  BY <3>2, <3>3
  <2>13. ASSUME Note PROVE Ending'
    <3> DEFINE next == [writer["agent"] EXCEPT !.at = "lock"]
    <3>1. writer["agent"].at = "note" /\ UNCHANGED <<log, lock, status>> /\ Goes("agent", next)
      BY <2>13 DEF Note, At
    <3>2. next.at = "lock" /\ next.event = writer["agent"].event /\ next.status = writer["agent"].status
      BY <2>k
    <3> HIDE DEF next
    <3> QED  BY <2>d, <2>f, <2>g, <3>1, <3>2 DEF Ends, Inside
  <2>14. ASSUME Finally \/ Crash PROVE Ending'
    <3>1. (\A w \in Writers : writer'[w] = Off) /\ UNCHANGED <<log, status>>
      BY <2>14 DEF Finally, Crash
    <3>2. (Logged' <=> Logged) /\ (DoneIsLast' <=> DoneIsLast)  BY <3>1 DEF Logged, DoneIsLast
    <3> QED
      BY <2>a, <2>c, <2>d, <3>1, <3>2 DEF Ending, Locked, Reports, Ends, Over, Reporting, Inside
  \* What others do to the task: it has no outcome yet, and nobody writes.
  <2>i. ASSUME UNCHANGED <<log, lock, writer>>, status \in Final => status' \in Final PROVE Ending'
    <3>1. (Logged' <=> Logged) /\ (DoneIsLast' <=> DoneIsLast)  BY <2>i DEF Logged, DoneIsLast
    <3> QED  BY <2>d, <2>i, <3>1 DEF Ending, Locked, Reports, Ends, Over
  <2>15. ASSUME RequestCancel \/ NoteCancel \/ Answer \/ Recover PROVE Ending'
    BY <2>15, <2>i DEF RequestCancel, NoteCancel, Answer, Recover, Final, Live
  <2>16. ASSUME Begin PROVE Ending'
    <3>1. /\ \A w \in Writers : writer'[w] = Ready
          /\ UNCHANGED <<log, lock>> /\ status \in {"pending", "interrupted"}
      BY <2>16 DEF Begin
    <3>2. ~Logged /\ ~Logged'  BY <2>d, <3>1 DEF Over, Logged, Final
    <3> QED  BY <2>a, <2>c, <3>1, <3>2 DEF Ending, Locked, Reports, Ends, Over, Reporting, Inside
  <2>17. ASSUME Deliver PROVE Ending'
    <3>1. CASE UNCHANGED <<writer, lock>>
      BY <2>17, <3>1, <2>i DEF Deliver, Final
    <3>2. CASE ~UNCHANGED <<writer, lock>>
      <4> DEFINE phase == IF writer["agent"].event = Done THEN "finally" ELSE "cancelled"
                 next == [Off EXCEPT !.at = phase]
      <4>1. /\ writer["agent"].at # "off" /\ Goes("agent", next) /\ lock' = lock \ {"agent"}
            /\ UNCHANGED <<log, status>>
        BY <2>17, <3>2 DEF Deliver, At
      <4>2. next.at = phase /\ phase \in {"finally", "cancelled"} /\ next.event # Done  BY <2>c
      <4> HIDE DEF next, phase
      <4>3. writer'["agent"] = next /\ \A v \in Writers \ {"agent"} : writer'[v] = writer[v]
        BY <2>a, <4>1, OneWriterMoves
      <4>4. writer["reporter"].at \in Inside => lock' = {"reporter"}
        BY <2>a, <2>d, <4>1 DEF Locked
      <4> QED
        BY <2>a, <4>1, <4>2, <4>3, <4>4, StepsKeepEnding DEF Writers, Inside
    <3> QED  BY <3>1, <3>2
  <2>18. ASSUME NEW p \in Pages, PageStep(p) \/ Drop(p) \/ Resume(p) PROVE Ending'
    BY <2>18, <2>i DEF PageStep, List, Look, Ask, Drop, Resume
  <2>19. CASE UNCHANGED vars
    BY <2>19, <2>i DEF vars
  <2> QED
    BY <2>1, <2>2, <2>3, <2>4, <2>5, <2>6, <2>7, <2>8, <2>9, <2>10, <2>11, <2>12, <2>13, <2>14, <2>15,
       <2>16, <2>17, <2>18, <2>19 DEF Next, WriterStep, AgentStep
<1>3. Ending => DoneIsLast
  BY DEF Ending, Over, Logged, DoneIsLast
<1> QED  BY <1>1, <1>2, <1>3, TypeCorrect, PTL DEF Spec

-----------------------------------------------------------------------------
(***************************************************************************)
(* The sockets that follow an account (SimulationEvents), for any number of *)
(* sockets and events and any bound of their queues: what a socket sends is *)
(* in order, and what it skips was thrown away by its queue.                *)
(***************************************************************************)
CONSTANTS Sockets, QueueSize, MaxEvents
VARIABLES count, socket, lost

Feed == INSTANCE SimulationEvents

SocketTypes == [at : {"gone", "list", "send", "wait"}, queue : Numbers, listed : Numbers,
                last : Nat, sent : Numbers]

\* The queue holds the last events, the list the ones after the last event sent;
\* an event after them is in the queue or thrown away once the list was read.
QueueHas(k, n) ==
    /\ Len(k.queue) <= QueueSize /\ Len(k.queue) <= n
    /\ \A i \in 1..Len(k.queue) : k.queue[i] = (n - Len(k.queue)) + i
    /\ k.at = "gone" => k.queue = <<>>
ListHas(k, n) ==
    /\ k.last + Len(k.listed) <= n
    /\ \A i \in 1..Len(k.listed) : k.listed[i] = k.last + i
    /\ k.at # "send" => k.listed = <<>>
SentUpTo(k) ==
    /\ \A i \in 1..Len(k.sent) : k.sent[i] <= k.last
    /\ \A i, j \in 1..Len(k.sent) : i < j => k.sent[i] < k.sent[j]
NoGap(k, dropped, n) ==
    k.at \in {"send", "wait"} =>
        \A e \in Nat : k.last + Len(k.listed) < e /\ e <= n => n - Len(k.queue) < e \/ e \in dropped
SentOrLost(k, dropped) ==
    \A e \in Nat : 1 <= e /\ e <= k.last => e \in dropped \/ \E i \in 1..Len(k.sent) : k.sent[i] = e
InStep(k, dropped, n) ==
    /\ QueueHas(k, n) /\ ListHas(k, n) /\ SentUpTo(k) /\ NoGap(k, dropped, n) /\ SentOrLost(k, dropped)
FeedInv ==
    /\ count \in Nat
    /\ socket \in [Sockets -> SocketTypes] /\ lost \in [Sockets -> SUBSET Nat]
    /\ \A s \in Sockets : InStep(socket[s], lost[s], count)

LEMMA Appended ==
    ASSUME NEW seq \in Numbers, NEW e \in Nat
    PROVE  /\ Append(seq, e) \in Numbers /\ Len(Append(seq, e)) = Len(seq) + 1 /\ Len(seq) \in Nat
           /\ Append(seq, e)[Len(seq) + 1] = e
           /\ \A i \in 1..Len(seq) : Append(seq, e)[i] = seq[i]
BY AppendProperties, LenProperties DEF Numbers

LEMMA Tailed ==
    ASSUME NEW seq \in Numbers, seq # <<>>
    PROVE  /\ Tail(seq) \in Numbers /\ Head(seq) = seq[1] /\ Head(seq) \in Nat
           /\ Len(seq) \in Nat \ {0} /\ Len(Tail(seq)) = Len(seq) - 1
           /\ \A i \in 1..(Len(seq) - 1) : Tail(seq)[i] = seq[i + 1]
BY HeadTailProperties, LenProperties, EmptySeq DEF Numbers

\* An event reaches a socket that follows: its queue takes it, and throws the
\* oldest one away if it is full.
LEMMA Reaches ==
    ASSUME QueueSize \in Nat \ {0}, NEW n \in Nat, NEW k \in SocketTypes, NEW dropped \in SUBSET Nat,
           InStep(k, dropped, n), k.at # "gone",
           NEW next, next = [k EXCEPT !.queue = Feed!Enqueued(@, n + 1)],
           NEW after, after = IF Len(k.queue) = QueueSize THEN dropped \cup {Head(k.queue)} ELSE dropped
    PROVE  next \in SocketTypes /\ after \in SUBSET Nat /\ InStep(next, after, n + 1)
<1> DEFINE queue == Feed!Enqueued(k.queue, n + 1)
<1>1. /\ k.queue \in Numbers /\ k.listed \in Numbers /\ k.sent \in Numbers /\ k.last \in Nat
      /\ Len(k.queue) \in Nat /\ Len(k.listed) \in Nat /\ Len(k.sent) \in Nat
  BY LenProperties DEF SocketTypes, Numbers
<1>2. /\ QueueHas(k, n) /\ ListHas(k, n) /\ SentUpTo(k) /\ NoGap(k, dropped, n) /\ SentOrLost(k, dropped)
  BY DEF InStep
<1>3. /\ queue \in Numbers /\ Len(queue) <= QueueSize /\ Len(queue) <= n + 1
      /\ \A i \in 1..Len(queue) : queue[i] = ((n + 1) - Len(queue)) + i
      /\ after \in SUBSET Nat /\ dropped \subseteq after
      /\ \A e \in Nat : n - Len(k.queue) < e /\ e <= n =>
            (n + 1) - Len(queue) < e \/ e \in after
      /\ Len(queue) \in Nat \ {0}
  <2>1. CASE Len(k.queue) = QueueSize
    <3>1. k.queue # <<>>  BY <1>1, <2>1, EmptySeq
    <3>2. /\ Tail(k.queue) \in Numbers /\ Head(k.queue) = k.queue[1] /\ Head(k.queue) \in Nat
          /\ Len(Tail(k.queue)) = Len(k.queue) - 1
          /\ \A i \in 1..(Len(k.queue) - 1) : Tail(k.queue)[i] = k.queue[i + 1]
      BY <1>1, <3>1, Tailed
    <3>3. queue = Append(Tail(k.queue), n + 1)  BY <2>1 DEF Feed!Enqueued
    <3>4. /\ queue \in Numbers /\ Len(queue) = Len(k.queue) /\ queue[Len(k.queue)] = n + 1
          /\ \A i \in 1..(Len(k.queue) - 1) : queue[i] = k.queue[i + 1]
      <4>1. n + 1 \in Nat  OBVIOUS
      <4> HIDE DEF queue
      <4>2. /\ queue \in Numbers /\ Len(queue) = Len(Tail(k.queue)) + 1
            /\ queue[Len(Tail(k.queue)) + 1] = n + 1
            /\ \A i \in 1..Len(Tail(k.queue)) : queue[i] = Tail(k.queue)[i]
        BY <3>2, <3>3, <4>1, Appended
      <4> QED  BY <1>1, <3>2, <4>2
    <3>5. \A i \in 1..Len(queue) : queue[i] = ((n + 1) - Len(queue)) + i
      <4> TAKE i \in 1..Len(queue)
      <4>1. CASE i = Len(k.queue)  BY <1>1, <3>4, <4>1
      <4>2. CASE i # Len(k.queue)
        <5>1. i \in 1..(Len(k.queue) - 1) /\ i + 1 \in 1..Len(k.queue)  BY <1>1, <3>4, <4>2
        <5>2. k.queue[i + 1] = (n - Len(k.queue)) + (i + 1)  BY <1>2, <5>1 DEF QueueHas
        <5>3. queue[i] = (n - Len(k.queue)) + (i + 1) /\ Len(queue) = Len(k.queue) /\ i \in Nat
          BY SMTT(30), <3>4, <5>1, <5>2
        <5> HIDE DEF queue
        <5>4. \A l \in Nat : (n - l) + (i + 1) = ((n + 1) - l) + i  BY <5>3
        <5> QED  BY <1>1, <5>3, <5>4
      <4> QED  BY <4>1, <4>2
    <3>6. after = dropped \cup {Head(k.queue)}  BY <2>1
    <3>7. Head(k.queue) = (n - Len(k.queue)) + 1
      <4>1. 1 \in 1..Len(k.queue)  BY <1>1, <2>1
      <4> QED  BY <1>2, <3>2, <4>1 DEF QueueHas
    <3> QED  BY SMTT(30), <1>1, <1>2, <2>1, <3>2, <3>4, <3>5, <3>6, <3>7 DEF QueueHas
  <2>2. CASE Len(k.queue) # QueueSize
    <3>1. queue = Append(k.queue, n + 1) /\ after = dropped  BY <2>2 DEF Feed!Enqueued
    <3>2. /\ queue \in Numbers /\ Len(queue) = Len(k.queue) + 1 /\ queue[Len(k.queue) + 1] = n + 1
          /\ \A i \in 1..Len(k.queue) : queue[i] = k.queue[i]
      <4>1. n + 1 \in Nat  OBVIOUS
      <4> HIDE DEF queue
      <4> QED  BY <1>1, <3>1, <4>1, Appended
    <3>3. \A i \in 1..Len(queue) : queue[i] = ((n + 1) - Len(queue)) + i
      <4> TAKE i \in 1..Len(queue)
      <4>1. CASE i = Len(k.queue) + 1  BY <1>1, <3>2, <4>1
      <4>2. CASE i # Len(k.queue) + 1
        <5>1. i \in 1..Len(k.queue)  BY <1>1, <3>2, <4>2
        <5>2. k.queue[i] = (n - Len(k.queue)) + i  BY <1>2, <5>1 DEF QueueHas
        <5>3. queue[i] = (n - Len(k.queue)) + i /\ Len(queue) = Len(k.queue) + 1 /\ i \in Nat
          BY <3>2, <5>1, <5>2
        <5> HIDE DEF queue
        <5> QED  BY <1>1, <5>3
      <4> QED  BY <4>1, <4>2
    <3> QED  BY <1>1, <1>2, <2>2, <3>1, <3>2, <3>3 DEF QueueHas
  <2> QED  BY <2>1, <2>2
<1> HIDE DEF queue
<1>4. /\ next \in SocketTypes /\ next.queue = queue /\ next.at = k.at /\ next.listed = k.listed
      /\ next.last = k.last /\ next.sent = k.sent
  <2>1. next = [k EXCEPT !.queue = queue]  BY DEF queue
  <2> QED  BY <1>3, <2>1 DEF SocketTypes
<1>5. QueueHas(next, n + 1)  BY <1>3, <1>4 DEF QueueHas
<1>6. ListHas(next, n + 1)  BY <1>1, <1>2, <1>4 DEF ListHas
<1>7. SentUpTo(next) /\ SentOrLost(next, after)
  BY <1>2, <1>3, <1>4 DEF SentUpTo, SentOrLost
<1>8. NoGap(next, after, n + 1)
  <2> SUFFICES ASSUME next.at \in {"send", "wait"}, NEW e \in Nat,
                      k.last + Len(k.listed) < e, e <= n + 1
               PROVE  (n + 1) - Len(queue) < e \/ e \in after
    BY <1>4 DEF NoGap
  <2>1. CASE e = n + 1  BY <1>3, <2>1
  <2>2. CASE e # n + 1
    <3>1. e <= n  BY <2>2
    <3>2. n - Len(k.queue) < e \/ e \in dropped  BY <1>2, <1>4, <3>1 DEF NoGap
    <3> QED  BY <1>3, <3>1, <3>2
  <2> QED  BY <2>1, <2>2
<1> QED  BY <1>3, <1>4, <1>5, <1>6, <1>7, <1>8 DEF InStep

\* The steps of a socket itself, while the account has n events.
LEMMA Starts ==
    ASSUME NEW n \in Nat, QueueSize \in Nat
    PROVE  /\ Feed!Gone \in SocketTypes /\ \A dropped : InStep(Feed!Gone, dropped, n)
           /\ [Feed!Gone EXCEPT !.at = "list"] \in SocketTypes
           /\ \A dropped : InStep([Feed!Gone EXCEPT !.at = "list"], dropped, n)
<1>1. <<>> \in Numbers /\ Len(<<>>) = 0  BY EmptySeq DEF Numbers
<1>2. ASSUME NEW k, NEW dropped, k.queue = <<>>, k.listed = <<>>, k.sent = <<>>, k.last = 0, k.at \in {"gone", "list"}
      PROVE  InStep(k, dropped, n)
  BY <1>1, <1>2 DEF InStep, QueueHas, ListHas, SentUpTo, NoGap, SentOrLost
<1>3. PICK k : k = [Feed!Gone EXCEPT !.at = "list"]
  OBVIOUS
<1>4. /\ k.queue = <<>> /\ k.listed = <<>> /\ k.sent = <<>> /\ k.last = 0 /\ k.at = "list"
      /\ k \in SocketTypes /\ Feed!Gone \in SocketTypes
  BY <1>1, <1>3 DEF Feed!Gone, SocketTypes
<1>5. \A dropped : InStep(k, dropped, n)  BY <1>2, <1>4
<1>6. \A dropped : InStep(Feed!Gone, dropped, n)  BY <1>2 DEF Feed!Gone
<1> QED  BY <1>3, <1>4, <1>5, <1>6

LEMMA MovesAlong ==
    ASSUME NEW n \in Nat, QueueSize \in Nat, NEW s \in Sockets, socket \in [Sockets -> SocketTypes], count = n,
           NEW dropped, InStep(socket[s], dropped, n),
           NEW next, Feed!To(s, next),
           Feed!List(s) \/ Feed!Send(s) \/ Feed!Receive(s) \/ Feed!TimeOut(s)
    PROVE  next \in SocketTypes /\ InStep(next, dropped, n)
<1> DEFINE k == socket[s]
<1>1. /\ k \in SocketTypes /\ k.queue \in Numbers /\ k.listed \in Numbers /\ k.sent \in Numbers /\ k.last \in Nat
      /\ Len(k.queue) \in Nat /\ Len(k.listed) \in Nat /\ Len(k.sent) \in Nat
  BY LenProperties DEF SocketTypes, Numbers
<1>2. /\ QueueHas(k, n) /\ ListHas(k, n) /\ SentUpTo(k) /\ NoGap(k, dropped, n) /\ SentOrLost(k, dropped)
  BY DEF InStep
<1>3. socket'[s] = next  BY DEF Feed!To
<1>e. <<>> \in Numbers /\ Len(<<>>) = 0  BY EmptySeq DEF Numbers
<1> USE DEF QueueHas, ListHas, SentUpTo, NoGap, SentOrLost
<1>4. CASE Feed!List(s)
  <2>1. next = [k EXCEPT !.at = "send", !.listed = Feed!Unseen(s)] /\ k.at = "list"
    BY <1>1, <1>3, <1>4 DEF Feed!List, Feed!To
  <2>2. /\ Feed!Unseen(s) \in Numbers /\ Len(Feed!Unseen(s)) = n - k.last
        /\ \A i \in 1..(n - k.last) : Feed!Unseen(s)[i] = k.last + i
    <3>1. k.last <= n  BY <1>1, <1>2
    <3>2. n - k.last \in Nat  BY <1>1, <3>1
    <3>3. Feed!Unseen(s) = [i \in 1..(n - k.last) |-> k.last + i]
      <4>1. (n - (k.last + 1)) + 1 = n - k.last  BY <1>1
      <4>2. \A i \in 1..(n - k.last) : (k.last + 1) + (i - 1) = k.last + i  BY <1>1, <3>2
      <4> HIDE DEF QueueHas, ListHas, SentUpTo, NoGap, SentOrLost
      <4>3. Feed!Unseen(s) = [i \in 1..((count - (k.last + 1)) + 1) |-> (k.last + 1) + (i - 1)]
        BY DEF Feed!Unseen, Feed!From
      <4>4. 1..((count - (k.last + 1)) + 1) = 1..(n - k.last)  BY <4>1
      <4> QED  BY <4>2, <4>3, <4>4
    <3>4. \A i \in 1..(n - k.last) : k.last + i \in Nat  BY <1>1, <3>2
    <3>5. Feed!Unseen(s) \in [1..(n - k.last) -> Nat]  BY <3>3, <3>4
    <3>6. Feed!Unseen(s) \in Seq(Nat)  BY <3>2, <3>5, IsASeq
    <3>7. Len(Feed!Unseen(s)) = n - k.last  BY <3>2, <3>5, <3>6, LenProperties
    <3> QED  BY <3>3, <3>6, <3>7 DEF Numbers
  <2>3. /\ next \in SocketTypes /\ next.at = "send" /\ next.listed = Feed!Unseen(s) /\ next.queue = k.queue
        /\ next.last = k.last /\ next.sent = k.sent
    BY <1>1, <2>1, <2>2 DEF SocketTypes
  <2>4. next.last + Len(next.listed) = n  BY <1>1, <2>2, <2>3
  <2>5. QueueHas(next, n) /\ SentUpTo(next) /\ SentOrLost(next, dropped)  BY <1>2, <2>3
  <2>6. ListHas(next, n)  BY <2>2, <2>3, <2>4
  <2>7. NoGap(next, dropped, n)  BY <2>4
  <2> QED  BY <2>3, <2>5, <2>6, <2>7 DEF InStep
<1>5. CASE Feed!Send(s) /\ k.listed = <<>>
  <2>1. next = [k EXCEPT !.at = "wait"] /\ k.at = "send"
    BY <1>1, <1>3, <1>5 DEF Feed!Send, Feed!To
  <2>2. /\ next \in SocketTypes /\ next.at = "wait" /\ next.listed = k.listed /\ next.queue = k.queue
        /\ next.last = k.last /\ next.sent = k.sent
    BY <1>1, <2>1 DEF SocketTypes
  <2> QED  BY <1>2, <1>5, <2>1, <2>2 DEF InStep
<1>6. CASE Feed!Send(s) /\ k.listed # <<>>
  <2> DEFINE e == Head(k.listed)
  <2>1. next = [k EXCEPT !.listed = Tail(@), !.last = e, !.sent = Append(@, e)] /\ k.at = "send"
    BY <1>1, <1>3, <1>6 DEF Feed!Send, Feed!To
  <2>2. /\ Tail(k.listed) \in Numbers /\ e = k.listed[1] /\ e \in Nat
        /\ Len(k.listed) \in Nat \ {0} /\ Len(Tail(k.listed)) = Len(k.listed) - 1
        /\ \A i \in 1..(Len(k.listed) - 1) : Tail(k.listed)[i] = k.listed[i + 1]
    BY <1>1, <1>6, Tailed
  <2>3. e = k.last + 1
    <3>1. 1 \in 1..Len(k.listed)  BY <2>2
    <3> QED  BY <1>2, <2>2, <3>1
  <2>4. /\ Append(k.sent, e) \in Numbers /\ Len(Append(k.sent, e)) = Len(k.sent) + 1
        /\ Append(k.sent, e)[Len(k.sent) + 1] = e
        /\ \A i \in 1..Len(k.sent) : Append(k.sent, e)[i] = k.sent[i]
    BY <1>1, <2>2, Appended
  <2> HIDE DEF e
  <2>5. /\ next \in SocketTypes /\ next.at = "send" /\ next.listed = Tail(k.listed) /\ next.queue = k.queue
        /\ next.last = e /\ next.sent = Append(k.sent, e)
    BY <1>1, <2>1, <2>2, <2>4 DEF SocketTypes
  <2>6. next.last + Len(next.listed) = k.last + Len(k.listed)
    <3>1. \A a, b \in Nat : (a + 1) + (b - 1) = a + b  OBVIOUS
    <3>2. next.last = k.last + 1 /\ Len(next.listed) = Len(k.listed) - 1  BY <2>2, <2>3, <2>5
    <3> HIDE DEF QueueHas, ListHas, SentUpTo, NoGap, SentOrLost
    <3>3. (k.last + 1) + (Len(k.listed) - 1) = k.last + Len(k.listed)  BY <1>1, <3>1
    <3> QED  BY <3>2, <3>3
  <2>7. QueueHas(next, n)  BY <1>2, <2>5
  <2>8. ListHas(next, n)
    <3> SUFFICES ASSUME NEW i \in 1..Len(next.listed) PROVE next.listed[i] = next.last + i
      BY <1>2, <2>5, <2>6
    <3>1. i \in 1..(Len(k.listed) - 1) /\ i + 1 \in 1..Len(k.listed) /\ i \in Nat  BY <2>2, <2>5
    <3>2. next.listed[i] = k.last + (i + 1)  BY <1>2, <2>2, <2>5, <3>1
    <3>3. \A a \in Nat : a + (i + 1) = (a + 1) + i  BY <3>1
    <3> HIDE DEF QueueHas, ListHas, SentUpTo, NoGap, SentOrLost
    <3>4. k.last + (i + 1) = (k.last + 1) + i  BY <1>1, <3>3
    <3>5. next.last = k.last + 1  BY <2>3, <2>5
    <3> QED  BY <3>2, <3>4, <3>5
  <2>9. NoGap(next, dropped, n)  BY <1>2, <2>1, <2>5, <2>6
  <2>10. SentUpTo(next)
    <3>1. \A i \in 1..Len(k.sent) : next.sent[i] = k.sent[i] /\ next.sent[i] <= k.last /\ next.sent[i] \in Nat
      <4>1. \A i \in 1..Len(k.sent) : k.sent[i] \in Nat  BY <1>1, ElementOfSeq DEF Numbers
      <4> QED  BY <1>2, <2>4, <2>5, <4>1
    <3>2. next.sent[Len(k.sent) + 1] = k.last + 1 /\ Len(next.sent) = Len(k.sent) + 1 /\ next.last = k.last + 1
      BY <2>3, <2>4, <2>5
    <3>3. ASSUME NEW i \in 1..Len(next.sent) PROVE next.sent[i] <= next.last
      <4>1. CASE i = Len(k.sent) + 1  BY <1>1, <3>2, <4>1
      <4>2. CASE i # Len(k.sent) + 1
        <5>1. i \in 1..Len(k.sent)  BY <1>1, <3>2, <3>3, <4>2
        <5>2. next.sent[i] \in Nat /\ next.sent[i] <= k.last  BY <3>1, <5>1
        <5> QED  BY <1>1, <3>2, <5>2
      <4> QED  BY <4>1, <4>2
    <3>4. ASSUME NEW i \in 1..Len(next.sent), NEW j \in 1..Len(next.sent), i < j
          PROVE  next.sent[i] < next.sent[j]
      <4>1. i \in 1..Len(k.sent)  BY <1>1, <3>2, <3>4
      <4>2. CASE j = Len(k.sent) + 1
        <5>1. next.sent[i] \in Nat /\ next.sent[i] <= k.last  BY <3>1, <4>1
        <5>2. next.sent[j] = k.last + 1  BY <3>2, <4>2
        <5>3. k.last \in Nat  BY <1>1
        <5> QED  BY <5>1, <5>2, <5>3
      <4>3. CASE j # Len(k.sent) + 1
        <5>1. j \in 1..Len(k.sent)  BY <1>1, <3>2, <4>3
        <5> QED  BY <1>2, <3>1, <3>4, <4>1, <5>1
      <4> QED  BY <4>2, <4>3
    <3> QED  BY <3>3, <3>4
  <2>11. SentOrLost(next, dropped)
    <3> SUFFICES ASSUME NEW x \in Nat, 1 <= x, x <= next.last
                 PROVE  x \in dropped \/ \E i \in 1..Len(next.sent) : next.sent[i] = x
      OBVIOUS
    <3>1. CASE x = e
      <4>1. Len(k.sent) + 1 \in 1..Len(next.sent)  BY <1>1, <2>4, <2>5
      <4> QED  BY <2>4, <2>5, <3>1, <4>1
    <3>2. CASE x # e
      <4>1. x <= k.last  BY <1>1, <2>3, <2>5, <3>2
      <4>2. x \in dropped \/ \E i \in 1..Len(k.sent) : k.sent[i] = x  BY <1>2, <4>1
      <4>3. 1..Len(k.sent) \subseteq 1..Len(next.sent)  BY <1>1, <2>4, <2>5
      <4> QED  BY <2>4, <2>5, <4>2, <4>3
    <3> QED  BY <3>1, <3>2
  <2> QED  BY <2>5, <2>7, <2>8, <2>9, <2>10, <2>11 DEF InStep
<1>7. CASE Feed!Receive(s)
  <2> DEFINE e == Head(k.queue)
             taken == [k EXCEPT !.at = "list", !.queue = Tail(@)]
             fresh == [taken EXCEPT !.last = e, !.sent = Append(@, e)]
  <2>1. next = (IF e > k.last THEN fresh ELSE taken) /\ k.at = "wait" /\ k.queue # <<>>
    BY <1>1, <1>3, <1>7 DEF Feed!Receive, Feed!To, Feed!Fresh
  <2>2. /\ Tail(k.queue) \in Numbers /\ e = k.queue[1] /\ e \in Nat
        /\ Len(k.queue) \in Nat \ {0} /\ Len(Tail(k.queue)) = Len(k.queue) - 1
        /\ \A i \in 1..(Len(k.queue) - 1) : Tail(k.queue)[i] = k.queue[i + 1]
    BY <1>1, <2>1, Tailed
  <2>3. e = (n - Len(k.queue)) + 1
    <3>1. 1 \in 1..Len(k.queue)  BY <2>2
    <3> QED  BY <1>2, <2>2, <3>1
  <2>4. /\ Append(k.sent, e) \in Numbers /\ Len(Append(k.sent, e)) = Len(k.sent) + 1
        /\ Append(k.sent, e)[Len(k.sent) + 1] = e
        /\ \A i \in 1..Len(k.sent) : Append(k.sent, e)[i] = k.sent[i]
    BY <1>1, <2>2, Appended
  <2>5. /\ taken \in SocketTypes /\ taken.at = "list" /\ taken.listed = k.listed /\ taken.queue = Tail(k.queue)
        /\ taken.last = k.last /\ taken.sent = k.sent
    BY <1>1, <2>2 DEF SocketTypes
  <2>6. /\ fresh \in SocketTypes /\ fresh.at = "list" /\ fresh.listed = k.listed /\ fresh.queue = Tail(k.queue)
        /\ fresh.last = e /\ fresh.sent = Append(k.sent, e)
    <3> HIDE DEF taken, e
    <3> QED  BY <2>2, <2>4, <2>5 DEF SocketTypes
  <2> HIDE DEF e, taken, fresh
  <2>7. next.at = "list" /\ next.listed = <<>> /\ next.queue = Tail(k.queue) /\ next \in SocketTypes
    BY <1>2, <2>1, <2>5, <2>6
  <2>8. QueueHas(next, n)
    <3>1. Len(next.queue) <= QueueSize /\ Len(next.queue) <= n  BY <1>1, <1>2, <2>2, <2>7
    <3> SUFFICES ASSUME NEW i \in 1..Len(next.queue) PROVE next.queue[i] = (n - Len(next.queue)) + i
      BY <2>7, <3>1
    <3>2. i \in 1..(Len(k.queue) - 1) /\ i + 1 \in 1..Len(k.queue) /\ i \in Nat  BY <2>2, <2>7
    <3>3. next.queue[i] = (n - Len(k.queue)) + (i + 1)  BY <1>2, <2>2, <2>7, <3>2
    <3>4. \A l \in Nat : (n - l) + (i + 1) = (n - (l - 1)) + i  BY <3>2
    <3>5. Len(next.queue) = Len(k.queue) - 1  BY <2>2, <2>7
    <3> QED  BY <2>2, <3>3, <3>4, <3>5
  <2>9. CASE ~(e > k.last)
    <3>1. next = taken  BY <2>1, <2>9
    <3>2. ListHas(next, n) /\ SentUpTo(next) /\ NoGap(next, dropped, n) /\ SentOrLost(next, dropped)
      BY <1>2, <2>1, <2>5, <3>1
    <3> QED  BY <2>7, <2>8, <3>2 DEF InStep
  <2>10. CASE e > k.last
    <3>1. next.last = e /\ next.sent = Append(k.sent, e)  BY <2>1, <2>6, <2>10
    <3>2. e <= n  BY <1>1, <1>2, <2>2, <2>3
    <3>3. ListHas(next, n)  BY <1>e, <2>2, <2>7, <3>1, <3>2
    <3>4. NoGap(next, dropped, n)  BY <2>7
    <3>5. \A i \in 1..Len(k.sent) : next.sent[i] = k.sent[i] /\ next.sent[i] <= k.last /\ next.sent[i] \in Nat
      <4>1. \A i \in 1..Len(k.sent) : k.sent[i] \in Nat  BY <1>1, ElementOfSeq DEF Numbers
      <4> QED  BY <1>2, <2>4, <3>1, <4>1
    <3>6. next.sent[Len(k.sent) + 1] = e /\ Len(next.sent) = Len(k.sent) + 1
      BY <2>4, <3>1
    <3>7. SentUpTo(next)
      <4>1. ASSUME NEW i \in 1..Len(next.sent) PROVE next.sent[i] <= next.last
        BY <1>1, <2>2, <2>10, <3>1, <3>5, <3>6, <4>1
      <4>2. ASSUME NEW i \in 1..Len(next.sent), NEW j \in 1..Len(next.sent), i < j
            PROVE  next.sent[i] < next.sent[j]
        <5>1. i \in 1..Len(k.sent)  BY <1>1, <3>6, <4>2
        <5>2. CASE j = Len(k.sent) + 1
          <6>1. next.sent[i] \in Nat /\ next.sent[i] <= k.last  BY <3>5, <5>1
          <6>2. next.sent[j] = e  BY <3>6, <5>2
          <6>3. k.last \in Nat  BY <1>1
          <6>4. \A x, y, z \in Nat : x <= y /\ z > y => x < z  OBVIOUS
          <6>5. e \in Nat  BY <2>2
          <6> QED  BY <2>10, <6>1, <6>2, <6>3, <6>4, <6>5
        <5>3. CASE j # Len(k.sent) + 1
          <6>1. j \in 1..Len(k.sent)  BY <1>1, <3>6, <5>3
          <6> QED  BY <1>2, <3>5, <4>2, <5>1, <6>1
        <5> QED  BY <5>2, <5>3
      <4> QED  BY <4>1, <4>2
    <3>8. SentOrLost(next, dropped)
      <4> SUFFICES ASSUME NEW x \in Nat, 1 <= x, x <= e
                   PROVE  x \in dropped \/ \E i \in 1..Len(next.sent) : next.sent[i] = x
        BY <3>1
      <4>1. CASE x = e
        <5>1. Len(k.sent) + 1 \in 1..Len(next.sent)  BY <1>1, <3>6
        <5> QED  BY <3>6, <4>1, <5>1
      <4>2. CASE x <= k.last
        <5>1. x \in dropped \/ \E i \in 1..Len(k.sent) : k.sent[i] = x  BY <1>2, <4>2
        <5>2. 1..Len(k.sent) \subseteq 1..Len(next.sent)  BY <1>1, <3>6
        <5> QED  BY <3>5, <5>1, <5>2
      <4>3. CASE x # e /\ ~(x <= k.last)
        <5>1. k.listed = <<>>  BY <1>2, <2>1
        <5>2. k.last + Len(k.listed) < x /\ x <= n  BY <1>1, <1>e, <2>2, <3>2, <4>3, <5>1
        <5>3. n - Len(k.queue) < x \/ x \in dropped  BY <1>2, <2>1, <5>2
        <5>4. ~(n - Len(k.queue) < x)
          <6>1. \A m \in Int : x <= m + 1 /\ x # m + 1 => ~(m < x)  OBVIOUS
          <6>2. n - Len(k.queue) \in Int  BY <1>1
          <6> QED  BY <2>3, <4>3, <6>1, <6>2
        <5> QED  BY <5>3, <5>4
      <4> QED  BY <4>1, <4>2, <4>3
    <3> QED  BY <2>7, <2>8, <3>3, <3>4, <3>7, <3>8 DEF InStep
  <2> QED  BY <2>9, <2>10
<1>8. CASE Feed!TimeOut(s)
  <2>1. next = [k EXCEPT !.at = "list"] /\ k.at = "wait"
    BY <1>1, <1>3, <1>8 DEF Feed!TimeOut, Feed!To
  <2>2. /\ next \in SocketTypes /\ next.at = "list" /\ next.listed = k.listed /\ next.queue = k.queue
        /\ next.last = k.last /\ next.sent = k.sent
    BY <1>1, <2>1 DEF SocketTypes
  <2> QED  BY <1>2, <2>1, <2>2 DEF InStep
<1> QED  BY <1>4, <1>5, <1>6, <1>7, <1>8

LEMMA FeedStep ==
    ASSUME QueueSize \in Nat \ {0}, FeedInv, [Feed!Next]_(Feed!vars)
    PROVE  FeedInv'
<1>1. /\ count \in Nat /\ socket \in [Sockets -> SocketTypes] /\ lost \in [Sockets -> SUBSET Nat]
      /\ \A s \in Sockets : InStep(socket[s], lost[s], count)
  BY DEF FeedInv
<1> DEFINE n == count
<1>2. CASE UNCHANGED Feed!vars
  <2>1. UNCHANGED <<count, socket, lost>>  BY <1>2 DEF Feed!vars
  <2> QED  BY <1>1, <2>1
    DEF FeedInv, InStep, QueueHas, ListHas, SentUpTo, NoGap, SentOrLost
<1>3. CASE Feed!Publish
  <2> DEFINE Reached(s) == socket[s].at # "gone"
             next(s) == [socket[s] EXCEPT !.queue = Feed!Enqueued(@, n + 1)]
             after(s) == IF Len(socket[s].queue) = QueueSize THEN lost[s] \cup {Head(socket[s].queue)}
                         ELSE lost[s]
  <2>1. /\ count' = n + 1
        /\ socket' = [s \in Sockets |-> IF Reached(s) THEN next(s) ELSE socket[s]]
        /\ lost' = [s \in Sockets |-> IF Reached(s) THEN after(s) ELSE lost[s]]
    BY <1>3 DEF Feed!Publish
  <2>2. ASSUME NEW s \in Sockets
        PROVE  /\ socket'[s] \in SocketTypes /\ lost'[s] \in SUBSET Nat
               /\ InStep(socket'[s], lost'[s], n + 1)
    <3>1. CASE Reached(s)
      <4>1. socket'[s] = next(s) /\ lost'[s] = after(s)  BY <2>1, <3>1
      <4>2. PICK k, dropped : k = socket[s] /\ dropped = lost[s]
        OBVIOUS
      <4>3. k \in SocketTypes /\ dropped \in SUBSET Nat /\ InStep(k, dropped, n)  BY <1>1, <4>2
      <4>4. PICK a, b : /\ a = [k EXCEPT !.queue = Feed!Enqueued(@, n + 1)]
                        /\ b = IF Len(k.queue) = QueueSize THEN dropped \cup {Head(k.queue)} ELSE dropped
        OBVIOUS
      <4>5. a \in SocketTypes /\ b \in SUBSET Nat /\ InStep(a, b, n + 1)
        <5>1. k.at # "gone"  BY <3>1, <4>2
        <5>2. count \in Nat  BY <1>1
        <5>3. \A x, y :
                 /\ x = [k EXCEPT !.queue = Feed!Enqueued(@, n + 1)]
                 /\ y = IF Len(k.queue) = QueueSize THEN dropped \cup {Head(k.queue)} ELSE dropped
                 => x \in SocketTypes /\ y \in SUBSET Nat /\ InStep(x, y, n + 1)
          BY <4>3, <5>1, <5>2, Reaches
        <5> QED  BY SMTT(30), <4>4, <5>3
      <4>6. a = next(s) /\ b = after(s)  BY <4>2, <4>4
      <4> QED  BY <4>1, <4>5, <4>6
    <3>2. CASE ~Reached(s)
      <4>1. socket'[s] = socket[s] /\ lost'[s] = lost[s]  BY <2>1, <3>2
      <4>2. PICK k, dropped : k = socket[s] /\ dropped = lost[s]
        OBVIOUS
      <4>3. k \in SocketTypes /\ dropped \in SUBSET Nat /\ InStep(k, dropped, n) /\ k.at = "gone"
        BY <1>1, <3>2, <4>2
      <4>4. InStep(k, dropped, n + 1)
        <5>1. /\ k.queue = <<>> /\ k.listed = <<>> /\ k.last + Len(k.listed) <= n /\ k.last \in Nat
              /\ SentUpTo(k) /\ SentOrLost(k, dropped)
          BY <4>3 DEF InStep, QueueHas, ListHas, SocketTypes
        <5>2. Len(<<>>) = 0  BY EmptySeq
        <5>3. QueueHas(k, n + 1)  BY <1>1, <5>1, <5>2 DEF QueueHas
        <5>4. ListHas(k, n + 1)  BY <1>1, <5>1, <5>2 DEF ListHas
        <5>5. NoGap(k, dropped, n + 1)  BY <4>3 DEF NoGap
        <5> QED  BY <5>1, <5>3, <5>4, <5>5 DEF InStep
      <4> QED  BY <4>1, <4>2, <4>3, <4>4
    <3> QED  BY <3>1, <3>2
  <2>3. /\ socket' \in [Sockets -> SocketTypes] /\ lost' \in [Sockets -> SUBSET Nat] /\ count' \in Nat
    <3> HIDE DEF Reached, next, after
    <3> QED  BY <1>1, <2>1, <2>2
  <2>4. ASSUME NEW s \in Sockets PROVE InStep(socket[s], lost[s], count)'
    <3>1. InStep(socket'[s], lost'[s], count') /\ count' \in Nat  BY <2>1, <2>2, <2>3
    <3> QED  BY <3>1 DEF InStep, QueueHas, ListHas, SentUpTo, NoGap, SentOrLost
  <2> QED  BY <2>3, <2>4 DEF FeedInv
\* What is left to show of a step of one socket.
<1>4. ASSUME NEW s \in Sockets, NEW k, NEW dropped, Feed!To(s, k), k \in SocketTypes, dropped \in SUBSET Nat,
             lost' = [lost EXCEPT ![s] = dropped], InStep(k, dropped, n)
      PROVE  FeedInv'
  <2>1. /\ socket' \in [Sockets -> SocketTypes] /\ lost' \in [Sockets -> SUBSET Nat] /\ count' = n
        /\ socket'[s] = k /\ lost'[s] = dropped
        /\ \A e \in Sockets \ {s} : socket'[e] = socket[e] /\ lost'[e] = lost[e]
    BY <1>1, <1>4 DEF Feed!To
  <2>2. \A e \in Sockets : InStep(socket'[e], lost'[e], n)
    BY <1>1, <1>4, <2>1
  <2>3. \A e \in Sockets : InStep(socket[e], lost[e], count)'
    BY <2>1, <2>2 DEF InStep, QueueHas, ListHas, SentUpTo, NoGap, SentOrLost
  <2> QED  BY <1>1, <2>1, <2>3 DEF FeedInv
<1>5. ASSUME NEW s \in Sockets, Feed!Connect(s) PROVE FeedInv'
  <2>1. PICK k : k = [Feed!Gone EXCEPT !.at = "list"]
    OBVIOUS
  <2>2. k \in SocketTypes /\ InStep(k, {}, n)  BY <1>1, <2>1, Starts
  <2>3. Feed!To(s, k) /\ lost' = [lost EXCEPT ![s] = {}]  BY <1>5, <2>1 DEF Feed!Connect
  <2> QED  BY <1>4, <2>2, <2>3
<1>6. ASSUME NEW s \in Sockets, Feed!Disconnect(s) PROVE FeedInv'
  <2>1. PICK k, dropped : k = Feed!Gone /\ dropped = lost[s]
    OBVIOUS
  <2>2. k \in SocketTypes /\ dropped \in SUBSET Nat /\ InStep(k, dropped, n)  BY <1>1, <2>1, Starts
  <2>3. Feed!To(s, k) /\ lost' = [lost EXCEPT ![s] = dropped]  BY <1>1, <1>6, <2>1 DEF Feed!Disconnect
  <2> QED  BY <1>4, <2>2, <2>3
<1>7. ASSUME NEW s \in Sockets, Feed!List(s) \/ Feed!Send(s) \/ Feed!Receive(s) \/ Feed!TimeOut(s)
      PROVE  FeedInv'
  <2>1. \E k : Feed!To(s, k)  BY <1>7 DEF Feed!List, Feed!Send, Feed!Receive, Feed!TimeOut
  <2>2. PICK k, dropped : Feed!To(s, k) /\ dropped = lost[s]  BY <2>1
  <2>3. lost' = [lost EXCEPT ![s] = dropped] /\ dropped \in SUBSET Nat
    BY <1>1, <1>7, <2>2 DEF Feed!List, Feed!Send, Feed!Receive, Feed!TimeOut
  <2>4. k \in SocketTypes /\ InStep(k, dropped, n)
    <3>1. InStep(socket[s], dropped, n)  BY <1>1, <2>2
    <3> QED  BY <1>1, <1>7, <2>2, <3>1, MovesAlong
  <2> QED  BY <1>4, <2>2, <2>3, <2>4
<1> QED  BY <1>2, <1>3, <1>5, <1>6, <1>7 DEF Feed!Next

LEMMA FeedStart ==
    ASSUME QueueSize \in Nat \ {0}, Feed!Init
    PROVE  FeedInv
<1>1. /\ count = 0 /\ count \in Nat /\ socket = [s \in Sockets |-> Feed!Gone]
      /\ lost = [s \in Sockets |-> {}]
  BY DEF Feed!Init
<1>2. Feed!Gone \in SocketTypes /\ InStep(Feed!Gone, {}, count)  BY <1>1, Starts
<1> QED  BY <1>1, <1>2 DEF FeedInv

\* Although a socket reads a list and a queue that both have its events, and its
\* queue throws events away, it sends what it sends once and in order
\* (portfolio.py, simulation_events.py).
THEOREM SentInOrderHolds ==
    ASSUME QueueSize \in Nat \ {0}
    PROVE  Feed!Spec => []Feed!SentInOrder
<1>1. Feed!Init => FeedInv  BY FeedStart
<1>2. FeedInv /\ [Feed!Next]_(Feed!vars) => FeedInv'  BY FeedStep
<1>3. FeedInv => Feed!SentInOrder
  <2> SUFFICES ASSUME FeedInv, NEW s \in Sockets, NEW i \in DOMAIN socket[s].sent,
                      NEW j \in DOMAIN socket[s].sent, i < j
               PROVE  socket[s].sent[i] < socket[s].sent[j]
    BY DEF Feed!SentInOrder
  <2>1. socket[s].sent \in Seq(Nat) /\ SentUpTo(socket[s])
    BY DEF FeedInv, InStep, SocketTypes, Numbers
  <2>2. DOMAIN socket[s].sent = 1..Len(socket[s].sent)  BY <2>1, LenProperties
  <2> QED  BY <2>1, <2>2 DEF SentUpTo
<1> QED  BY <1>1, <1>2, <1>3, PTL DEF Feed!Spec

\* An event that a socket skipped is one that its full queue threw away.
THEOREM NothingElseSkippedHolds ==
    ASSUME QueueSize \in Nat \ {0}
    PROVE  Feed!Spec => []Feed!NothingElseSkipped
<1>1. Feed!Init => FeedInv  BY FeedStart
<1>2. FeedInv /\ [Feed!Next]_(Feed!vars) => FeedInv'  BY FeedStep
<1>3. FeedInv => Feed!NothingElseSkipped
  <2> SUFFICES ASSUME FeedInv, NEW s \in Sockets, NEW e \in 1..socket[s].last, e \notin lost[s]
               PROVE  \E i \in DOMAIN socket[s].sent : socket[s].sent[i] = e
    BY DEF Feed!NothingElseSkipped
  <2>1. /\ socket[s].sent \in Seq(Nat) /\ socket[s].last \in Nat /\ SentOrLost(socket[s], lost[s])
    BY DEF FeedInv, InStep, SocketTypes, Numbers
  <2>2. DOMAIN socket[s].sent = 1..Len(socket[s].sent)  BY <2>1, LenProperties
  <2>3. e \in Nat /\ 1 <= e /\ e <= socket[s].last  BY <2>1
  <2> QED  BY <2>1, <2>2, <2>3 DEF SentOrLost
<1> QED  BY <1>1, <1>2, <1>3, PTL DEF Feed!Spec

-----------------------------------------------------------------------------
(***************************************************************************)
(* The streams of backtests (BacktestJobs), for any number of jobs, streams *)
(* and events: a stream has sent what there was when it ends, and the last  *)
(* of it is the outcome.                                                    *)
(***************************************************************************)
CONSTANTS Backtests, Readers, MaxProgress
VARIABLES job, begun, events, reader, direct, serving

Streams == INSTANCE BacktestJobs WITH Jobs <- Backtests, status <- job

Told == Seq({"progress"} \cup Streams!Over)
ReaderTypes == [at : {"closed", "take", "send", "ended"}, job : SUBSET Backtests, taken : Told, sent : Told]
DirectTypes == [status : {"none", "running", "completed", "failed"}, queue : Told,
                at : {"closed", "wait", "look", "ended"}, sent : Told, late : BOOLEAN]

\* What a stream sent and has still to send is what is told of its job, in order.
Repeats(k, told) ==
    /\ Len(k.sent) + Len(k.taken) <= Len(told)
    /\ \A i \in 1..Len(k.sent) : k.sent[i] = told[i]
    /\ \A i \in 1..Len(k.taken) : k.taken[i] = told[Len(k.sent) + i]
    /\ k.at # "send" => k.taken = <<>>
Ended(k, j) == k.at = "ended" => job[j] \in Streams!Over /\ Len(k.sent) = Len(events[j])
Concluded(j) ==
    job[j] \in Streams!Over => Len(events[j]) > 0 /\ events[j][Len(events[j])] = job[j]
StreamInv ==
    /\ job \in [Backtests -> {"none", "queued", "running"} \cup Streams!Over]
    /\ events \in [Backtests -> Told]
    /\ reader \in [Readers -> ReaderTypes]
    /\ \A j \in Backtests : Concluded(j)
    /\ \A r \in Readers, j \in Backtests : j \in reader[r].job =>
          reader[r].job = {j} /\ Repeats(reader[r], events[j]) /\ Ended(reader[r], j)
    /\ \A r \in Readers : reader[r].at = "closed" => reader[r].job = {}

LEMMA ToldGrows ==
    ASSUME NEW told \in Told, NEW e \in {"progress"} \cup Streams!Over
    PROVE  /\ Append(told, e) \in Told /\ Len(Append(told, e)) = Len(told) + 1 /\ Len(told) \in Nat
           /\ Append(told, e)[Len(told) + 1] = e
           /\ \A i \in 1..Len(told) : Append(told, e)[i] = told[i]
BY AppendProperties, LenProperties DEF Told

LEMMA ToldShrinks ==
    ASSUME NEW told \in Told, told # <<>>
    PROVE  /\ Tail(told) \in Told /\ Head(told) = told[1] /\ Head(told) \in {"progress"} \cup Streams!Over
           /\ Len(told) \in Nat \ {0} /\ Len(Tail(told)) = Len(told) - 1
           /\ \A i \in 1..(Len(told) - 1) : Tail(told)[i] = told[i + 1]
BY HeadTailProperties, LenProperties, EmptySeq DEF Told

\* What is left to show of a step of a stream.
LEMMA StreamMoves ==
    ASSUME StreamInv, NEW r \in Readers, NEW next \in ReaderTypes, reader' = [reader EXCEPT ![r] = next],
           UNCHANGED <<job, events>>, next.at # "closed",
           \A j \in next.job : next.job = {j} /\ Repeats(next, events[j]) /\ Ended(next, j)
    PROVE  StreamInv'
<1>1. /\ reader' \in [Readers -> ReaderTypes] /\ reader'[r] = next
      /\ \A q \in Readers \ {r} : reader'[q] = reader[q]
  BY DEF StreamInv
<1>2. \A j \in Backtests : Concluded(j)'  BY DEF StreamInv, Concluded
<1>3. ASSUME NEW q \in Readers, NEW j \in Backtests, j \in reader'[q].job
      PROVE  /\ reader'[q].job = {j} /\ Repeats(reader'[q], events[j])
             /\ reader'[q].at = "ended" => job[j] \in Streams!Over /\ Len(reader'[q].sent) = Len(events[j])
  <2>1. CASE q = r
    <3>1. reader'[q] = next /\ j \in next.job  BY <1>1, <1>3, <2>1
    <3>2. next.job = {j} /\ Repeats(next, events[j]) /\ Ended(next, j)  BY <3>1
    <3> QED  BY <3>1, <3>2 DEF Ended
  <2>2. CASE q # r  BY <1>1, <1>3, <2>2 DEF StreamInv, Ended
  <2> QED  BY <2>1, <2>2
<1>4. \A q \in Readers : reader'[q].at = "closed" => reader'[q].job = {}
  BY <1>1 DEF StreamInv
<1> QED  BY <1>1, <1>2, <1>3, <1>4 DEF StreamInv, Ended

\* What was told stays told.
Grown(old, new) ==
    /\ Len(old) \in Nat /\ Len(new) \in Nat /\ Len(old) <= Len(new)
    /\ \A i \in 1..Len(old) : new[i] = old[i]

LEMMA StillRepeats ==
    ASSUME NEW k \in ReaderTypes, NEW old, NEW new, Repeats(k, old), Grown(old, new)
    PROVE  Repeats(k, new)
<1>1. Len(k.sent) \in Nat /\ Len(k.taken) \in Nat
  BY LenProperties DEF ReaderTypes, Told
<1>0. Len(k.sent) + Len(k.taken) <= Len(old) /\ Len(old) <= Len(new) /\ Len(old) \in Nat /\ Len(new) \in Nat
  BY DEF Repeats, Grown
<1>5. \A a, b, c, d \in Nat : a + b <= c /\ c <= d =>
          /\ a + b <= d /\ \A i \in 1..a : i \in 1..c
          /\ \A i \in 1..b : a + i \in 1..c
  OBVIOUS
<1>6. /\ Len(k.sent) + Len(k.taken) <= Len(new)
      /\ \A i \in 1..Len(k.sent) : i \in 1..Len(old)
      /\ \A i \in 1..Len(k.taken) : Len(k.sent) + i \in 1..Len(old)
  BY <1>0, <1>1, <1>5
<1>2. Len(k.sent) + Len(k.taken) <= Len(new)  BY <1>6
<1>3. \A i \in 1..Len(k.sent) : i \in 1..Len(old)  BY <1>6
<1>4. \A i \in 1..Len(k.taken) : Len(k.sent) + i \in 1..Len(old)  BY <1>6
<1> QED  BY <1>2, <1>3, <1>4 DEF Repeats, Grown

\* A job that is not over goes on, and tells nothing or one event more.
LEMMA JobMoves ==
    ASSUME StreamInv, NEW j \in Backtests, job[j] \notin Streams!Over, UNCHANGED reader,
           NEW state \in {"none", "queued", "running"} \cup Streams!Over,
           job' = [job EXCEPT ![j] = state],
           \/ UNCHANGED events /\ state \notin Streams!Over
           \/ \E e \in {"progress"} \cup Streams!Over :
                 events' = [events EXCEPT ![j] = Append(@, e)] /\ (state \in Streams!Over => e = state)
    PROVE  StreamInv'
<1>1. /\ events[j] \in Told /\ events \in [Backtests -> Told]
      /\ job \in [Backtests -> {"none", "queued", "running"} \cup Streams!Over]
      /\ reader \in [Readers -> ReaderTypes]
  BY DEF StreamInv
<1>2. /\ job' \in [Backtests -> {"none", "queued", "running"} \cup Streams!Over]
      /\ job'[j] = state /\ \A x \in Backtests \ {j} : job'[x] = job[x]
  BY <1>1
<1>3. /\ events' \in [Backtests -> Told] /\ \A x \in Backtests \ {j} : events'[x] = events[x]
      /\ Grown(events[j], events'[j])
      /\ state \in Streams!Over => Len(events'[j]) > 0 /\ events'[j][Len(events'[j])] = state
  <2>1. Len(events[j]) \in Nat  BY <1>1, LenProperties DEF Told
  <2>2. CASE UNCHANGED events /\ state \notin Streams!Over
    BY <1>1, <2>1, <2>2 DEF Grown
  <2>3. CASE \E e \in {"progress"} \cup Streams!Over :
                 events' = [events EXCEPT ![j] = Append(@, e)] /\ (state \in Streams!Over => e = state)
    <3>1. PICK e \in {"progress"} \cup Streams!Over :
                 events' = [events EXCEPT ![j] = Append(@, e)] /\ (state \in Streams!Over => e = state)
      BY <2>3
    <3>2. /\ Append(events[j], e) \in Told /\ Len(Append(events[j], e)) = Len(events[j]) + 1
          /\ Append(events[j], e)[Len(events[j]) + 1] = e
          /\ \A i \in 1..Len(events[j]) : Append(events[j], e)[i] = events[j][i]
      BY <1>1, ToldGrows
    <3>3. events'[j] = Append(events[j], e) /\ \A x \in Backtests \ {j} : events'[x] = events[x]
      BY <1>1, <3>1
    <3>4. events' \in [Backtests -> Told]  BY <1>1, <3>1, <3>2
    <3> QED  BY <2>1, <3>1, <3>2, <3>3, <3>4 DEF Grown
  <2> QED  BY <2>2, <2>3
<1>4. \A x \in Backtests : Concluded(x)'
  BY <1>2, <1>3 DEF StreamInv, Concluded
<1>5. ASSUME NEW q \in Readers, NEW x \in Backtests, x \in reader[q].job
      PROVE  /\ reader[q].job = {x} /\ Repeats(reader[q], events'[x])
             /\ reader[q].at = "ended" => job'[x] \in Streams!Over /\ Len(reader[q].sent) = Len(events'[x])
  <2>1. reader[q].job = {x} /\ Repeats(reader[q], events[x]) /\ Ended(reader[q], x)
    BY <1>5 DEF StreamInv
  <2>2. CASE x = j
    <3>1. reader[q].at # "ended"  BY <2>1, <2>2 DEF Ended
    <3>2. Repeats(reader[q], events'[x])  BY <1>1, <1>3, <2>1, <2>2, StillRepeats
    <3> QED  BY <2>1, <3>1, <3>2 DEF Ended
  <2>3. CASE x # j
    BY <1>2, <1>3, <2>1, <2>3 DEF Ended
  <2> QED  BY <2>2, <2>3
<1>6. \A r \in Readers : reader'[r].at = "closed" => reader'[r].job = {}
  BY DEF StreamInv
<1> QED  BY <1>1, <1>2, <1>3, <1>4, <1>5, <1>6 DEF StreamInv, Ended

LEMMA Opened ==
    ASSUME NEW x \in Backtests
    PROVE  \E next \in ReaderTypes :
              /\ next = [Streams!Closed EXCEPT !.at = "take", !.job = {x}]
              /\ next.at = "take" /\ next.job = {x} /\ next.taken = <<>> /\ next.sent = <<>>
<1>1. PICK k \in ReaderTypes : k = Streams!Closed /\ k.taken = <<>> /\ k.sent = <<>>
  <2>0. <<>> \in Told  BY EmptySeq DEF Told
  <2>1. PICK nothing \in Told : nothing = <<>>  BY <2>0
  <2>2. PICK none \in SUBSET Backtests : none = {}  OBVIOUS
  <2>3. ASSUME NEW k, k = [at |-> "closed", job |-> none, taken |-> nothing, sent |-> nothing]
        PROVE  k \in ReaderTypes /\ k.taken = nothing /\ k.sent = nothing
    BY <2>3 DEF ReaderTypes
  <2>4. Streams!Closed = [at |-> "closed", job |-> none, taken |-> nothing, sent |-> nothing]
    BY <2>1, <2>2 DEF Streams!Closed
  <2> QED  BY <2>1, <2>3, <2>4
<1>2. /\ [k EXCEPT !.at = "take", !.job = {x}] \in ReaderTypes
      /\ [k EXCEPT !.at = "take", !.job = {x}].at = "take" /\ [k EXCEPT !.at = "take", !.job = {x}].job = {x}
      /\ [k EXCEPT !.at = "take", !.job = {x}].taken = k.taken
      /\ [k EXCEPT !.at = "take", !.job = {x}].sent = k.sent
  BY <1>1 DEF ReaderTypes
<1> QED  BY <1>1, <1>2

\* A step of the jobs or of their streams.
LEMMA StreamStep == StreamInv /\ [Streams!Next]_(Streams!vars) => StreamInv'
<1> SUFFICES ASSUME StreamInv, [Streams!Next]_(Streams!vars) PROVE StreamInv'
  OBVIOUS
<1>1. ASSUME UNCHANGED <<job, events, reader>> PROVE StreamInv'
  BY <1>1 DEF StreamInv, Concluded, Ended
<1>2. /\ job \in [Backtests -> {"none", "queued", "running"} \cup Streams!Over]
      /\ events \in [Backtests -> Told] /\ reader \in [Readers -> ReaderTypes]
  BY DEF StreamInv
<1>3. ASSUME NEW j \in Backtests, Streams!Submit(j) \/ Streams!Begin(j) PROVE StreamInv'
  <2>1. PICK state \in {"queued", "running"} : job' = [job EXCEPT ![j] = state]
    BY <1>3 DEF Streams!Submit, Streams!Begin
  <2>2. job[j] \notin Streams!Over /\ UNCHANGED <<events, reader>>
    BY <1>3 DEF Streams!Submit, Streams!Begin, Streams!Over
  <2>3. state \in {"none", "queued", "running"} \cup Streams!Over /\ state \notin Streams!Over
    BY DEF Streams!Over
  <2> QED  BY <2>1, <2>2, <2>3, JobMoves
<1>4. ASSUME NEW j \in Backtests, Streams!Progress(j) PROVE StreamInv'
  <2>1. /\ job[j] = "running" /\ job' = [job EXCEPT ![j] = "running"] /\ UNCHANGED reader
        /\ events' = [events EXCEPT ![j] = Append(@, "progress")]
    BY <1>2, <1>4 DEF Streams!Progress, Streams!Publish
  <2>2. "running" \notin Streams!Over  BY DEF Streams!Over
  <2> QED  BY <2>1, <2>2, JobMoves
<1>5. ASSUME NEW j \in Backtests, Streams!Finish(j) \/ Streams!Cancel(j) PROVE StreamInv'
  <2>1. PICK state \in Streams!Over :
            job' = [job EXCEPT ![j] = state] /\ events' = [events EXCEPT ![j] = Append(@, state)]
    BY <1>5 DEF Streams!Finish, Streams!Cancel, Streams!PublishOutcome, Streams!Publish, Streams!Over
  <2>2. job[j] \notin Streams!Over /\ UNCHANGED reader
    BY <1>5 DEF Streams!Finish, Streams!Cancel, Streams!Over
  <2> QED  BY <2>1, <2>2, JobMoves
<1>6. ASSUME NEW r \in Readers, NEW j \in Backtests, Streams!Open(r, j) PROVE StreamInv'
  <2>1. PICK next \in ReaderTypes :
            /\ next = [Streams!Closed EXCEPT !.at = "take", !.job = {j}]
            /\ next.at = "take" /\ next.job = {j} /\ next.taken = <<>> /\ next.sent = <<>>
    BY Opened
  <2>2. reader' = [reader EXCEPT ![r] = next] /\ UNCHANGED <<job, events>>
    BY <1>2, <1>6, <2>1 DEF Streams!Open
  <2>3. events[j] \in Told /\ Len(events[j]) \in Nat  BY <1>2, LenProperties DEF Told
  <2>4. Repeats(next, events[j])
    <3>1. Len(next.sent) = 0 /\ Len(next.taken) = 0  BY <2>1, EmptySeq
    <3>2. Len(next.sent) + Len(next.taken) <= Len(events[j])  BY <2>3, <3>1
    <3>3. 1..Len(next.sent) = {} /\ 1..Len(next.taken) = {}  BY <3>1
    <3> QED  BY <2>1, <3>2, <3>3 DEF Repeats
  <2>5. Ended(next, j)  BY <2>1 DEF Ended
  <2> QED  BY <2>1, <2>2, <2>4, <2>5, StreamMoves
<1>7. ASSUME NEW r \in Readers, NEW j \in Backtests, Streams!Take(r, j) PROVE StreamInv'
  <2> DEFINE first == Len(reader[r].sent) + 1
             more == SubSeq(events[j], first, Len(events[j]))
             next == [reader[r] EXCEPT !.at = "send", !.taken = more]
  <2>1. reader[r] \in ReaderTypes /\ events[j] \in Told /\ j \in reader[r].job /\ reader[r].at = "take"
    BY <1>2, <1>7 DEF Streams!Take
  <2>2. reader[r].job = {j} /\ Repeats(reader[r], events[j])
    BY <2>1 DEF StreamInv
  <2>3. reader' = [reader EXCEPT ![r] = next] /\ UNCHANGED <<job, events>>
    BY <1>2, <1>7 DEF Streams!Take
  <2>4. /\ Len(reader[r].sent) \in Nat /\ Len(events[j]) \in Nat
        /\ reader[r].taken = <<>> /\ Len(reader[r].sent) <= Len(events[j])
    <3>1. Len(reader[r].sent) \in Nat /\ Len(events[j]) \in Nat
      BY <2>1, LenProperties DEF ReaderTypes, Told
    <3>2. reader[r].taken = <<>> /\ Len(reader[r].sent) + Len(reader[r].taken) <= Len(events[j])
      BY <2>1, <2>2 DEF Repeats
    <3>3. Len(<<>>) = 0 /\ \A m, n \in Nat : m + 0 <= n => m <= n
      BY EmptySeq
    <3> QED  BY <3>1, <3>2, <3>3
  <2>5. /\ more \in Told /\ Len(more) = Len(events[j]) - Len(reader[r].sent)
        /\ \A i \in 1..Len(more) : more[i] = events[j][Len(reader[r].sent) + i]
    <3>1. \A n, m \in Nat : m <= n =>
              /\ m + 1 \in Int /\ n \in Int
              /\ (IF m + 1 <= n THEN n - (m + 1) + 1 ELSE 0) = n - m
              /\ n - (m + 1) + 1 = n - m
              /\ \A i \in (m + 1)..n : i \in 1..n
              /\ \A i \in Int : (m + 1) + i - 1 = m + i
      OBVIOUS
    <3>2. /\ first \in Int /\ Len(events[j]) \in Int
          /\ (IF first <= Len(events[j]) THEN Len(events[j]) - first + 1 ELSE 0) = Len(events[j]) - Len(reader[r].sent)
          /\ Len(events[j]) - first + 1 = Len(events[j]) - Len(reader[r].sent)
          /\ \A i \in first..Len(events[j]) : i \in 1..Len(events[j])
          /\ \A i \in Int : first + i - 1 = Len(reader[r].sent) + i
      BY <2>4, <3>1
    <3>3. \A i \in 1..Len(events[j]) : events[j][i] \in {"progress"} \cup Streams!Over
      BY <2>1, LenProperties, ElementOfSeq DEF Told
    <3>4. \A i \in first..Len(events[j]) : events[j][i] \in {"progress"} \cup Streams!Over
      BY <3>2, <3>3
    <3> HIDE DEF first
    <3>5. /\ more \in Seq({"progress"} \cup Streams!Over)
          /\ Len(more) = IF first <= Len(events[j]) THEN Len(events[j]) - first + 1 ELSE 0
          /\ \A i \in 1..(Len(events[j]) - first + 1) : more[i] = events[j][first + i - 1]
      BY <3>2, <3>4, SubSeqProperties
    <3>6. Len(more) = Len(events[j]) - Len(reader[r].sent)  BY <3>2, <3>5
    <3>7. \A i \in 1..Len(more) : i \in Int /\ i \in 1..(Len(events[j]) - first + 1)
      BY <3>2, <3>6
    <3>8. \A i \in 1..Len(more) : more[i] = events[j][Len(reader[r].sent) + i]
      BY <3>2, <3>5, <3>7
    <3> QED  BY <3>5, <3>6, <3>8 DEF Told
  <2>6. /\ next \in ReaderTypes /\ next.job = {j} /\ next.at = "send" /\ next.sent = reader[r].sent
        /\ next.taken = more
    BY <2>1, <2>2, <2>5 DEF ReaderTypes
  <2> HIDE DEF next, more
  <2>7. Repeats(next, events[j]) /\ Ended(next, j)
    BY <2>2, <2>4, <2>5, <2>6 DEF Repeats, Ended
  <2> QED  BY <2>3, <2>6, <2>7, StreamMoves
<1>8. ASSUME NEW r \in Readers, Streams!Send(r) PROVE StreamInv'
  <2> DEFINE k == reader[r]
             next == [k EXCEPT !.taken = Tail(@), !.sent = Append(@, Head(k.taken))]
  <2>1. k \in ReaderTypes /\ k.at = "send" /\ k.taken # <<>> /\ k.sent \in Told /\ k.taken \in Told
    BY <1>2, <1>8 DEF Streams!Send, ReaderTypes
  <2>2. reader' = [reader EXCEPT ![r] = next] /\ UNCHANGED <<job, events>>
    BY <1>2, <1>8 DEF Streams!Send
  <2>3. /\ Tail(k.taken) \in Told /\ Head(k.taken) = k.taken[1] /\ Head(k.taken) \in {"progress"} \cup Streams!Over
        /\ Len(k.taken) \in Nat \ {0} /\ Len(Tail(k.taken)) = Len(k.taken) - 1
        /\ \A i \in 1..(Len(k.taken) - 1) : Tail(k.taken)[i] = k.taken[i + 1]
    BY <2>1, ToldShrinks
  <2>4. /\ Append(k.sent, Head(k.taken)) \in Told /\ Len(k.sent) \in Nat
        /\ Len(Append(k.sent, Head(k.taken))) = Len(k.sent) + 1
        /\ Append(k.sent, Head(k.taken))[Len(k.sent) + 1] = k.taken[1]
        /\ \A i \in 1..Len(k.sent) : Append(k.sent, Head(k.taken))[i] = k.sent[i]
    BY <2>1, <2>3, ToldGrows
  <2>5. /\ next \in ReaderTypes /\ next.at = "send" /\ next.job = k.job
        /\ next.taken = Tail(k.taken) /\ next.sent = Append(k.sent, Head(k.taken))
    BY <2>1, <2>3, <2>4 DEF ReaderTypes
  <2>6. ASSUME NEW j \in next.job
        PROVE  next.job = {j} /\ Repeats(next, events[j]) /\ Ended(next, j)
    <3>1. j \in Backtests  BY <2>1, <2>5 DEF ReaderTypes
    <3>2. k.job = {j} /\ Repeats(k, events[j])  BY <2>5, <3>1 DEF StreamInv
    <3>3. Len(events[j]) \in Nat  BY <1>2, <3>1, LenProperties DEF Told
    <3> HIDE DEF next, k
    <3>4. Len(next.sent) + Len(next.taken) <= Len(events[j])
      <4>1. Len(k.sent) + Len(k.taken) <= Len(events[j])  BY <3>2 DEF Repeats
      <4>2. \A m, n, p \in Nat : m + n <= p => (m + 1) + (n - 1) <= p  OBVIOUS
      <4>3. (Len(k.sent) + 1) + (Len(k.taken) - 1) <= Len(events[j])  BY <2>3, <2>4, <3>3, <4>1, <4>2
      <4> QED  BY <2>3, <2>4, <2>5, <4>3
    <3>5. ASSUME NEW i \in 1..Len(next.sent) PROVE next.sent[i] = events[j][i]
      <4>1. CASE i \in 1..Len(k.sent)  BY <2>4, <2>5, <3>2, <4>1 DEF Repeats
      <4>2. CASE i = Len(k.sent) + 1
        <5>1. 1 \in 1..Len(k.taken)  BY <2>3
        <5> QED  BY <2>4, <2>5, <3>2, <4>2, <5>1 DEF Repeats
      <4> QED  BY <2>4, <2>5, <4>1, <4>2
    <3>6. ASSUME NEW i \in 1..Len(next.taken) PROVE next.taken[i] = events[j][Len(next.sent) + i]
      <4>1. /\ i + 1 \in 1..Len(k.taken) /\ i \in 1..(Len(k.taken) - 1)
            /\ Len(k.sent) + (i + 1) = Len(next.sent) + i
        <5>1. \A m \in Nat, n \in Nat \ {0} : \A x \in 1..(n - 1) : x + 1 \in 1..n /\ m + (x + 1) = (m + 1) + x
          OBVIOUS
        <5>2. i \in 1..(Len(k.taken) - 1)  BY <2>3, <2>5
        <5>3. i + 1 \in 1..Len(k.taken) /\ Len(k.sent) + (i + 1) = (Len(k.sent) + 1) + i
          BY <2>3, <2>4, <5>1, <5>2
        <5> QED  BY <2>4, <2>5, <5>2, <5>3
      <4> QED  BY <2>3, <2>5, <3>2, <4>1 DEF Repeats
    <3> QED  BY <2>5, <3>2, <3>4, <3>5, <3>6 DEF Repeats, Ended
  <2>7. next.at # "closed"  BY <2>5
  <2> HIDE DEF next, k
  <2> QED  BY <2>2, <2>5, <2>6, <2>7, StreamMoves
<1>9. ASSUME NEW r \in Readers, NEW j \in Backtests, Streams!Round(r, j) PROVE StreamInv'
  <2>1. PICK at \in {"ended", "take"} :
            /\ reader' = [reader EXCEPT ![r] = [reader[r] EXCEPT !.at = at]]
            /\ at = "ended" => Streams!SentAll(r, j)
    BY <1>2, <1>9 DEF Streams!Round
  <2>2. /\ reader[r] \in ReaderTypes /\ reader[r].at = "send" /\ reader[r].taken = <<>> /\ j \in reader[r].job
        /\ UNCHANGED <<job, events>> /\ events[j] \in Told
    BY <1>2, <1>9 DEF Streams!Round
  <2>3. PICK next \in ReaderTypes : next = [reader[r] EXCEPT !.at = at]
    BY <2>2 DEF ReaderTypes
  <2>4. /\ next.at = at /\ next.job = reader[r].job /\ next.sent = reader[r].sent /\ next.taken = <<>>
    BY <2>2, <2>3 DEF ReaderTypes
  <2>5. reader[r].job = {j} /\ Repeats(reader[r], events[j])  BY <2>2 DEF StreamInv
  <2>6. Repeats(next, events[j])  BY <2>2, <2>4, <2>5 DEF Repeats
  <2>7. Ended(next, j)
    <3>1. Len(next.sent) \in Nat /\ Len(events[j]) \in Nat  BY <2>2, LenProperties DEF ReaderTypes, Told
    <3>2. Len(next.sent) <= Len(events[j])  BY <2>4, <2>6, <3>1 DEF Repeats
    <3> QED  BY <2>1, <2>4, <3>1, <3>2 DEF Ended, Streams!SentAll
  <2> QED  BY <2>1, <2>2, <2>3, <2>4, <2>5, <2>6, <2>7, StreamMoves
<1>10. ASSUME \/ Streams!Stop \/ Streams!OpenDirect \/ Streams!Put \/ Streams!FinishDirect
              \/ Streams!Get \/ Streams!LookDirect \/ UNCHANGED Streams!vars
       PROVE  UNCHANGED <<job, events, reader>>
  BY <1>10 DEF Streams!Stop, Streams!OpenDirect, Streams!Put, Streams!FinishDirect, Streams!Get,
               Streams!LookDirect, Streams!Direct, Streams!vars
<1> QED
  BY <1>1, <1>3, <1>4, <1>5, <1>6, <1>7, <1>8, <1>9, <1>10 DEF Streams!Next, Streams!Runs, Streams!Reads

LEMMA StreamStart == Streams!Init => StreamInv
<1> SUFFICES ASSUME Streams!Init PROVE StreamInv
  OBVIOUS
<1>1. [at |-> "closed", job |-> {}, taken |-> <<>>, sent |-> <<>>] \in ReaderTypes /\ <<>> \in Told
  BY DEF ReaderTypes, Told
<1> QED  BY <1>1 DEF Streams!Init, Streams!Closed, Streams!Over, StreamInv, Concluded

\* A stream of a backtest that ended has sent every event of its job, in the
\* order they were told, and the last one is the outcome.
THEOREM StreamsAreCompleteHolds == Streams!Spec => []Streams!StreamsAreComplete
<1>1. Streams!Init => StreamInv  BY StreamStart
<1>2. StreamInv /\ [Streams!Next]_(Streams!vars) => StreamInv'  BY StreamStep
<1>3. StreamInv => Streams!StreamsAreComplete
  <2> SUFFICES ASSUME StreamInv, NEW r \in Readers, NEW j \in Backtests, j \in reader[r].job
               PROVE  /\ Streams!IsPrefix(reader[r].sent \o reader[r].taken, events[j])
                      /\ reader[r].at = "ended" => reader[r].sent = events[j] /\ Streams!Last(events[j]) = job[j]
    BY DEF Streams!StreamsAreComplete
  <2> DEFINE k == reader[r]
  <2>1. k \in ReaderTypes /\ k.sent \in Told /\ k.taken \in Told /\ events[j] \in Told /\ job[j] \in {"none", "queued", "running"} \cup Streams!Over
    BY DEF StreamInv, ReaderTypes
  <2>2. Repeats(k, events[j]) /\ Ended(k, j) /\ Concluded(j)  BY DEF StreamInv
  <2>3. Len(k.sent) \in Nat /\ Len(k.taken) \in Nat /\ Len(events[j]) \in Nat
    BY <2>1, LenProperties DEF Told
  <2> HIDE DEF k
  <2> DEFINE both == k.sent \o k.taken
             front == SubSeq(events[j], 1, Len(both))
  <2>4. /\ both \in Told /\ Len(both) = Len(k.sent) + Len(k.taken)
        /\ \A i \in 1..(Len(k.sent) + Len(k.taken)) :
              both[i] = IF i <= Len(k.sent) THEN k.sent[i] ELSE k.taken[i - Len(k.sent)]
    BY <2>1, ConcatProperties DEF Told
  <2> HIDE DEF both
  <2>5. ASSUME NEW i \in 1..Len(both) PROVE both[i] = events[j][i]
    <3>1. \A m, n \in Nat : \A x \in 1..(m + n) :
              IF x <= m THEN x \in 1..m ELSE x - m \in 1..n /\ m + (x - m) = x
      OBVIOUS
    <3>2. /\ i \in 1..(Len(k.sent) + Len(k.taken))
          /\ IF i <= Len(k.sent) THEN i \in 1..Len(k.sent)
             ELSE i - Len(k.sent) \in 1..Len(k.taken) /\ Len(k.sent) + (i - Len(k.sent)) = i
      <4>1. i \in 1..(Len(k.sent) + Len(k.taken))  BY <2>4
      <4> QED  BY <2>3, <3>1, <4>1
    <3>3. both[i] = IF i <= Len(k.sent) THEN k.sent[i] ELSE k.taken[i - Len(k.sent)]
      BY <2>4, <3>2
    <3>4. CASE i <= Len(k.sent)  BY <2>2, <3>2, <3>3, <3>4 DEF Repeats
    <3>5. CASE ~(i <= Len(k.sent))
      <4>1. k.taken[i - Len(k.sent)] = events[j][Len(k.sent) + (i - Len(k.sent))]
        BY <2>2, <3>2, <3>5 DEF Repeats
      <4> QED  BY <3>2, <3>3, <3>5, <4>1
    <3> QED  BY <3>4, <3>5
  <2>6. Len(both) \in Nat /\ Len(both) <= Len(events[j])
    <3>1. Len(k.sent) + Len(k.taken) <= Len(events[j])  BY <2>2 DEF Repeats
    <3>2. \A m, n \in Nat : m + n \in Nat  OBVIOUS
    <3> QED  BY <2>3, <2>4, <3>1, <3>2
  <2>7. front \in Told /\ Len(front) = Len(both) /\ \A i \in 1..Len(both) : front[i] = events[j][i]
    <3>1. \A m, n \in Nat : m <= n =>
              /\ m \in Int /\ (IF 1 <= m THEN m - 1 + 1 ELSE 0) = m /\ m - 1 + 1 = m
              /\ \A i \in 1..m : i \in 1..n
      OBVIOUS
    <3>2. /\ Len(both) \in Int /\ (IF 1 <= Len(both) THEN Len(both) - 1 + 1 ELSE 0) = Len(both)
          /\ Len(both) - 1 + 1 = Len(both) /\ \A i \in 1..Len(both) : i \in 1..Len(events[j])
      BY <2>3, <2>6, <3>1
    <3>3. \A i \in 1..Len(events[j]) : events[j][i] \in {"progress"} \cup Streams!Over
      BY <2>1, LenProperties, ElementOfSeq DEF Told
    <3>4. \A i \in 1..Len(both) : events[j][i] \in {"progress"} \cup Streams!Over
      BY <3>2, <3>3
    <3>5. /\ front \in Seq({"progress"} \cup Streams!Over)
          /\ Len(front) = IF 1 <= Len(both) THEN Len(both) - 1 + 1 ELSE 0
          /\ \A i \in 1..(Len(both) - 1 + 1) : front[i] = events[j][1 + i - 1]
      BY <3>2, <3>4, SubSeqProperties
    <3>6. \A i \in Int : 1 + i - 1 = i  OBVIOUS
    <3> QED  BY <3>2, <3>5, <3>6 DEF Told
  <2> HIDE DEF front
  <2>8. both = front  BY <2>4, <2>5, <2>7, SeqEqual DEF Told
  <2>9. Streams!IsPrefix(both, events[j])
    BY <2>6, <2>8 DEF Streams!IsPrefix, front
  <2>10. ASSUME k.at = "ended" PROVE k.sent = events[j] /\ Streams!Last(events[j]) = job[j]
    <3>1. Len(k.sent) = Len(events[j]) /\ job[j] \in Streams!Over  BY <2>2, <2>10 DEF Ended
    <3>2. k.sent = events[j]  BY <2>1, <2>2, <3>1, SeqEqual DEF Repeats, Told
    <3> QED  BY <2>2, <3>1, <3>2 DEF Concluded, Streams!Last
  <2> QED  BY <2>9, <2>10 DEF both, k
<1> QED  BY <1>1, <1>2, <1>3, PTL DEF Streams!Spec

\* The direct stream of a run that ended has nothing left to send, and the
\* last thing it sent is the outcome.
DirectInv ==
    /\ direct \in DirectTypes
    /\ direct.at = "ended" =>
          /\ direct.status \in {"completed", "failed"} /\ direct.queue = <<>>
          /\ Len(direct.sent) > 0 /\ direct.sent[Len(direct.sent)] = direct.status

LEMMA DirectStep == DirectInv /\ [Streams!Next]_(Streams!vars) => DirectInv'
<1> SUFFICES ASSUME DirectInv, [Streams!Next]_(Streams!vars) PROVE DirectInv'
  OBVIOUS
<1>1. direct \in DirectTypes /\ direct.queue \in Told /\ direct.sent \in Told
  BY DEF DirectInv, DirectTypes
<1>2. ASSUME UNCHANGED direct PROVE DirectInv'
  BY <1>2 DEF DirectInv
<1>3. ASSUME NEW next \in DirectTypes, direct' = next, next.at # "ended" PROVE DirectInv'
  BY <1>3 DEF DirectInv
<1>4. CASE Streams!OpenDirect
  <2> DEFINE next == [direct EXCEPT !.status = "running", !.at = "wait"]
  <2>1. next \in DirectTypes /\ next.at = "wait"  BY <1>1 DEF DirectTypes
  <2>2. direct' = next  BY <1>4 DEF Streams!OpenDirect, Streams!Direct
  <2> HIDE DEF next
  <2> QED  BY <1>3, <2>1, <2>2
<1>5. CASE Streams!Put
  <2> DEFINE next == [direct EXCEPT !.queue = Append(@, "progress")]
  <2>1. Append(direct.queue, "progress") \in Told  BY <1>1, ToldGrows
  <2>2. next \in DirectTypes /\ next.at = direct.at  BY <1>1, <2>1 DEF DirectTypes
  <2>3. direct' = next /\ direct.status = "running"  BY <1>5 DEF Streams!Put, Streams!Direct
  <2>4. direct.at # "ended"  BY <2>3 DEF DirectInv
  <2> HIDE DEF next
  <2> QED  BY <1>3, <2>2, <2>3, <2>4
<1>6. CASE Streams!FinishDirect
  <2>1. PICK s \in {"completed", "failed"} :
            direct' = [direct EXCEPT !.status = s, !.late = direct.at = "wait" /\ direct.queue = <<>>]
    BY <1>6 DEF Streams!FinishDirect, Streams!Direct
  <2> DEFINE next == [direct EXCEPT !.status = s, !.late = direct.at = "wait" /\ direct.queue = <<>>]
  <2>2. next \in DirectTypes /\ next.at = direct.at  BY <1>1 DEF DirectTypes
  <2>3. direct.at # "ended"  BY <1>6 DEF Streams!FinishDirect, DirectInv
  <2>4. direct' = next  BY <2>1
  <2> HIDE DEF next
  <2> QED  BY <1>3, <2>2, <2>3, <2>4
<1>7. CASE Streams!Get
  <2> DEFINE next == [direct EXCEPT !.queue = Tail(@), !.sent = Append(@, Head(direct.queue)), !.at = "look"]
  <2>1. direct.queue # <<>> /\ direct' = next  BY <1>7 DEF Streams!Get, Streams!Direct
  <2>2. Tail(direct.queue) \in Told /\ Head(direct.queue) \in {"progress"} \cup Streams!Over
    BY <1>1, <2>1, ToldShrinks
  <2>3. Append(direct.sent, Head(direct.queue)) \in Told  BY <1>1, <2>2, ToldGrows
  <2>4. next \in DirectTypes /\ next.at = "look"  BY <1>1, <2>2, <2>3 DEF DirectTypes
  <2> HIDE DEF next
  <2> QED  BY <1>3, <2>1, <2>4
<1>8. CASE Streams!LookDirect
  <2>1. CASE Streams!NothingLeft
    <3> DEFINE next == [direct EXCEPT !.at = "ended", !.sent = Append(@, direct.status)]
    <3>1. direct' = next  BY <1>8, <2>1 DEF Streams!LookDirect, Streams!Direct
    <3>2. direct.status \in Streams!Over /\ direct.queue = <<>>  BY <2>1 DEF Streams!NothingLeft
    <3>3. direct.status \in {"completed", "failed"}  BY <1>1, <3>2 DEF DirectTypes, Streams!Over
    <3>4. /\ Append(direct.sent, direct.status) \in Told
          /\ Len(Append(direct.sent, direct.status)) = Len(direct.sent) + 1 /\ Len(direct.sent) \in Nat
          /\ Append(direct.sent, direct.status)[Len(direct.sent) + 1] = direct.status
      BY <1>1, <3>2, ToldGrows
    <3>5. /\ next \in DirectTypes /\ next.sent = Append(direct.sent, direct.status)
          /\ next.status = direct.status /\ next.queue = direct.queue
      BY <1>1, <3>4 DEF DirectTypes
    <3> HIDE DEF next
    <3>6. Len(next.sent) > 0 /\ next.sent[Len(next.sent)] = direct.status
      BY <3>4, <3>5
    <3> QED  BY <3>1, <3>2, <3>3, <3>5, <3>6 DEF DirectInv
  <2>2. CASE ~Streams!NothingLeft
    <3> DEFINE next == [direct EXCEPT !.at = "wait"]
    <3>1. direct' = next  BY <1>8, <2>2 DEF Streams!LookDirect, Streams!Direct
    <3>2. next \in DirectTypes /\ next.at = "wait"  BY <1>1 DEF DirectTypes
    <3> HIDE DEF next
    <3> QED  BY <1>3, <3>1, <3>2
  <2> QED  BY <2>1, <2>2
<1>9. ASSUME NEW j \in Backtests, NEW r \in Readers,
             \/ Streams!Submit(j) \/ Streams!Progress(j) \/ Streams!Runs(j) \/ Streams!Open(r, j)
      PROVE  UNCHANGED direct
  BY <1>9 DEF Streams!Submit, Streams!Progress, Streams!Runs, Streams!Begin, Streams!Finish, Streams!Cancel, Streams!Open
<1>10. ASSUME NEW j \in Backtests, Streams!Submit(j) \/ Streams!Progress(j) \/ Streams!Runs(j)
       PROVE  UNCHANGED direct
  BY <1>10 DEF Streams!Submit, Streams!Progress, Streams!Runs, Streams!Begin, Streams!Finish, Streams!Cancel
<1>11. ASSUME NEW r \in Readers, Streams!Reads(r) PROVE UNCHANGED direct
  BY <1>11 DEF Streams!Reads, Streams!Send, Streams!Take, Streams!Round
<1>12. ASSUME Streams!Stop \/ UNCHANGED Streams!vars PROVE UNCHANGED direct
  BY <1>12 DEF Streams!Stop, Streams!vars
<1> QED
  BY <1>2, <1>4, <1>5, <1>6, <1>7, <1>8, <1>9, <1>10, <1>11, <1>12 DEF Streams!Next

\* The stream of a run started directly ends with the outcome of the run, after
\* everything the run had queued.
THEOREM DirectIsCompleteHolds == Streams!Spec => []Streams!DirectIsComplete
<1>1. Streams!Init => DirectInv
  <2> SUFFICES ASSUME Streams!Init PROVE DirectInv
    OBVIOUS
  <2>1. <<>> \in Told  BY EmptySeq DEF Told
  <2>2. PICK nothing \in Told : nothing = <<>>  BY <2>1
  <2>3. direct = [status |-> "none", queue |-> nothing, at |-> "closed", sent |-> nothing, late |-> FALSE]
    BY <2>2 DEF Streams!Init
  <2>4. direct \in DirectTypes /\ direct.at = "closed"  BY <2>3 DEF DirectTypes
  <2> QED  BY <2>4 DEF DirectInv
<1>2. DirectInv /\ [Streams!Next]_(Streams!vars) => DirectInv'  BY DirectStep
<1>3. DirectInv => Streams!DirectIsComplete  BY DEF DirectInv, Streams!DirectIsComplete, Streams!Last
<1> QED  BY <1>1, <1>2, <1>3, PTL DEF Streams!Spec

-----------------------------------------------------------------------------
(***************************************************************************)
(* The rows of conversations (Conversations), for any conversations,        *)
(* branches, requests at once, messages, deletions and restarts: a talk is   *)
(* in turns, nothing in it loads that no task will finish, a task that began  *)
(* can go on, and rows and searches are about what is there.                *)
(***************************************************************************)
CONSTANTS Started, Branches, Requesters, MaxSends, Bounds
VARIABLES titles, messages, tasks, traces, refs, index, mirror, threads, request, torn, spent

Talks == INSTANCE Conversations WITH Callers <- Requesters, Limit <- Bounds, call <- request, used <- spent

Emptying == {"refs", "index", "mirror", "event", "interaction", "state", "messages", "tasks", "title"}
RequestPlaces == {"idle", "clean", "read"} \cup Emptying
\* Identities are those of a message that was sent, or of a copy, with its conversation.
KnownId(id, conv, sends) ==
    (\E n \in 1..sends : id = <<"user", n>> \/ id = <<"assistant", n>>) \/ \E x : id = <<"copy", conv, x>>
IsMessage(id, m, sends) ==
    /\ m = Talks!Row(m.conv, m.role, m.position, m.status, m.task) /\ m.position \in Nat
    /\ KnownId(id, m.conv, sends)
    /\ m.task # 0 => m.task \in 1..sends /\ id = <<"assistant", m.task>>
IsRequest(k, sends) ==
    /\ k = [at |-> k.at, of |-> k.of, tasks |-> k.tasks, messages |-> k.messages]
    /\ k.at \in RequestPlaces /\ k.tasks \subseteq 1..sends
    /\ \A id \in k.messages : KnownId(id, k.of, sends)
RowsTyped ==
    /\ spent.sends \in Nat /\ spent.crashes \in Nat
    /\ spent = [sends |-> spent.sends, crashes |-> spent.crashes, deletions |-> spent.deletions]
    /\ DOMAIN request = Requesters /\ \A c \in Requesters : IsRequest(request[c], spent.sends)
    /\ \A id \in DOMAIN messages : IsMessage(id, messages[id], spent.sends)
    /\ \A t \in DOMAIN tasks : t \in 1..spent.sends /\ tasks[t] = [conv |-> tasks[t].conv, status |-> tasks[t].status]
    /\ DOMAIN traces = Talks!Kinds

\* A task and its message are in one conversation and say the same, but after a
\* restart; and what loads has a task.
Together ==
    /\ \A id \in DOMAIN messages : messages[id].task \in DOMAIN tasks =>
          LET m == messages[id] task == tasks[m.task]
          IN /\ task.conv = m.conv
             /\ m.status = task.status \/ (m.status = "interrupted" /\ task.status = "pending")
    /\ \A id \in DOMAIN messages : messages[id].conv \notin torn /\ messages[id].status \in Talks!Loading =>
          messages[id].task \in DOMAIN tasks

\* A talk fills its places, users and answers in turns, and an active task is
\* the last.
Seated(conv, n) ==
    LET talk == Talks!MessagesOf(conv)
    IN /\ \A id \in talk : messages[id].position < n
       /\ \A p \in 0..(n - 1) : \E id \in talk : messages[id].position = p
       /\ \A i, j \in talk : messages[i].position = messages[j].position => i = j
       /\ \A id \in talk : messages[id].role = IF messages[id].position % 2 = 0 THEN "user" ELSE "assistant"
InTurns ==
    /\ \A conv : \E h \in Nat : Seated(conv, 2 * h)
    /\ \A id \in DOMAIN messages :
          messages[id].task \in DOMAIN tasks /\ tasks[messages[id].task].status \in Talks!Active =>
          \A other \in Talks!MessagesOf(messages[id].conv) : messages[other].position <= messages[id].position

\* A deletion leaves nothing behind itself, of a conversation that nobody uses.
Reading == {"idle", "clean", "read"}
DeletedBy(k) ==
    LET talk == Talks!MessagesOf(k.of) work == Talks!TasksOf(k.of)
    IN /\ talk \subseteq k.messages /\ work \subseteq k.tasks /\ k.of \in titles
       /\ k.at # "refs" => refs \cap talk = {}
       /\ k.at \notin {"refs", "index"} => index \cap talk = {}
       /\ k.at \notin {"refs", "index", "mirror"} => mirror \cap talk = {}
       /\ k.at \in {"interaction", "state", "messages", "tasks", "title"} => traces["event"] \cap work = {}
       /\ k.at \in {"state", "messages", "tasks", "title"} => traces["interaction"] \cap work = {}
       /\ k.at \in {"messages", "tasks", "title"} => traces["state"] \cap work = {}
       /\ k.at \in {"tasks", "title"} => talk = {}
       /\ k.at = "title" => work = {}
Deletions ==
    /\ \A c \in Requesters : request[c].at \notin Reading /\ request[c].of \notin torn => DeletedBy(request[c])
    /\ \A c \in Requesters : request[c].at = "read" /\ request[c].of \notin torn => request[c].of \in titles
    /\ \A c, d \in Requesters :
          /\ request[c].at \notin {"idle", "clean"} /\ request[d].at \notin {"idle", "clean"}
          /\ request[c].of = request[d].of /\ request[c].of \notin torn
          => c = d

\* What is to be cleaned is gone, and what is gone is to be cleaned.
Cleaning ==
    \A c \in Requesters : request[c].at \notin {"idle", "read"} =>
        \A t \in request[c].tasks : t \in DOMAIN tasks =>
            request[c].at \notin {"title", "clean"} /\ tasks[t].conv = request[c].of
Owned ==
    \A c \in Requesters : \A id \in request[c].messages : id \in DOMAIN messages => messages[id].conv = request[c].of
Remembered ==
    torn = {} /\ spent.crashes = 0 => \A thread \in threads :
        thread.task \in DOMAIN tasks
        \/ \E c \in Requesters : request[c].at \notin {"idle", "read"} /\ thread.task \in request[c].tasks

\* Rows belong to something, and searches are exact but for what is being deleted.
Belonging ==
    /\ torn = {} => /\ \A id \in refs \cup index \cup mirror : id \in DOMAIN messages
                    /\ \A k \in Talks!Kinds : traces[k] \subseteq DOMAIN tasks
    /\ \A id \in DOMAIN messages : messages[id].conv \notin torn => messages[id].conv \in titles
    /\ \A t \in DOMAIN tasks : tasks[t].conv \notin torn => tasks[t].conv \in titles
Searching ==
    torn = {} /\ spent.crashes = 0 =>
        /\ index \subseteq Talks!Said /\ mirror \subseteq Talks!Said
        /\ \A id \in Talks!Said : id \notin index \cap mirror =>
              \E c \in Requesters : request[c].at \notin {"idle", "clean"} /\ request[c].of = messages[id].conv
TalksInv ==
    /\ RowsTyped /\ Together /\ InTurns /\ Deletions /\ Cleaning /\ Owned /\ Remembered /\ Belonging /\ Searching
    /\ Talks!TasksCanResume

-----------------------------------------------------------------------------
LEMMA TableOrder ==
    /\ Talks!After("read") = "refs" /\ Talks!After("refs") = "index" /\ Talks!After("index") = "mirror"
    /\ Talks!After("mirror") = "event" /\ Talks!After("event") = "interaction"
    /\ Talks!After("interaction") = "state" /\ Talks!After("state") = "messages"
    /\ Talks!After("messages") = "tasks" /\ Talks!After("tasks") = "title"
    /\ \A n \in DOMAIN Talks!Tables : Talks!Tables[n] \in {"read"} \cup Emptying
<1> DEFINE T == Talks!Tables
<1>1. /\ DOMAIN T = 1..10 /\ T[1] = "read" /\ T[2] = "refs" /\ T[3] = "index" /\ T[4] = "mirror" /\ T[5] = "event"
      /\ T[6] = "interaction" /\ T[7] = "state" /\ T[8] = "messages" /\ T[9] = "tasks" /\ T[10] = "title"
  BY DEF Talks!Tables
<1> HIDE DEF T
<1>2. \A n \in 1..10 : n = 1 \/ n = 2 \/ n = 3 \/ n = 4 \/ n = 5 \/ n = 6 \/ n = 7 \/ n = 8 \/ n = 9 \/ n = 10
  OBVIOUS
<1>3. /\ (CHOOSE n \in DOMAIN T : T[n] = "read") = 1 /\ (CHOOSE n \in DOMAIN T : T[n] = "refs") = 2
      /\ (CHOOSE n \in DOMAIN T : T[n] = "index") = 3
  BY <1>1, <1>2
<1>4. /\ (CHOOSE n \in DOMAIN T : T[n] = "mirror") = 4 /\ (CHOOSE n \in DOMAIN T : T[n] = "event") = 5
      /\ (CHOOSE n \in DOMAIN T : T[n] = "interaction") = 6
  BY <1>1, <1>2
<1>5. /\ (CHOOSE n \in DOMAIN T : T[n] = "state") = 7 /\ (CHOOSE n \in DOMAIN T : T[n] = "messages") = 8
      /\ (CHOOSE n \in DOMAIN T : T[n] = "tasks") = 9
  BY <1>1, <1>2
<1> QED  BY <1>1, <1>2, <1>3, <1>4, <1>5 DEF Talks!After, Emptying, T

\* What is of a row stays: all but its status.
SameRow(m, old) == m = Talks!Row(old.conv, old.role, old.position, m.status, old.task)
SameTask(task, old) == task = [conv |-> old.conv, status |-> task.status]

\* What a message does to the rows.
Sends(c, conv, edited) ==
    LET pruned == Talks!FromEdit(conv, edited)
        old == Talks!TasksIn(pruned)
        place == Talks!Next1(Talks!MessagesOf(conv) \ pruned)
        n == spent.sends + 1
        user == <<"user", n>>
        assistant == <<"assistant", n>>
    IN /\ edited \in SUBSET {id \in Talks!MessagesOf(conv) : messages[id].role = "user"} /\ Talks!Cardinality(edited) <= 1
       /\ request[c] = Talks!Idle /\ \A t \in Talks!ActiveIn(conv) : tasks[t].status = "waiting_user"
       /\ DOMAIN messages' = (DOMAIN messages \ pruned) \cup {user, assistant}
       /\ messages'[user] = Talks!Row(conv, "user", place, "completed", 0)
       /\ messages'[assistant] = Talks!Row(conv, "assistant", place + 1, "pending", n)
       /\ \A id \in DOMAIN messages \ pruned :
             /\ SameRow(messages'[id], messages[id])
             /\ messages'[id].status = IF messages[id].conv = conv /\ messages[id].status = "waiting_user"
                                       THEN "superseded" ELSE messages[id].status
       /\ DOMAIN tasks' = (DOMAIN tasks \ old) \cup {n} /\ tasks'[n] = [conv |-> conv, status |-> "pending"]
       /\ \A t \in DOMAIN tasks \ old :
             /\ SameTask(tasks'[t], tasks[t])
             /\ tasks'[t].status = IF tasks[t].conv = conv /\ tasks[t].status = "waiting_user"
                                   THEN "superseded" ELSE tasks[t].status
       /\ DOMAIN traces' = Talks!Kinds
       /\ \A k \in Talks!Kinds : traces'[k] = (traces[k] \ old) \cup IF k = "state" THEN {n} ELSE {}
       /\ refs' = refs \ pruned /\ index' = (index \ pruned) \cup {user} /\ mirror' = (mirror \ pruned) \cup {user}
       /\ DOMAIN request' = Requesters /\ \A d \in Requesters \ {c} : request'[d] = request[d]
       /\ \/ old = {} /\ request'[c] = Talks!Idle
          \/ request'[c] = [at |-> "clean", of |-> "none", tasks |-> old, messages |-> {}]
       /\ titles' = titles \cup {conv} /\ torn' = IF Talks!Deleting(conv) THEN torn \cup {conv} ELSE torn
       /\ threads' = threads
       /\ spent'.sends = n /\ spent'.crashes = spent.crashes
       /\ spent' = [sends |-> n, crashes |-> spent'.crashes, deletions |-> spent'.deletions]

\* Names of messages are never taken twice.
LEMMA NamesDiffer ==
    /\ \A n, m : <<"user", n>> # <<"assistant", m>>
    /\ \A n, conv, x : <<"user", n>> # <<"copy", conv, x>> /\ <<"assistant", n>> # <<"copy", conv, x>>
    /\ \A n, m : <<"user", n>> = <<"user", m>> => n = m
    /\ \A n, m : <<"assistant", n>> = <<"assistant", m>> => n = m
    /\ \A a, b, x, y : <<"copy", a, x>> = <<"copy", b, y>> => a = b /\ x = y
<1>1. \A n, m : <<"user", n>> # <<"assistant", m>>  OBVIOUS
<1>2. \A n, conv, x : <<"user", n>> # <<"copy", conv, x>> /\ <<"assistant", n>> # <<"copy", conv, x>>  OBVIOUS
<1>3. \A n, m : <<"user", n>> = <<"user", m>> => n = m  OBVIOUS
<1>4. \A n, m : <<"assistant", n>> = <<"assistant", m>> => n = m  OBVIOUS
<1>5. \A a, b, x, y : <<"copy", a, x>> = <<"copy", b, y>> => a = b /\ x = y  OBVIOUS
<1> QED  BY <1>1, <1>2, <1>3, <1>4, <1>5

LEMMA NewName ==
    ASSUME NEW sends \in Nat, NEW conv
    PROVE  ~KnownId(<<"user", sends + 1>>, conv, sends) /\ ~KnownId(<<"assistant", sends + 1>>, conv, sends)
BY NamesDiffer DEF KnownId

LEMMA SendDoes ==
    ASSUME RowsTyped, NEW c \in Requesters, NEW conv, Talks!Send(c, conv)
    PROVE  \E edited : Sends(c, conv, edited)
<1>1. PICK edited \in SUBSET {id \in Talks!MessagesOf(conv) : messages[id].role = "user"} :
        LET pruned == Talks!FromEdit(conv, edited)
            old == Talks!TasksIn(pruned)
            place == Talks!Next1(Talks!MessagesOf(conv) \ pruned)
            n == spent.sends + 1
        IN /\ Talks!Cardinality(edited) <= 1
           /\ messages' = Talks!With(Talks!Without(Talks!Superseded(messages, conv), pruned), Talks!Pair(conv, place, n))
           /\ tasks' = Talks!With(Talks!Without(Talks!Superseded(tasks, conv), old),
                                  [t \in {n} |-> [conv |-> conv, status |-> "pending"]])
           /\ traces' = [k \in Talks!Kinds |-> (traces[k] \ old) \cup IF k = "state" THEN {n} ELSE {}]
           /\ refs' = refs \ pruned
           /\ index' = (index \ pruned) \cup {<<"user", n>>}
           /\ mirror' = (mirror \ pruned) \cup {<<"user", n>>}
           /\ request' = [request EXCEPT ![c] = IF old = {} THEN Talks!Idle
                                                ELSE [Talks!Idle EXCEPT !.at = "clean", !.tasks = old]]
  BY DEF Talks!Send
<1> DEFINE pruned == Talks!FromEdit(conv, edited) old == Talks!TasksIn(pruned)
           place == Talks!Next1(Talks!MessagesOf(conv) \ pruned)
           n == spent.sends + 1 user == <<"user", n>> assistant == <<"assistant", n>>
<1>2. spent.sends \in Nat  BY DEF RowsTyped
<1> HIDE DEF pruned, old, place, n
<1>3. /\ messages' = Talks!With(Talks!Without(Talks!Superseded(messages, conv), pruned), Talks!Pair(conv, place, n))
      /\ tasks' = Talks!With(Talks!Without(Talks!Superseded(tasks, conv), old),
                             [t \in {n} |-> [conv |-> conv, status |-> "pending"]])
      /\ request' = [request EXCEPT ![c] = IF old = {} THEN Talks!Idle
                                           ELSE [Talks!Idle EXCEPT !.at = "clean", !.tasks = old]]
  BY <1>1 DEF pruned, old, place, n
<1>4. user \notin DOMAIN messages /\ assistant \notin DOMAIN messages /\ n \notin DOMAIN tasks
  <2>1. \A id \in DOMAIN messages : KnownId(id, messages[id].conv, spent.sends)  BY DEF RowsTyped, IsMessage
  <2>2. \A t \in DOMAIN tasks : t \in 1..spent.sends  BY DEF RowsTyped
  <2> QED  BY <1>2, <2>1, <2>2, NewName DEF n
<1>5. /\ DOMAIN Talks!Pair(conv, place, n) = {user, assistant}
      /\ Talks!Pair(conv, place, n)[user] = Talks!Row(conv, "user", place, "completed", 0)
      /\ Talks!Pair(conv, place, n)[assistant] = Talks!Row(conv, "assistant", place + 1, "pending", n)
  <2>1. {"user", "assistant"} \X {n} = {user, assistant}  OBVIOUS
  <2>2. user[1] = "user" /\ assistant[1] = "assistant"  OBVIOUS
  <2> QED  BY <2>1, <2>2 DEF Talks!Pair
<1> HIDE DEF user, assistant
<1>6. DOMAIN messages' = (DOMAIN messages \ pruned) \cup {user, assistant}
      /\ messages'[user] = Talks!Row(conv, "user", place, "completed", 0)
      /\ messages'[assistant] = Talks!Row(conv, "assistant", place + 1, "pending", n)
  BY <1>3, <1>5 DEF Talks!With, Talks!Without, Talks!Restrict, Talks!Superseded
<1>7. ASSUME NEW id \in DOMAIN messages \ pruned
      PROVE  /\ SameRow(messages'[id], messages[id])
             /\ messages'[id].status = IF messages[id].conv = conv /\ messages[id].status = "waiting_user"
                                       THEN "superseded" ELSE messages[id].status
  <2>1. messages'[id] = IF messages[id].conv = conv /\ messages[id].status = "waiting_user"
                        THEN [messages[id] EXCEPT !.status = "superseded"] ELSE messages[id]
    BY <1>3, <1>4, <1>5 DEF Talks!With, Talks!Without, Talks!Restrict, Talks!Superseded
  <2>2. messages[id] = Talks!Row(messages[id].conv, messages[id].role, messages[id].position, messages[id].status,
                                 messages[id].task)
    BY DEF RowsTyped, IsMessage
  <2> QED  BY <2>1, <2>2 DEF SameRow, Talks!Row
<1>8. DOMAIN tasks' = (DOMAIN tasks \ old) \cup {n} /\ tasks'[n] = [conv |-> conv, status |-> "pending"]
  BY <1>3, <1>4 DEF Talks!With, Talks!Without, Talks!Restrict, Talks!Superseded
<1>9. ASSUME NEW t \in DOMAIN tasks \ old
      PROVE  /\ SameTask(tasks'[t], tasks[t])
             /\ tasks'[t].status = IF tasks[t].conv = conv /\ tasks[t].status = "waiting_user"
                                   THEN "superseded" ELSE tasks[t].status
  <2>1. tasks'[t] = IF tasks[t].conv = conv /\ tasks[t].status = "waiting_user"
                    THEN [tasks[t] EXCEPT !.status = "superseded"] ELSE tasks[t]
    BY <1>3, <1>4 DEF Talks!With, Talks!Without, Talks!Restrict, Talks!Superseded
  <2>2. tasks[t] = [conv |-> tasks[t].conv, status |-> tasks[t].status]  BY DEF RowsTyped
  <2> QED  BY <2>1, <2>2 DEF SameTask
<1>10. /\ DOMAIN request' = Requesters /\ \A d \in Requesters \ {c} : request'[d] = request[d]
       /\ \/ old = {} /\ request'[c] = Talks!Idle
          \/ request'[c] = [at |-> "clean", of |-> "none", tasks |-> old, messages |-> {}]
  <2>1. DOMAIN request = Requesters  BY DEF RowsTyped
  <2>2. [Talks!Idle EXCEPT !.at = "clean", !.tasks = old] = [at |-> "clean", of |-> "none", tasks |-> old, messages |-> {}]
    <3> DEFINE k == [Talks!Idle EXCEPT !.at = "clean", !.tasks = old]
    <3>1. k \in [at : {"clean"}, of : {"none"}, tasks : {old}, messages : {{}}]  BY DEF Talks!Idle
    <3> HIDE DEF k
    <3>2. k = [at |-> "clean", of |-> "none", tasks |-> old, messages |-> {}]  BY <3>1
    <3> QED  BY <3>2 DEF k
  <2> QED  BY <1>3, <2>1, <2>2
<1>11. /\ spent'.sends = n /\ spent'.crashes = spent.crashes
       /\ spent' = [sends |-> n, crashes |-> spent'.crashes, deletions |-> spent'.deletions]
  BY DEF Talks!Send, RowsTyped, n
<1>12. /\ refs' = refs \ pruned /\ index' = (index \ pruned) \cup {user} /\ mirror' = (mirror \ pruned) \cup {user}
       /\ DOMAIN traces' = Talks!Kinds
       /\ \A k \in Talks!Kinds : traces'[k] = (traces[k] \ old) \cup IF k = "state" THEN {n} ELSE {}
  BY <1>1 DEF pruned, old, n, user
<1>13. /\ request[c] = Talks!Idle /\ \A t \in Talks!ActiveIn(conv) : tasks[t].status = "waiting_user"
       /\ titles' = titles \cup {conv} /\ torn' = IF Talks!Deleting(conv) THEN torn \cup {conv} ELSE torn
       /\ threads' = threads
  BY DEF Talks!Send, Talks!Uses
<1> QED  BY <1>1, <1>6, <1>7, <1>8, <1>9, <1>10, <1>11, <1>12, <1>13 DEF Sends, pruned, old, place, n, user, assistant

\* The parts of rows and tasks that no change of status touches.
LEMMA RowParts ==
    ASSUME NEW conv, NEW role, NEW position, NEW new, NEW task
    PROVE  LET m == Talks!Row(conv, role, position, new, task)
           IN m.conv = conv /\ m.role = role /\ m.position = position /\ m.status = new /\ m.task = task
BY DEF Talks!Row
LEMMA KnownLonger ==
    ASSUME NEW sends \in Nat, NEW more \in Nat, sends <= more, NEW id, NEW conv, KnownId(id, conv, sends)
    PROVE  KnownId(id, conv, more)
<1>1. CASE \E x : id = <<"copy", conv, x>>  BY <1>1 DEF KnownId
<1>2. CASE \E n \in 1..sends : id = <<"user", n>> \/ id = <<"assistant", n>>
  <2>1. 1..sends \subseteq 1..more  OBVIOUS
  <2> QED  BY <1>2, <2>1 DEF KnownId
<1> QED  BY <1>1, <1>2 DEF KnownId
LEMMA RowStays ==
    ASSUME NEW id, NEW old, NEW m, NEW sends \in Nat, NEW more \in Nat, sends <= more,
           IsMessage(id, old, sends), SameRow(m, old)
    PROVE  /\ IsMessage(id, m, more)
           /\ m.conv = old.conv /\ m.role = old.role /\ m.position = old.position /\ m.task = old.task
<1>1. m = Talks!Row(old.conv, old.role, old.position, m.status, old.task)  BY DEF SameRow
<1>2. m.conv = old.conv /\ m.role = old.role /\ m.position = old.position /\ m.task = old.task
  BY <1>1, RowParts
<1>3. m = Talks!Row(m.conv, m.role, m.position, m.status, m.task)  BY <1>1, <1>2
<1>4. KnownId(id, m.conv, more)  BY <1>2, KnownLonger DEF IsMessage
<1>5. m.position \in Nat /\ (m.task # 0 => m.task \in 1..more /\ id = <<"assistant", m.task>>)
  BY <1>2 DEF IsMessage
<1> QED  BY <1>2, <1>3, <1>4, <1>5 DEF IsMessage
LEMMA TaskStays ==
    ASSUME NEW old, NEW task, SameTask(task, old)
    PROVE  task.conv = old.conv /\ task = [conv |-> task.conv, status |-> task.status]
BY DEF SameTask
LEMMA RequestStays ==
    ASSUME NEW sends \in Nat, NEW more \in Nat, sends <= more, NEW k, IsRequest(k, sends)
    PROVE  IsRequest(k, more)
<1>1. 1..sends \subseteq 1..more  OBVIOUS
<1> QED  BY <1>1, KnownLonger DEF IsRequest

\* What a request does: nothing to the others.
Turned(c, k) == DOMAIN request' = Requesters /\ request'[c] = k /\ \A d \in Requesters \ {c} : request'[d] = request[d]
IdleParts == Talks!Idle = [at |-> "idle", of |-> "none", tasks |-> {}, messages |-> {}]
LEMMA IdleIs == IdleParts
BY DEF IdleParts, Talks!Idle
LEMMA IdleTyped ==
    ASSUME NEW sends \in Nat
    PROVE  IsRequest(Talks!Idle, sends)
BY DEF Talks!Idle, IsRequest, RequestPlaces
LEMMA TurnedTyped ==
    ASSUME RowsTyped, NEW c \in Requesters, NEW k, Turned(c, k), spent'.sends = spent.sends, IsRequest(k, spent.sends)
    PROVE  DOMAIN request' = Requesters /\ \A d \in Requesters : IsRequest(request'[d], spent'.sends)
BY DEF RowsTyped, Turned

LEMMA RowsAlone ==
    ASSUME Together, InTurns, UNCHANGED <<messages, tasks>>, torn \subseteq torn'
    PROVE  Together' /\ InTurns'
<1>1. Together'  BY DEF Together
<1>2. InTurns'  BY DEF InTurns, Seated, Talks!MessagesOf
<1> QED  BY <1>1, <1>2

LEMMA CheckKeeps ==
    ASSUME TalksInv, NEW c \in Requesters, NEW conv, Talks!Check(c, conv)
    PROVE  TalksInv'
<1> DEFINE k == [at |-> "read", of |-> conv, tasks |-> {}, messages |-> {}]
<1>0. DOMAIN request = Requesters  BY DEF TalksInv, RowsTyped
<1>1. request[c] = Talks!Idle /\ conv \in titles  BY DEF Talks!Check
<1>2. Turned(c, k)
  <2>1. [Talks!Idle EXCEPT !.at = "read", !.of = conv] = k
    <3> DEFINE new == [Talks!Idle EXCEPT !.at = "read", !.of = conv]
    <3>1. new \in [at : {"read"}, of : {conv}, tasks : {{}}, messages : {{}}]  BY DEF Talks!Idle
    <3> HIDE DEF new
    <3>2. new = k  BY <3>1
    <3> QED  BY <3>2 DEF new
  <2> QED  BY <1>0, <2>1 DEF Talks!Check, Turned
<1>3. /\ spent'.sends = spent.sends /\ spent'.crashes = spent.crashes
      /\ spent' = [sends |-> spent'.sends, crashes |-> spent'.crashes, deletions |-> spent'.deletions]
  BY DEF TalksInv, RowsTyped, Talks!Check
<1>4. UNCHANGED <<titles, messages, tasks, traces, refs, index, mirror, threads>>  BY DEF Talks!Check, Talks!rows
<1>5. torn' = IF Talks!Deleting(conv) THEN torn \cup {conv} ELSE torn  BY DEF Talks!Check, Talks!Uses
<1>6. torn \subseteq torn' /\ (torn' = {} => torn = {})  BY <1>5
<1>7. RowsTyped'
  <2>1. IsRequest(k, spent.sends)  BY DEF IsRequest, RequestPlaces
  <2>2. DOMAIN request' = Requesters /\ \A d \in Requesters : IsRequest(request'[d], spent'.sends)
    BY <1>2, <1>3, <2>1, TurnedTyped DEF TalksInv
  <2> QED  BY <1>3, <1>4, <2>2 DEF TalksInv, RowsTyped
<1>8. Together' /\ InTurns'  BY <1>4, <1>6, RowsAlone DEF TalksInv
<1>9. request[c].at = "idle" /\ request[c].tasks = {} /\ request[c].messages = {}  BY <1>1 DEF Talks!Idle
<1>10. k.at = "read" /\ k.of = conv /\ k.tasks = {} /\ k.messages = {}  OBVIOUS
<1> HIDE DEF k
<1>11. Deletions'
  <2>1. ASSUME NEW d \in Requesters, request'[d].at \notin Reading, request'[d].of \notin torn'
        PROVE  DeletedBy(request[d])'
    <3>1. d # c  BY <2>1, <1>2, <1>10 DEF Turned, Reading
    <3>2. request'[d] = request[d]  BY <3>1, <1>2 DEF Turned
    <3>3. DeletedBy(request[d])  BY <2>1, <3>2, <1>6 DEF TalksInv, Deletions
    <3> QED  BY <3>2, <3>3, <1>4 DEF DeletedBy, Talks!MessagesOf, Talks!TasksOf
  <2>2. ASSUME NEW d \in Requesters, request'[d].at = "read", request'[d].of \notin torn'
        PROVE  request'[d].of \in titles'
    BY <2>2, <1>1, <1>2, <1>4, <1>6, <1>10 DEF TalksInv, Deletions, Turned
  <2>3. ASSUME NEW d \in Requesters, NEW e \in Requesters, request'[d].at \notin {"idle", "clean"},
               request'[e].at \notin {"idle", "clean"}, request'[d].of = request'[e].of, request'[d].of \notin torn'
        PROVE  d = e
    <3>1. CASE d # c /\ e # c  BY <3>1, <2>3, <1>2, <1>6 DEF TalksInv, Deletions, Turned
    <3>2. ASSUME NEW o \in Requesters \ {c}, request'[o].at \notin {"idle", "clean"}, request'[o].of = conv
          PROVE  conv \in torn'
      BY <3>2, <1>2, <1>5 DEF Turned, Talks!Deleting
    <3>3. request'[c].of = conv  BY <1>2, <1>10 DEF Turned
    <3>4. CASE d = c /\ e # c  BY <3>4, <2>3, <3>2, <3>3
    <3>5. CASE d # c /\ e = c  BY <3>5, <2>3, <3>2, <3>3
    <3> QED  BY <3>1, <3>4, <3>5
  <2> QED  BY <2>1, <2>2, <2>3 DEF Deletions
<1>12. Cleaning' /\ Owned'
  BY <1>2, <1>4, <1>10 DEF TalksInv, Cleaning, Owned, Turned
<1>13. Remembered'
  BY <1>2, <1>3, <1>4, <1>6, <1>9 DEF TalksInv, Remembered, Turned
<1>14. Belonging'
  BY <1>4, <1>6 DEF TalksInv, Belonging
<1>15. Searching'
  BY <1>2, <1>3, <1>4, <1>6, <1>9 DEF TalksInv, Searching, Turned, Talks!Said
<1>16. Talks!TasksCanResume'
  BY <1>4 DEF TalksInv, Talks!TasksCanResume
<1> QED  BY <1>7, <1>8, <1>11, <1>12, <1>13, <1>14, <1>15, <1>16 DEF TalksInv

LEMMA CleanKeeps ==
    ASSUME TalksInv, NEW c \in Requesters, Talks!Clean(c)
    PROVE  TalksInv'
<1> DEFINE old == request[c]
<1>0. DOMAIN request = Requesters /\ IsRequest(old, spent.sends)  BY DEF TalksInv, RowsTyped
<1>1. PICK t \in old.tasks :
         /\ threads' = {thread \in threads : thread.task # t}
         /\ request' = [request EXCEPT ![c] = IF old.tasks \ {t} = {} THEN Talks!Idle
                                              ELSE [old EXCEPT !.tasks = old.tasks \ {t}]]
  BY DEF Talks!Clean
<1>2. old.at = "clean" /\ UNCHANGED <<titles, messages, tasks, traces, refs, index, mirror, torn, spent>>
  BY DEF Talks!Clean, Talks!rows
<1> DEFINE k == IF old.tasks \ {t} = {} THEN Talks!Idle ELSE [old EXCEPT !.tasks = old.tasks \ {t}]
<1>3. Turned(c, k)
  <2>1. request' = [request EXCEPT ![c] = k]  BY <1>1
  <2> HIDE DEF k
  <2> QED  BY <1>0, <2>1 DEF Turned
<1>4. /\ k.at \in {"idle", "clean"} /\ k.tasks = old.tasks \ {t} /\ (k.tasks # {} => k.at = "clean")
      /\ k.messages \subseteq old.messages /\ (k.messages = {} \/ k.of = old.of)
      /\ IsRequest(k, spent.sends)
  <2>1. CASE old.tasks \ {t} = {}
    <3>1. k = Talks!Idle  BY <2>1
    <3> HIDE DEF k
    <3>2. spent.sends \in Nat  BY DEF TalksInv, RowsTyped
    <3>3. IsRequest(k, spent.sends)  BY <3>1, <3>2, IdleTyped
    <3>4. k.at = "idle" /\ k.tasks = {} /\ k.messages = {}  BY <3>1 DEF Talks!Idle
    <3> QED  BY <2>1, <3>3, <3>4
  <2>2. CASE old.tasks \ {t} # {}
    <3> DEFINE new == [old EXCEPT !.tasks = old.tasks \ {t}]
    <3>1. new \in [at : {"clean"}, of : {old.of}, tasks : {old.tasks \ {t}}, messages : {old.messages}]
      BY <1>0, <1>2 DEF IsRequest
    <3>2. k = new  BY <2>2
    <3> HIDE DEF new, k
    <3>3. /\ k.at = "clean" /\ k.of = old.of /\ k.tasks = old.tasks \ {t} /\ k.messages = old.messages
          /\ k = [at |-> k.at, of |-> k.of, tasks |-> k.tasks, messages |-> k.messages]
      BY <3>1, <3>2
    <3>4. IsRequest(k, spent.sends)  BY <1>0, <3>3 DEF IsRequest, RequestPlaces
    <3> QED  BY <3>3, <3>4
  <2> QED  BY <2>1, <2>2
<1> HIDE DEF k
<1>5. RowsTyped'
  <2>1. DOMAIN request' = Requesters /\ \A d \in Requesters : IsRequest(request'[d], spent'.sends)
    BY <1>2, <1>3, <1>4, TurnedTyped DEF TalksInv
  <2> QED  BY <1>2, <2>1 DEF TalksInv, RowsTyped
<1>6. Together' /\ InTurns'  BY <1>2, RowsAlone DEF TalksInv
<1>7. Deletions'
  <2>1. ASSUME NEW d \in Requesters, request'[d].at \notin {"idle", "clean"}
        PROVE  d # c /\ request'[d] = request[d]
    BY <2>1, <1>3, <1>4 DEF Turned
  <2>2. ASSUME NEW d \in Requesters, request'[d].at \notin Reading, request'[d].of \notin torn'
        PROVE  DeletedBy(request[d])'
    <3>1. request'[d] = request[d] /\ DeletedBy(request[d])
      BY <2>1, <2>2, <1>2 DEF TalksInv, Deletions, Reading
    <3> QED  BY <3>1, <1>2 DEF DeletedBy, Talks!MessagesOf, Talks!TasksOf
  <2>3. ASSUME NEW d \in Requesters, request'[d].at = "read", request'[d].of \notin torn'
        PROVE  request'[d].of \in titles'
    BY <2>1, <2>3, <1>2 DEF TalksInv, Deletions
  <2>4. ASSUME NEW d \in Requesters, NEW e \in Requesters, request'[d].at \notin {"idle", "clean"},
               request'[e].at \notin {"idle", "clean"}, request'[d].of = request'[e].of, request'[d].of \notin torn'
        PROVE  d = e
    BY <2>1, <2>4, <1>2 DEF TalksInv, Deletions
  <2> QED  BY <2>2, <2>3, <2>4 DEF Deletions
<1>8. Cleaning' /\ Owned'
  <2>1. Cleaning'  BY <1>2, <1>3, <1>4 DEF TalksInv, Cleaning, Turned
  <2>2. Owned'  BY <1>2, <1>3, <1>4 DEF TalksInv, Owned, Turned
  <2> QED  BY <2>1, <2>2
<1>9. Remembered'
  <2> SUFFICES ASSUME torn = {}, spent.crashes = 0, NEW thread \in threads'
               PROVE  \/ thread.task \in DOMAIN tasks
                      \/ \E d \in Requesters : request'[d].at \notin {"idle", "read"} /\ thread.task \in request'[d].tasks
    BY <1>2 DEF Remembered
  <2>1. thread \in threads /\ thread.task # t  BY <1>1
  <2>2. CASE thread.task \in old.tasks
    <3>1. thread.task \in k.tasks /\ k.at = "clean"  BY <2>1, <2>2, <1>4
    <3> QED  BY <3>1, <1>3 DEF Turned
  <2>3. CASE thread.task \notin old.tasks
    BY <2>1, <2>3, <1>3 DEF TalksInv, Remembered, Turned
  <2> QED  BY <2>2, <2>3
<1>10. Belonging'  BY <1>2 DEF TalksInv, Belonging
<1>11. Searching'
  BY <1>2, <1>3 DEF TalksInv, Searching, Turned, Talks!Said
<1>12. Talks!TasksCanResume'
  <2>1. t \notin DOMAIN tasks  BY <1>2 DEF TalksInv, Cleaning
  <2> QED  BY <1>1, <1>2, <2>1 DEF TalksInv, Talks!TasksCanResume
<1> QED  BY <1>5, <1>6, <1>7, <1>8, <1>9, <1>10, <1>11, <1>12 DEF TalksInv

LEMMA ReadRowsKeeps ==
    ASSUME TalksInv, NEW c \in Requesters, Talks!ReadRows(c)
    PROVE  TalksInv'
<1> DEFINE old == request[c] talk == Talks!MessagesOf(old.of) work == Talks!TasksOf(old.of)
           k == [at |-> "refs", of |-> old.of, tasks |-> work, messages |-> talk]
<1>0. DOMAIN request = Requesters /\ IsRequest(old, spent.sends)  BY DEF TalksInv, RowsTyped
<1>1. old.at = "read" /\ UNCHANGED <<titles, messages, tasks, traces, refs, index, mirror, threads, torn, spent>>
  BY DEF Talks!ReadRows, Talks!rows
<1>2. Turned(c, k)
  <2> DEFINE new == [old EXCEPT !.at = Talks!After("read"), !.tasks = work, !.messages = talk]
  <2>1. new \in [at : {"refs"}, of : {old.of}, tasks : {work}, messages : {talk}]
    BY <1>0, TableOrder DEF IsRequest
  <2>2. request' = [request EXCEPT ![c] = new]
    <3>1. request' = [request EXCEPT ![c].at = Talks!After("read"), ![c].tasks = work, ![c].messages = talk]
      BY DEF Talks!ReadRows
    <3> HIDE DEF work, talk
    <3> QED  BY <3>1, <1>0
  <2> HIDE DEF new, work, talk
  <2>3. new = k  BY <2>1
  <2> QED  BY <1>0, <2>2, <2>3 DEF Turned
<1>3. /\ k.at = "refs" /\ k.of = old.of /\ k.tasks = work /\ k.messages = talk
      /\ k = [at |-> k.at, of |-> k.of, tasks |-> k.tasks, messages |-> k.messages]
  OBVIOUS
<1> HIDE DEF k
<1>4. IsRequest(k, spent.sends)
  <2>1. work \subseteq 1..spent.sends  BY DEF TalksInv, RowsTyped, Talks!TasksOf
  <2>2. \A id \in talk : KnownId(id, old.of, spent.sends)  BY DEF TalksInv, RowsTyped, IsMessage, Talks!MessagesOf
  <2> QED  BY <2>1, <2>2, <1>3 DEF IsRequest, RequestPlaces, Emptying
<1>5. RowsTyped'
  <2>1. DOMAIN request' = Requesters /\ \A d \in Requesters : IsRequest(request'[d], spent'.sends)
    BY <1>1, <1>2, <1>4, TurnedTyped DEF TalksInv
  <2> QED  BY <1>1, <2>1 DEF TalksInv, RowsTyped
<1>6. Together' /\ InTurns'  BY <1>1, RowsAlone DEF TalksInv
<1>7. Deletions'
  <2>1. ASSUME NEW d \in Requesters, request'[d].at \notin Reading, request'[d].of \notin torn'
        PROVE  DeletedBy(request[d])'
    <3>1. CASE d # c
      <4>1. request'[d] = request[d] /\ DeletedBy(request[d])
        BY <2>1, <3>1, <1>1, <1>2 DEF TalksInv, Deletions, Turned
      <4> QED  BY <4>1, <1>1 DEF DeletedBy, Talks!MessagesOf, Talks!TasksOf
    <3>2. CASE d = c
      <4>1. request'[d] = k  BY <3>2, <1>2 DEF Turned
      <4>2. old.of \in titles  BY <2>1, <4>1, <1>1, <1>3 DEF TalksInv, Deletions
      <4>3. talk' = Talks!MessagesOf(old.of)' /\ talk = {id \in DOMAIN messages : messages[id].conv = old.of}
            /\ work = {t \in DOMAIN tasks : tasks[t].conv = old.of}
        BY DEF Talks!MessagesOf, Talks!TasksOf
      <4>4. /\ {id \in DOMAIN messages' : messages'[id].conv = k.of} = k.messages
            /\ {t \in DOMAIN tasks' : tasks'[t].conv = k.of} = k.tasks
        BY <1>1, <1>3, <4>3
      <4> HIDE DEF talk, work
      <4> QED  BY <4>1, <4>2, <4>4, <1>1, <1>3 DEF DeletedBy, Talks!MessagesOf, Talks!TasksOf
    <3> QED  BY <3>1, <3>2
  <2>2. ASSUME NEW d \in Requesters, request'[d].at = "read", request'[d].of \notin torn'
        PROVE  request'[d].of \in titles'
    BY <2>2, <1>1, <1>2, <1>3 DEF TalksInv, Deletions, Turned
  <2>3. \A d \in Requesters : request'[d].of = request[d].of
                              /\ (request'[d].at \notin {"idle", "clean"} => request[d].at \notin {"idle", "clean"})
    BY <1>1, <1>2, <1>3 DEF Turned
  <2>4. ASSUME NEW d \in Requesters, NEW e \in Requesters, request'[d].at \notin {"idle", "clean"},
               request'[e].at \notin {"idle", "clean"}, request'[d].of = request'[e].of, request'[d].of \notin torn'
        PROVE  d = e
    BY <2>3, <2>4, <1>1 DEF TalksInv, Deletions
  <2> QED  BY <2>1, <2>2, <2>4 DEF Deletions
<1>8. Cleaning' /\ Owned'
  <2>1. \A t \in work : tasks[t].conv = old.of  BY DEF Talks!TasksOf
  <2>2. \A id \in talk : messages[id].conv = old.of  BY DEF Talks!MessagesOf
  <2> HIDE DEF talk, work
  <2>3. Cleaning'  BY <2>1, <1>1, <1>2, <1>3 DEF TalksInv, Cleaning, Turned
  <2>4. Owned'  BY <2>2, <1>1, <1>2, <1>3 DEF TalksInv, Owned, Turned
  <2> QED  BY <2>3, <2>4
<1> HIDE DEF talk, work
<1>9. Remembered'
  BY <1>1, <1>2 DEF TalksInv, Remembered, Turned
<1>10. Belonging'  BY <1>1 DEF TalksInv, Belonging
<1>11. Searching'
  <2>1. \A d \in Requesters : request'[d].of = request[d].of
                              /\ (request[d].at \notin {"idle", "clean"} => request'[d].at \notin {"idle", "clean"})
    BY <1>1, <1>2, <1>3 DEF Turned
  <2> QED  BY <1>1, <2>1 DEF TalksInv, Searching, Talks!Said
<1>12. Talks!TasksCanResume'
  BY <1>1 DEF TalksInv, Talks!TasksCanResume
<1> QED  BY <1>5, <1>6, <1>7, <1>8, <1>9, <1>10, <1>11, <1>12 DEF TalksInv

LEMMA PruneKeeps ==
    ASSUME TalksInv, Talks!Prune
    PROVE  TalksInv'
<1>1. PICK old \in SUBSET threads : threads' = threads \ {thread \in old : Talks!Prunable(thread)}
  BY DEF Talks!Prune
<1>2. UNCHANGED <<titles, messages, tasks, traces, refs, index, mirror, request, torn, spent>>
  BY DEF Talks!Prune, Talks!rows
<1>3. Together' /\ InTurns'  BY <1>2, RowsAlone DEF TalksInv
<1>4. Deletions'
  BY <1>2 DEF TalksInv, Deletions, DeletedBy, Talks!MessagesOf, Talks!TasksOf
<1>5. RowsTyped' /\ Cleaning' /\ Owned' /\ Belonging' /\ Searching'
  BY <1>2 DEF TalksInv, RowsTyped, Cleaning, Owned, Belonging, Searching, Talks!Said
<1>6. Remembered'
  BY <1>1, <1>2 DEF TalksInv, Remembered
<1>7. Talks!TasksCanResume'
  BY <1>1, <1>2 DEF TalksInv, Talks!TasksCanResume, Talks!Prunable, Talks!Terminal
<1> QED  BY <1>3, <1>4, <1>5, <1>6, <1>7 DEF TalksInv

LEMMA SeatsStay ==
    ASSUME NEW conv, NEW n, Seated(conv, n), Talks!MessagesOf(conv)' = Talks!MessagesOf(conv),
           \A id \in Talks!MessagesOf(conv) :
              messages'[id].position = messages[id].position /\ messages'[id].role = messages[id].role
    PROVE  Seated(conv, n)'
<1> DEFINE talk == Talks!MessagesOf(conv)
<1>1. /\ \A id \in talk : messages[id].position < n
      /\ \A p \in 0..(n - 1) : \E id \in talk : messages[id].position = p
      /\ \A i, j \in talk : messages[i].position = messages[j].position => i = j
      /\ \A id \in talk : messages[id].role = IF messages[id].position % 2 = 0 THEN "user" ELSE "assistant"
  BY DEF Seated
<1>2. talk' = talk  OBVIOUS
<1> HIDE DEF talk
<1>3. /\ \A id \in talk : messages'[id].position < n
      /\ \A p \in 0..(n - 1) : \E id \in talk : messages'[id].position = p
      /\ \A i, j \in talk : messages'[i].position = messages'[j].position => i = j
      /\ \A id \in talk : messages'[id].role = IF messages'[id].position % 2 = 0 THEN "user" ELSE "assistant"
  BY <1>1 DEF talk
<1> QED  BY <1>2, <1>3 DEF Seated, talk

\* What a change of status does to the rows of a task, and what else its task may.
Moves(t, new) ==
    /\ DOMAIN tasks' = DOMAIN tasks /\ DOMAIN messages' = DOMAIN messages
    /\ \A u \in DOMAIN tasks : /\ SameTask(tasks'[u], tasks[u])
                               /\ tasks'[u].status = IF u = t THEN new ELSE tasks[u].status
    /\ \A id \in DOMAIN messages : /\ SameRow(messages'[id], messages[id])
                                   /\ messages'[id].status = IF messages[id].task = t THEN new ELSE messages[id].status
    /\ torn' = IF Talks!Deleting(tasks[t].conv) THEN torn \cup {tasks[t].conv} ELSE torn
    /\ UNCHANGED <<titles, index, mirror, request, spent>>
LeavesOnly(t) ==
    /\ DOMAIN traces' = Talks!Kinds /\ \A k \in Talks!Kinds : traces'[k] \subseteq traces[k] \cup {t}
    /\ refs' \subseteq refs \cup Talks!MessagesFor(t)
    /\ threads \subseteq threads' /\ \A thread \in threads' : thread \in threads \/ thread.task = t
LEMMA BecomesMoves ==
    ASSUME RowsTyped, NEW t \in DOMAIN tasks, NEW new, Talks!Becomes(t, new)
    PROVE  Moves(t, new)
<1>1. tasks[t] = [conv |-> tasks[t].conv, status |-> tasks[t].status] /\ tasks' = [tasks EXCEPT ![t].status = new]
  BY DEF RowsTyped, Talks!Becomes
<1>2. ASSUME NEW u \in DOMAIN tasks
      PROVE  /\ SameTask(tasks'[u], tasks[u])
             /\ tasks'[u].status = IF u = t THEN new ELSE tasks[u].status
  <2>1. tasks[u] = [conv |-> tasks[u].conv, status |-> tasks[u].status]  BY DEF RowsTyped
  <2> QED  BY <1>1, <2>1 DEF SameTask
<1>3. messages' = [id \in DOMAIN messages |-> IF id \in Talks!MessagesFor(t)
                                              THEN [messages[id] EXCEPT !.status = new] ELSE messages[id]]
  BY DEF Talks!Becomes
<1>4. ASSUME NEW id \in DOMAIN messages
      PROVE  /\ SameRow(messages'[id], messages[id])
             /\ messages'[id].status = IF messages[id].task = t THEN new ELSE messages[id].status
  <2>1. messages[id] = Talks!Row(messages[id].conv, messages[id].role, messages[id].position, messages[id].status,
                                 messages[id].task)
    BY DEF RowsTyped, IsMessage
  <2>2. messages'[id] = IF messages[id].task = t THEN [messages[id] EXCEPT !.status = new] ELSE messages[id]
    BY <1>3 DEF Talks!MessagesFor
  <2> QED  BY <2>1, <2>2 DEF SameRow, Talks!Row
<1>5. UNCHANGED <<titles, index, mirror, request, spent>>
      /\ torn' = IF Talks!Deleting(tasks[t].conv) THEN torn \cup {tasks[t].conv} ELSE torn
  BY DEF Talks!Becomes, Talks!Uses
<1> QED  BY <1>1, <1>2, <1>3, <1>4, <1>5 DEF Moves

LEMMA TurnKeeps ==
    ASSUME TalksInv, NEW t \in DOMAIN tasks, NEW new, Moves(t, new), LeavesOnly(t),
           tasks[t].status \in Talks!Active,
           new \in {"running", "waiting_user", "interrupted"} => [task |-> t, of |-> "agent"] \in threads'
    PROVE  TalksInv'
<1>1. /\ DOMAIN tasks' = DOMAIN tasks /\ DOMAIN messages' = DOMAIN messages
      /\ UNCHANGED <<titles, index, mirror, request, spent>>
  BY DEF Moves
<1>2. \A id \in DOMAIN messages :
        /\ IsMessage(id, messages'[id], spent.sends) /\ messages'[id].conv = messages[id].conv
        /\ messages'[id].role = messages[id].role /\ messages'[id].position = messages[id].position
        /\ messages'[id].task = messages[id].task
        /\ messages'[id].status = IF messages[id].task = t THEN new ELSE messages[id].status
  BY RowStays DEF TalksInv, RowsTyped, Moves
<1>3. \A u \in DOMAIN tasks :
        /\ tasks'[u].conv = tasks[u].conv /\ tasks'[u] = [conv |-> tasks'[u].conv, status |-> tasks'[u].status]
        /\ tasks'[u].status = IF u = t THEN new ELSE tasks[u].status
  BY TaskStays DEF Moves
<1> DEFINE home == tasks[t].conv
<1>4. torn' = IF Talks!Deleting(home) THEN torn \cup {home} ELSE torn  BY DEF Moves
<1>5. torn \subseteq torn' /\ (torn' = {} => torn = {})  BY <1>4
<1>6. ASSUME NEW c \in Requesters, request[c].at \notin {"idle", "clean"}, request[c].of \notin torn'
      PROVE  request[c].of # home
  BY <1>4, <1>6 DEF Talks!Deleting
<1>7. RowsTyped'
  BY <1>1, <1>2, <1>3 DEF TalksInv, RowsTyped, LeavesOnly
<1>8. Together'
  <2>1. ASSUME NEW id \in DOMAIN messages, messages[id].task \in DOMAIN tasks
        PROVE  /\ tasks'[messages[id].task].conv = messages'[id].conv
               /\ \/ messages'[id].status = tasks'[messages[id].task].status
                  \/ messages'[id].status = "interrupted" /\ tasks'[messages[id].task].status = "pending"
    <3> DEFINE m == messages[id] task == tasks[m.task]
    <3>1. task.conv = m.conv /\ (m.status = task.status \/ (m.status = "interrupted" /\ task.status = "pending"))
      BY <2>1 DEF TalksInv, Together
    <3>2. messages'[id].conv = m.conv /\ messages'[id].status = IF m.task = t THEN new ELSE m.status
      BY <1>2
    <3>3. tasks'[m.task].conv = task.conv /\ tasks'[m.task].status = IF m.task = t THEN new ELSE task.status
      BY <2>1, <1>3
    <3> QED  BY <3>1, <3>2, <3>3
  <2>2. ASSUME NEW id \in DOMAIN messages, messages'[id].conv \notin torn', messages'[id].status \in Talks!Loading
        PROVE  messages[id].task \in DOMAIN tasks
    BY <2>2, <1>2, <1>5 DEF TalksInv, Together
  <2> QED  BY <2>1, <2>2, <1>1, <1>2 DEF Together
<1>9. InTurns'
  <2>1. \A conv : {id \in DOMAIN messages' : messages'[id].conv = conv} = {id \in DOMAIN messages : messages[id].conv = conv}
    BY <1>1, <1>2
  <2>2. ASSUME NEW conv, NEW n, Seated(conv, n)
        PROVE  Seated(conv, n)'
    BY <2>1, <2>2, <1>2, SeatsStay DEF Talks!MessagesOf
  <2>3. \A conv : \E h \in Nat : Seated(conv, 2 * h)'
    BY <2>2 DEF TalksInv, InTurns
  <2>4. ASSUME NEW id \in DOMAIN messages, messages[id].task \in DOMAIN tasks,
               tasks'[messages[id].task].status \in Talks!Active, NEW other \in DOMAIN messages,
               messages[other].conv = messages[id].conv
        PROVE  messages[other].position <= messages[id].position
    <3>1. tasks[messages[id].task].status \in Talks!Active  BY <2>4, <1>3
    <3> QED  BY <2>4, <3>1 DEF TalksInv, InTurns, Talks!MessagesOf
  <2>5. \A id \in DOMAIN messages' :
          messages'[id].task \in DOMAIN tasks' /\ tasks'[messages'[id].task].status \in Talks!Active =>
          \A other \in Talks!MessagesOf(messages[id].conv)' : messages'[other].position <= messages'[id].position
    BY <2>4, <1>1, <1>2 DEF Talks!MessagesOf
  <2> QED  BY <2>3, <2>5 DEF InTurns
<1>10. Deletions'
  <2>1. ASSUME NEW c \in Requesters, request[c].at \notin Reading, request[c].of \notin torn'
        PROVE  DeletedBy(request[c])'
    <3> DEFINE k == request[c] talk == Talks!MessagesOf(k.of) work == Talks!TasksOf(k.of)
    <3>1. DeletedBy(k) /\ k.of # home  BY <2>1, <1>5, <1>6 DEF TalksInv, Deletions, Reading
    <3>2. talk' = talk /\ work' = work  BY <1>1, <1>2, <1>3 DEF Talks!MessagesOf, Talks!TasksOf
    <3>3. t \notin work  BY <3>1 DEF Talks!TasksOf
    <3>4. Talks!MessagesFor(t) \cap talk = {}
      BY <3>1 DEF TalksInv, Together, Talks!MessagesFor, Talks!MessagesOf
    <3>5. refs \cap talk = {} => refs' \cap talk = {}  BY <3>4 DEF LeavesOnly
    <3>6. \A kind \in {"event", "interaction", "state"} : traces[kind] \cap work = {} => traces'[kind] \cap work = {}
      BY <3>3 DEF LeavesOnly, Talks!Kinds
    <3> HIDE DEF talk, work
    <3>7. /\ talk \subseteq k.messages /\ work \subseteq k.tasks /\ k.of \in titles
          /\ k.at # "refs" => refs \cap talk = {}
          /\ k.at \notin {"refs", "index"} => index \cap talk = {}
          /\ k.at \notin {"refs", "index", "mirror"} => mirror \cap talk = {}
          /\ k.at \in {"interaction", "state", "messages", "tasks", "title"} => traces["event"] \cap work = {}
          /\ k.at \in {"state", "messages", "tasks", "title"} => traces["interaction"] \cap work = {}
          /\ k.at \in {"messages", "tasks", "title"} => traces["state"] \cap work = {}
          /\ k.at \in {"tasks", "title"} => talk = {}
          /\ k.at = "title" => work = {}
      BY <3>1 DEF DeletedBy, talk, work
    <3>8. /\ talk' \subseteq k.messages /\ work' \subseteq k.tasks /\ k.of \in titles'
          /\ k.at # "refs" => refs' \cap talk' = {}
          /\ k.at \notin {"refs", "index"} => index' \cap talk' = {}
          /\ k.at \notin {"refs", "index", "mirror"} => mirror' \cap talk' = {}
          /\ k.at \in {"interaction", "state", "messages", "tasks", "title"} => traces'["event"] \cap work' = {}
          /\ k.at \in {"state", "messages", "tasks", "title"} => traces'["interaction"] \cap work' = {}
          /\ k.at \in {"messages", "tasks", "title"} => traces'["state"] \cap work' = {}
          /\ k.at \in {"tasks", "title"} => talk' = {}
          /\ k.at = "title" => work' = {}
      BY <3>2, <3>5, <3>6, <3>7, <1>1
    <3> HIDE DEF k
    <3>9. k' = k  BY <1>1 DEF k
    <3> QED  BY <3>8, <3>9, <1>1 DEF DeletedBy, talk, work, k
  <2>2. \A c \in Requesters : request[c].at = "read" /\ request[c].of \notin torn' => request[c].of \in titles
    BY <1>5 DEF TalksInv, Deletions
  <2>3. \A c, d \in Requesters :
          /\ request[c].at \notin {"idle", "clean"} /\ request[d].at \notin {"idle", "clean"}
          /\ request[c].of = request[d].of /\ request[c].of \notin torn'
          => c = d
    BY <1>5 DEF TalksInv, Deletions
  <2> QED  BY <2>1, <2>2, <2>3, <1>1 DEF Deletions
<1>11. Cleaning' /\ Owned'
  <2>1. Cleaning'  BY <1>1, <1>3 DEF TalksInv, Cleaning
  <2>2. Owned'  BY <1>1, <1>2 DEF TalksInv, Owned
  <2> QED  BY <2>1, <2>2
<1>12. Remembered'
  BY <1>1, <1>5 DEF TalksInv, Remembered, LeavesOnly
<1>13. Belonging'
  <2>1. Talks!MessagesFor(t) \subseteq DOMAIN messages  BY DEF Talks!MessagesFor
  <2>2. torn' = {} => /\ \A id \in refs' \cup index' \cup mirror' : id \in DOMAIN messages'
                      /\ \A k \in Talks!Kinds : traces'[k] \subseteq DOMAIN tasks'
    BY <2>1, <1>1, <1>5 DEF TalksInv, Belonging, LeavesOnly
  <2>3. /\ \A id \in DOMAIN messages' : messages'[id].conv \notin torn' => messages'[id].conv \in titles'
        /\ \A u \in DOMAIN tasks' : tasks'[u].conv \notin torn' => tasks'[u].conv \in titles'
    BY <1>1, <1>2, <1>3, <1>5 DEF TalksInv, Belonging
  <2> QED  BY <2>2, <2>3 DEF Belonging
<1>14. Searching'
  <2>1. Talks!Said' = Talks!Said  BY <1>1, <1>2 DEF Talks!Said
  <2>2. \A id \in Talks!Said : messages'[id].conv = messages[id].conv  BY <1>2 DEF Talks!Said
  <2> QED  BY <1>1, <1>5, <2>1, <2>2 DEF TalksInv, Searching
<1>15. Talks!TasksCanResume'
  BY <1>1, <1>3 DEF TalksInv, Talks!TasksCanResume, LeavesOnly
<1> QED  BY <1>7, <1>8, <1>9, <1>10, <1>11, <1>12, <1>13, <1>14, <1>15 DEF TalksInv

LEMMA LifeKeeps ==
    ASSUME TalksInv, NEW t \in DOMAIN tasks,
           Talks!Begin(t) \/ Talks!Pause(t) \/ Talks!Respond(t) \/ Talks!Conclude(t)
    PROVE  TalksInv'
<1> DEFINE own == [task |-> t, of |-> "agent"]
<1>1. CASE Talks!Begin(t)
  <2>1. Moves(t, "running") /\ tasks[t].status \in Talks!Active
    BY <1>1, BecomesMoves DEF Talks!Begin, TalksInv, Talks!Active
  <2>2. refs' \subseteq refs \cup Talks!MessagesFor(t)  BY <1>1 DEF Talks!Begin
  <2>3. threads \subseteq threads' /\ \A thread \in threads' : thread \in threads \/ thread.task = t
    BY <1>1 DEF Talks!Begin
  <2>4. own \in threads'
    BY <1>1 DEF Talks!Begin
  <2>5. LeavesOnly(t)  BY <1>1, <2>2, <2>3 DEF Talks!Begin, Talks!Leaves, LeavesOnly
  <2> QED  BY <2>1, <2>4, <2>5, TurnKeeps
<1>2. CASE Talks!Pause(t)
  <2>1. Moves(t, "waiting_user") /\ tasks[t].status = "running"
    BY <1>2, BecomesMoves DEF Talks!Pause, TalksInv
  <2>2. LeavesOnly(t)  BY <1>2 DEF Talks!Pause, Talks!Leaves, LeavesOnly
  <2>3. own \in threads'  BY <1>2, <2>1 DEF Talks!Pause, TalksInv, Talks!TasksCanResume
  <2> QED  BY <2>1, <2>2, <2>3, TurnKeeps DEF Talks!Active
<1>3. DOMAIN traces = Talks!Kinds  BY DEF TalksInv, RowsTyped
<1>4. CASE Talks!Respond(t)
  <2>1. Moves(t, "pending") /\ tasks[t].status = "waiting_user"
    BY <1>4, BecomesMoves DEF Talks!Respond, TalksInv
  <2>2. LeavesOnly(t)  BY <1>3, <1>4 DEF Talks!Respond, LeavesOnly
  <2> QED  BY <2>1, <2>2, TurnKeeps DEF Talks!Active
<1>5. CASE Talks!Conclude(t)
  <2>1. (Moves(t, "completed") \/ Moves(t, "cancelled")) /\ tasks[t].status \in Talks!Active
    BY <1>5, BecomesMoves DEF Talks!Conclude, TalksInv, Talks!Active
  <2>2. LeavesOnly(t)  BY <1>3, <1>5 DEF Talks!Conclude, LeavesOnly
  <2>3. CASE Moves(t, "completed")  BY <2>1, <2>2, <2>3, TurnKeeps
  <2>4. CASE Moves(t, "cancelled")  BY <2>1, <2>2, <2>4, TurnKeeps
  <2> QED  BY <2>1, <2>3, <2>4
<1> QED  BY <1>1, <1>2, <1>4, <1>5

LEMMA RestartKeeps ==
    ASSUME TalksInv, Talks!Restart
    PROVE  TalksInv'
<1> DEFINE lapsing == IF Talks!Ran THEN {"pending", "running"} ELSE {}
<1>1. /\ tasks' = Talks!Lapsed(tasks, {"running"}) /\ messages' = Talks!Lapsed(messages, lapsing)
      /\ index' = (IF index = {} THEN Talks!Said ELSE index) /\ mirror' = index'
      /\ request' = [c \in Requesters |-> Talks!Idle]
      /\ UNCHANGED <<titles, traces, refs, threads, torn>>
  BY DEF Talks!Restart
<1>2. /\ spent'.sends = spent.sends /\ spent'.crashes = spent.crashes + 1
      /\ spent' = [sends |-> spent'.sends, crashes |-> spent'.crashes, deletions |-> spent'.deletions]
      /\ spent.sends \in Nat /\ spent.crashes \in Nat
  BY DEF TalksInv, RowsTyped, Talks!Restart
<1> HIDE DEF lapsing
<1>3. DOMAIN tasks' = DOMAIN tasks /\ DOMAIN messages' = DOMAIN messages  BY <1>1 DEF Talks!Lapsed
<1>4. ASSUME NEW id \in DOMAIN messages
      PROVE  /\ IsMessage(id, messages'[id], spent.sends) /\ messages'[id].conv = messages[id].conv
             /\ messages'[id].role = messages[id].role /\ messages'[id].position = messages[id].position
             /\ messages'[id].task = messages[id].task
             /\ messages'[id].status = IF messages[id].status \in lapsing THEN "interrupted" ELSE messages[id].status
  <2>1. messages[id] = Talks!Row(messages[id].conv, messages[id].role, messages[id].position, messages[id].status,
                                 messages[id].task)
    BY DEF TalksInv, RowsTyped, IsMessage
  <2>2. messages'[id] = IF messages[id].status \in lapsing THEN [messages[id] EXCEPT !.status = "interrupted"]
                        ELSE messages[id]
    BY <1>1 DEF Talks!Lapsed
  <2>3. SameRow(messages'[id], messages[id])
        /\ messages'[id].status = IF messages[id].status \in lapsing THEN "interrupted" ELSE messages[id].status
    BY <2>1, <2>2 DEF SameRow, Talks!Row
  <2> QED  BY <2>3, <1>2, RowStays DEF TalksInv, RowsTyped
<1>5. ASSUME NEW t \in DOMAIN tasks
      PROVE  /\ tasks'[t].conv = tasks[t].conv /\ tasks'[t] = [conv |-> tasks'[t].conv, status |-> tasks'[t].status]
             /\ tasks'[t].status = IF tasks[t].status = "running" THEN "interrupted" ELSE tasks[t].status
  <2>1. tasks[t] = [conv |-> tasks[t].conv, status |-> tasks[t].status]  BY DEF TalksInv, RowsTyped
  <2>2. tasks'[t] = IF tasks[t].status \in {"running"} THEN [tasks[t] EXCEPT !.status = "interrupted"] ELSE tasks[t]
    BY <1>1 DEF Talks!Lapsed
  <2> QED  BY <2>1, <2>2
<1>6. \A c \in Requesters : request'[c] = Talks!Idle /\ request'[c].at = "idle"
                            /\ request'[c].tasks = {} /\ request'[c].messages = {}
  BY <1>1 DEF Talks!Idle
<1>7. RowsTyped'
  <2>1. DOMAIN request' = Requesters /\ \A c \in Requesters : IsRequest(request'[c], spent'.sends)
    BY <1>1, <1>2, <1>6, IdleTyped
  <2> QED  BY <1>1, <1>2, <1>3, <1>4, <1>5, <2>1 DEF TalksInv, RowsTyped
<1>8. Together'
  <2>1. ASSUME NEW id \in DOMAIN messages, messages[id].task \in DOMAIN tasks
        PROVE  /\ tasks'[messages[id].task].conv = messages'[id].conv
               /\ \/ messages'[id].status = tasks'[messages[id].task].status
                  \/ messages'[id].status = "interrupted" /\ tasks'[messages[id].task].status = "pending"
    <3> DEFINE m == messages[id] task == tasks[m.task]
    <3>1. task.conv = m.conv /\ (m.status = task.status \/ (m.status = "interrupted" /\ task.status = "pending"))
      BY <2>1 DEF TalksInv, Together
    <3>2. tasks'[m.task].conv = task.conv
          /\ tasks'[m.task].status = IF task.status = "running" THEN "interrupted" ELSE task.status
      BY <2>1, <1>5
    <3>3. messages'[id].conv = m.conv
          /\ messages'[id].status = IF m.status \in lapsing THEN "interrupted" ELSE m.status
      BY <1>4
    <3>4. task.status = "running" => lapsing = {"pending", "running"}
      BY <2>1 DEF lapsing, Talks!Ran
    <3>5. lapsing \subseteq {"pending", "running"}  BY DEF lapsing
    <3> QED  BY <3>1, <3>2, <3>3, <3>4, <3>5
  <2>2. ASSUME NEW id \in DOMAIN messages, messages'[id].conv \notin torn', messages'[id].status \in Talks!Loading
        PROVE  messages[id].task \in DOMAIN tasks
    <3>1. messages[id].status \in Talks!Loading  BY <2>2, <1>4 DEF lapsing, Talks!Loading
    <3> QED  BY <2>2, <3>1, <1>1, <1>4 DEF TalksInv, Together
  <2> QED  BY <2>1, <2>2, <1>3, <1>4 DEF Together
<1>9. InTurns'
  <2>1. \A conv : Talks!MessagesOf(conv)' = Talks!MessagesOf(conv)  BY <1>3, <1>4 DEF Talks!MessagesOf
  <2>2. \A conv : \E h \in Nat : Seated(conv, 2 * h)'
    BY <2>1, <1>4, SeatsStay DEF TalksInv, InTurns, Talks!MessagesOf
  <2>3. ASSUME NEW id \in DOMAIN messages, messages[id].task \in DOMAIN tasks,
               tasks'[messages[id].task].status \in Talks!Active, NEW other \in Talks!MessagesOf(messages[id].conv)
        PROVE  messages[other].position <= messages[id].position
    <3>1. tasks[messages[id].task].status \in Talks!Active  BY <2>3, <1>5 DEF Talks!Active
    <3> QED  BY <2>3, <3>1 DEF TalksInv, InTurns
  <2>4. \A id \in DOMAIN messages' :
          messages'[id].task \in DOMAIN tasks' /\ tasks'[messages'[id].task].status \in Talks!Active =>
          \A other \in Talks!MessagesOf(messages[id].conv)' : messages'[other].position <= messages'[id].position
    <3> SUFFICES ASSUME NEW id \in DOMAIN messages', messages'[id].task \in DOMAIN tasks',
                        tasks'[messages'[id].task].status \in Talks!Active,
                        NEW other \in DOMAIN messages', messages'[other].conv = messages'[id].conv
                 PROVE  messages'[other].position <= messages'[id].position
      BY DEF Talks!MessagesOf
    <3>1. other \in Talks!MessagesOf(messages[id].conv)  BY <1>3, <1>4 DEF Talks!MessagesOf
    <3> QED  BY <3>1, <2>3, <1>3, <1>4
  <2> QED  BY <2>2, <2>4 DEF InTurns
<1>10. Deletions' /\ Cleaning' /\ Owned'
  BY <1>6 DEF Deletions, Cleaning, Owned, Reading
<1>11. Remembered' /\ Searching'
  <2>1. spent'.crashes # 0  BY <1>2
  <2> QED  BY <2>1 DEF Remembered, Searching
<1>12. Belonging'
  <2>1. index' \subseteq index \cup DOMAIN messages  BY <1>1 DEF Talks!Said
  <2>2. torn' = {} => /\ \A id \in refs' \cup index' \cup mirror' : id \in DOMAIN messages'
                      /\ \A k \in Talks!Kinds : traces'[k] \subseteq DOMAIN tasks'
    BY <2>1, <1>1, <1>3 DEF TalksInv, Belonging
  <2>3. /\ \A id \in DOMAIN messages' : messages'[id].conv \notin torn' => messages'[id].conv \in titles'
        /\ \A u \in DOMAIN tasks' : tasks'[u].conv \notin torn' => tasks'[u].conv \in titles'
    BY <1>1, <1>3, <1>4, <1>5 DEF TalksInv, Belonging
  <2> QED  BY <2>2, <2>3 DEF Belonging
<1>13. Talks!TasksCanResume'
  BY <1>1, <1>3, <1>5 DEF TalksInv, Talks!TasksCanResume
<1> QED  BY <1>7, <1>8, <1>9, <1>10, <1>11, <1>12, <1>13 DEF TalksInv

\* What the statement for a table does to the rows, and to its request.
Empties(c, table, next) ==
    LET k == request[c]
    IN /\ table \in Emptying /\ k.at = table
       /\ Turned(c, next) /\ IsRequest(next, spent.sends)
       /\ next.messages \subseteq k.messages /\ (next.messages = {} \/ next.of = k.of)
       /\ table # "title" => next.at = Talks!After(table) /\ next.of = k.of /\ next.tasks = k.tasks /\ next.messages = k.messages
       /\ table = "title" => /\ next.at \in {"idle", "clean"} /\ next.tasks \subseteq k.tasks
                             /\ k.of \in titles => next.tasks = k.tasks /\ (k.tasks # {} => next.at = "clean")
       /\ refs' = IF table = "refs" THEN refs \ k.messages ELSE refs
       /\ index' = IF table = "index" THEN index \ k.messages ELSE index
       /\ mirror' = IF table = "mirror" THEN mirror \ k.messages ELSE mirror
       /\ DOMAIN traces' = Talks!Kinds
       /\ \A kind \in Talks!Kinds : traces'[kind] = IF kind = table THEN traces[kind] \ k.tasks ELSE traces[kind]
       /\ DOMAIN messages' = DOMAIN messages \ (IF table = "messages" THEN Talks!MessagesOf(k.of) ELSE {})
       /\ \A id \in DOMAIN messages' : messages'[id] = messages[id]
       /\ DOMAIN tasks' = DOMAIN tasks \ (IF table = "tasks" THEN Talks!TasksOf(k.of) ELSE {})
       /\ \A t \in DOMAIN tasks' : tasks'[t] = tasks[t]
       /\ titles' = IF table = "title" THEN titles \ {k.of} ELSE titles
       /\ UNCHANGED <<threads, torn, spent>>
LEMMA EmptyDoes ==
    ASSUME RowsTyped, NEW c \in Requesters, NEW n \in DOMAIN Talks!Tables, Talks!Empty(c, Talks!Tables[n])
    PROVE  \E next : Empties(c, Talks!Tables[n], next)
<1> DEFINE table == Talks!Tables[n] k == request[c]
           next == IF table # "title" THEN [k EXCEPT !.at = Talks!After(table)]
                   ELSE IF k.of \in titles THEN Talks!Rest(c) ELSE Talks!Idle
<1>0. DOMAIN request = Requesters /\ IsRequest(k, spent.sends) /\ spent.sends \in Nat  BY DEF RowsTyped
<1>1. table \in Emptying /\ k.at = table
  BY TableOrder DEF Talks!Empty
<1>2. Turned(c, next)
  <2>1. request' = [request EXCEPT ![c] = next]  BY DEF Talks!Empty
  <2> HIDE DEF next
  <2> QED  BY <1>0, <2>1 DEF Turned
<1>3. Talks!Empty(c, table)  OBVIOUS
<1> HIDE DEF table
<1>4. ASSUME NEW place \in RequestPlaces, NEW new, new = [k EXCEPT !.at = place]
      PROVE  /\ new.at = place /\ new.of = k.of /\ new.tasks = k.tasks /\ new.messages = k.messages
             /\ IsRequest(new, spent.sends)
  <2>1. new \in [at : {place}, of : {k.of}, tasks : {k.tasks}, messages : {k.messages}]
    BY <1>0, <1>4 DEF IsRequest
  <2>2. /\ new.at = place /\ new.of = k.of /\ new.tasks = k.tasks /\ new.messages = k.messages
        /\ new = [at |-> new.at, of |-> new.of, tasks |-> new.tasks, messages |-> new.messages]
    BY <2>1
  <2> QED  BY <1>0, <2>2 DEF IsRequest
<1>5. ASSUME table # "title"
      PROVE  /\ next.at = Talks!After(table) /\ next.of = k.of /\ next.tasks = k.tasks /\ next.messages = k.messages
             /\ IsRequest(next, spent.sends)
  <2>1. Talks!After(table) \in RequestPlaces  BY <1>1, <1>5, TableOrder DEF Emptying, RequestPlaces
  <2>2. next = [k EXCEPT !.at = Talks!After(table)]  BY <1>5
  <2> HIDE DEF next, k
  <2> QED  BY <2>1, <2>2, <1>4
<1>6. ASSUME table = "title"
      PROVE  /\ next.at \in {"idle", "clean"} /\ next.tasks \subseteq k.tasks
             /\ next.messages \subseteq k.messages /\ (next.messages = {} \/ next.of = k.of)
             /\ k.of \in titles => next.tasks = k.tasks /\ (k.tasks # {} => next.at = "clean")
             /\ IsRequest(next, spent.sends)
  <2>1. CASE k.of \in titles /\ k.tasks # {}
    <3>1. next = [k EXCEPT !.at = "clean"]  BY <2>1, <1>6 DEF Talks!Rest
    <3>2. "clean" \in RequestPlaces  BY DEF RequestPlaces
    <3> HIDE DEF next, k
    <3> QED  BY <3>1, <3>2, <1>4
  <2>2. CASE ~(k.of \in titles /\ k.tasks # {})
    <3>1. next = Talks!Idle  BY <2>2, <1>6 DEF Talks!Rest
    <3>2. next.at = "idle" /\ next.tasks = {} /\ next.messages = {}  BY <3>1, IdleIs DEF IdleParts
    <3>3. IsRequest(next, spent.sends)  BY <3>1, <1>0, IdleTyped
    <3> HIDE DEF next, k
    <3> QED  BY <2>2, <3>2, <3>3
  <2> QED  BY <2>1, <2>2
<1> HIDE DEF next
<1>7. /\ DOMAIN messages' = DOMAIN messages \ (IF table = "messages" THEN Talks!MessagesOf(k.of) ELSE {})
      /\ \A id \in DOMAIN messages' : messages'[id] = messages[id]
  BY <1>3 DEF Talks!Empty, Talks!Without, Talks!Restrict
<1>8. /\ DOMAIN tasks' = DOMAIN tasks \ (IF table = "tasks" THEN Talks!TasksOf(k.of) ELSE {})
      /\ \A t \in DOMAIN tasks' : tasks'[t] = tasks[t]
  BY <1>3 DEF Talks!Empty, Talks!Without, Talks!Restrict
<1>9. /\ refs' = IF table = "refs" THEN refs \ k.messages ELSE refs
      /\ index' = IF table = "index" THEN index \ k.messages ELSE index
      /\ mirror' = IF table = "mirror" THEN mirror \ k.messages ELSE mirror
      /\ titles' = IF table = "title" THEN titles \ {k.of} ELSE titles
      /\ UNCHANGED <<threads, torn, spent>>
  BY <1>3 DEF Talks!Empty
<1>10. /\ DOMAIN traces' = Talks!Kinds
       /\ \A kind \in Talks!Kinds : traces'[kind] = IF kind = table THEN traces[kind] \ k.tasks ELSE traces[kind]
  BY <1>3 DEF Talks!Empty
<1>11. /\ next.messages \subseteq k.messages /\ (next.messages = {} \/ next.of = k.of) /\ IsRequest(next, spent.sends)
  BY <1>5, <1>6
<1>12. /\ table # "title" => next.at = Talks!After(table) /\ next.of = k.of /\ next.tasks = k.tasks /\ next.messages = k.messages
       /\ table = "title" => /\ next.at \in {"idle", "clean"} /\ next.tasks \subseteq k.tasks
                             /\ k.of \in titles => next.tasks = k.tasks /\ (k.tasks # {} => next.at = "clean")
  BY <1>5, <1>6
<1>13. Empties(c, table, next)
  BY <1>1, <1>2, <1>7, <1>8, <1>9, <1>10, <1>11, <1>12 DEF Empties
<1> QED  BY <1>13 DEF table

LEMMA EmptyKeeps ==
    ASSUME TalksInv, NEW c \in Requesters, NEW table, NEW next, Empties(c, table, next),
           NEW k, k = request[c]
    PROVE  TalksInv'
<1> DEFINE talk == Talks!MessagesOf(k.of) work == Talks!TasksOf(k.of)
<1>1. /\ table \in Emptying /\ k.at = table /\ Turned(c, next) /\ IsRequest(next, spent.sends)
      /\ UNCHANGED <<threads, torn, spent>>
  BY DEF Empties
<1>2. /\ next.messages \subseteq k.messages /\ (next.messages = {} \/ next.of = k.of)
      /\ table # "title" => next.at = Talks!After(table) /\ next.of = k.of /\ next.tasks = k.tasks /\ next.messages = k.messages
      /\ table = "title" => /\ next.at \in {"idle", "clean"} /\ next.tasks \subseteq k.tasks
                            /\ k.of \in titles => next.tasks = k.tasks /\ (k.tasks # {} => next.at = "clean")
  BY DEF Empties
<1>3. /\ DOMAIN messages' = DOMAIN messages \ (IF table = "messages" THEN talk ELSE {})
      /\ \A id \in DOMAIN messages' : messages'[id] = messages[id]
      /\ DOMAIN tasks' = DOMAIN tasks \ (IF table = "tasks" THEN work ELSE {})
      /\ \A t \in DOMAIN tasks' : tasks'[t] = tasks[t]
  BY DEF Empties
<1>4. /\ refs' = (IF table = "refs" THEN refs \ k.messages ELSE refs)
      /\ index' = (IF table = "index" THEN index \ k.messages ELSE index)
      /\ mirror' = (IF table = "mirror" THEN mirror \ k.messages ELSE mirror)
      /\ titles' = (IF table = "title" THEN titles \ {k.of} ELSE titles)
      /\ DOMAIN traces' = Talks!Kinds
      /\ \A kind \in Talks!Kinds : traces'[kind] = IF kind = table THEN traces[kind] \ k.tasks ELSE traces[kind]
  BY DEF Empties
<1>5. k.at \notin Reading /\ k.at \notin {"idle", "clean"} /\ k.at # "read"  BY <1>1 DEF Emptying, Reading
<1>6. k.of \notin torn => DeletedBy(k)  BY <1>5 DEF TalksInv, Deletions
<1>7. /\ talk = {id \in DOMAIN messages : messages[id].conv = k.of} /\ work = {t \in DOMAIN tasks : tasks[t].conv = k.of}
  BY DEF Talks!MessagesOf, Talks!TasksOf
<1>8. k.of \notin torn =>
        /\ talk \subseteq k.messages /\ work \subseteq k.tasks /\ k.of \in titles
        /\ table # "refs" => refs \cap talk = {}
        /\ table \notin {"refs", "index"} => index \cap talk = {}
        /\ table \notin {"refs", "index", "mirror"} => mirror \cap talk = {}
        /\ table \in {"interaction", "state", "messages", "tasks", "title"} => traces["event"] \cap work = {}
        /\ table \in {"state", "messages", "tasks", "title"} => traces["interaction"] \cap work = {}
        /\ table \in {"messages", "tasks", "title"} => traces["state"] \cap work = {}
        /\ table \in {"tasks", "title"} => talk = {}
        /\ table = "title" => work = {}
  BY <1>1, <1>6 DEF DeletedBy
<1> HIDE DEF talk, work
<1>9. Talks!MessagesOf(k.of)' = (IF table = "messages" THEN {} ELSE talk)
      /\ Talks!TasksOf(k.of)' = (IF table = "tasks" THEN {} ELSE work)
  <2>1. \A id : id \in DOMAIN messages' /\ messages'[id].conv = k.of <=> id \in talk /\ table # "messages"
    BY <1>3, <1>7
  <2>2. \A t : t \in DOMAIN tasks' /\ tasks'[t].conv = k.of <=> t \in work /\ table # "tasks"
    BY <1>3, <1>7
  <2> QED  BY <2>1, <2>2 DEF Talks!MessagesOf, Talks!TasksOf
<1>10. /\ \A conv : conv # k.of => Talks!MessagesOf(conv)' = Talks!MessagesOf(conv)
       /\ \A conv : conv # k.of => Talks!TasksOf(conv)' = Talks!TasksOf(conv)
  <2> SUFFICES ASSUME NEW conv, conv # k.of
               PROVE  /\ Talks!MessagesOf(conv)' = Talks!MessagesOf(conv)
                      /\ Talks!TasksOf(conv)' = Talks!TasksOf(conv)
    OBVIOUS
  <2>1. \A id : id \in DOMAIN messages' /\ messages'[id].conv = conv <=> id \in DOMAIN messages /\ messages[id].conv = conv
    BY <1>3, <1>7
  <2>2. \A t : t \in DOMAIN tasks' /\ tasks'[t].conv = conv <=> t \in DOMAIN tasks /\ tasks[t].conv = conv
    BY <1>3, <1>7
  <2> QED  BY <2>1, <2>2 DEF Talks!MessagesOf, Talks!TasksOf
<1>11. RowsTyped'
  <2>1. DOMAIN request' = Requesters /\ \A d \in Requesters : IsRequest(request'[d], spent'.sends)
    BY <1>1, TurnedTyped DEF TalksInv
  <2> QED  BY <1>1, <1>3, <1>4, <2>1 DEF TalksInv, RowsTyped
<1>12. Together'
  <2>1. ASSUME NEW id \in DOMAIN messages', messages[id].task \in DOMAIN tasks'
        PROVE  /\ tasks'[messages'[id].task].conv = messages'[id].conv
               /\ \/ messages'[id].status = tasks'[messages'[id].task].status
                  \/ messages'[id].status = "interrupted" /\ tasks'[messages'[id].task].status = "pending"
    <3> DEFINE m == messages[id] task == tasks[m.task]
    <3>1. id \in DOMAIN messages /\ m.task \in DOMAIN tasks /\ messages'[id] = m /\ tasks'[m.task] = task
      BY <2>1, <1>3
    <3>2. task.conv = m.conv /\ (m.status = task.status \/ (m.status = "interrupted" /\ task.status = "pending"))
      BY <3>1 DEF TalksInv, Together
    <3> QED  BY <3>1, <3>2
  <2>2. ASSUME NEW id \in DOMAIN messages', messages'[id].conv \notin torn', messages'[id].status \in Talks!Loading
        PROVE  messages'[id].task \in DOMAIN tasks'
    <3> DEFINE m == messages[id]
    <3>1. id \in DOMAIN messages /\ messages'[id] = m /\ m.conv \notin torn  BY <2>2, <1>1, <1>3
    <3>2. m.task \in DOMAIN tasks /\ tasks[m.task].conv = m.conv  BY <2>2, <3>1 DEF TalksInv, Together
    <3>3. table = "tasks" => m.conv # k.of  BY <3>1, <1>7, <1>8
    <3> QED  BY <3>1, <3>2, <3>3, <1>3, <1>7
  <2>3. \A id \in DOMAIN messages' : messages'[id] = messages[id]  BY <1>3
  <2> QED  BY <2>1, <2>2, <2>3 DEF Together
<1>13. InTurns'
  <2>1. ASSUME NEW conv
        PROVE  \E h \in Nat : Seated(conv, 2 * h)'
    <3>1. CASE conv = k.of /\ table = "messages"
      <4>1. Talks!MessagesOf(conv)' = {}  BY <3>1, <1>9
      <4>2. Seated(conv, 2 * 0)'  BY <4>1 DEF Seated
      <4> QED  BY <4>2
    <3>2. CASE ~(conv = k.of /\ table = "messages")
      <4>1. Talks!MessagesOf(conv)' = Talks!MessagesOf(conv)  BY <3>2, <1>9, <1>10 DEF talk
      <4>2. \A id \in Talks!MessagesOf(conv) : messages'[id] = messages[id]
        BY <4>1, <1>3 DEF Talks!MessagesOf
      <4>3. PICK h \in Nat : Seated(conv, 2 * h)  BY DEF TalksInv, InTurns
      <4>4. Seated(conv, 2 * h)'  BY <4>1, <4>2, <4>3, SeatsStay
      <4> QED  BY <4>4
    <3> QED  BY <3>1, <3>2
  <2>2. ASSUME NEW id \in DOMAIN messages', messages'[id].task \in DOMAIN tasks',
               tasks'[messages'[id].task].status \in Talks!Active,
               NEW other \in DOMAIN messages', messages'[other].conv = messages'[id].conv
        PROVE  messages'[other].position <= messages'[id].position
    <3>1. /\ id \in DOMAIN messages /\ messages'[id] = messages[id] /\ other \in DOMAIN messages
          /\ messages'[other] = messages[other] /\ messages[id].task \in DOMAIN tasks
          /\ tasks'[messages[id].task] = tasks[messages[id].task]
      BY <2>2, <1>3
    <3> QED  BY <2>2, <3>1 DEF TalksInv, InTurns, Talks!MessagesOf
  <2>3. \A id \in DOMAIN messages' :
          messages'[id].task \in DOMAIN tasks' /\ tasks'[messages'[id].task].status \in Talks!Active =>
          \A other \in Talks!MessagesOf(messages[id].conv)' : messages'[other].position <= messages'[id].position
    BY <2>2 DEF Talks!MessagesOf
  <2> QED  BY <2>1, <2>3 DEF InTurns
<1>14. k.of \notin torn /\ table # "title" => /\ next.of = k.of /\ next.messages = k.messages /\ next.tasks = k.tasks
                                             /\ next.at = Talks!After(table)
  BY <1>2
<1>15. ASSUME NEW d \in Requesters, d # c
       PROVE  request'[d] = request[d]
  BY <1>1, <1>15 DEF Turned
<1>16. request'[c] = next  BY <1>1 DEF Turned
<1>17. ASSUME k.of \notin torn, next.at \notin Reading
       PROVE  DeletedBy(next)'
  <2>1. table # "title"  BY <1>2, <1>17 DEF Reading
  <2>2. next.of = k.of /\ next.messages = k.messages /\ next.tasks = k.tasks /\ next.at = Talks!After(table)
    BY <2>1, <1>2
  <2> DEFINE newTalk == IF table = "messages" THEN {} ELSE talk
             newWork == IF table = "tasks" THEN {} ELSE work
  <2>3. newTalk \subseteq k.messages /\ newWork \subseteq k.tasks /\ k.of \in titles'
    BY <2>1, <1>4, <1>8, <1>17
  <2>4. /\ table \in {"refs", "index", "mirror", "event", "interaction", "state", "messages", "tasks"} => refs' \cap newTalk = {}
        /\ table \in {"index", "mirror", "event", "interaction", "state", "messages", "tasks"} => index' \cap newTalk = {}
        /\ table \in {"mirror", "event", "interaction", "state", "messages", "tasks"} => mirror' \cap newTalk = {}
    BY <1>4, <1>8, <1>17
  <2>5. /\ table \in {"event", "interaction", "state", "messages", "tasks"} => traces'["event"] \cap newWork = {}
        /\ table \in {"interaction", "state", "messages", "tasks"} => traces'["interaction"] \cap newWork = {}
        /\ table \in {"state", "messages", "tasks"} => traces'["state"] \cap newWork = {}
    BY <1>4, <1>8, <1>17 DEF Talks!Kinds
  <2>6. /\ table \in {"messages", "tasks"} => newTalk = {}
        /\ table = "tasks" => newWork = {}
    BY <1>8, <1>17
  <2> HIDE DEF newTalk, newWork
  <2>7. table \in {"refs", "index", "mirror", "event", "interaction", "state", "messages", "tasks"}
    BY <2>1, <1>1 DEF Emptying
  <2>8. /\ next.at # "refs" => refs' \cap newTalk = {}
        /\ next.at \notin {"refs", "index"} => index' \cap newTalk = {}
        /\ next.at \notin {"refs", "index", "mirror"} => mirror' \cap newTalk = {}
    BY <2>2, <2>4, <2>7, TableOrder
  <2>9. /\ next.at \in {"interaction", "state", "messages", "tasks", "title"} => traces'["event"] \cap newWork = {}
        /\ next.at \in {"state", "messages", "tasks", "title"} => traces'["interaction"] \cap newWork = {}
        /\ next.at \in {"messages", "tasks", "title"} => traces'["state"] \cap newWork = {}
    BY <2>2, <2>5, <2>7, TableOrder
  <2>10. /\ next.at \in {"tasks", "title"} => newTalk = {}
         /\ next.at = "title" => newWork = {}
    BY <2>2, <2>6, <2>7, TableOrder
  <2>11. Talks!MessagesOf(next.of)' = newTalk /\ Talks!TasksOf(next.of)' = newWork
    BY <2>2, <1>9 DEF newTalk, newWork
  <2> QED  BY <2>2, <2>3, <2>8, <2>9, <2>10, <2>11 DEF DeletedBy
<1>18. /\ refs' \subseteq refs /\ index' \subseteq index /\ mirror' \subseteq mirror
       /\ \A kind \in Talks!Kinds : traces'[kind] \subseteq traces[kind]
       /\ \A conv \in titles : conv # k.of => conv \in titles'
  BY <1>4
<1>19. ASSUME NEW d \in Requesters, NEW l, l = request[d], l.at \notin Reading, l.of \notin torn, l.of # k.of
       PROVE  DeletedBy(l)'
  <2>1. DeletedBy(l)  BY <1>19 DEF TalksInv, Deletions
  <2>2. Talks!MessagesOf(l.of)' = Talks!MessagesOf(l.of) /\ Talks!TasksOf(l.of)' = Talks!TasksOf(l.of)
    BY <1>10, <1>19
  <2>3. {"event", "interaction", "state"} \subseteq Talks!Kinds  BY DEF Talks!Kinds
  <2> QED  BY <2>1, <2>2, <2>3, <1>18, <1>19 DEF DeletedBy
<1>20. ASSUME NEW d \in Requesters, request[d].at \notin {"idle", "clean"}, request[d].of \notin torn, d # c
       PROVE  request[d].of # k.of
  BY <1>5, <1>20 DEF TalksInv, Deletions
<1>21. Deletions'
  <2>1. ASSUME NEW d \in Requesters, request'[d].at \notin Reading, request'[d].of \notin torn'
        PROVE  DeletedBy(request[d])'
    <3>1. CASE d = c
      <4>1. next.at \notin Reading /\ next.of \notin torn  BY <2>1, <3>1, <1>1, <1>16
      <4>2. k.of \notin torn
        BY <4>1, <1>2 DEF Reading
      <4>3. DeletedBy(next)'  BY <4>1, <4>2, <1>17
      <4> QED  BY <4>3, <3>1, <1>16 DEF DeletedBy
    <3>2. CASE d # c
      <4>1. request'[d] = request[d] /\ request[d].at \notin Reading /\ request[d].of \notin torn
        BY <2>1, <3>2, <1>1, <1>15
      <4>2. request[d].of # k.of  BY <4>1, <3>2, <1>20 DEF Reading
      <4>3. \A l : l = request[d] => DeletedBy(l)'  BY <4>1, <4>2, <1>19
      <4> QED  BY <4>1, <4>3 DEF DeletedBy
    <3> QED  BY <3>1, <3>2
  <2>2. ASSUME NEW d \in Requesters, request'[d].at = "read", request'[d].of \notin torn'
        PROVE  request'[d].of \in titles'
    <3>1. d # c
      BY <2>2, <1>1, <1>2, <1>16, TableOrder DEF Emptying
    <3>2. request'[d] = request[d] /\ request[d].of # k.of  BY <2>2, <3>1, <1>1, <1>15, <1>20
    <3> QED  BY <2>2, <3>2, <1>1, <1>18 DEF TalksInv, Deletions
  <2>3. \A d \in Requesters : request'[d].at \notin {"idle", "clean"} =>
          request'[d].of = request[d].of /\ request[d].at \notin {"idle", "clean"}
    BY <1>2, <1>5, <1>15, <1>16
  <2>4. ASSUME NEW d \in Requesters, NEW e \in Requesters, request'[d].at \notin {"idle", "clean"},
               request'[e].at \notin {"idle", "clean"}, request'[d].of = request'[e].of, request'[d].of \notin torn'
        PROVE  d = e
    BY <2>3, <2>4, <1>1 DEF TalksInv, Deletions
  <2> QED  BY <2>1, <2>2, <2>4 DEF Deletions
<1>22. Cleaning' /\ Owned'
  <2>1. ASSUME NEW t \in next.tasks, t \in DOMAIN tasks'
        PROVE  next.at \notin {"title", "clean", "idle"} /\ tasks'[t].conv = next.of
    <3>1. t \in DOMAIN tasks /\ tasks'[t] = tasks[t] /\ t \in k.tasks  BY <2>1, <1>2, <1>3
    <3>2. table \notin {"title", "clean"} /\ tasks[t].conv = k.of  BY <3>1, <1>1, <1>5 DEF TalksInv, Cleaning
    <3>3. table # "tasks"  BY <2>1, <3>1, <3>2, <1>3, <1>7
    <3>4. next.at \notin {"title", "clean", "idle"}
      BY <3>2, <3>3, <1>1, <1>2, TableOrder DEF Emptying
    <3> QED  BY <3>1, <3>2, <3>4, <1>2
  <2>2. Cleaning'
    <3> SUFFICES ASSUME NEW d \in Requesters, request'[d].at \notin {"idle", "read"},
                        NEW t \in request'[d].tasks, t \in DOMAIN tasks'
                 PROVE  request'[d].at \notin {"title", "clean"} /\ tasks'[t].conv = request'[d].of
      BY DEF Cleaning
    <3>1. CASE d = c  BY <3>1, <2>1, <1>16
    <3>2. CASE d # c  BY <3>2, <1>3, <1>15 DEF TalksInv, Cleaning
    <3> QED  BY <3>1, <3>2
  <2>3. Owned'
    <3> SUFFICES ASSUME NEW d \in Requesters, NEW id \in request'[d].messages, id \in DOMAIN messages'
                 PROVE  messages'[id].conv = request'[d].of
      BY DEF Owned
    <3>1. id \in DOMAIN messages /\ messages'[id] = messages[id]  BY <1>3
    <3>2. CASE d = c  BY <3>1, <3>2, <1>2, <1>16 DEF TalksInv, Owned
    <3>3. CASE d # c  BY <3>1, <3>3, <1>15 DEF TalksInv, Owned
    <3> QED  BY <3>2, <3>3
  <2> QED  BY <2>2, <2>3
<1>23. Remembered'
  <2> SUFFICES ASSUME torn = {}, spent.crashes = 0, NEW thread \in threads
               PROVE  \/ thread.task \in DOMAIN tasks'
                      \/ \E d \in Requesters : request'[d].at \notin {"idle", "read"} /\ thread.task \in request'[d].tasks
    BY <1>1 DEF Remembered
  <2>1. CASE thread.task \in DOMAIN tasks
    <3>1. CASE thread.task \in DOMAIN tasks'  BY <3>1
    <3>2. CASE thread.task \notin DOMAIN tasks'
      <4>1. table = "tasks" /\ thread.task \in work  BY <2>1, <3>2, <1>3
      <4>2. thread.task \in next.tasks /\ next.at = "title"  BY <4>1, <1>2, <1>8, TableOrder
      <4> QED  BY <4>2, <1>16
    <3> QED  BY <3>1, <3>2
  <2>2. CASE thread.task \notin DOMAIN tasks
    <3>1. PICK d \in Requesters : request[d].at \notin {"idle", "read"} /\ thread.task \in request[d].tasks
      BY <2>2 DEF TalksInv, Remembered
    <3>2. CASE d # c  BY <3>1, <3>2, <1>15
    <3>3. CASE d = c
      <4>1. thread.task \in next.tasks /\ next.at \notin {"idle", "read"}
        BY <3>1, <3>3, <1>1, <1>2, <1>8, TableOrder DEF Emptying
      <4> QED  BY <4>1, <1>16
    <3> QED  BY <3>2, <3>3
  <2> QED  BY <2>1, <2>2
<1>24. Belonging'
  <2>1. ASSUME torn = {}
        PROVE  /\ \A id \in refs' \cup index' \cup mirror' : id \in DOMAIN messages'
               /\ \A kind \in Talks!Kinds : traces'[kind] \subseteq DOMAIN tasks'
    <3>1. \A id \in refs \cup index \cup mirror : id \in DOMAIN messages  BY <2>1 DEF TalksInv, Belonging
    <3>2. \A kind \in Talks!Kinds : traces[kind] \subseteq DOMAIN tasks  BY <2>1 DEF TalksInv, Belonging
    <3>3. table = "messages" => (refs \cup index \cup mirror) \cap talk = {}  BY <2>1, <1>8
    <3>4. table = "tasks" => \A kind \in Talks!Kinds : traces[kind] \cap work = {}  BY <2>1, <1>8 DEF Talks!Kinds
    <3>5. \A id \in refs' \cup index' \cup mirror' : id \in DOMAIN messages'
      BY <3>1, <3>3, <1>3, <1>18
    <3>6. \A kind \in Talks!Kinds : traces'[kind] \subseteq DOMAIN tasks'
      BY <3>2, <3>4, <1>3, <1>18
    <3> QED  BY <3>5, <3>6
  <2>2. ASSUME NEW id \in DOMAIN messages', messages'[id].conv \notin torn
        PROVE  messages'[id].conv \in titles'
    <3>1. id \in DOMAIN messages /\ messages'[id] = messages[id]  BY <1>3
    <3>2. messages[id].conv \in titles  BY <2>2, <3>1 DEF TalksInv, Belonging
    <3>3. table = "title" => messages[id].conv # k.of  BY <2>2, <3>1, <1>7, <1>8
    <3> QED  BY <3>1, <3>2, <3>3, <1>4
  <2>3. ASSUME NEW t \in DOMAIN tasks', tasks'[t].conv \notin torn
        PROVE  tasks'[t].conv \in titles'
    <3>1. t \in DOMAIN tasks /\ tasks'[t] = tasks[t]  BY <1>3
    <3>2. tasks[t].conv \in titles  BY <2>3, <3>1 DEF TalksInv, Belonging
    <3>3. table = "title" => tasks[t].conv # k.of  BY <2>3, <3>1, <1>7, <1>8
    <3> QED  BY <3>1, <3>2, <3>3, <1>4
  <2> QED  BY <2>1, <2>2, <2>3, <1>1 DEF Belonging
<1>25. Searching'
  <2> SUFFICES ASSUME torn = {}, spent.crashes = 0
               PROVE  /\ index' \subseteq Talks!Said' /\ mirror' \subseteq Talks!Said'
                      /\ \A id \in Talks!Said' : id \notin index' \cap mirror' =>
                            \E d \in Requesters : request'[d].at \notin {"idle", "clean"} /\ request'[d].of = messages'[id].conv
    BY <1>1 DEF Searching
  <2>1. Talks!Said' = Talks!Said \cap DOMAIN messages'  BY <1>3 DEF Talks!Said
  <2>2. index \subseteq Talks!Said /\ mirror \subseteq Talks!Said  BY DEF TalksInv, Searching
  <2>3. index' \subseteq Talks!Said' /\ mirror' \subseteq Talks!Said'
    BY <2>1, <2>2, <1>18, <1>24, <1>1 DEF Belonging
  <2>4. ASSUME NEW id \in Talks!Said', id \notin index' \cap mirror'
        PROVE  \E d \in Requesters : request'[d].at \notin {"idle", "clean"} /\ request'[d].of = messages'[id].conv
    <3>1. id \in Talks!Said /\ id \in DOMAIN messages /\ messages'[id] = messages[id]
      BY <2>1, <2>4, <1>3 DEF Talks!Said
    <3>2. CASE id \in k.messages /\ table \in {"index", "mirror"}
      <4>1. messages[id].conv = k.of  BY <3>1, <3>2 DEF TalksInv, Owned
      <4>2. next.of = k.of /\ next.at \notin {"idle", "clean"}  BY <3>2, <1>2, TableOrder
      <4> QED  BY <3>1, <4>1, <4>2, <1>16
    <3>3. CASE ~(id \in k.messages /\ table \in {"index", "mirror"})
      <4>1. id \notin index \cap mirror  BY <2>4, <3>3, <1>4
      <4>2. PICK d \in Requesters : request[d].at \notin {"idle", "clean"} /\ request[d].of = messages[id].conv
        BY <3>1, <4>1 DEF TalksInv, Searching
      <4>3. CASE d # c  BY <3>1, <4>2, <4>3, <1>15
      <4>4. CASE d = c
        <5>1. id \in talk  BY <3>1, <4>2, <4>4, <1>7
        <5>2. table # "title"  BY <5>1, <1>8
        <5>3. next.of = k.of /\ next.at \notin {"idle", "clean"}
          BY <5>2, <1>1, <1>2, TableOrder DEF Emptying
        <5> QED  BY <3>1, <4>2, <4>4, <5>3, <1>16
      <4> QED  BY <4>3, <4>4
    <3> QED  BY <3>2, <3>3
  <2> QED  BY <2>3, <2>4
<1>26. Talks!TasksCanResume'
  BY <1>1, <1>3 DEF TalksInv, Talks!TasksCanResume
<1> QED  BY <1>11, <1>12, <1>13, <1>21, <1>22, <1>23, <1>24, <1>25, <1>26 DEF TalksInv

\* What a branch does to the rows.
Branched(through, conv) ==
    LET of == messages[through].conv
        copied == Talks!Copied(conv, through)
    IN /\ through \in DOMAIN messages /\ of \in titles /\ conv \notin titles \cup torn
       /\ \A c \in Requesters : request[c].of # conv
       /\ messages[through].role = "assistant" /\ messages[through].status = "completed"
       /\ DOMAIN messages' = DOMAIN messages \cup {Talks!Copy(conv, id) : id \in copied}
       /\ \A id \in DOMAIN messages : messages'[id] = messages[id] /\ messages[id].conv # conv
       /\ \A id \in copied : messages'[Talks!Copy(conv, id)] =
             Talks!Row(conv, messages[id].role, messages[id].position, messages[id].status, 0)
       /\ refs' = refs \cup {Talks!Copy(conv, id) : id \in copied \cap refs}
       /\ index' = index \cup {Talks!Copy(conv, id) : id \in {m \in copied : messages[m].role = "user"}}
       /\ mirror' = mirror \cup {Talks!Copy(conv, id) : id \in {m \in copied : messages[m].role = "user"}}
       /\ torn' = torn \cup IF Talks!Deleting(of) \/ of \in torn THEN {of, conv} ELSE {}
       /\ titles' = titles \cup {conv}
       /\ UNCHANGED <<tasks, traces, threads, request, spent>>
LEMMA BranchDoes ==
    ASSUME RowsTyped, Belonging, NEW through \in DOMAIN messages, NEW conv, Talks!Branch(through, conv)
    PROVE  Branched(through, conv)
<1> DEFINE copied == Talks!Copied(conv, through) of == messages[through].conv
           names == {Talks!Copy(conv, id) : id \in copied}
           added == [new \in names |-> [messages[new[3]] EXCEPT !.conv = conv, !.task = 0]]
<1>1. messages' = Talks!With(messages, added)  BY DEF Talks!Branch
<1>2. conv \notin titles \cup torn  BY DEF Talks!Branch
<1>3. \A id \in DOMAIN messages : messages[id].conv # conv  BY <1>2 DEF Belonging
<1>4. names \cap DOMAIN messages = {}
  <2> SUFFICES ASSUME NEW id, Talks!Copy(conv, id) \in DOMAIN messages PROVE FALSE
    OBVIOUS
  <2>1. KnownId(Talks!Copy(conv, id), messages[Talks!Copy(conv, id)].conv, spent.sends)
    BY DEF RowsTyped, IsMessage
  <2>2. messages[Talks!Copy(conv, id)].conv = conv  BY <2>1, NamesDiffer DEF KnownId, Talks!Copy
  <2> QED  BY <2>2, <1>3
<1>5. ASSUME NEW id \in copied
      PROVE  added[Talks!Copy(conv, id)] =
                Talks!Row(conv, messages[id].role, messages[id].position, messages[id].status, 0)
  <2>1. id \in DOMAIN messages  BY DEF Talks!Copied, Talks!MessagesOf
  <2>2. messages[id] = Talks!Row(messages[id].conv, messages[id].role, messages[id].position, messages[id].status,
                                 messages[id].task)
    BY <2>1 DEF RowsTyped, IsMessage
  <2> DEFINE m == messages[id] new == [m EXCEPT !.conv = conv, !.task = 0]
  <2>3. m \in [conv : {m.conv}, role : {m.role}, position : {m.position}, status : {m.status}, task : {m.task}]
    BY <2>2 DEF Talks!Row
  <2>4. new \in [conv : {conv}, role : {m.role}, position : {m.position}, status : {m.status}, task : {0}]
    BY <2>3
  <2>5. new = Talks!Row(conv, m.role, m.position, m.status, 0)
    <3> HIDE DEF new, m
    <3> QED  BY <2>4 DEF Talks!Row
  <2>6. Talks!Copy(conv, id)[3] = id  BY DEF Talks!Copy
  <2>7. Talks!Copy(conv, id) \in names  OBVIOUS
  <2> QED  BY <2>5, <2>6, <2>7
<1> HIDE DEF added
<1>6. DOMAIN added = names  BY DEF added
<1> HIDE DEF names
<1>7. /\ DOMAIN messages' = DOMAIN messages \cup names
      /\ \A id \in DOMAIN messages : messages'[id] = messages[id]
      /\ \A new \in names : messages'[new] = added[new]
  BY <1>1, <1>4, <1>6 DEF Talks!With
<1>8. \A id \in copied : messages'[Talks!Copy(conv, id)] =
             Talks!Row(conv, messages[id].role, messages[id].position, messages[id].status, 0)
  BY <1>5, <1>7 DEF names
<1>9. /\ of \in titles /\ \A c \in Requesters : request[c].of # conv
      /\ messages[through].role = "assistant" /\ messages[through].status = "completed"
      /\ refs' = refs \cup {Talks!Copy(conv, id) : id \in copied \cap refs}
      /\ index' = index \cup {Talks!Copy(conv, id) : id \in {m \in copied : messages[m].role = "user"}}
      /\ mirror' = mirror \cup {Talks!Copy(conv, id) : id \in {m \in copied : messages[m].role = "user"}}
      /\ torn' = torn \cup IF Talks!Deleting(of) \/ of \in torn THEN {of, conv} ELSE {}
      /\ titles' = titles \cup {conv}
      /\ UNCHANGED <<tasks, traces, threads, request, spent>>
  BY DEF Talks!Branch
<1> QED  BY <1>2, <1>3, <1>7, <1>8, <1>9 DEF Branched, names

LEMMA BranchKeeps ==
    ASSUME TalksInv, NEW through, NEW conv, Branched(through, conv)
    PROVE  TalksInv'
<1> DEFINE of == messages[through].conv copied == Talks!Copied(conv, through) names == {Talks!Copy(conv, id) : id \in copied}
           last == messages[through].position
           said == {Talks!Copy(conv, id) : id \in {m \in copied : messages[m].role = "user"}}
<1>1. /\ through \in DOMAIN messages /\ of \in titles /\ conv \notin titles \cup torn
      /\ \A c \in Requesters : request[c].of # conv
      /\ messages[through].role = "assistant" /\ messages[through].status = "completed"
      /\ titles' = titles \cup {conv}
      /\ UNCHANGED <<tasks, traces, threads, request, spent>>
  BY DEF Branched
<1>2. DOMAIN messages' = DOMAIN messages \cup names  BY DEF Branched
<1>3. \A id \in DOMAIN messages : messages'[id] = messages[id] /\ messages[id].conv # conv  BY DEF Branched
<1>4. \A id \in copied : messages'[Talks!Copy(conv, id)] =
          Talks!Row(conv, messages[id].role, messages[id].position, messages[id].status, 0)
  BY DEF Branched
<1>5. refs' \subseteq refs \cup names /\ index' = index \cup said /\ mirror' = mirror \cup said
  BY DEF Branched
<1>6. torn' = torn \cup IF Talks!Deleting(of) \/ of \in torn THEN {of, conv} ELSE {}  BY DEF Branched
<1>7. torn \subseteq torn' /\ (torn' = {} => torn = {})  BY <1>6
<1>8. copied = {id \in DOMAIN messages : messages[id].conv = of /\ messages[id].position <= last}
  BY DEF Talks!Copied, Talks!MessagesOf
<1>9. \A id \in copied : LET new == messages'[Talks!Copy(conv, id)]
                         IN /\ new.conv = conv /\ new.role = messages[id].role /\ new.position = messages[id].position
                            /\ new.status = messages[id].status /\ new.task = 0
  BY <1>4, RowParts
<1>10. names \cap DOMAIN messages = {}
  BY <1>3, <1>4, <1>9
<1>11. spent.sends \in Nat  BY DEF TalksInv, RowsTyped
<1>12. \A id \in DOMAIN messages : IsMessage(id, messages[id], spent.sends)  BY DEF TalksInv, RowsTyped
<1>13. ASSUME NEW id \in copied
       PROVE  IsMessage(Talks!Copy(conv, id), messages'[Talks!Copy(conv, id)], spent.sends)
  <2> DEFINE name == Talks!Copy(conv, id) new == messages'[name]
  <2>1. new = Talks!Row(conv, messages[id].role, messages[id].position, messages[id].status, 0)  BY <1>4
  <2>2. /\ new.conv = conv /\ new.role = messages[id].role /\ new.position = messages[id].position
        /\ new.status = messages[id].status /\ new.task = 0
    BY <1>9
  <2>3. messages[id].position \in Nat  BY <1>8, <1>12 DEF IsMessage
  <2>4. KnownId(name, conv, spent.sends)  BY DEF KnownId, Talks!Copy
  <2> HIDE DEF name, new
  <2>5. IsMessage(name, new, spent.sends)
    BY <2>1, <2>2, <2>3, <2>4 DEF IsMessage
  <2> QED  BY <2>5 DEF name, new
<1> HIDE DEF copied
<1>14. RowsTyped'
  <2>1. \A id \in DOMAIN messages' : IsMessage(id, messages'[id], spent'.sends)
    BY <1>1, <1>2, <1>3, <1>12, <1>13
  <2> QED  BY <2>1, <1>1 DEF TalksInv, RowsTyped
<1>15. \A t \in DOMAIN tasks : t \in 1..spent.sends  BY DEF TalksInv, RowsTyped
<1>16. \A new \in names : messages'[new].task \notin DOMAIN tasks /\ messages'[new].conv = conv
  <2>1. 0 \notin DOMAIN tasks  BY <1>11, <1>15
  <2> QED  BY <2>1, <1>9
<1>17. \E h \in Nat : Seated(of, 2 * h)  BY DEF TalksInv, InTurns
<1>18. ASSUME of \notin torn, NEW id \in copied
       PROVE  messages[id].status \notin Talks!Loading
  <2> DEFINE m == messages[id]
  <2> SUFFICES ASSUME m.status \in Talks!Loading PROVE FALSE
    OBVIOUS
  <2>1. id \in DOMAIN messages /\ m.conv = of /\ m.position <= last  BY <1>8
  <2>2. m.task \in DOMAIN tasks  BY <1>18, <2>1 DEF TalksInv, Together
  <2>3. tasks[m.task].status \in Talks!Active
    <3>1. m.status = tasks[m.task].status \/ (m.status = "interrupted" /\ tasks[m.task].status = "pending")
      BY <2>1, <2>2 DEF TalksInv, Together
    <3>2. Talks!Loading \subseteq Talks!Active /\ "pending" \in Talks!Active  BY DEF Talks!Loading, Talks!Active
    <3> QED  BY <3>1, <3>2
  <2>4. last <= m.position
    BY <1>1, <2>1, <2>2, <2>3 DEF TalksInv, InTurns, Talks!MessagesOf
  <2>5. m.position \in Nat /\ last \in Nat  BY <1>1, <1>12, <2>1 DEF IsMessage
  <2>6. m.position = last  BY <2>1, <2>4, <2>5
  <2>7. id = through  BY <1>1, <1>17, <2>1, <2>6 DEF Seated, Talks!MessagesOf
  <2> QED  BY <1>1, <2>7 DEF Talks!Loading
<1>19. Together'
  <2>1. ASSUME NEW id \in DOMAIN messages', messages'[id].task \in DOMAIN tasks
        PROVE  id \in DOMAIN messages /\ messages'[id] = messages[id]
    BY <2>1, <1>2, <1>3, <1>16
  <2>2. ASSUME NEW id \in DOMAIN messages', messages'[id].conv \notin torn', messages'[id].status \in Talks!Loading
        PROVE  messages'[id].task \in DOMAIN tasks
    <3>1. CASE id \in DOMAIN messages  BY <2>2, <3>1, <1>3, <1>7 DEF TalksInv, Together
    <3>2. CASE id \in names
      <4>1. PICK source \in copied : id = Talks!Copy(conv, source)  BY <3>2
      <4>2. messages'[id].conv = conv /\ messages'[id].status = messages[source].status  BY <4>1, <1>9
      <4>3. of \notin torn  BY <2>2, <4>2, <1>6
      <4> QED  BY <2>2, <4>2, <4>3, <1>18
    <3> QED  BY <3>1, <3>2, <1>2
  <2>3. ASSUME NEW id \in DOMAIN messages', messages'[id].task \in DOMAIN tasks
        PROVE  /\ tasks[messages'[id].task].conv = messages'[id].conv
               /\ \/ messages'[id].status = tasks[messages'[id].task].status
                  \/ messages'[id].status = "interrupted" /\ tasks[messages'[id].task].status = "pending"
    BY <2>1, <2>3 DEF TalksInv, Together
  <2> QED  BY <2>2, <2>3, <1>1 DEF Together
<1>20. last \in Nat /\ last % 2 = 1
  <2>1. messages[through].position \in Nat  BY <1>1, <1>12 DEF IsMessage
  <2>2. messages[through].role = IF last % 2 = 0 THEN "user" ELSE "assistant"
    BY <1>1, <1>17 DEF Seated, Talks!MessagesOf
  <2>3. last % 2 # 0  BY <1>1, <2>2
  <2> QED  BY <2>1, <2>3
<1>21. Talks!MessagesOf(conv)' = names
  <2>1. \A id : id \in DOMAIN messages' /\ messages'[id].conv = conv <=> id \in names
    BY <1>2, <1>3, <1>16
  <2> QED  BY <2>1 DEF Talks!MessagesOf
<1>22. ASSUME NEW other, other # conv
       PROVE  Talks!MessagesOf(other)' = Talks!MessagesOf(other)
  <2>1. \A id : id \in DOMAIN messages' /\ messages'[id].conv = other <=> id \in DOMAIN messages /\ messages[id].conv = other
    BY <1>2, <1>3, <1>16, <1>22
  <2> QED  BY <2>1 DEF Talks!MessagesOf
<1>23. PICK h \in Nat : Seated(of, 2 * h)  BY <1>17
<1>24. /\ \A id \in copied : messages[id].position \in 0..last
       /\ \A p \in 0..last : \E id \in copied : messages[id].position = p
       /\ \A i, j \in copied : messages[i].position = messages[j].position => i = j
       /\ \A id \in copied : messages[id].role = IF messages[id].position % 2 = 0 THEN "user" ELSE "assistant"
  <2>1. last < 2 * h  BY <1>1, <1>23 DEF Seated, Talks!MessagesOf
  <2>2. \A p \in 0..last : p \in 0..(2 * h - 1)  BY <2>1, <1>20, <1>23
  <2>3. \A p \in 0..(2 * h - 1) : \E id \in DOMAIN messages : messages[id].conv = of /\ messages[id].position = p
    BY <1>23 DEF Seated, Talks!MessagesOf
  <2>4. \A p \in 0..last : \E id \in copied : messages[id].position = p
    BY <2>2, <2>3, <1>8, <1>20
  <2>5. \A id \in copied : messages[id].position \in 0..last
    <3> SUFFICES ASSUME NEW id \in copied PROVE messages[id].position \in 0..last
      OBVIOUS
    <3>1. messages[id].position \in Nat /\ messages[id].position <= last  BY <1>8, <1>12 DEF IsMessage
    <3> QED  BY <3>1, <1>20
  <2> QED  BY <2>4, <2>5, <1>8, <1>23 DEF Seated, Talks!MessagesOf
<1>25. PICK g \in Nat : last + 1 = 2 * g
  <2>1. last + 1 = 2 * ((last + 1) \div 2) /\ (last + 1) \div 2 \in Nat  BY <1>20
  <2> QED  BY <2>1
<1>26. Seated(conv, 2 * g)'
  <2>1. \A id \in names : messages'[id].position < last + 1
    <3> SUFFICES ASSUME NEW source \in copied
                 PROVE  messages'[Talks!Copy(conv, source)].position < last + 1
      OBVIOUS
    <3>1. messages[source].position \in 0..last  BY <1>24
    <3> QED  BY <3>1, <1>9, <1>20
  <2>2. \A p \in 0..last : \E id \in names : messages'[id].position = p
    BY <1>9, <1>24
  <2>3. \A i, j \in names : messages'[i].position = messages'[j].position => i = j
    BY <1>9, <1>24
  <2>4. \A id \in names : messages'[id].role = IF messages'[id].position % 2 = 0 THEN "user" ELSE "assistant"
    BY <1>9, <1>24
  <2>5. 2 * g - 1 = last  BY <1>20, <1>25
  <2> HIDE DEF names
  <2> QED  BY <2>1, <2>2, <2>3, <2>4, <2>5, <1>21, <1>25 DEF Seated
<1>27. InTurns'
  <2>1. ASSUME NEW other
        PROVE  \E n \in Nat : Seated(other, 2 * n)'
    <3>1. CASE other = conv  BY <3>1, <1>26
    <3>2. CASE other # conv
      <4>1. PICK n \in Nat : Seated(other, 2 * n)  BY DEF TalksInv, InTurns
      <4>2. Talks!MessagesOf(other)' = Talks!MessagesOf(other)  BY <3>2, <1>22
      <4>3. \A id \in Talks!MessagesOf(other) : messages'[id] = messages[id]  BY <1>3 DEF Talks!MessagesOf
      <4>4. Seated(other, 2 * n)'  BY <4>1, <4>2, <4>3, SeatsStay
      <4> QED  BY <4>4
    <3> QED  BY <3>1, <3>2
  <2>2. ASSUME NEW id \in DOMAIN messages', messages'[id].task \in DOMAIN tasks',
               tasks'[messages'[id].task].status \in Talks!Active,
               NEW other \in DOMAIN messages', messages'[other].conv = messages'[id].conv
        PROVE  messages'[other].position <= messages'[id].position
    <3>1. id \in DOMAIN messages /\ messages'[id] = messages[id]  BY <2>2, <1>1, <1>2, <1>3, <1>16
    <3>2. messages[id].conv # conv  BY <3>1, <1>3
    <3>3. other \in DOMAIN messages /\ messages'[other] = messages[other]
      BY <2>2, <3>1, <3>2, <1>2, <1>3, <1>16
    <3> QED  BY <2>2, <3>1, <3>3, <1>1 DEF TalksInv, InTurns, Talks!MessagesOf
  <2>3. \A id \in DOMAIN messages' :
          messages'[id].task \in DOMAIN tasks' /\ tasks'[messages'[id].task].status \in Talks!Active =>
          \A other \in Talks!MessagesOf(messages[id].conv)' : messages'[other].position <= messages'[id].position
    BY <2>2 DEF Talks!MessagesOf
  <2> QED  BY <2>1, <2>3 DEF InTurns
<1>28. Deletions'
  <2>1. ASSUME NEW c \in Requesters, request[c].at \notin Reading, request[c].of \notin torn'
        PROVE  DeletedBy(request[c])'
    <3> DEFINE k == request[c]
    <3>1. k' = k /\ k.of # conv  BY <1>1
    <3>2. DeletedBy(k)  BY <2>1, <1>7 DEF TalksInv, Deletions
    <3>3. Talks!MessagesOf(k.of)' = Talks!MessagesOf(k.of)  BY <3>1, <1>1, <1>22
    <3>4. Talks!TasksOf(k.of)' = Talks!TasksOf(k.of)  BY <1>1 DEF Talks!TasksOf
    <3>5. names \cap Talks!MessagesOf(k.of) = {} /\ said \subseteq names
      BY <1>10 DEF Talks!MessagesOf
    <3> DEFINE talk == Talks!MessagesOf(k.of)
    <3> HIDE DEF k, names, said, talk
    <3>6. /\ refs \cap talk = {} => refs' \cap talk = {}
          /\ index \cap talk = {} => index' \cap talk = {}
          /\ mirror \cap talk = {} => mirror' \cap talk = {}
      BY <3>5, <1>5 DEF talk
    <3> QED  BY <3>1, <3>2, <3>3, <3>4, <3>6, <1>1 DEF DeletedBy, talk, k
  <2>2. \A c \in Requesters : request[c].at = "read" /\ request[c].of \notin torn' => request[c].of \in titles'
    BY <1>1, <1>7 DEF TalksInv, Deletions
  <2>3. \A c, d \in Requesters :
          /\ request[c].at \notin {"idle", "clean"} /\ request[d].at \notin {"idle", "clean"}
          /\ request[c].of = request[d].of /\ request[c].of \notin torn'
          => c = d
    BY <1>7 DEF TalksInv, Deletions
  <2> QED  BY <2>1, <2>2, <2>3, <1>1 DEF Deletions
<1>29. Cleaning' /\ Owned'
  <2>1. Cleaning'  BY <1>1 DEF TalksInv, Cleaning
  <2>2. ASSUME NEW c \in Requesters, NEW id \in request[c].messages, id \in DOMAIN messages'
        PROVE  messages'[id].conv = request[c].of
    <3>1. CASE id \in DOMAIN messages  BY <3>1, <1>3 DEF TalksInv, Owned
    <3>2. CASE id \in names
      <4>1. KnownId(id, request[c].of, spent.sends)  BY DEF TalksInv, RowsTyped, IsRequest
      <4>2. request[c].of = conv  BY <3>2, <4>1, NamesDiffer DEF KnownId, Talks!Copy
      <4> QED  BY <4>2, <1>1
    <3> QED  BY <2>2, <3>1, <3>2, <1>2
  <2>3. Owned'  BY <2>2, <1>1 DEF Owned
  <2> QED  BY <2>1, <2>3
<1>30. Remembered'
  BY <1>1, <1>7 DEF TalksInv, Remembered
<1>31. said \subseteq names  OBVIOUS
<1>32. Belonging'
  <2>1. torn' = {} => /\ \A id \in refs' \cup index' \cup mirror' : id \in DOMAIN messages'
                      /\ \A k \in Talks!Kinds : traces'[k] \subseteq DOMAIN tasks'
    BY <1>1, <1>2, <1>5, <1>7, <1>31 DEF TalksInv, Belonging
  <2>2. ASSUME NEW id \in DOMAIN messages', messages'[id].conv \notin torn'
        PROVE  messages'[id].conv \in titles'
    BY <2>2, <1>1, <1>2, <1>3, <1>7, <1>16 DEF TalksInv, Belonging
  <2>3. \A u \in DOMAIN tasks' : tasks'[u].conv \notin torn' => tasks'[u].conv \in titles'
    BY <1>1, <1>7 DEF TalksInv, Belonging
  <2> QED  BY <2>1, <2>2, <2>3 DEF Belonging
<1>33. Searching'
  <2>1. Talks!Said' = Talks!Said \cup said
    <3>1. \A id : id \in DOMAIN messages' /\ messages'[id].role = "user" <=> id \in Talks!Said \cup said
      <4>1. \A id \in DOMAIN messages : messages'[id].role = "user" <=> id \in Talks!Said
        BY <1>3 DEF Talks!Said
      <4>2. \A id \in names : messages'[id].role = "user" <=> id \in said
        BY <1>9
      <4>3. Talks!Said \subseteq DOMAIN messages  BY DEF Talks!Said
      <4> HIDE DEF names, said
      <4> QED  BY <4>1, <4>2, <4>3, <1>2, <1>10, <1>31
    <3> QED  BY <3>1 DEF Talks!Said
  <2> HIDE DEF said
  <2>2. \A id \in Talks!Said : messages'[id] = messages[id]  BY <1>3 DEF Talks!Said
  <2> QED  BY <2>1, <2>2, <1>1, <1>5, <1>7 DEF TalksInv, Searching
<1>34. Talks!TasksCanResume'
  BY <1>1 DEF TalksInv, Talks!TasksCanResume
<1> QED  BY <1>14, <1>19, <1>27, <1>28, <1>29, <1>30, <1>32, <1>33, <1>34 DEF TalksInv

\* A talk has as many messages as places.
LEMMA TalkIsFinite ==
    ASSUME NEW conv, NEW n \in Nat, Seated(conv, n),
           \A id \in Talks!MessagesOf(conv) : messages[id].position \in Nat
    PROVE  IsFiniteSet(Talks!MessagesOf(conv)) /\ Cardinality(Talks!MessagesOf(conv)) = n
<1> DEFINE talk == Talks!MessagesOf(conv) f == [id \in talk |-> messages[id].position]
<1>1. /\ \A id \in talk : messages[id].position \in 0..(n - 1)
      /\ \A p \in 0..(n - 1) : \E id \in talk : messages[id].position = p
      /\ \A i, j \in talk : messages[i].position = messages[j].position => i = j
  <2>1. \A id \in talk : messages[id].position < n  BY DEF Seated
  <2>2. \A id \in talk : messages[id].position \in 0..(n - 1)  BY <2>1
  <2> QED  BY <2>2 DEF Seated
<1> HIDE DEF talk
<1>2. f \in [talk -> 0..(n - 1)]  BY <1>1
<1>3. f \in Injection(talk, 0..(n - 1))  BY <1>1, <1>2 DEF Injection, IsInjective
<1>4. f \in Surjection(talk, 0..(n - 1))  BY <1>1, <1>2 DEF Surjection
<1>5. IsFiniteSet(0..(n - 1)) /\ Cardinality(0..(n - 1)) = n
  BY FS_Interval
<1> HIDE DEF f
<1>6. IsFiniteSet(talk) /\ Cardinality(talk) = n  BY <1>3, <1>4, <1>5, FS_Injection
<1> QED  BY <1>6 DEF talk

\* An edit cuts a talk before a user's message; without one the talk goes on.
CutAt(conv, edited, place) ==
    LET talk == Talks!MessagesOf(conv) pruned == Talks!FromEdit(conv, edited)
    IN /\ Talks!Next1(talk \ pruned) = place
       /\ pruned = {id \in talk : messages[id].position >= place}
       /\ \A p \in 0..(place - 1) : \E id \in talk \ pruned : messages[id].position = p
LEMMA EditCuts ==
    ASSUME TalksInv, NEW conv,
           NEW edited \in SUBSET {id \in Talks!MessagesOf(conv) : messages[id].role = "user"},
           Talks!Cardinality(edited) <= 1
    PROVE  \E g \in Nat : CutAt(conv, edited, 2 * g)
<1> DEFINE talk == Talks!MessagesOf(conv) pruned == Talks!FromEdit(conv, edited)
<1>1. \A id \in talk : messages[id].position \in Nat
  BY DEF TalksInv, RowsTyped, IsMessage, Talks!MessagesOf
<1>2. PICK h \in Nat : Seated(conv, 2 * h)  BY DEF TalksInv, InTurns
<1>3. /\ \A id \in talk : messages[id].position < 2 * h
      /\ \A p \in 0..(2 * h - 1) : \E id \in talk : messages[id].position = p
      /\ \A id \in talk : messages[id].role = IF messages[id].position % 2 = 0 THEN "user" ELSE "assistant"
  BY <1>2 DEF Seated
<1>4. pruned = {id \in talk : \E e \in edited : messages[id].position >= messages[e].position}
  BY DEF Talks!FromEdit
<1>5. edited = {} \/ \E e : edited = {e}
  <2>1. 2 * h \in Nat  BY <1>2
  <2>2. IsFiniteSet(talk)  BY <1>1, <1>2, <2>1, TalkIsFinite
  <2>3. edited \in SUBSET talk  OBVIOUS
  <2>4. IsFiniteSet(edited)  BY <2>2, <2>3, FS_Subset
  <2>5. Cardinality(edited) \in Nat /\ Cardinality(edited) <= 1
    BY <2>4, FS_CardinalityType DEF Talks!Cardinality, Cardinality, Talks!IsFiniteSet, IsFiniteSet
  <2>6. Cardinality(edited) = 0 \/ Cardinality(edited) = 1  BY <2>5
  <2> QED  BY <2>4, <2>6, FS_EmptySet, FS_Singleton
<1>6. \E g \in Nat : /\ g <= h
                     /\ pruned = {id \in talk : messages[id].position >= 2 * g}
  <2>1. CASE edited = {}
    <3>1. pruned = {id \in talk : messages[id].position >= 2 * h}
      <4>1. \A id \in talk : ~(messages[id].position >= 2 * h)  BY <1>1, <1>2, <1>3
      <4> QED  BY <2>1, <4>1, <1>4
    <3> QED  BY <3>1, <1>2
  <2>2. CASE \E e : edited = {e}
    <3>1. PICK e : edited = {e}  BY <2>2
    <3>2. e \in talk /\ messages[e].role = "user"  BY <3>1
    <3>3. messages[e].position \in Nat /\ messages[e].position % 2 = 0 /\ messages[e].position < 2 * h
      BY <3>2, <1>1, <1>3
    <3> DEFINE g == messages[e].position \div 2
    <3>4. g \in Nat /\ messages[e].position = 2 * g /\ g <= h  BY <3>3, <1>2
    <3>5. pruned = {id \in talk : messages[id].position >= messages[e].position}  BY <3>1, <1>4
    <3> QED  BY <3>4, <3>5
  <2> QED  BY <1>5, <2>1, <2>2
<1>7. PICK g \in Nat : g <= h /\ pruned = {id \in talk : messages[id].position >= 2 * g}  BY <1>6
<1> DEFINE kept == talk \ pruned
<1>8. \A id \in kept : messages[id].position \in 0..(2 * g - 1)
  BY <1>1, <1>7
<1>9. \A p \in 0..(2 * g - 1) : \E id \in kept : messages[id].position = p
  <2> SUFFICES ASSUME NEW p \in 0..(2 * g - 1) PROVE \E id \in kept : messages[id].position = p
    OBVIOUS
  <2>1. p \in 0..(2 * h - 1)  BY <1>2, <1>7
  <2>2. PICK id \in talk : messages[id].position = p  BY <2>1, <1>3
  <2>3. ~(messages[id].position >= 2 * g)  BY <2>2
  <2> QED  BY <2>2, <2>3, <1>7
<1> HIDE DEF kept, talk, pruned
<1>10. Talks!Next1(kept) = 2 * g
  <2>1. CASE kept = {}
    <3>1. g = 0
      <4> SUFFICES ASSUME g # 0 PROVE FALSE
        OBVIOUS
      <4>1. 0 \in 0..(2 * g - 1)  BY <1>7
      <4> QED  BY <2>1, <4>1, <1>9
    <3> QED  BY <2>1, <3>1 DEF Talks!Next1
  <2>2. CASE kept # {}
    <3> DEFINE S == {messages[id].position : id \in kept}
    <3>1. g # 0 /\ 2 * g - 1 \in S
      <4>1. PICK id \in kept : TRUE  BY <2>2
      <4>2. messages[id].position \in 0..(2 * g - 1)  BY <4>1, <1>8
      <4>3. 2 * g - 1 \in 0..(2 * g - 1) /\ g # 0  BY <4>2, <1>7
      <4>4. PICK j \in kept : messages[j].position = 2 * g - 1  BY <4>3, <1>9
      <4> QED  BY <4>3, <4>4
    <3>2. S \subseteq 0..(2 * g - 1)  BY <1>8
    <3>3. Talks!Next1(kept) = Talks!Max(S) + 1  BY <2>2 DEF Talks!Next1
    <3> HIDE DEF S
    <3>4. \A x \in S : 2 * g - 1 >= x  BY <3>2
    <3>5. \A x \in S : (\A y \in S : x >= y) => x = 2 * g - 1  BY <3>1, <3>2
    <3>6. Talks!Max(S) = 2 * g - 1  BY <3>1, <3>4, <3>5 DEF Talks!Max
    <3> QED  BY <3>3, <3>6, <1>7
  <2> QED  BY <2>1, <2>2
<1>11. CutAt(conv, edited, 2 * g)  BY <1>7, <1>9, <1>10 DEF CutAt, kept, talk, pruned
<1> QED  BY <1>11

LEMMA SendKeeps ==
    ASSUME TalksInv, NEW c \in Requesters, NEW conv, NEW edited, Sends(c, conv, edited)
    PROVE  TalksInv'
<1> DEFINE pruned == Talks!FromEdit(conv, edited) old == Talks!TasksIn(pruned)
           place == Talks!Next1(Talks!MessagesOf(conv) \ pruned)
           n == spent.sends + 1 user == <<"user", n>> assistant == <<"assistant", n>>
           talk == Talks!MessagesOf(conv) kept == DOMAIN messages \ pruned
<1>1. /\ edited \in SUBSET {id \in talk : messages[id].role = "user"} /\ Talks!Cardinality(edited) <= 1
      /\ request[c] = Talks!Idle /\ \A t \in Talks!ActiveIn(conv) : tasks[t].status = "waiting_user"
  BY DEF Sends
<1>2. /\ DOMAIN messages' = kept \cup {user, assistant}
      /\ messages'[user] = Talks!Row(conv, "user", place, "completed", 0)
      /\ messages'[assistant] = Talks!Row(conv, "assistant", place + 1, "pending", n)
      /\ \A id \in kept : /\ SameRow(messages'[id], messages[id])
                          /\ messages'[id].status = IF messages[id].conv = conv /\ messages[id].status = "waiting_user"
                                                    THEN "superseded" ELSE messages[id].status
  BY DEF Sends
<1>3. /\ DOMAIN tasks' = (DOMAIN tasks \ old) \cup {n} /\ tasks'[n] = [conv |-> conv, status |-> "pending"]
      /\ \A t \in DOMAIN tasks \ old :
            /\ SameTask(tasks'[t], tasks[t])
            /\ tasks'[t].status = IF tasks[t].conv = conv /\ tasks[t].status = "waiting_user"
                                  THEN "superseded" ELSE tasks[t].status
  BY DEF Sends
<1>4. /\ DOMAIN traces' = Talks!Kinds
      /\ \A k \in Talks!Kinds : traces'[k] = (traces[k] \ old) \cup IF k = "state" THEN {n} ELSE {}
      /\ refs' = refs \ pruned /\ index' = (index \ pruned) \cup {user} /\ mirror' = (mirror \ pruned) \cup {user}
  BY DEF Sends
<1>5. /\ DOMAIN request' = Requesters /\ \A d \in Requesters \ {c} : request'[d] = request[d]
      /\ \/ old = {} /\ request'[c] = Talks!Idle
         \/ request'[c] = [at |-> "clean", of |-> "none", tasks |-> old, messages |-> {}]
  BY DEF Sends
<1>6. /\ titles' = titles \cup {conv} /\ torn' = (IF Talks!Deleting(conv) THEN torn \cup {conv} ELSE torn)
      /\ threads' = threads
      /\ spent'.sends = n /\ spent'.crashes = spent.crashes
      /\ spent' = [sends |-> n, crashes |-> spent'.crashes, deletions |-> spent'.deletions]
  BY DEF Sends
<1>7. PICK g \in Nat : /\ place = 2 * g
                       /\ pruned = {id \in talk : messages[id].position >= 2 * g}
                       /\ \A p \in 0..(2 * g - 1) : \E id \in talk \ pruned : messages[id].position = p
  <2>1. edited \in SUBSET {id \in Talks!MessagesOf(conv) : messages[id].role = "user"} /\ Talks!Cardinality(edited) <= 1
    BY <1>1
  <2>2. PICK g \in Nat : CutAt(conv, edited, 2 * g)
    <3> HIDE DEF talk, pruned, place
    <3> QED  BY <2>1, EditCuts
  <2> QED  BY <2>2 DEF CutAt
<1>8. old = {messages[id].task : id \in pruned} \ {0}  BY DEF Talks!TasksIn
<1>9. spent.sends \in Nat /\ n \in Nat /\ spent.sends <= n /\ spent.crashes \in Nat /\ n \notin 1..spent.sends
  BY DEF TalksInv, RowsTyped
<1>10. \A id \in DOMAIN messages : IsMessage(id, messages[id], spent.sends)  BY DEF TalksInv, RowsTyped
<1>11. \A t \in DOMAIN tasks : t \in 1..spent.sends  BY DEF TalksInv, RowsTyped
<1>12. ~KnownId(user, conv, spent.sends) /\ ~KnownId(assistant, conv, spent.sends) /\ user # assistant
       /\ \A other : ~KnownId(user, other, spent.sends) /\ ~KnownId(assistant, other, spent.sends)
  BY <1>9, NewName, NamesDiffer
<1>13. user \notin DOMAIN messages /\ assistant \notin DOMAIN messages  BY <1>10, <1>12 DEF IsMessage
<1>14. talk = {id \in DOMAIN messages : messages[id].conv = conv}  BY DEF Talks!MessagesOf
<1> HIDE DEF pruned, old, place, talk
<1>15. \A id \in pruned : id \in DOMAIN messages /\ messages[id].conv = conv  BY <1>7, <1>14
<1>16. old \subseteq 1..spent.sends
  <2> SUFFICES ASSUME NEW id \in pruned, messages[id].task # 0 PROVE messages[id].task \in 1..spent.sends
    BY <1>8
  <2> QED  BY <1>10, <1>15 DEF IsMessage
\* A task goes with its message, and no other message has it.
<1>17. \A id \in kept : messages[id].task \notin old
  <2> SUFFICES ASSUME NEW id \in kept, NEW gone \in pruned, messages[gone].task # 0, messages[id].task = messages[gone].task
               PROVE  FALSE
    BY <1>8
  <2>1. id = <<"assistant", messages[id].task>> /\ gone = <<"assistant", messages[gone].task>>
    BY <1>10, <1>15 DEF IsMessage
  <2> QED  BY <2>1
<1>18. \A id \in kept :
          /\ IsMessage(id, messages'[id], n) /\ messages'[id].conv = messages[id].conv
          /\ messages'[id].role = messages[id].role /\ messages'[id].position = messages[id].position
          /\ messages'[id].task = messages[id].task
          /\ messages'[id].status = IF messages[id].conv = conv /\ messages[id].status = "waiting_user"
                                    THEN "superseded" ELSE messages[id].status
  BY <1>2, <1>9, <1>10, RowStays
<1>19. /\ messages'[user].conv = conv /\ messages'[user].role = "user" /\ messages'[user].position = place
       /\ messages'[user].status = "completed" /\ messages'[user].task = 0
       /\ messages'[assistant].conv = conv /\ messages'[assistant].role = "assistant"
       /\ messages'[assistant].position = place + 1 /\ messages'[assistant].status = "pending"
       /\ messages'[assistant].task = n
  BY <1>2, RowParts
<1>20. \A t \in DOMAIN tasks \ old :
          /\ tasks'[t].conv = tasks[t].conv /\ tasks'[t] = [conv |-> tasks'[t].conv, status |-> tasks'[t].status]
          /\ tasks'[t].status = IF tasks[t].conv = conv /\ tasks[t].status = "waiting_user"
                                THEN "superseded" ELSE tasks[t].status
  BY <1>3, TaskStays
<1>21. n \notin DOMAIN tasks /\ n \notin old  BY <1>9, <1>11, <1>16
<1>22. tasks'[n].conv = conv /\ tasks'[n].status = "pending" /\ tasks'[n] = [conv |-> tasks'[n].conv, status |-> tasks'[n].status]
  BY <1>3
<1>23. IsMessage(user, messages'[user], n) /\ IsMessage(assistant, messages'[assistant], n)
  <2>1. KnownId(user, conv, n) /\ KnownId(assistant, conv, n)
    <3>1. n \in 1..n  BY <1>9
    <3> QED  BY <3>1 DEF KnownId
  <2>2. place \in Nat /\ place + 1 \in Nat  BY <1>7
  <2>3. n \in 1..n  BY <1>9
  <2>4. /\ messages'[user] = Talks!Row(messages'[user].conv, messages'[user].role, messages'[user].position,
                                       messages'[user].status, messages'[user].task)
        /\ messages'[assistant] = Talks!Row(messages'[assistant].conv, messages'[assistant].role,
                         messages'[assistant].position, messages'[assistant].status, messages'[assistant].task)
    BY <1>2, <1>19
  <2> HIDE DEF n, user
  <2>5. IsMessage(user, messages'[user], n)  BY <1>19, <2>1, <2>2, <2>4 DEF IsMessage
  <2>6. IsMessage(assistant, messages'[assistant], n)  BY <1>19, <2>1, <2>2, <2>3, <2>4 DEF IsMessage
  <2> QED  BY <2>5, <2>6
<1> HIDE DEF user, assistant, n
<1>24. \A d \in Requesters : d # c => request'[d] = request[d]  BY <1>5
<1>25. /\ request'[c].at \in {"idle", "clean"} /\ request'[c].tasks = old /\ request'[c].messages = {}
       /\ (old # {} => request'[c].at = "clean") /\ IsRequest(request'[c], n)
  <2>1. CASE old = {} /\ request'[c] = Talks!Idle
    BY <2>1, <1>9, IdleIs, IdleTyped DEF IdleParts
  <2>2. CASE request'[c] = [at |-> "clean", of |-> "none", tasks |-> old, messages |-> {}]
    <3>1. old \subseteq 1..n  BY <1>9, <1>16
    <3> QED  BY <2>2, <3>1 DEF IsRequest, RequestPlaces
  <2> QED  BY <2>1, <2>2, <1>5
<1>26. torn \subseteq torn' /\ (torn' = {} => torn = {})  BY <1>6
<1>27. RowsTyped'
  <2>1. \A d \in Requesters : IsRequest(request'[d], n)
    BY <1>9, <1>24, <1>25, RequestStays DEF TalksInv, RowsTyped
  <2>2. \A id \in DOMAIN messages' : IsMessage(id, messages'[id], n)  BY <1>2, <1>18, <1>23
  <2>3. \A t \in DOMAIN tasks' : t \in 1..n /\ tasks'[t] = [conv |-> tasks'[t].conv, status |-> tasks'[t].status]
    <3>1. \A t \in 1..spent.sends : t \in 1..n  BY <1>9
    <3>2. n \in 1..n  BY <1>9 DEF n
    <3> QED  BY <3>1, <3>2, <1>3, <1>11, <1>20, <1>22
  <2>4. /\ spent'.sends \in Nat /\ spent'.crashes \in Nat /\ spent'.sends = n
        /\ spent' = [sends |-> spent'.sends, crashes |-> spent'.crashes, deletions |-> spent'.deletions]
    BY <1>6, <1>9
  <2>5. DOMAIN request' = Requesters /\ DOMAIN traces' = Talks!Kinds  BY <1>4, <1>5
  <2> QED  BY <2>1, <2>2, <2>3, <2>4, <2>5 DEF RowsTyped
<1>28. \A id \in kept : messages[id].task # n
  <2> SUFFICES ASSUME NEW id \in kept PROVE messages[id].task # n
    OBVIOUS
  <2>1. messages[id].task = 0 \/ messages[id].task \in 1..spent.sends  BY <1>10 DEF IsMessage
  <2>2. n # 0  BY <1>9 DEF n
  <2> QED  BY <2>1, <2>2, <1>9
<1>29. Together'
  <2>1. ASSUME NEW id \in DOMAIN messages', messages'[id].task \in DOMAIN tasks'
        PROVE  /\ tasks'[messages'[id].task].conv = messages'[id].conv
               /\ \/ messages'[id].status = tasks'[messages'[id].task].status
                  \/ messages'[id].status = "interrupted" /\ tasks'[messages'[id].task].status = "pending"
    <3>1. CASE id \in kept
      <4> DEFINE m == messages[id] task == tasks[m.task]
      <4>1. m.task \in DOMAIN tasks \ old  BY <2>1, <3>1, <1>3, <1>18, <1>28
      <4>2. task.conv = m.conv /\ (m.status = task.status \/ (m.status = "interrupted" /\ task.status = "pending"))
        BY <3>1, <4>1 DEF TalksInv, Together
      <4>3. /\ tasks'[m.task].conv = task.conv
            /\ tasks'[m.task].status = IF task.conv = conv /\ task.status = "waiting_user" THEN "superseded" ELSE task.status
        BY <4>1, <1>20
      <4>4. /\ messages'[id].conv = m.conv /\ messages'[id].task = m.task
            /\ messages'[id].status = IF m.conv = conv /\ m.status = "waiting_user" THEN "superseded" ELSE m.status
        BY <3>1, <1>18
      <4> QED  BY <4>2, <4>3, <4>4
    <3>2. CASE id = user
      <4>1. 0 \notin DOMAIN tasks'  BY <1>3, <1>9, <1>11 DEF n
      <4> QED  BY <2>1, <3>2, <4>1, <1>19
    <3>3. CASE id = assistant  BY <3>3, <1>19, <1>22
    <3> QED  BY <3>1, <3>2, <3>3, <1>2
  <2>2. ASSUME NEW id \in DOMAIN messages', messages'[id].conv \notin torn', messages'[id].status \in Talks!Loading
        PROVE  messages'[id].task \in DOMAIN tasks'
    <3>1. CASE id \in kept
      <4>1. messages[id].status \in Talks!Loading /\ messages[id].conv \notin torn
        BY <2>2, <3>1, <1>18, <1>26 DEF Talks!Loading
      <4>2. messages[id].task \in DOMAIN tasks  BY <3>1, <4>1 DEF TalksInv, Together
      <4> QED  BY <3>1, <4>2, <1>3, <1>17, <1>18
    <3>2. CASE id = user  BY <2>2, <3>2, <1>19 DEF Talks!Loading
    <3>3. CASE id = assistant  BY <3>3, <1>3, <1>19
    <3> QED  BY <3>1, <3>2, <3>3, <1>2
  <2> QED  BY <2>1, <2>2 DEF Together
<1>30. Talks!MessagesOf(conv)' = (talk \ pruned) \cup {user, assistant}
  <2>1. \A id : id \in DOMAIN messages' /\ messages'[id].conv = conv <=> id \in (talk \ pruned) \cup {user, assistant}
    BY <1>2, <1>14, <1>18, <1>19
  <2> QED  BY <2>1 DEF Talks!MessagesOf
<1>31. ASSUME NEW other, other # conv
       PROVE  /\ Talks!MessagesOf(other)' = Talks!MessagesOf(other)
              /\ \A id \in Talks!MessagesOf(other) : id \in kept
              /\ Talks!TasksOf(other)' = Talks!TasksOf(other)
  <2>1. \A id : id \in DOMAIN messages' /\ messages'[id].conv = other <=> id \in DOMAIN messages /\ messages[id].conv = other
    BY <1>2, <1>15, <1>18, <1>19, <1>31
  <2>2. \A t \in DOMAIN tasks : tasks[t].conv = other => t \notin old
    <3> SUFFICES ASSUME NEW t \in DOMAIN tasks, t \in old PROVE tasks[t].conv = conv
      BY <1>31
    <3>1. PICK id \in pruned : t = messages[id].task  BY <1>8
    <3> QED  BY <3>1, <1>15 DEF TalksInv, Together
  <2>3. \A t : t \in DOMAIN tasks' /\ tasks'[t].conv = other <=> t \in DOMAIN tasks /\ tasks[t].conv = other
    BY <2>2, <1>3, <1>20, <1>22, <1>31
  <2>4. \A id \in Talks!MessagesOf(other) : id \in kept  BY <1>15, <1>31 DEF Talks!MessagesOf
  <2> QED  BY <2>1, <2>3, <2>4 DEF Talks!MessagesOf, Talks!TasksOf
<1>32. Seated(conv, 2 * (g + 1))'
  <2>1. PICK h \in Nat : Seated(conv, 2 * h)  BY DEF TalksInv, InTurns
  <2> DEFINE seats == (talk \ pruned) \cup {user, assistant}
  <2>2. \A id \in talk : messages[id].position \in Nat  BY <1>10, <1>14 DEF IsMessage
  <2>3. ASSUME NEW id \in talk \ pruned
        PROVE  /\ messages'[id].position = messages[id].position /\ messages[id].position \in 0..(2 * g - 1)
               /\ messages'[id].role = messages[id].role
               /\ messages'[id].role = IF messages'[id].position % 2 = 0 THEN "user" ELSE "assistant"
    <3>1. id \in kept  BY <1>14
    <3>2. messages[id].position \in Nat /\ ~(messages[id].position >= 2 * g)  BY <1>7, <2>2
    <3>3. messages[id].role = IF messages[id].position % 2 = 0 THEN "user" ELSE "assistant"
      BY <2>1 DEF Seated, talk
    <3> QED  BY <3>1, <3>2, <3>3, <1>18
  <2>4. /\ messages'[user].position = 2 * g /\ messages'[assistant].position = 2 * g + 1
        /\ messages'[user].role = "user" /\ messages'[assistant].role = "assistant"
    BY <1>7, <1>19
  <2>5. \A id \in seats : messages'[id].position < 2 * (g + 1)
    <3>1. \A id \in talk \ pruned : messages'[id].position < 2 * (g + 1)
      <4> SUFFICES ASSUME NEW id \in talk \ pruned PROVE messages'[id].position < 2 * (g + 1)
        OBVIOUS
      <4>1. messages'[id].position \in 0..(2 * g - 1)  BY <2>3
      <4> QED  BY <4>1
    <3> QED  BY <3>1, <2>4
  <2>6. \A p \in 0..(2 * (g + 1) - 1) : \E id \in seats : messages'[id].position = p
    <3> SUFFICES ASSUME NEW p \in 0..(2 * (g + 1) - 1) PROVE \E id \in seats : messages'[id].position = p
      OBVIOUS
    <3>1. p \in 0..(2 * g - 1) \/ p = 2 * g \/ p = 2 * g + 1  OBVIOUS
    <3>2. CASE p \in 0..(2 * g - 1)
      <4>1. PICK id \in talk \ pruned : messages[id].position = p  BY <3>2, <1>7
      <4> QED  BY <4>1, <2>3
    <3> QED  BY <3>1, <3>2, <2>4
  <2>7. \A i, j \in seats : messages'[i].position = messages'[j].position => i = j
    <3>1. \A i, j \in talk \ pruned : messages'[i].position = messages'[j].position => i = j
      BY <2>1, <2>3 DEF Seated, talk
    <3>2. \A id \in talk \ pruned : messages'[id].position # 2 * g /\ messages'[id].position # 2 * g + 1
      <4> SUFFICES ASSUME NEW id \in talk \ pruned
                   PROVE messages'[id].position # 2 * g /\ messages'[id].position # 2 * g + 1
        OBVIOUS
      <4>1. messages'[id].position \in 0..(2 * g - 1)  BY <2>3
      <4> QED  BY <4>1
    <3>3. 2 * g # 2 * g + 1  OBVIOUS
    <3> QED  BY <3>1, <3>2, <3>3, <2>4
  <2>8. \A id \in seats : messages'[id].role = IF messages'[id].position % 2 = 0 THEN "user" ELSE "assistant"
    <3>1. (2 * g) % 2 = 0 /\ (2 * g + 1) % 2 # 0  OBVIOUS
    <3> QED  BY <3>1, <2>3, <2>4
  <2> HIDE DEF seats
  <2>9. Talks!MessagesOf(conv)' = seats  BY <1>30 DEF seats
  <2> QED  BY <2>5, <2>6, <2>7, <2>8, <2>9 DEF Seated
<1>33. \A id \in kept : messages[id].conv = conv /\ messages[id].task \in DOMAIN tasks \ old =>
          tasks'[messages[id].task].status \notin Talks!Active
  <2> SUFFICES ASSUME NEW id \in kept, messages[id].conv = conv, messages[id].task \in DOMAIN tasks \ old
               PROVE  tasks'[messages[id].task].status \notin Talks!Active
    OBVIOUS
  <2> DEFINE t == messages[id].task
  <2>1. tasks[t].conv = conv  BY DEF TalksInv, Together
  <2>2. tasks[t].status \in Talks!Active => tasks[t].status = "waiting_user"
    BY <2>1, <1>1 DEF Talks!ActiveIn, Talks!TasksOf
  <2>3. tasks'[t].status = IF tasks[t].status = "waiting_user" THEN "superseded" ELSE tasks[t].status
    BY <2>1, <1>20
  <2>4. "superseded" \notin Talks!Active  BY DEF Talks!Active
  <2> QED  BY <2>2, <2>3, <2>4
<1>34. InTurns'
  <2>1. ASSUME NEW other
        PROVE  \E h \in Nat : Seated(other, 2 * h)'
    <3>1. CASE other = conv
      <4>1. g + 1 \in Nat  OBVIOUS
      <4> QED  BY <3>1, <4>1, <1>32
    <3>2. CASE other # conv
      <4>1. PICK h \in Nat : Seated(other, 2 * h)  BY DEF TalksInv, InTurns
      <4>2. Talks!MessagesOf(other)' = Talks!MessagesOf(other)  BY <3>2, <1>31
      <4>3. \A id \in Talks!MessagesOf(other) :
               messages'[id].position = messages[id].position /\ messages'[id].role = messages[id].role
        BY <3>2, <1>18, <1>31
      <4>4. Seated(other, 2 * h)'  BY <4>1, <4>2, <4>3, SeatsStay
      <4> QED  BY <4>4
    <3> QED  BY <3>1, <3>2
  <2>2. ASSUME NEW id \in DOMAIN messages', messages'[id].task \in DOMAIN tasks',
               tasks'[messages'[id].task].status \in Talks!Active,
               NEW other \in DOMAIN messages', messages'[other].conv = messages'[id].conv
        PROVE  messages'[other].position <= messages'[id].position
    <3>1. CASE id \in kept
      <4>1. messages[id].task \in DOMAIN tasks \ old /\ messages'[id].task = messages[id].task
        BY <2>2, <3>1, <1>3, <1>18, <1>28
      <4>2. messages[id].conv # conv  BY <2>2, <3>1, <4>1, <1>33
      <4>3. other \in kept /\ messages[other].conv = messages[id].conv  BY <2>2, <3>1, <4>2, <1>2, <1>18, <1>19
      <4>4. tasks[messages[id].task].status \in Talks!Active
        <5>1. tasks[messages[id].task].conv # conv  BY <3>1, <4>1, <4>2 DEF TalksInv, Together
        <5> QED  BY <2>2, <4>1, <5>1, <1>20
      <4>5. messages[other].position <= messages[id].position
        BY <3>1, <4>1, <4>3, <4>4 DEF TalksInv, InTurns, Talks!MessagesOf
      <4> QED  BY <3>1, <4>3, <4>5, <1>18
    <3>2. CASE id = user
      <4>1. 0 \notin DOMAIN tasks'  BY <1>3, <1>9, <1>11 DEF n
      <4> QED  BY <2>2, <3>2, <4>1, <1>19
    <3>3. CASE id = assistant
      <4>1. other \in Talks!MessagesOf(conv)'  BY <2>2, <3>3, <1>19 DEF Talks!MessagesOf
      <4>2. messages'[other].position < 2 * (g + 1)  BY <4>1, <1>32 DEF Seated
      <4>3. messages'[other].position \in Nat  BY <2>2, <1>27 DEF RowsTyped, IsMessage
      <4>4. messages'[id].position = 2 * g + 1  BY <3>3, <1>7, <1>19
      <4> QED  BY <4>2, <4>3, <4>4
    <3> QED  BY <3>1, <3>2, <3>3, <1>2
  <2>3. \A id \in DOMAIN messages' :
          messages'[id].task \in DOMAIN tasks' /\ tasks'[messages'[id].task].status \in Talks!Active =>
          \A other \in Talks!MessagesOf(messages[id].conv)' : messages'[other].position <= messages'[id].position
    BY <2>2 DEF Talks!MessagesOf
  <2> QED  BY <2>1, <2>3 DEF InTurns
<1>35. ASSUME NEW d \in Requesters, request[d].at \notin {"idle", "clean"}, request[d].of \notin torn'
       PROVE  request[d].of # conv
  BY <1>6, <1>35 DEF Talks!Deleting
<1>36. ASSUME NEW d \in Requesters, request'[d].at \notin {"idle", "clean"}
       PROVE  d # c /\ request'[d] = request[d]
  BY <1>24, <1>25, <1>36
<1>37. Deletions'
  <2>1. ASSUME NEW d \in Requesters, request'[d].at \notin Reading, request'[d].of \notin torn'
        PROVE  DeletedBy(request[d])'
    <3>1. request'[d] = request[d] /\ request[d].at \notin {"idle", "clean"}  BY <2>1, <1>36 DEF Reading
    <3>2. ASSUME NEW l, l = request[d]
          PROVE  DeletedBy(l)'
      <4>1. l.of # conv /\ l.at \notin Reading /\ l.of \notin torn  BY <2>1, <3>1, <3>2, <1>26, <1>35
      <4>2. DeletedBy(l)  BY <3>2, <4>1 DEF TalksInv, Deletions
      <4>3. Talks!MessagesOf(l.of)' = Talks!MessagesOf(l.of) /\ Talks!TasksOf(l.of)' = Talks!TasksOf(l.of)
        BY <4>1, <1>31
      <4> DEFINE said == Talks!MessagesOf(l.of) work == Talks!TasksOf(l.of)
      <4>4. user \notin said /\ n \notin work  BY <1>13, <1>21 DEF Talks!MessagesOf, Talks!TasksOf
      <4> HIDE DEF said, work
      <4>5. /\ refs \cap said = {} => refs' \cap said = {}
            /\ index \cap said = {} => index' \cap said = {}
            /\ mirror \cap said = {} => mirror' \cap said = {}
        BY <4>4, <1>4
      <4>6. \A kind \in {"event", "interaction", "state"} : traces[kind] \cap work = {} => traces'[kind] \cap work = {}
        BY <4>4, <1>4 DEF Talks!Kinds
      <4> QED  BY <4>2, <4>3, <4>5, <4>6, <1>6 DEF DeletedBy, said, work
    <3>3. DeletedBy(request[d])' <=> \A l : l = request'[d] => DeletedBy(l)'  BY DEF DeletedBy
    <3> QED  BY <3>1, <3>2, <3>3
  <2>2. ASSUME NEW d \in Requesters, request'[d].at = "read", request'[d].of \notin torn'
        PROVE  request'[d].of \in titles'
    BY <2>2, <1>6, <1>26, <1>36 DEF TalksInv, Deletions
  <2>3. ASSUME NEW d \in Requesters, NEW e \in Requesters, request'[d].at \notin {"idle", "clean"},
               request'[e].at \notin {"idle", "clean"}, request'[d].of = request'[e].of, request'[d].of \notin torn'
        PROVE  d = e
    BY <2>3, <1>26, <1>36 DEF TalksInv, Deletions
  <2> QED  BY <2>1, <2>2, <2>3 DEF Deletions
<1>38. Cleaning' /\ Owned'
  <2>1. ASSUME NEW d \in Requesters, request'[d].at \notin {"idle", "read"}, NEW t \in request'[d].tasks, t \in DOMAIN tasks'
        PROVE  request'[d].at \notin {"title", "clean"} /\ tasks'[t].conv = request'[d].of
    <3>1. CASE d = c  BY <2>1, <3>1, <1>3, <1>21, <1>25
    <3>2. CASE d # c
      <4>1. request'[d] = request[d] /\ t \in 1..spent.sends
        BY <3>2, <2>1, <1>24 DEF TalksInv, RowsTyped, IsRequest
      <4>2. t \in DOMAIN tasks \ old  BY <2>1, <4>1, <1>3, <1>9
      <4>3. request[d].at \notin {"title", "clean"} /\ tasks[t].conv = request[d].of
        BY <2>1, <4>1, <4>2 DEF TalksInv, Cleaning
      <4> QED  BY <4>1, <4>2, <4>3, <1>20
    <3> QED  BY <3>1, <3>2
  <2>2. ASSUME NEW d \in Requesters, NEW id \in request'[d].messages, id \in DOMAIN messages'
        PROVE  messages'[id].conv = request'[d].of
    <3>1. d # c /\ request'[d] = request[d]  BY <2>2, <1>24, <1>25
    <3>2. KnownId(id, request[d].of, spent.sends)  BY <2>2, <3>1 DEF TalksInv, RowsTyped, IsRequest
    <3>3. id \in kept  BY <2>2, <3>2, <1>2, <1>12
    <3> QED  BY <2>2, <3>1, <3>3, <1>18 DEF TalksInv, Owned
  <2> QED  BY <2>1, <2>2 DEF Cleaning, Owned
<1>39. Remembered'
  <2> SUFFICES ASSUME torn = {}, spent.crashes = 0, NEW thread \in threads
               PROVE  \/ thread.task \in DOMAIN tasks'
                      \/ \E d \in Requesters : request'[d].at \notin {"idle", "read"} /\ thread.task \in request'[d].tasks
    BY <1>6, <1>26 DEF Remembered
  <2>1. CASE thread.task \in DOMAIN tasks \ old  BY <2>1, <1>3
  <2>2. CASE thread.task \in old  BY <2>2, <1>25
  <2>3. CASE thread.task \notin DOMAIN tasks
    <3>1. PICK d \in Requesters : request[d].at \notin {"idle", "read"} /\ thread.task \in request[d].tasks
      BY <2>3 DEF TalksInv, Remembered
    <3>2. d # c  BY <3>1, <1>1, IdleIs DEF IdleParts
    <3> QED  BY <3>1, <3>2, <1>24
  <2> QED  BY <2>1, <2>2, <2>3
<1>40. Belonging'
  <2>1. ASSUME torn' = {}
        PROVE  /\ \A id \in refs' \cup index' \cup mirror' : id \in DOMAIN messages'
               /\ \A k \in Talks!Kinds : traces'[k] \subseteq DOMAIN tasks'
    <3>1. \A id \in refs \cup index \cup mirror : id \in DOMAIN messages  BY <2>1, <1>26 DEF TalksInv, Belonging
    <3>2. \A k \in Talks!Kinds : traces[k] \subseteq DOMAIN tasks  BY <2>1, <1>26 DEF TalksInv, Belonging
    <3>3. \A id \in refs' \cup index' \cup mirror' : id \in DOMAIN messages'  BY <3>1, <1>2, <1>4
    <3>4. \A k \in Talks!Kinds : traces'[k] \subseteq DOMAIN tasks'  BY <3>2, <1>3, <1>4
    <3> QED  BY <3>3, <3>4
  <2>2. ASSUME NEW id \in DOMAIN messages', messages'[id].conv \notin torn'
        PROVE  messages'[id].conv \in titles'
    BY <2>2, <1>2, <1>6, <1>18, <1>19, <1>26 DEF TalksInv, Belonging
  <2>3. ASSUME NEW t \in DOMAIN tasks', tasks'[t].conv \notin torn'
        PROVE  tasks'[t].conv \in titles'
    BY <2>3, <1>3, <1>6, <1>20, <1>22, <1>26 DEF TalksInv, Belonging
  <2> QED  BY <2>1, <2>2, <2>3 DEF Belonging
<1>41. Searching'
  <2> SUFFICES ASSUME torn = {}, spent.crashes = 0
               PROVE  /\ index' \subseteq Talks!Said' /\ mirror' \subseteq Talks!Said'
                      /\ \A id \in Talks!Said' : id \notin index' \cap mirror' =>
                            \E d \in Requesters : request'[d].at \notin {"idle", "clean"} /\ request'[d].of = messages'[id].conv
    BY <1>6, <1>26 DEF Searching
  <2>1. Talks!Said' = (Talks!Said \ pruned) \cup {user}
    <3>1. \A id : id \in DOMAIN messages' /\ messages'[id].role = "user" <=> id \in (Talks!Said \ pruned) \cup {user}
      BY <1>2, <1>18, <1>19 DEF Talks!Said
    <3> QED  BY <3>1 DEF Talks!Said
  <2>2. index \subseteq Talks!Said /\ mirror \subseteq Talks!Said  BY DEF TalksInv, Searching
  <2>3. index' \subseteq Talks!Said' /\ mirror' \subseteq Talks!Said'  BY <2>1, <2>2, <1>4
  <2>4. ASSUME NEW id \in Talks!Said', id \notin index' \cap mirror'
        PROVE  \E d \in Requesters : request'[d].at \notin {"idle", "clean"} /\ request'[d].of = messages'[id].conv
    <3>1. id \in Talks!Said /\ id \notin pruned /\ id \notin index \cap mirror  BY <2>1, <2>4, <1>4
    <3>2. id \in kept  BY <3>1 DEF Talks!Said
    <3>3. PICK d \in Requesters : request[d].at \notin {"idle", "clean"} /\ request[d].of = messages[id].conv
      BY <3>1 DEF TalksInv, Searching
    <3>4. d # c  BY <3>3, <1>1, IdleIs DEF IdleParts
    <3> QED  BY <3>2, <3>3, <3>4, <1>18, <1>24
  <2> QED  BY <2>3, <2>4
<1>42. Talks!TasksCanResume'
  <2> SUFFICES ASSUME NEW t \in DOMAIN tasks', tasks'[t].status \in {"running", "waiting_user", "interrupted"}
               PROVE  [task |-> t, of |-> "agent"] \in threads
    BY <1>6 DEF Talks!TasksCanResume
  <2>1. t \in DOMAIN tasks /\ tasks[t].status \in {"running", "waiting_user", "interrupted"}
    BY <1>3, <1>20, <1>22
  <2> QED  BY <2>1 DEF TalksInv, Talks!TasksCanResume
<1> QED  BY <1>27, <1>29, <1>34, <1>37, <1>38, <1>39, <1>40, <1>41, <1>42 DEF TalksInv

LEMMA TalksInitially ==
    ASSUME Talks!Init
    PROVE  TalksInv
<1>1. /\ titles = {} /\ messages = <<>> /\ tasks = <<>> /\ traces = [k \in Talks!Kinds |-> {}]
      /\ refs = {} /\ index = {} /\ mirror = {} /\ threads = {}
      /\ request = [c \in Requesters |-> Talks!Idle] /\ torn = {}
      /\ spent = [sends |-> 0, crashes |-> 0, deletions |-> 0]
  BY DEF Talks!Init
<1>2. DOMAIN messages = {} /\ DOMAIN tasks = {}
  <2>1. DOMAIN <<>> = {}  OBVIOUS
  <2> QED  BY <2>1, <1>1
<1>3. \A c \in Requesters : /\ request[c].at = "idle" /\ request[c].messages = {} /\ request[c].tasks = {}
                            /\ IsRequest(request[c], 0)
  BY <1>1, IdleIs, IdleTyped DEF IdleParts
<1>4. /\ spent.sends = 0 /\ spent.crashes = 0
      /\ spent = [sends |-> spent.sends, crashes |-> spent.crashes, deletions |-> spent.deletions]
  BY <1>1
<1>5. RowsTyped  BY <1>1, <1>2, <1>3, <1>4 DEF RowsTyped
<1>6. \A conv : Talks!MessagesOf(conv) = {}  BY <1>2 DEF Talks!MessagesOf
<1>7. \A conv : Seated(conv, 2 * 0)  BY <1>6 DEF Seated
<1>8. Together /\ InTurns
  BY <1>2, <1>7 DEF Together, InTurns
<1>9. Deletions /\ Cleaning /\ Owned  BY <1>3 DEF Deletions, Cleaning, Owned, Reading
<1>10. Remembered /\ Belonging  BY <1>1, <1>2 DEF Remembered, Belonging
<1>11. Searching  BY <1>1, <1>2 DEF Searching, Talks!Said
<1>12. Talks!TasksCanResume  BY <1>2 DEF Talks!TasksCanResume
<1> QED  BY <1>5, <1>8, <1>9, <1>10, <1>11, <1>12 DEF TalksInv

LEMMA TalksUnchanged ==
    ASSUME TalksInv, UNCHANGED Talks!vars
    PROVE  TalksInv'
<1>1. UNCHANGED <<titles, messages, tasks, traces, refs, index, mirror, threads, request, torn, spent>>
  BY DEF Talks!vars
<1>2. Together' /\ InTurns'  BY <1>1, RowsAlone DEF TalksInv
<1>3. Deletions'
  BY <1>1 DEF TalksInv, Deletions, DeletedBy, Talks!MessagesOf, Talks!TasksOf
<1>4. RowsTyped' /\ Cleaning' /\ Owned' /\ Belonging' /\ Searching' /\ Remembered' /\ Talks!TasksCanResume'
  BY <1>1 DEF TalksInv, RowsTyped, Cleaning, Owned, Belonging, Searching, Remembered, Talks!Said, Talks!TasksCanResume
<1> QED  BY <1>2, <1>3, <1>4 DEF TalksInv

LEMMA TalksStep ==
    ASSUME TalksInv, [Talks!Next]_Talks!vars
    PROVE  TalksInv'
<1>1. CASE UNCHANGED Talks!vars  BY <1>1, TalksUnchanged
<1>2. ASSUME NEW c \in Requesters, NEW conv, Talks!Send(c, conv)
      PROVE  TalksInv'
  BY <1>2, SendDoes, SendKeeps DEF TalksInv
<1>3. ASSUME NEW c \in Requesters, NEW n \in DOMAIN Talks!Tables, Talks!Empty(c, Talks!Tables[n])
      PROVE  TalksInv'
  <2>1. PICK next : Empties(c, Talks!Tables[n], next)  BY <1>3, EmptyDoes DEF TalksInv
  <2> QED  BY <2>1, EmptyKeeps
<1>4. ASSUME NEW id \in DOMAIN messages, NEW conv, Talks!Branch(id, conv)
      PROVE  TalksInv'
  BY <1>4, BranchDoes, BranchKeeps DEF TalksInv
<1>5. CASE Talks!Next
  BY <1>2, <1>3, <1>4, <1>5, CheckKeeps, CleanKeeps, ReadRowsKeeps, LifeKeeps, RestartKeeps, PruneKeeps DEF Talks!Next
<1> QED  BY <1>1, <1>5

LEMMA TalksInvariant ==
    Talks!Spec => []TalksInv
BY TalksInitially, TalksStep, PTL DEF Talks!Spec

\* A conversation is a user and an answer in turns, also after edits and
\* branches, and a task that is not at its end answers the last message
\* (prepare_task, branch_conversation).
THEOREM TalksAreInOrderHolds ==
    Talks!Spec => []Talks!TalksAreInOrder
<1>1. ASSUME TalksInv PROVE Talks!TalksAreInOrder
  <2> SUFFICES ASSUME NEW conv \in Talks!Conversations
               PROVE  LET talk == Talks!MessagesOf(conv)
                          Sits(position) == {id \in talk : messages[id].position = position}
                      IN /\ \A position \in 0..(Talks!Cardinality(talk) - 1) : Talks!Cardinality(Sits(position)) = 1
                         /\ \A id \in talk : messages[id].role = IF messages[id].position % 2 = 0 THEN "user" ELSE "assistant"
                         /\ \A t \in Talks!ActiveIn(conv) : \A id \in Talks!MessagesFor(t) :
                               messages[id].position = Talks!Cardinality(talk) - 1
    BY DEF Talks!TalksAreInOrder
  <2> DEFINE talk == Talks!MessagesOf(conv) Sits(position) == {id \in talk : messages[id].position = position}
  <2>1. \A id \in talk : messages[id].position \in Nat
    BY <1>1 DEF TalksInv, RowsTyped, IsMessage, Talks!MessagesOf
  <2>2. PICK h \in Nat : Seated(conv, 2 * h)  BY <1>1 DEF TalksInv, InTurns
  <2>3. /\ \A id \in talk : messages[id].position < 2 * h
        /\ \A p \in 0..(2 * h - 1) : \E id \in talk : messages[id].position = p
        /\ \A i, j \in talk : messages[i].position = messages[j].position => i = j
        /\ \A id \in talk : messages[id].role = IF messages[id].position % 2 = 0 THEN "user" ELSE "assistant"
    BY <2>2 DEF Seated
  <2>4. 2 * h \in Nat  BY <2>2
  <2>5. IsFiniteSet(talk) /\ Cardinality(talk) = 2 * h  BY <2>1, <2>2, <2>4, TalkIsFinite
  <2>6. \A S : Talks!Cardinality(S) = Cardinality(S)
    BY DEF Talks!Cardinality, Cardinality, Talks!IsFiniteSet, IsFiniteSet
  <2> HIDE DEF talk
  <2>7. \A position \in 0..(Talks!Cardinality(talk) - 1) : Talks!Cardinality(Sits(position)) = 1
    <3> SUFFICES ASSUME NEW position \in 0..(2 * h - 1) PROVE Cardinality(Sits(position)) = 1
      BY <2>5, <2>6
    <3>1. PICK id \in talk : messages[id].position = position  BY <2>3
    <3>2. Sits(position) = {id}  BY <3>1, <2>3
    <3> QED  BY <3>2, FS_Singleton
  <2>8. ASSUME NEW t \in Talks!ActiveIn(conv), NEW id \in Talks!MessagesFor(t)
        PROVE  messages[id].position = Talks!Cardinality(talk) - 1
    <3>1. /\ id \in DOMAIN messages /\ messages[id].task = t /\ t \in DOMAIN tasks /\ tasks[t].conv = conv
          /\ tasks[t].status \in Talks!Active
      BY DEF Talks!ActiveIn, Talks!TasksOf, Talks!MessagesFor
    <3>2. messages[id].conv = conv  BY <1>1, <3>1 DEF TalksInv, Together
    <3>3. id \in talk  BY <3>1, <3>2 DEF talk, Talks!MessagesOf
    <3>4. \A other \in talk : messages[other].position <= messages[id].position
      BY <1>1, <3>1, <3>2 DEF TalksInv, InTurns, talk
    <3>5. messages[id].position \in Nat /\ messages[id].position < 2 * h  BY <3>3, <2>1, <2>3
    <3>6. 2 * h - 1 \in 0..(2 * h - 1)  BY <3>5
    <3>7. PICK other \in talk : messages[other].position = 2 * h - 1  BY <3>6, <2>3
    <3>8. messages[id].position = 2 * h - 1  BY <3>4, <3>5, <3>7
    <3> QED  BY <3>8, <2>5, <2>6
  <2> QED  BY <2>3, <2>7, <2>8 DEF talk
<1> QED  BY <1>1, TalksInvariant, PTL

\* Nothing is shown as loading that no task will ever finish, in a branch least
\* (branch_conversation, _recover_interrupted_tasks).
THEOREM NothingLoadsForeverHolds ==
    Talks!Spec => []Talks!NothingLoadsForever
<1>1. ASSUME TalksInv PROVE Talks!NothingLoadsForever
  <2> SUFFICES ASSUME NEW id \in DOMAIN messages, messages[id].conv \notin torn, messages[id].status \in Talks!Loading
               PROVE  messages[id].task \in DOMAIN tasks /\ tasks[messages[id].task].status \in Talks!Active
    BY DEF Talks!NothingLoadsForever
  <2>1. messages[id].task \in DOMAIN tasks  BY <1>1 DEF TalksInv, Together
  <2>2. \/ messages[id].status = tasks[messages[id].task].status
        \/ messages[id].status = "interrupted" /\ tasks[messages[id].task].status = "pending"
    BY <1>1, <2>1 DEF TalksInv, Together
  <2> QED  BY <2>1, <2>2 DEF Talks!Loading, Talks!Active
<1> QED  BY <1>1, TalksInvariant, PTL

\* A task that began and is not at its end has the checkpoint it goes on from
\* (prune_stale_threads, delete_thread_family).
THEOREM TasksCanResumeHolds ==
    Talks!Spec => []Talks!TasksCanResume
<1>1. TalksInv => Talks!TasksCanResume  BY DEF TalksInv
<1> QED  BY <1>1, TalksInvariant, PTL

\* Rows, and checkpoint threads, do not outlive what they belong to, whatever a
\* deletion has done so far (delete_conversation, prepare_task).
THEOREM NoOrphansHolds ==
    Talks!Spec => []Talks!NoOrphans
<1>1. ASSUME TalksInv, torn = {}
      PROVE  /\ \A id \in refs \cup index : Talks!Of(id)
             /\ \A k \in Talks!Kinds : traces[k] \subseteq DOMAIN tasks
             /\ \A id \in DOMAIN messages : messages[id].conv \in titles
             /\ \A t \in DOMAIN tasks : tasks[t].conv \in titles
  BY <1>1 DEF TalksInv, Belonging, Talks!Of
<1>2. ASSUME TalksInv, torn = {}, spent.crashes = 0, \A c \in Requesters : request[c] = Talks!Idle, NEW thread \in threads
      PROVE  thread.task \in DOMAIN tasks
  <2>1. \A c \in Requesters : request[c].at = "idle"  BY <1>2, IdleIs DEF IdleParts
  <2> QED  BY <1>2, <2>1 DEF TalksInv, Remembered
<1>3. TalksInv => Talks!NoOrphans  BY <1>1, <1>2 DEF Talks!NoOrphans
<1> QED  BY <1>3, TalksInvariant, PTL

\* What users said, and nothing else, is found by short words and by longer
\* ones (prepare_task, branch_conversation, remove_messages).
THEOREM SearchIsExactHolds ==
    Talks!Spec => []Talks!SearchIsExact
<1>1. ASSUME TalksInv, torn = {}, spent.crashes = 0, \A c \in Requesters : request[c].at \in {"idle", "clean"}
      PROVE  /\ index = Talks!Said /\ mirror = Talks!Said
             /\ \A id \in Talks!Said : /\ Talks!Found(index, {id}) = {messages[id].conv}
                                       /\ Talks!Found(mirror, {id}) = {messages[id].conv}
  <2>1. index \subseteq Talks!Said /\ mirror \subseteq Talks!Said  BY <1>1 DEF TalksInv, Searching
  <2>2. \A id \in Talks!Said : id \in index \cap mirror  BY <1>1 DEF TalksInv, Searching
  <2>3. index = Talks!Said /\ mirror = Talks!Said  BY <2>1, <2>2
  <2>4. \A id \in Talks!Said : messages[id].conv \in titles  BY <1>1 DEF TalksInv, Belonging, Talks!Said
  <2> QED  BY <2>3, <2>4 DEF Talks!Found
<1>2. TalksInv => Talks!SearchIsExact  BY <1>1 DEF Talks!SearchIsExact
<1> QED  BY <1>2, TalksInvariant, PTL
=============================================================================
