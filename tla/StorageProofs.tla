----------------------------- MODULE StorageProofs -----------------------------
(***************************************************************************)
(* Calls on a simulated account that take turns keep the promise of         *)
(* OrderBook, for any number of orders, calls and dates, if processes die   *)
(* or the account is reset, but not both; and what is booked was decided,   *)
(* and once.  Then the mirror of a broker's account (BrokerMirror); the     *)
(* permanent cache of history (HistoryCache): what it calls covered it has,  *)
(* what it holds of a day it holds for good, and it answers with every day   *)
(* asked for; and the files of agents (Artifacts): records can be read, a    *)
(* call delivers the files it was asked for, and a call that is repeated     *)
(* leaves them once.                                                        *)
(***************************************************************************)
EXTENDS SimulationAccount, SequenceTheorems, FiniteSetTheorems, WellFoundedInduction, TLAPS

Book == INSTANCE OrderBook WITH fate <- [o \in Orders |-> FateOf(o)]

LEMMA FreshIsAnAccount ==
    ASSUME LastDate \in Nat
    PROVE  Fresh \in Accounts /\ Idle \in Calls
<1>1. 0 \in Dates /\ NoBookings \in [Orders -> Nat]  BY DEF Dates, NoBookings
<1>2. Fresh \in Accounts  BY <1>1 DEF Fresh, Accounts, AccountStatuses, Capitals
<1> QED  BY <1>1, <1>2 DEF Idle, Calls, Phases, Outcomes

LEMMA CopiesAreAccounts ==
    ASSUME NEW a \in Accounts
    PROVE  /\ \A s \in AccountStatuses : [a EXCEPT !.status = s] \in Accounts
           /\ \A d \in Dates : [a EXCEPT !.date = d] \in Accounts
           /\ \A k \in Capitals : [a EXCEPT !.capital = k] \in Accounts
           /\ \A o \in Orders, d \in Dates : Booked(a, o, d) \in Accounts
<1>1. /\ \A s \in AccountStatuses : [a EXCEPT !.status = s] \in Accounts
      /\ \A d \in Dates : [a EXCEPT !.date = d] \in Accounts
      /\ \A k \in Capitals : [a EXCEPT !.capital = k] \in Accounts
  BY DEF Accounts
<1>2. ASSUME NEW o \in Orders, NEW d \in Dates
      PROVE  Booked(a, o, d) \in Accounts
  <2> DEFINE more == [a.booked EXCEPT ![o] = @ + 1]
  <2>1. a.booked \in [Orders -> Nat]  BY DEF Accounts
  <2>2. more \in [Orders -> Nat]  BY <2>1
  <2>3. Booked(a, o, d) = [a EXCEPT !.booked = more, !.date = d]
    BY DEF Booked
  <2> HIDE DEF more
  <2> QED  BY <2>2, <2>3 DEF Accounts
<1> QED  BY <1>1, <1>2

LEMMA CallsAreClosed ==
    ASSUME LastDate \in Nat, NEW k \in Calls
    PROVE  /\ \A p \in Phases : [k EXCEPT !.at = p] \in Calls
           /\ \A p \in Phases, a \in Accounts : [Idle EXCEPT !.at = "save", !.then = p, !.doc = a] \in Calls
           /\ \A a \in Accounts, d \in Dates :
                 [Idle EXCEPT !.at = "save", !.then = "list", !.doc = a, !.date = d, !.mark = TRUE] \in Calls
           /\ \A o \in Orders : /\ [Idle EXCEPT !.at = "account", !.about = {o}] \in Calls
                                /\ [Idle EXCEPT !.at = "row", !.about = {o}, !.outcome = "cancelled"] \in Calls
           /\ \A o \in Orders, d \in Dates, m \in BOOLEAN, t \in SUBSET Orders :
                 [Idle EXCEPT !.at = "fill", !.about = {o}, !.date = d, !.mark = m, !.todo = t] \in Calls
           /\ \A a \in Accounts :
                 [k EXCEPT !.at = "save", !.then = "row", !.outcome = "filled", !.doc = a] \in Calls
           /\ [k EXCEPT !.at = "row", !.outcome = "rejected"] \in Calls
           /\ \A t \in SUBSET Orders : [k EXCEPT !.at = "next", !.todo = t] \in Calls
<1>1. Idle \in Calls  BY FreshIsAnAccount
<1>2. {"account", "save", "list", "row", "fill", "next"} \subseteq Phases  BY DEF Phases
<1>3. Outcomes = {"filled", "cancelled", "rejected"}  BY DEF Outcomes
<1>4. \A p \in Phases : [k EXCEPT !.at = p] \in Calls  BY DEF Calls
<1>5. /\ \A p \in Phases, a \in Accounts : [Idle EXCEPT !.at = "save", !.then = p, !.doc = a] \in Calls
      /\ \A a \in Accounts, d \in Dates :
            [Idle EXCEPT !.at = "save", !.then = "list", !.doc = a, !.date = d, !.mark = TRUE] \in Calls
  BY <1>1, <1>2 DEF Calls
<1>6. \A o \in Orders : /\ [Idle EXCEPT !.at = "account", !.about = {o}] \in Calls
                        /\ [Idle EXCEPT !.at = "row", !.about = {o}, !.outcome = "cancelled"] \in Calls
  BY <1>1, <1>2, <1>3 DEF Calls
<1>7. \A o \in Orders, d \in Dates, m \in BOOLEAN, t \in SUBSET Orders :
         [Idle EXCEPT !.at = "fill", !.about = {o}, !.date = d, !.mark = m, !.todo = t] \in Calls
  BY <1>1, <1>2 DEF Calls
<1>8. /\ \A a \in Accounts :
            [k EXCEPT !.at = "save", !.then = "row", !.outcome = "filled", !.doc = a] \in Calls
      /\ [k EXCEPT !.at = "row", !.outcome = "rejected"] \in Calls
      /\ \A t \in SUBSET Orders : [k EXCEPT !.at = "next", !.todo = t] \in Calls
  BY <1>2, <1>3 DEF Calls
<1> QED  BY <1>4, <1>5, <1>6, <1>7, <1>8

LEMMA CallChanges ==
    ASSUME TypeOK, NEW c \in Callers, NEW next \in Calls, To(c, next)
    PROVE  call' \in [Callers -> Calls] /\ call'[c] = next
BY DEF TypeOK, To

LEMMA SpendKeepsTypes ==
    ASSUME TypeOK, NEW what \in {"calls", "resets", "crashes"}, Spend(what)
    PROVE  used' \in [calls : Nat, resets : Nat, crashes : Nat]
BY DEF TypeOK, Spend

\* Every variable keeps its type, whatever calls run at once (simulation_account.py).
THEOREM TypeCorrect ==
    ASSUME LastDate \in Nat
    PROVE  Spec => []TypeOK
<1>1. Init => TypeOK
  <2> SUFFICES ASSUME Init PROVE TypeOK
    OBVIOUS
  <2>1. doc \in Accounts /\ call \in [Callers -> Calls]  BY FreshIsAnAccount DEF Init
  <2> QED  BY <2>1 DEF Init, TypeOK, RowStatuses
<1>2. TypeOK /\ [Next]_vars => TypeOK'
  <2> SUFFICES ASSUME TypeOK, [Next]_vars PROVE TypeOK'
    OBVIOUS
  <2>0. /\ doc \in Accounts /\ \A c \in Callers : call[c] \in Calls
        /\ Idle \in Calls /\ Fresh \in Accounts
    BY FreshIsAnAccount DEF TypeOK
  <2>a. {"idle", "save", "list", "row", "purge", "insert", "next"} \subseteq Phases /\ Dates \ {0} \subseteq Dates
    BY DEF Phases
  <2>1. CASE UNCHANGED vars
    BY <2>1 DEF vars, TypeOK
  \* What is left to show of a step that changes neither the document nor a row.
  <2>b. ASSUME NEW c \in Callers, NEW next \in Calls, To(c, next), UNCHANGED <<doc, rows>>,
               UNCHANGED used \/ Spend("calls") \/ Spend("resets") \/ Spend("crashes")
        PROVE  TypeOK'
    BY <2>b, CallChanges, SpendKeepsTypes DEF TypeOK
  <2>2. ASSUME NEW c \in Callers, SetStatus(c) \/ AdvanceDate(c) \/ UpdateConfig(c) \/ Reset(c)
        PROVE  TypeOK'
    <3>1. \E a \in Accounts, then \in {"idle", "purge"} : Edit(c, a, then)
      BY <2>0, <2>2, CopiesAreAccounts
      DEF SetStatus, AdvanceDate, UpdateConfig, Reset, WithStatus, WithDate, WithCapital, Accounts
    <3>2. PICK a \in Accounts, then \in {"idle", "purge"} : Edit(c, a, then)
      BY <3>1
    <3>3. [Idle EXCEPT !.at = "save", !.then = then, !.doc = a] \in Calls
      BY <2>0, <2>a, CallsAreClosed
    <3> QED  BY <2>2, <2>b, <3>2, <3>3 DEF SetStatus, AdvanceDate, UpdateConfig, Reset, Edit, Begins
  <2>3. ASSUME NEW c \in Callers, Mark(c)
        PROVE  TypeOK'
    <3>1. PICK date \in Dates \ {0} :
            To(c, [Idle EXCEPT !.at = "save", !.then = "list", !.doc = WithDate(date), !.date = date, !.mark = TRUE])
      BY <2>3 DEF Mark
    <3>2. WithDate(date) \in Accounts  BY <2>0, CopiesAreAccounts DEF WithDate
    <3>3. [Idle EXCEPT !.at = "save", !.then = "list", !.doc = WithDate(date), !.date = date, !.mark = TRUE] \in Calls
      BY <2>0, <3>2, CallsAreClosed
    <3> QED  BY <2>3, <2>b, <3>1, <3>3 DEF Mark, Begins
  <2>4. ASSUME NEW c \in Callers, SaveAccount(c)
        PROVE  TypeOK'
    <3>1. call[c].doc \in Accounts /\ call[c].then \in Phases  BY <2>0 DEF Calls
    <3>2. [call[c] EXCEPT !.at = call[c].then] \in Calls  BY <2>0, <3>1, CallsAreClosed
    <3> QED  BY <2>4, <3>1, <3>2, CallChanges DEF SaveAccount, IsAt, TypeOK
  <2>5. ASSUME NEW c \in Callers, DeleteOrders(c)
        PROVE  TypeOK'
    BY <2>0, <2>5, CallChanges DEF DeleteOrders, IsAt, Ends, TypeOK, RowStatuses
  <2>6. ASSUME NEW c \in Callers, CreateAllowed(c) \/ Crash(c)
        PROVE  TypeOK'
    <3>1. [call[c] EXCEPT !.at = "insert"] \in Calls  BY <2>0, <2>a, CallsAreClosed
    <3> QED  BY <2>0, <2>6, <2>b, <3>1 DEF CreateAllowed, Crash, IsAt, Ends
  <2>7. ASSUME NEW c \in Callers, NEW o \in Orders, NEW d \in Dates, NEW m \in BOOLEAN, NEW t \in SUBSET Orders,
               ReadOrder(c, o, d, m, t), UNCHANGED used \/ Spend("calls")
        PROVE  TypeOK'
    <3>1. [Idle EXCEPT !.at = "fill", !.about = {o}, !.date = d, !.mark = m, !.todo = t] \in Calls
      BY <2>0, CallsAreClosed
    <3> QED  BY <2>7, <2>b, <3>1 DEF ReadOrder
  <2>8. ASSUME NEW c \in Callers, ListOrders(c)
        PROVE  TypeOK'
    <3>1. PICK t \in SUBSET {o \in Orders : Fillable(o)} : To(c, [call[c] EXCEPT !.at = "next", !.todo = t])
      BY <2>8 DEF ListOrders
    <3>2. [call[c] EXCEPT !.at = "next", !.todo = t] \in Calls  BY <2>0, CallsAreClosed
    <3> QED  BY <2>8, <2>b, <3>1, <3>2 DEF ListOrders, IsAt
  <2>9. ASSUME NEW c \in Callers, FillNext(c)
        PROVE  TypeOK'
    <3>1. call[c].todo \subseteq Orders /\ call[c].date \in Dates  BY <2>0 DEF Calls
    <3>2. CASE Ends(c) /\ UNCHANGED <<doc, rows>>
      BY <2>0, <2>9, <2>b, <3>2 DEF FillNext, IsAt, Ends
    <3>3. ASSUME NEW o \in call[c].todo, ReadOrder(c, o, call[c].date, TRUE, call[c].todo \ {o})
          PROVE  TypeOK'
      <4>1. o \in Orders /\ call[c].todo \ {o} \in SUBSET Orders  BY <3>1
      <4> QED  BY <2>7, <2>9, <3>1, <3>3, <4>1 DEF FillNext, IsAt
    <3> QED  BY <2>9, <3>2, <3>3 DEF FillNext
  <2>10. ASSUME NEW c \in Callers, NEW o \in Orders, Create(c, o) \/ Cancel(c, o)
         PROVE  TypeOK'
    <3>1. /\ [Idle EXCEPT !.at = "account", !.about = {o}] \in Calls
          /\ [Idle EXCEPT !.at = "row", !.about = {o}, !.outcome = "cancelled"] \in Calls
      BY <2>0, CallsAreClosed
    <3> QED  BY <2>10, <2>b, <3>1 DEF Create, Cancel, Begins
  <2>11. ASSUME NEW c \in Callers, NEW o \in Orders, Insert(c, o)
         PROVE  TypeOK'
    BY <2>0, <2>11, CallChanges DEF Insert, IsAt, Ends, TypeOK, RowStatuses
  <2>12. ASSUME NEW c \in Callers, NEW o \in Orders, Fill(c, o)
         PROVE  TypeOK'
    <3>1. PICK d \in Dates \ {0} : ReadOrder(c, o, d, FALSE, {})  BY <2>12 DEF Fill
    <3>2. d \in Dates /\ {} \in SUBSET Orders /\ Spend("calls")  BY <2>12, <2>a DEF Fill, Begins
    <3> QED  BY <2>7, <3>1, <3>2
  <2>13. ASSUME NEW c \in Callers, NEW o \in Orders, Trade(c, o)
         PROVE  TypeOK'
    <3>1. call[c].date \in Dates  BY <2>0 DEF Calls
    <3>2. Booked(doc, o, call[c].date) \in Accounts  BY <2>0, <3>1, CopiesAreAccounts
    <3>3. /\ [call[c] EXCEPT !.at = "save", !.then = "row", !.outcome = "filled",
                             !.doc = Booked(doc, o, call[c].date)] \in Calls
          /\ [call[c] EXCEPT !.at = "row", !.outcome = "rejected"] \in Calls
      BY <2>0, <3>2, CallsAreClosed
    <3> QED  BY <2>13, <2>b, <3>3 DEF Trade, IsAt
  <2>14. ASSUME NEW c \in Callers, NEW o \in Orders, SaveOrder(c, o)
         PROVE  TypeOK'
    <3>1. call[c].outcome \in RowStatuses  BY <2>0 DEF Calls, RowStatuses
    <3>2. rows' \in [Orders -> RowStatuses]  BY <2>14, <3>1 DEF SaveOrder, TypeOK
    <3>3. [call[c] EXCEPT !.at = "next"] \in Calls  BY <2>0, <2>a, CallsAreClosed
    <3> QED  BY <2>0, <2>14, <3>2, <3>3, CallChanges DEF SaveOrder, IsAt, Ends, TypeOK
  <2> QED
    BY <2>1, <2>2, <2>3, <2>4, <2>5, <2>6, <2>8, <2>9, <2>10, <2>11, <2>12, <2>13, <2>14 DEF Next
<1> QED  BY <1>1, <1>2, PTL DEF Spec

-----------------------------------------------------------------------------
\* What the caller whose turn it is has to keep between two statements: which
\* orders are booked and what their rows say, and what it is about to write.
Saves(k, then) == k.at = "save" /\ k.then = then
BookedHaveRows == \A o \in Orders : doc.booked[o] > 0 => rows[o] # "none"
FilledAreBooked(c) ==
    call[c].at # "purge" => \A o \in Orders : rows[o] = "filled" => doc.booked[o] > 0
BookedAreFilled(c) ==
    used.crashes = 0 => \A o \in Orders : doc.booked[o] > 0 =>
        \/ rows[o] = "filled"
        \/ call[c].at = "row" /\ call[c].outcome = "filled" /\ o \in call[c].about
AboutOne(c) ==
    call[c].at \in {"fill", "row"} \/ Saves(call[c], "row") =>
        \E o \in Orders : call[c].about = {o} /\ rows[o] = "pending"
WillSave(c) ==
    /\ call[c].at = "save" => call[c].then \in {"idle", "list", "purge", "row"}
    /\ Saves(call[c], "idle") \/ Saves(call[c], "list") => call[c].doc.booked = doc.booked
    /\ Saves(call[c], "purge") => call[c].doc.booked = NoBookings /\ used.resets # 0
    /\ Saves(call[c], "row") =>
          /\ call[c].outcome = "filled"
          /\ \A o \in call[c].about : call[c].doc.booked = [doc.booked EXCEPT ![o] = @ + 1]
    /\ call[c].at = "row" /\ call[c].outcome = "filled" => \A o \in call[c].about : doc.booked[o] > 0
    /\ call[c].at = "purge" => doc.booked = NoBookings /\ used.resets # 0
Kept(c) ==
    /\ BookedHaveRows /\ FilledAreBooked(c) /\ BookedAreFilled(c)
    /\ AboutOne(c) /\ WillSave(c)
Inv == \A c \in Callers : Kept(c)

\* Processes died or the account was reset, but not both.
CutOrReset == used.crashes = 0 \/ used.resets = 0
LEMMA Counts ==
    ASSUME TypeOK, NEW c \in Callers,
           \/ SetStatus(c) \/ AdvanceDate(c) \/ UpdateConfig(c) \/ SaveAccount(c)
           \/ Reset(c) \/ DeleteOrders(c) \/ CreateAllowed(c)
           \/ Mark(c) \/ ListOrders(c) \/ FillNext(c) \/ Crash(c)
           \/ \E o \in Orders : Create(c, o) \/ Insert(c, o) \/ Fill(c, o) \/ Trade(c, o)
                                \/ SaveOrder(c, o) \/ Cancel(c, o)
    PROVE  /\ used.resets # 0 => used'.resets # 0
           /\ Reset(c) => used'.resets # 0
           /\ Crash(c) \/ used'.crashes = used.crashes
           /\ Crash(c) => used'.crashes # 0
<1>1. used \in [calls : Nat, resets : Nat, crashes : Nat]  BY DEF TypeOK
<1>2. Spend("calls") => used'.resets = used.resets /\ used'.crashes = used.crashes
  BY <1>1 DEF Spend
<1>3. Spend("resets") => used'.resets = used.resets + 1 /\ used'.crashes = used.crashes
  BY <1>1 DEF Spend
<1>4. Spend("crashes") => used'.resets = used.resets /\ used'.crashes = used.crashes + 1
  BY <1>1 DEF Spend
<1>5. Reset(c) => Spend("resets")  BY DEF Reset
<1>6. Crash(c) => Spend("crashes")  BY DEF Crash
<1>7. Reset(c) \/ Crash(c) \/ UNCHANGED used \/ Spend("calls")
  BY DEF SetStatus, AdvanceDate, UpdateConfig, SaveAccount, DeleteOrders, CreateAllowed, Mark, ListOrders, FillNext,
         Create, Insert, Fill, Trade, SaveOrder, Cancel, Begins, IsAt
<1> QED  BY <1>1, <1>2, <1>3, <1>4, <1>5, <1>6, <1>7

\* The calls that open nothing, book nothing and decide nothing.
Plain == {"idle", "account", "insert", "list", "next"}
LEMMA PlainSteps ==
    ASSUME NEW c \in Callers, Callers = {c}, TypeOK, Inv, UNCHANGED rows, doc'.booked = doc.booked,
           (call[c].at # "row" /\ used'.crashes = used.crashes) \/ used'.crashes # 0, call[c].at # "purge",
           \/ call'[c].at \in Plain
           \/ call'[c].at = "fill" /\ \E o \in Orders : call'[c].about = {o} /\ rows[o] = "pending"
           \/ /\ call'[c].at = "save" /\ call'[c].then \in {"idle", "list"}
              /\ call'[c].doc.booked = doc.booked
    PROVE  Inv' /\ UNCHANGED [o \in Orders |-> FateOf(o)]
<1>1. UNCHANGED [o \in Orders |-> FateOf(o)]  BY DEF FateOf
<1>2. Kept(c)  BY DEF Inv
<1>3. BookedHaveRows' /\ FilledAreBooked(c)'
  BY <1>2 DEF Kept, BookedHaveRows, FilledAreBooked
<1>4. BookedAreFilled(c)'
  BY <1>2 DEF Kept, BookedAreFilled
<1>5. AboutOne(c)' /\ WillSave(c)'
  BY <1>2 DEF Kept, AboutOne, WillSave, Saves, Plain
<1> QED  BY <1>1, <1>3, <1>4, <1>5 DEF Inv, Kept

LEMMA Moves ==
    ASSUME TypeOK, NEW c \in Callers, NEW next, To(c, next)
    PROVE  call'[c] = next
BY DEF TypeOK, To

\* Calls that take turns keep Inv and the promise of OrderBook, if processes die or
\* the account is reset, but not both.
LEMMA InTurn ==
    ASSUME LastDate \in Nat, \A c, e \in Callers : c = e
    PROVE  Spec /\ []CutOrReset => []Inv /\ Book!Spec
<1> DEFINE fates == [o \in Orders |-> FateOf(o)]
<1>1. Init => Book!Init /\ Inv
  <2> SUFFICES ASSUME Init PROVE Book!Init /\ Inv
    OBVIOUS
  <2>1. doc.booked = NoBookings /\ \A o \in Orders : doc.booked[o] = 0 /\ rows[o] = "none"
    BY DEF Init, Fresh, NoBookings
  <2>2. \A c \in Callers : call[c].at = "idle"  BY DEF Init, Idle
  <2>3. Book!Init  BY <2>1 DEF Book!Init, FateOf
  <2>4. Inv
    BY <2>1, <2>2 DEF Inv, Kept, BookedHaveRows, FilledAreBooked, BookedAreFilled, AboutOne, WillSave, Saves
  <2> QED  BY <2>3, <2>4
<1>2. TypeOK /\ Inv /\ CutOrReset' /\ [Next]_vars => Inv' /\ [Book!Next]_fates
  <2> SUFFICES ASSUME TypeOK, Inv, CutOrReset', [Next]_vars PROVE Inv' /\ [Book!Next]_fates
    OBVIOUS
  <2>1. CASE UNCHANGED vars
    <3>1. UNCHANGED fates  BY <2>1 DEF vars, FateOf
    <3>2. Inv'
      BY <2>1 DEF vars, Inv, Kept, BookedHaveRows, FilledAreBooked, BookedAreFilled, AboutOne, WillSave, Saves
    <3> QED  BY <3>1, <3>2
  <2>2. ASSUME NEW c \in Callers,
               \/ SetStatus(c) \/ AdvanceDate(c) \/ UpdateConfig(c) \/ SaveAccount(c)
               \/ Reset(c) \/ DeleteOrders(c) \/ CreateAllowed(c)
               \/ Mark(c) \/ ListOrders(c) \/ FillNext(c) \/ Crash(c)
               \/ \E o \in Orders : Create(c, o) \/ Insert(c, o) \/ Fill(c, o) \/ Trade(c, o)
                                    \/ SaveOrder(c, o) \/ Cancel(c, o)
        PROVE  Inv' /\ [Book!Next]_fates
    <3>0. /\ Callers = {c} /\ Kept(c) /\ call[c] \in Calls /\ doc \in Accounts
          /\ doc.booked \in [Orders -> Nat] /\ rows \in [Orders -> RowStatuses]
      BY DEF Inv, TypeOK, Accounts
    <3>a. Idle.at = "idle"  BY DEF Idle
    <3>b. /\ used.resets # 0 => used'.resets # 0 /\ used'.crashes = 0
          /\ Reset(c) => used'.resets # 0
          /\ Crash(c) \/ used'.crashes = used.crashes
          /\ Crash(c) => used'.crashes # 0
      BY <2>2, Counts DEF CutOrReset
    \* A status, a date or a capital on a copy, a mark that begins.
    <3>1. CASE SetStatus(c) \/ AdvanceDate(c) \/ UpdateConfig(c)
      <4>1. PICK a : a.booked = doc.booked /\ Edit(c, a, "idle")
        BY <3>0, <3>b, <3>1 DEF SetStatus, AdvanceDate, UpdateConfig, WithStatus, WithDate, WithCapital, Accounts
      <4> DEFINE next == [Idle EXCEPT !.at = "save", !.then = "idle", !.doc = a]
      <4>2. next.at = "save" /\ next.then = "idle" /\ next.doc = a  BY DEF Idle
      <4>3. call'[c] = next /\ UNCHANGED <<doc, rows>>  BY <4>1, Moves DEF Edit
      <4>4. call[c].at = "idle"  BY <3>1 DEF SetStatus, AdvanceDate, UpdateConfig, Begins
      <4> HIDE DEF next
      <4> QED  BY <3>0, <3>b, <4>1, <4>2, <4>3, <4>4, PlainSteps
    <3>2. CASE Mark(c)
      <4>1. PICK d \in Dates \ {0} :
              To(c, [Idle EXCEPT !.at = "save", !.then = "list", !.doc = WithDate(d), !.date = d, !.mark = TRUE])
        BY <3>2 DEF Mark
      <4> DEFINE next == [Idle EXCEPT !.at = "save", !.then = "list", !.doc = WithDate(d), !.date = d, !.mark = TRUE]
      <4>2. next.at = "save" /\ next.then = "list" /\ next.doc = WithDate(d)  BY DEF Idle
      <4>3. WithDate(d).booked = doc.booked  BY <3>0 DEF WithDate, Accounts
      <4>4. call'[c] = next /\ UNCHANGED <<doc, rows>> /\ call[c].at = "idle"
        BY <3>2, <4>1, Moves DEF Mark, Begins
      <4> HIDE DEF next
      <4> QED  BY <3>0, <3>b, <4>2, <4>3, <4>4, PlainSteps
    \* A reset has its copy, saves it, and deletes the rows.
    <3>3. CASE Reset(c)
      <4> DEFINE a == [Fresh EXCEPT !.capital = doc.capital]
      <4>1. a.booked = NoBookings  BY DEF Fresh
      <4>2. used'.resets # 0  BY <3>3, <3>b
      <4> DEFINE next == [Idle EXCEPT !.at = "save", !.then = "purge", !.doc = a]
      <4>3. next.at = "save" /\ next.then = "purge" /\ next.doc = a  BY DEF Idle
      <4>4. call'[c] = next /\ UNCHANGED <<doc, rows>> /\ call[c].at = "idle"
        BY <3>3, Moves DEF Reset, Edit
      <4> HIDE DEF next, a
      <4>5. Kept(c)'
        BY <3>0, <3>b, <4>1, <4>2, <4>3, <4>4
        DEF Kept, BookedHaveRows, FilledAreBooked, BookedAreFilled, AboutOne, WillSave, Saves
      <4>6. UNCHANGED fates  BY <4>4 DEF FateOf
      <4> QED  BY <3>0, <3>b, <4>5, <4>6 DEF Inv
    <3>4. CASE DeleteOrders(c)
      <4>1. call[c].at = "purge" /\ UNCHANGED doc /\ \A o \in Orders : rows'[o] = "none"
        BY <3>4 DEF DeleteOrders, IsAt
      <4>2. \A o \in Orders : doc.booked[o] = 0  BY <3>0, <3>b, <4>1 DEF Kept, WillSave, NoBookings
      <4>3. call'[c].at = "idle"  BY <3>4, <3>a, Moves DEF DeleteOrders, Ends
      <4>4. Kept(c)'
        BY <4>1, <4>2, <4>3
        DEF Kept, BookedHaveRows, FilledAreBooked, BookedAreFilled, AboutOne, WillSave, Saves
      <4>5. fates' = [o \in Orders |-> IF fates[o] \in Book!Fates THEN "none" ELSE fates[o]]
        <5>1. \A o \in Orders : fates[o] \in Book!Fates
          BY <3>0 DEF FateOf, Book!Fates, RowStatuses, Outcomes
        <5>2. \A o \in Orders : FateOf(o)' = "none"  BY <4>1, <4>2 DEF FateOf
        <5> QED  BY <5>1, <5>2
      <4>6. Book!Next  BY <4>5 DEF Book!Next, Book!Reset
      <4> QED  BY <3>0, <3>b, <4>4, <4>6 DEF Inv
    <3>5. CASE SaveAccount(c)
      <4>1. call[c].at = "save" /\ doc' = call[c].doc /\ UNCHANGED rows  BY <3>5 DEF SaveAccount, IsAt
      <4>2. /\ call'[c].at = call[c].then /\ call'[c].about = call[c].about
            /\ call'[c].outcome = call[c].outcome /\ call'[c].doc = call[c].doc
        BY <3>0, <3>b, <3>5, Moves DEF SaveAccount, Calls
      <4>3. call[c].then \in {"idle", "list", "purge", "row"}  BY <3>0, <3>b, <4>1 DEF Kept, WillSave
      <4>4. CASE call[c].then \in {"idle", "list"}
        BY <3>0, <3>b, <4>1, <4>2, <4>4, PlainSteps DEF Kept, WillSave, Saves, Plain
      <4>5. CASE call[c].then = "purge"
        <5>1. /\ doc'.booked = NoBookings /\ used'.resets # 0 /\ used'.crashes = 0 /\ used.crashes = 0
              /\ \A o \in Orders : doc'.booked[o] = 0
          BY <3>0, <3>b, <3>5, <3>b, <4>1, <4>5 DEF Kept, WillSave, Saves, NoBookings
        <5>2. Kept(c)'
          BY <4>1, <4>2, <4>5, <5>1
          DEF Kept, BookedHaveRows, FilledAreBooked, BookedAreFilled, AboutOne, WillSave, Saves
        <5>3. \A o \in Orders : doc.booked[o] > 0 <=> rows[o] = "filled"
          BY <3>0, <3>b, <4>1, <5>1 DEF Kept, FilledAreBooked, BookedAreFilled
        <5>4. \A o \in Orders : FateOf(o)' = IF FateOf(o) = "filled" THEN "none" ELSE FateOf(o)
          BY <4>1, <5>1, <5>3 DEF FateOf
        <5>5. fates' = [o \in Orders |-> IF fates[o] \in {"filled"} THEN "none" ELSE fates[o]]
          BY <5>4
        <5>6. Book!Next  BY <5>5 DEF Book!Next, Book!Reset
        <5> QED  BY <3>0, <3>b, <5>2, <5>6 DEF Inv
      <4>6. CASE call[c].then = "row"
        <5>1. PICK o \in Orders : call[c].about = {o} /\ rows[o] = "pending"
          BY <3>0, <3>b, <4>1, <4>6 DEF Kept, AboutOne, Saves
        <5>2. doc'.booked = [doc.booked EXCEPT ![o] = @ + 1] /\ call[c].outcome = "filled"
          BY <3>0, <3>b, <4>1, <4>6, <5>1 DEF Kept, WillSave, Saves
        <5>3. doc'.booked[o] > 0 /\ \A x \in Orders \ {o} : doc'.booked[x] = doc.booked[x]
          BY <3>0, <3>b, <5>2
        <5>4. Kept(c)'
          BY <3>0, <3>b, <4>1, <4>2, <4>6, <5>1, <5>2, <5>3
          DEF Kept, BookedHaveRows, FilledAreBooked, BookedAreFilled, AboutOne, WillSave, Saves
        <5>5. FateOf(o)' = "filled" /\ \A x \in Orders \ {o} : FateOf(x)' = FateOf(x)
          BY <4>1, <5>3 DEF FateOf
        <5>6. FateOf(o) \in {"filled", "pending"}
          BY <5>1 DEF FateOf
        <5>7. fates' = [fates EXCEPT ![o] = "filled"]
          BY <5>5
        <5>8. [Book!Next]_fates
          <6>1. CASE FateOf(o) = "filled"  BY <5>5, <6>1
          <6>2. CASE FateOf(o) = "pending"  BY <5>7, <6>2 DEF Book!Next, Book!Decide
          <6> QED  BY <5>6, <6>1, <6>2
        <5> QED  BY <3>0, <3>b, <5>4, <5>8 DEF Inv
      <4> QED  BY <4>3, <4>4, <4>5, <4>6
    \* An order is created.
    <3>6. ASSUME NEW o \in Orders, Create(c, o) PROVE Inv' /\ [Book!Next]_fates
      <4> DEFINE next == [Idle EXCEPT !.at = "account", !.about = {o}]
      <4>1. next.at = "account"  BY DEF Idle
      <4>2. call'[c] = next /\ UNCHANGED <<doc, rows>> /\ call[c].at = "idle"
        BY <3>6, Moves DEF Create, Begins
      <4> HIDE DEF next
      <4> QED  BY <3>0, <3>b, <4>1, <4>2, PlainSteps DEF Plain
    <3>7. CASE CreateAllowed(c)
      <4>1. [call[c] EXCEPT !.at = "insert"].at = "insert"  BY <3>0 DEF Calls
      <4>2. call'[c].at \in {"insert", "idle"} /\ UNCHANGED <<doc, rows>> /\ call[c].at = "account"
        BY <3>7, <3>a, <4>1, Moves DEF CreateAllowed, IsAt, Ends
      <4> QED  BY <3>0, <3>b, <4>2, PlainSteps DEF Plain
    <3>8. ASSUME NEW o \in Orders, Insert(c, o) PROVE Inv' /\ [Book!Next]_fates
      <4>1. call[c].at = "insert" /\ UNCHANGED doc /\ call'[c].at = "idle"
        BY <3>8, <3>a, Moves DEF Insert, IsAt, Ends
      <4>2. CASE Vacant(o)
        <5>1. rows'[o] = "pending" /\ (\A x \in Orders \ {o} : rows'[x] = rows[x]) /\ ~(doc.booked[o] > 0)
          BY <3>0, <3>b, <3>8, <4>2 DEF Insert, Vacant, Kept, BookedHaveRows
        <5>2. Kept(c)'
          BY <3>0, <3>b, <4>1, <5>1
          DEF Kept, BookedHaveRows, FilledAreBooked, BookedAreFilled, AboutOne, WillSave, Saves
        <5>3. FateOf(o) = "none" /\ FateOf(o)' = "pending" /\ \A x \in Orders \ {o} : FateOf(x)' = FateOf(x)
          BY <4>1, <4>2, <5>1 DEF FateOf, Vacant
        <5>4. fates' = [fates EXCEPT ![o] = "pending"] /\ fates[o] = "none"  BY <5>3
        <5>5. Book!Next  BY <5>4 DEF Book!Next, Book!Open
        <5> QED  BY <3>0, <3>b, <5>2, <5>5 DEF Inv
      <4>3. CASE ~Vacant(o)
        <5>1. rows' = rows  BY <3>0, <3>b, <3>8, <4>3 DEF Insert
        <5> QED  BY <3>0, <3>b, <4>1, <5>1, PlainSteps DEF Plain
      <4> QED  BY <4>2, <4>3
    \* An order is filled, by itself or by a mark.
    <3>9. ASSUME NEW o \in Orders, NEW d, NEW m, NEW t, ReadOrder(c, o, d, m, t), call[c].at \in {"idle", "next"}
          PROVE  Inv' /\ [Book!Next]_fates
      <4> DEFINE next == [Idle EXCEPT !.at = "fill", !.about = {o}, !.date = d, !.mark = m, !.todo = t]
      <4>1. next.at = "fill" /\ next.about = {o}  BY DEF Idle
      <4>2. call'[c] = next /\ UNCHANGED <<doc, rows>> /\ rows[o] = "pending"
        BY <3>9, Moves DEF ReadOrder, Fillable
      <4> HIDE DEF next
      <4> QED  BY <3>0, <3>b, <3>9, <4>1, <4>2, PlainSteps
    <3>10. ASSUME NEW o \in Orders, Fill(c, o) PROVE Inv' /\ [Book!Next]_fates
      BY <3>9, <3>10 DEF Fill, Begins
    <3>11. CASE ListOrders(c)
      <4>1. \A t : [call[c] EXCEPT !.at = "next", !.todo = t].at = "next"  BY <3>0 DEF Calls
      <4>2. call'[c].at = "next" /\ UNCHANGED <<doc, rows>> /\ call[c].at = "list"
        BY <3>11, <4>1, Moves DEF ListOrders, IsAt
      <4> QED  BY <3>0, <3>b, <4>2, PlainSteps DEF Plain
    <3>12. CASE FillNext(c)
      <4>1. call[c].at = "next" /\ call[c].todo \subseteq Orders  BY <3>0, <3>b, <3>12 DEF FillNext, IsAt, Calls
      <4>2. CASE Ends(c) /\ UNCHANGED <<doc, rows>>
        <5>1. call'[c].at = "idle"  BY <3>a, <4>2, Moves DEF Ends
        <5> QED  BY <3>0, <3>b, <4>1, <4>2, <5>1, PlainSteps DEF Plain
      <4> QED  BY <3>9, <3>12, <4>1, <4>2 DEF FillNext
    <3>13. ASSUME NEW o \in Orders, Trade(c, o) PROVE Inv' /\ [Book!Next]_fates
      <4>1. call[c].at = "fill" /\ o \in call[c].about /\ UNCHANGED <<doc, rows>>  BY <3>13 DEF Trade, IsAt
      <4>2. call[c].about = {o} /\ rows[o] = "pending"  BY <3>0, <3>b, <4>1 DEF Kept, AboutOne
      <4>3. \/ /\ call'[c].at = "save" /\ call'[c].then = "row" /\ call'[c].outcome = "filled"
               /\ call'[c].doc = Booked(doc, o, call[c].date) /\ call'[c].about = {o}
            \/ call'[c].at = "row" /\ call'[c].outcome = "rejected" /\ call'[c].about = {o}
        BY <3>0, <3>b, <3>13, <4>2, Moves DEF Trade, Calls
      <4>4. Booked(doc, o, call[c].date).booked = [doc.booked EXCEPT ![o] = @ + 1]
        BY <3>0 DEF Booked, Accounts
      <4>5. Kept(c)'
        BY <3>0, <3>b, <4>1, <4>2, <4>3, <4>4
        DEF Kept, BookedHaveRows, FilledAreBooked, BookedAreFilled, AboutOne, WillSave, Saves
      <4>6. UNCHANGED fates  BY <4>1 DEF FateOf
      <4> QED  BY <3>0, <3>b, <4>5, <4>6 DEF Inv
    <3>14. ASSUME NEW o \in Orders, SaveOrder(c, o) PROVE Inv' /\ [Book!Next]_fates
      <4>1. call[c].at = "row" /\ o \in call[c].about /\ UNCHANGED doc  BY <3>14 DEF SaveOrder, IsAt
      <4>2. call[c].about = {o} /\ rows[o] = "pending"  BY <3>0, <3>b, <4>1 DEF Kept, AboutOne
      <4>3. rows'[o] = call[c].outcome /\ \A x \in Orders \ {o} : rows'[x] = rows[x]
        BY <3>0, <3>b, <3>14, <4>2 DEF SaveOrder, Vacant
      <4>4. call[c].outcome \in Outcomes  BY <3>0 DEF Calls
      <4>5. call'[c].at \in {"next", "idle"}
        <5>1. [call[c] EXCEPT !.at = "next"].at = "next"  BY <3>0 DEF Calls
        <5> QED  BY <3>14, <3>a, <5>1, Moves DEF SaveOrder, Ends
      <4>6. call[c].outcome = "filled" => doc.booked[o] > 0
        BY <3>0, <3>b, <4>1 DEF Kept, WillSave
      <4>7. Kept(c)'
        BY <3>0, <3>b, <4>1, <4>2, <4>3, <4>4, <4>5, <4>6
        DEF Kept, BookedHaveRows, FilledAreBooked, BookedAreFilled, AboutOne, WillSave, Saves, Outcomes
      <4>8. \A x \in Orders \ {o} : FateOf(x)' = FateOf(x)  BY <4>1, <4>3 DEF FateOf
      <4>9. CASE doc.booked[o] > 0
        <5>1. FateOf(o)' = FateOf(o)  BY <4>1, <4>9 DEF FateOf
        <5>2. UNCHANGED fates  BY <4>8, <5>1
        <5> QED  BY <3>0, <3>b, <4>7, <5>2 DEF Inv
      <4>10. CASE ~(doc.booked[o] > 0)
        <5>1. FateOf(o) = "pending" /\ FateOf(o)' = call[c].outcome /\ call[c].outcome # "filled"
          BY <4>1, <4>2, <4>3, <4>6, <4>10 DEF FateOf
        <5>2. fates' = [fates EXCEPT ![o] = call[c].outcome] /\ fates[o] = "pending"  BY <4>8, <5>1
        <5>3. Book!Next  BY <4>4, <5>2 DEF Book!Next, Book!Decide, Outcomes
        <5> QED  BY <3>0, <3>b, <4>7, <5>3 DEF Inv
      <4> QED  BY <4>9, <4>10
    <3>15. ASSUME NEW o \in Orders, Cancel(c, o) PROVE Inv' /\ [Book!Next]_fates
      <4> DEFINE next == [Idle EXCEPT !.at = "row", !.about = {o}, !.outcome = "cancelled"]
      <4>1. next.at = "row" /\ next.about = {o} /\ next.outcome = "cancelled"  BY DEF Idle
      <4>2. call'[c] = next /\ UNCHANGED <<doc, rows>> /\ rows[o] = "pending" /\ call[c].at = "idle"
        BY <3>15, Moves DEF Cancel, Cancellable, Begins
      <4> HIDE DEF next
      <4>3. Kept(c)'
        BY <3>0, <3>b, <4>1, <4>2
        DEF Kept, BookedHaveRows, FilledAreBooked, BookedAreFilled, AboutOne, WillSave, Saves
      <4>4. UNCHANGED fates  BY <4>2 DEF FateOf
      <4> QED  BY <3>0, <3>b, <4>3, <4>4 DEF Inv
    <3>16. CASE Crash(c)
      <4>1. used'.crashes # 0  BY <3>16, <3>b
      <4>2. call[c].at # "purge"  BY <3>0, <3>b, <4>1 DEF Kept, WillSave
      <4>3. call'[c].at = "idle" /\ UNCHANGED <<doc, rows>>  BY <3>16, <3>a, Moves DEF Crash, Ends
      <4> QED  BY <3>0, <3>b, <4>1, <4>2, <4>3, PlainSteps DEF Plain
    <3> QED
      BY <2>2, <3>1, <3>2, <3>3, <3>4, <3>5, <3>6, <3>7, <3>8, <3>10, <3>11, <3>12, <3>13, <3>14, <3>15, <3>16
  <2> QED  BY <2>1, <2>2 DEF Next
<1> HIDE DEF Inv, fates
<1> QED  BY <1>1, <1>2, TypeCorrect, PTL DEF Spec, Book!Spec, fates

\* Calls that take turns keep the promise of OrderBook - an order is opened once
\* and decided once, by the trades of the account (simulation_account.py:429) - as
\* long as processes die or the account is reset, but not both.
THEOREM KeepsTheBookHolds ==
    ASSUME LastDate \in Nat, \A c, e \in Callers : c = e
    PROVE  Spec /\ []CutOrReset => Book!Spec
BY InTurn

\* An order that says it is filled is among the trades of the account, unless a
\* reset is about to delete it (simulation_account.py:455), as long as calls take
\* turns and processes die or the account is reset, but not both.
THEOREM FilledIsBookedHolds ==
    ASSUME LastDate \in Nat, NEW c, Callers = {c}
    PROVE  Spec /\ []CutOrReset => []FilledIsBooked
<1>1. Inv => FilledIsBooked  BY DEF Inv, Kept, FilledAreBooked, FilledIsBooked, Purging
<1>2. \A a, b \in Callers : a = b  OBVIOUS
<1>3. Spec /\ []CutOrReset => []Inv  BY <1>2, InTurn
<1> QED  BY <1>1, <1>3, PTL

-----------------------------------------------------------------------------
(***************************************************************************)
(* What a step of a call does to bookings and rows, however many calls run  *)
(* at once: the shapes of the steps, without the rest of their records.     *)
(***************************************************************************)
Quiet(c, next) ==
    /\ call[c].at \notin {"save", "row", "purge"} /\ next.at \in Plain
    /\ UNCHANGED <<doc, rows>> /\ used'.crashes = used.crashes
Copies(c, next) ==
    /\ call[c].at = "idle" /\ next.at = "save" /\ next.then \in {"idle", "list"}
    /\ next.doc.booked = doc.booked
    /\ UNCHANGED <<doc, rows>> /\ used'.crashes = used.crashes
Resets(c, next) ==
    /\ call[c].at = "idle" /\ next.at = "save" /\ next.then = "purge"
    /\ next.doc.booked = NoBookings /\ Limit.resets # 0
    /\ UNCHANGED <<doc, rows>> /\ used'.crashes = used.crashes
Writes(c, next) ==
    /\ call[c].at = "save" /\ next.at = call[c].then
    /\ next.then = call[c].then /\ next.about = call[c].about
    /\ next.doc = call[c].doc /\ next.outcome = call[c].outcome
    /\ doc' = call[c].doc /\ UNCHANGED rows /\ used'.crashes = used.crashes
Purges(c, next) ==
    /\ call[c].at = "purge" /\ next.at = "idle"
    /\ rows' = [o \in Orders |-> "none"] /\ UNCHANGED doc /\ used'.crashes = used.crashes
Inserts(c, next) ==
    /\ call[c].at = "insert" /\ next.at = "idle"
    /\ \E o \in Orders : rows' = [rows EXCEPT ![o] = IF rows[o] = "none" THEN "pending" ELSE @]
    /\ UNCHANGED doc /\ used'.crashes = used.crashes
Reads(c, next) ==
    /\ call[c].at \in {"idle", "next"} /\ next.at = "fill"
    /\ \E o \in Orders : next.about = {o} /\ rows[o] = "pending"
    /\ UNCHANGED <<doc, rows>> /\ used'.crashes = used.crashes
Books(c, next) ==
    /\ call[c].at = "fill" /\ next.at = "save" /\ next.then = "row" /\ next.outcome = "filled"
    /\ next.about = call[c].about
    /\ \E o \in call[c].about : next.doc.booked = [doc.booked EXCEPT ![o] = @ + 1]
    /\ UNCHANGED <<doc, rows>> /\ used'.crashes = used.crashes
Rejects(c, next) ==
    /\ call[c].at = "fill" /\ next.at = "row" /\ next.outcome = "rejected"
    /\ next.about = call[c].about
    /\ UNCHANGED <<doc, rows>> /\ used'.crashes = used.crashes
Tells(c, next) ==
    /\ call[c].at = "row" /\ next.at \in {"idle", "next"}
    /\ \E o \in call[c].about :
          rows' = [rows EXCEPT ![o] = IF rows[o] = "none" THEN @ ELSE call[c].outcome]
    /\ UNCHANGED doc /\ used'.crashes = used.crashes
Cancels(c, next) ==
    /\ call[c].at = "idle" /\ next.at = "row" /\ next.outcome = "cancelled"
    /\ \E o \in Orders : next.about = {o} /\ rows[o] = "pending"
    /\ UNCHANGED <<doc, rows>> /\ used'.crashes = used.crashes
Dies(c, next) ==
    /\ next.at = "idle" /\ Limit.crashes # 0
    /\ UNCHANGED <<doc, rows>> /\ used'.crashes = used.crashes + 1
Shaped(c, next) ==
    \/ Quiet(c, next) \/ Copies(c, next) \/ Resets(c, next) \/ Writes(c, next)
    \/ Purges(c, next) \/ Inserts(c, next) \/ Reads(c, next) \/ Books(c, next)
    \/ Rejects(c, next) \/ Tells(c, next) \/ Cancels(c, next) \/ Dies(c, next)

LEMMA Spending ==
    ASSUME TypeOK, NEW what \in {"calls", "resets", "crashes"}, Spend(what)
    PROVE  /\ Limit[what] # 0
           /\ used'.crashes = IF what = "crashes" THEN used.crashes + 1 ELSE used.crashes
<1>1. used \in [calls : Nat, resets : Nat, crashes : Nat]  BY DEF TypeOK
<1>2. used[what] \in Nat /\ used[what] < Limit[what]  BY <1>1 DEF Spend
<1>3. Limit[what] # 0  BY <1>2
<1>4. used'.crashes = IF what = "crashes" THEN used.crashes + 1 ELSE used.crashes
  BY <1>1 DEF Spend
<1> QED  BY <1>3, <1>4

LEMMA StepsAreShaped ==
    ASSUME TypeOK, Next
    PROVE  \E c \in Callers : \E next : To(c, next) /\ Shaped(c, next)
<1>1. PICK c \in Callers :
        \/ SetStatus(c) \/ AdvanceDate(c) \/ UpdateConfig(c) \/ SaveAccount(c)
        \/ Reset(c) \/ DeleteOrders(c) \/ CreateAllowed(c)
        \/ Mark(c) \/ ListOrders(c) \/ FillNext(c) \/ Crash(c)
        \/ \E o \in Orders : Create(c, o) \/ Insert(c, o) \/ Fill(c, o) \/ Trade(c, o)
                             \/ SaveOrder(c, o) \/ Cancel(c, o)
  BY DEF Next
<1> DEFINE Goal == \E next : To(c, next) /\ Shaped(c, next)
<1>2. SUFFICES Goal
  OBVIOUS
<1>3. call[c] \in Calls /\ doc \in Accounts  BY DEF TypeOK
<1>a. Idle.at = "idle"  BY DEF Idle
<1>b. Begins(c) => call[c].at = "idle" /\ used'.crashes = used.crashes
  BY Spending DEF Begins
<1>c. \A at : IsAt(c, at) => call[c].at = at /\ used'.crashes = used.crashes
  BY DEF IsAt
\* Copies of the account.
<1>4. ASSUME NEW a, NEW then, Edit(c, a, then), call[c].at = "idle", used'.crashes = used.crashes,
             \/ then = "idle" /\ a.booked = doc.booked
             \/ then = "purge" /\ a.booked = NoBookings /\ Limit.resets # 0
      PROVE  Goal
  <2> DEFINE next == [Idle EXCEPT !.at = "save", !.then = then, !.doc = a]
  <2>1. next.at = "save" /\ next.then = then /\ next.doc = a  BY DEF Idle
  <2>2. To(c, next) /\ UNCHANGED <<doc, rows>>  BY <1>4 DEF Edit
  <2> HIDE DEF next
  <2>3. Copies(c, next) \/ Resets(c, next)  BY <1>4, <2>1, <2>2 DEF Copies, Resets
  <2> QED  BY <2>2, <2>3 DEF Shaped
<1>5. CASE SetStatus(c) \/ AdvanceDate(c) \/ UpdateConfig(c)
  <2>1. PICK a : a.booked = doc.booked /\ Edit(c, a, "idle")
    BY <1>3, <1>5 DEF SetStatus, AdvanceDate, UpdateConfig, WithStatus, WithDate, WithCapital, Accounts
  <2>2. Begins(c)  BY <1>5 DEF SetStatus, AdvanceDate, UpdateConfig
  <2> QED  BY <1>4, <1>b, <2>1, <2>2
<1>6. CASE Reset(c)
  <2>1. [Fresh EXCEPT !.capital = doc.capital].booked = NoBookings  BY DEF Fresh
  <2>2. Limit.resets # 0 /\ used'.crashes = used.crashes  BY <1>6, Spending DEF Reset
  <2> QED  BY <1>4, <1>6, <2>1, <2>2 DEF Reset
<1>7. CASE Mark(c)
  <2>1. PICK d \in Dates \ {0} :
          To(c, [Idle EXCEPT !.at = "save", !.then = "list", !.doc = WithDate(d), !.date = d, !.mark = TRUE])
    BY <1>7 DEF Mark
  <2> DEFINE next == [Idle EXCEPT !.at = "save", !.then = "list", !.doc = WithDate(d), !.date = d, !.mark = TRUE]
  <2>2. next.at = "save" /\ next.then = "list" /\ next.doc = WithDate(d)  BY DEF Idle
  <2>3. WithDate(d).booked = doc.booked  BY <1>3 DEF WithDate, Accounts
  <2>4. To(c, next) /\ UNCHANGED <<doc, rows>> /\ Begins(c)  BY <1>7, <2>1 DEF Mark
  <2> HIDE DEF next
  <2>5. Copies(c, next)  BY <1>b, <2>2, <2>3, <2>4 DEF Copies
  <2> QED  BY <2>4, <2>5 DEF Shaped
\* What is saved and deleted.
<1>8. CASE SaveAccount(c)
  <2> DEFINE next == [call[c] EXCEPT !.at = call[c].then]
  <2>1. /\ next.at = call[c].then /\ next.then = call[c].then /\ next.about = call[c].about
        /\ next.doc = call[c].doc /\ next.outcome = call[c].outcome
    BY <1>3 DEF Calls
  <2>2. To(c, next) /\ doc' = call[c].doc /\ UNCHANGED rows /\ IsAt(c, "save")  BY <1>8 DEF SaveAccount
  <2> HIDE DEF next
  <2>3. Writes(c, next)  BY <1>c, <2>1, <2>2 DEF Writes
  <2> QED  BY <2>2, <2>3 DEF Shaped
<1>9. CASE DeleteOrders(c)
  <2>1. Purges(c, Idle)  BY <1>9, <1>a, <1>c DEF DeleteOrders, Purges
  <2> QED  BY <1>9, <2>1 DEF DeleteOrders, Ends, Shaped
<1>10. ASSUME NEW o \in Orders, Insert(c, o) PROVE Goal
  <2>1. Inserts(c, Idle)  BY <1>10, <1>a, <1>c DEF Insert, Inserts, Vacant
  <2> QED  BY <1>10, <2>1 DEF Insert, Ends, Shaped
<1>11. ASSUME NEW o \in Orders, SaveOrder(c, o) PROVE Goal
  <2> DEFINE on == [call[c] EXCEPT !.at = "next"]
  <2>1. on.at = "next"  BY <1>3 DEF Calls
  <2>2. To(c, on) \/ To(c, Idle)  BY <1>11 DEF SaveOrder, Ends
  <2> HIDE DEF on
  <2>3. ASSUME NEW next, next.at \in {"next", "idle"} PROVE Tells(c, next)
    BY <1>11, <1>c, <2>3 DEF SaveOrder, Tells, Vacant
  <2>4. Tells(c, on) /\ Tells(c, Idle)  BY <1>a, <2>1, <2>3
  <2> QED  BY <2>2, <2>4 DEF Shaped
\* What changes neither the account nor a row.
<1>12. ASSUME NEW o \in Orders, Create(c, o) PROVE Goal
  <2> DEFINE next == [Idle EXCEPT !.at = "account", !.about = {o}]
  <2>1. next.at = "account"  BY DEF Idle
  <2>2. To(c, next) /\ UNCHANGED <<doc, rows>> /\ Begins(c)  BY <1>12 DEF Create
  <2> HIDE DEF next
  <2>3. Quiet(c, next)  BY <1>b, <2>1, <2>2 DEF Quiet, Plain
  <2> QED  BY <2>2, <2>3 DEF Shaped
<1>13. CASE CreateAllowed(c)
  <2> DEFINE on == [call[c] EXCEPT !.at = "insert"]
  <2>1. on.at = "insert"  BY <1>3 DEF Calls
  <2>2. To(c, on) \/ To(c, Idle)  BY <1>13 DEF CreateAllowed, Ends
  <2> HIDE DEF on
  <2>3. ASSUME NEW next, next.at \in {"insert", "idle"} PROVE Quiet(c, next)
    BY <1>13, <1>c, <2>3 DEF CreateAllowed, Quiet, Plain
  <2>4. Quiet(c, on) /\ Quiet(c, Idle)  BY <1>a, <2>1, <2>3
  <2> QED  BY <2>2, <2>4 DEF Shaped
<1>14. ASSUME NEW o \in Orders, NEW d, NEW m, NEW t, ReadOrder(c, o, d, m, t),
              call[c].at \in {"idle", "next"}, used'.crashes = used.crashes
       PROVE  Goal
  <2> DEFINE next == [Idle EXCEPT !.at = "fill", !.about = {o}, !.date = d, !.mark = m, !.todo = t]
  <2>1. next.at = "fill" /\ next.about = {o}  BY DEF Idle
  <2>2. To(c, next) /\ UNCHANGED <<doc, rows>> /\ rows[o] = "pending"
    BY <1>14 DEF ReadOrder, Fillable
  <2> HIDE DEF next
  <2>3. Reads(c, next)  BY <1>14, <2>1, <2>2 DEF Reads
  <2> QED  BY <2>2, <2>3 DEF Shaped
<1>15. ASSUME NEW o \in Orders, Fill(c, o) PROVE Goal
  BY <1>b, <1>14, <1>15 DEF Fill
<1>16. CASE ListOrders(c)
  <2>1. PICK t : To(c, [call[c] EXCEPT !.at = "next", !.todo = t])  BY <1>16 DEF ListOrders
  <2> DEFINE next == [call[c] EXCEPT !.at = "next", !.todo = t]
  <2>2. next.at = "next"  BY <1>3 DEF Calls
  <2>3. To(c, next)  BY <2>1
  <2> HIDE DEF next
  <2>4. Quiet(c, next)  BY <1>16, <1>c, <2>2 DEF ListOrders, Quiet, Plain
  <2> QED  BY <2>3, <2>4 DEF Shaped
<1>17. CASE FillNext(c)
  <2>1. IsAt(c, "next") /\ call[c].todo \subseteq Orders  BY <1>3, <1>17 DEF FillNext, Calls
  <2>2. CASE Ends(c) /\ UNCHANGED <<doc, rows>>
    <3>1. Quiet(c, Idle)  BY <1>a, <1>c, <2>1, <2>2 DEF Quiet, Plain
    <3> QED  BY <2>2, <3>1 DEF Ends, Shaped
  <2> QED  BY <1>c, <1>14, <1>17, <2>1, <2>2 DEF FillNext
<1>18. ASSUME NEW o \in Orders, Trade(c, o) PROVE Goal
  <2> DEFINE fill == [call[c] EXCEPT !.at = "save", !.then = "row", !.outcome = "filled",
                                     !.doc = Booked(doc, o, call[c].date)]
             refuse == [call[c] EXCEPT !.at = "row", !.outcome = "rejected"]
  <2>1. /\ fill.at = "save" /\ fill.then = "row" /\ fill.outcome = "filled" /\ fill.about = call[c].about
        /\ fill.doc = Booked(doc, o, call[c].date)
        /\ refuse.at = "row" /\ refuse.outcome = "rejected" /\ refuse.about = call[c].about
    BY <1>3 DEF Calls
  <2>2. Booked(doc, o, call[c].date).booked = [doc.booked EXCEPT ![o] = @ + 1]
    BY <1>3 DEF Booked, Accounts
  <2>3. To(c, fill) \/ To(c, refuse)  BY <1>18 DEF Trade
  <2> HIDE DEF fill, refuse
  <2>4. Books(c, fill) /\ Rejects(c, refuse)
    BY <1>18, <1>c, <2>1, <2>2 DEF Trade, Books, Rejects
  <2> QED  BY <2>3, <2>4 DEF Shaped
<1>19. ASSUME NEW o \in Orders, Cancel(c, o) PROVE Goal
  <2> DEFINE next == [Idle EXCEPT !.at = "row", !.about = {o}, !.outcome = "cancelled"]
  <2>1. next.at = "row" /\ next.about = {o} /\ next.outcome = "cancelled"  BY DEF Idle
  <2>2. To(c, next) /\ UNCHANGED <<doc, rows>> /\ rows[o] = "pending" /\ Begins(c)
    BY <1>19 DEF Cancel, Cancellable
  <2> HIDE DEF next
  <2>3. Cancels(c, next)  BY <1>b, <2>1, <2>2 DEF Cancels
  <2> QED  BY <2>2, <2>3 DEF Shaped
<1>20. CASE Crash(c)
  <2>1. Dies(c, Idle)  BY <1>20, <1>a, Spending DEF Crash, Dies
  <2> QED  BY <1>20, <2>1 DEF Crash, Ends, Shaped
<1> QED
  BY <1>1, <1>5, <1>6, <1>7, <1>8, <1>9, <1>10, <1>11, <1>12, <1>13, <1>15, <1>16, <1>17, <1>18, <1>19, <1>20

-----------------------------------------------------------------------------
\* One caller: what it has read is what there is, so a booking it is about to
\* save is the first one, or the first one since a crash came between the
\* account and the row.
OneBooking(c) ==
    \A o \in Orders :
        /\ doc.booked[o] <= 1 + used.crashes
        /\ \/ rows[o] \in Outcomes
           \/ doc.booked[o] <= used.crashes
           \/ call[c].at = "row" /\ call[c].outcome = "filled" /\ o \in call[c].about
UpToDate(c) ==
    /\ call[c].at = "save" => call[c].then \in {"idle", "list", "purge", "row"}
    /\ Saves(call[c], "idle") \/ Saves(call[c], "list") => call[c].doc.booked = doc.booked
    /\ Saves(call[c], "purge") => call[c].doc.booked = NoBookings
    /\ Saves(call[c], "row") =>
          /\ call[c].outcome = "filled"
          /\ \A o \in call[c].about : call[c].doc.booked = [doc.booked EXCEPT ![o] = @ + 1]
    /\ call[c].at = "purge" => doc.booked = NoBookings
Once(c) == OneBooking(c) /\ AboutOne(c) /\ UpToDate(c)

LEMMA OnceStep ==
    ASSUME TypeOK, NEW c \in Callers, Callers = {c}, Once(c), [Next]_vars
    PROVE  Once(c)'
<1> DEFINE crashes == used.crashes
<1>1. /\ crashes \in Nat /\ doc.booked \in [Orders -> Nat] /\ rows \in [Orders -> RowStatuses]
      /\ call[c] \in Calls
  BY DEF TypeOK, Accounts
<1>2. CASE UNCHANGED vars
  BY <1>2 DEF vars, Once, OneBooking, AboutOne, UpToDate, Saves
<1>3. CASE Next
  <2>1. PICK next : To(c, next) /\ Shaped(c, next)  BY <1>3, StepsAreShaped
  <2>2. call'[c] = next  BY <2>1, Moves
  <2>3. CASE Quiet(c, next) \/ Copies(c, next) \/ Resets(c, next) \/ Reads(c, next)
    <3>1. UNCHANGED <<doc, rows>> /\ used'.crashes = crashes /\ call[c].at # "row"
      BY <2>3 DEF Quiet, Copies, Resets, Reads
    <3>2. OneBooking(c)'  BY <3>1 DEF Once, OneBooking
    <3>3. AboutOne(c)' /\ UpToDate(c)'
      BY <2>2, <2>3 DEF Quiet, Copies, Resets, Reads, Plain, AboutOne, UpToDate, Saves
    <3> QED  BY <3>2, <3>3 DEF Once
  <2>4. CASE Writes(c, next)
    <3>1. call[c].then \in {"idle", "list", "purge", "row"}  BY <2>4 DEF Writes, Once, UpToDate
    <3>2. CASE call[c].then \in {"idle", "list"}
      BY <2>2, <2>4, <3>2 DEF Writes, Once, OneBooking, AboutOne, UpToDate, Saves
    <3>3. CASE call[c].then = "purge"
      <4>1. /\ doc'.booked = NoBookings /\ \A o \in Orders : doc'.booked[o] = 0
            /\ used'.crashes = crashes
        BY <2>4, <3>3 DEF Writes, Once, UpToDate, Saves, NoBookings
      <4>2. OneBooking(c)'  BY <1>1, <4>1 DEF OneBooking
      <4>3. AboutOne(c)' /\ UpToDate(c)'
        BY <2>2, <2>4, <3>3, <4>1 DEF Writes, AboutOne, UpToDate, Saves
      <4> QED  BY <4>2, <4>3 DEF Once
    <3>4. CASE call[c].then = "row"
      <4>1. PICK o \in Orders : call[c].about = {o} /\ rows[o] = "pending"
        BY <2>4, <3>4 DEF Writes, Once, AboutOne, Saves
      <4>2. doc'.booked = [doc.booked EXCEPT ![o] = @ + 1] /\ call[c].outcome = "filled"
        BY <2>4, <3>4, <4>1 DEF Writes, Once, UpToDate, Saves
      <4>3. doc.booked[o] <= crashes
        BY <2>4, <4>1 DEF Writes, Once, OneBooking, Outcomes
      <4>4. doc'.booked[o] = doc.booked[o] + 1 /\ \A x \in Orders \ {o} : doc'.booked[x] = doc.booked[x]
        BY <1>1, <4>2
      <4>5. doc'.booked[o] <= 1 + crashes  BY <1>1, <4>3, <4>4
      <4>6. next.at = "row" /\ next.outcome = "filled" /\ next.about = {o} /\ UNCHANGED rows
            /\ used'.crashes = crashes
        BY <2>4, <3>4, <4>1, <4>2 DEF Writes
      <4>7. OneBooking(c)'
        <5>1. ASSUME NEW x \in Orders \ {o}
              PROVE  doc'.booked[x] <= 1 + crashes /\ (rows[x] \in Outcomes \/ doc'.booked[x] <= crashes)
          BY <2>4, <4>4 DEF Writes, Once, OneBooking
        <5> QED  BY <2>2, <4>5, <4>6, <5>1 DEF OneBooking
      <4>8. AboutOne(c)' /\ UpToDate(c)'
        BY <2>2, <4>1, <4>6 DEF AboutOne, UpToDate, Saves
      <4> QED  BY <4>7, <4>8 DEF Once
    <3> QED  BY <3>1, <3>2, <3>3, <3>4
  <2>5. CASE Purges(c, next)
    <3>1. doc.booked = NoBookings /\ \A o \in Orders : doc.booked[o] = 0
      BY <2>5 DEF Purges, Once, UpToDate, NoBookings
    <3>2. UNCHANGED doc /\ next.at = "idle" /\ used'.crashes = crashes  BY <2>5 DEF Purges
    <3>3. OneBooking(c)'  BY <1>1, <3>1, <3>2 DEF OneBooking
    <3> QED  BY <2>2, <3>2, <3>3 DEF Once, AboutOne, UpToDate, Saves
  <2>6. CASE Inserts(c, next)
    <3>1. PICK o \in Orders : rows' = [rows EXCEPT ![o] = IF rows[o] = "none" THEN "pending" ELSE @]
      BY <2>6 DEF Inserts
    <3>2. \A x \in Orders : rows[x] \in Outcomes => rows'[x] \in Outcomes
      BY <1>1, <3>1 DEF Outcomes
    <3>3. next.at = "idle" /\ call[c].at = "insert" /\ UNCHANGED doc /\ used'.crashes = crashes
      BY <2>6 DEF Inserts
    <3>4. OneBooking(c)'  BY <3>2, <3>3 DEF Once, OneBooking
    <3> QED  BY <2>2, <3>3, <3>4 DEF Once, AboutOne, UpToDate, Saves
  <2>7. CASE Books(c, next)
    <3>1. PICK o \in Orders : call[c].about = {o} /\ rows[o] = "pending"
      BY <2>7 DEF Books, Once, AboutOne
    <3>2. OneBooking(c)'  BY <2>7 DEF Books, Once, OneBooking
    <3>3. AboutOne(c)' /\ UpToDate(c)'
      BY <2>2, <2>7, <3>1 DEF Books, AboutOne, UpToDate, Saves
    <3> QED  BY <3>2, <3>3 DEF Once
  <2>8. CASE Rejects(c, next)
    <3>1. PICK o \in Orders : call[c].about = {o} /\ rows[o] = "pending"
      BY <2>8 DEF Rejects, Once, AboutOne
    <3>2. OneBooking(c)'  BY <2>8 DEF Rejects, Once, OneBooking
    <3>3. AboutOne(c)' /\ UpToDate(c)'
      BY <2>2, <2>8, <3>1 DEF Rejects, AboutOne, UpToDate, Saves
    <3> QED  BY <3>2, <3>3 DEF Once
  <2>9. CASE Tells(c, next)
    <3>1. PICK o \in Orders : call[c].about = {o} /\ rows[o] = "pending"
      BY <2>9 DEF Tells, Once, AboutOne
    <3>2. rows' = [rows EXCEPT ![o] = call[c].outcome]  BY <2>9, <3>1 DEF Tells
    <3>3. rows'[o] \in Outcomes /\ \A x \in Orders \ {o} : rows'[x] = rows[x]
      BY <1>1, <3>2 DEF Calls
    <3>4. next.at \in {"idle", "next"} /\ UNCHANGED doc /\ used'.crashes = crashes
      BY <2>9 DEF Tells
    <3>5. OneBooking(c)'  BY <3>1, <3>3, <3>4 DEF Once, OneBooking
    <3> QED  BY <2>2, <3>4, <3>5 DEF Once, AboutOne, UpToDate, Saves
  <2>10. CASE Cancels(c, next)
    <3>1. OneBooking(c)'  BY <2>10 DEF Cancels, Once, OneBooking
    <3>2. AboutOne(c)' /\ UpToDate(c)'
      BY <2>2, <2>10 DEF Cancels, AboutOne, UpToDate, Saves
    <3> QED  BY <3>1, <3>2 DEF Once
  <2>11. CASE Dies(c, next)
    <3>1. UNCHANGED <<doc, rows>> /\ used'.crashes = 1 + crashes /\ next.at = "idle"
      BY <2>11, <1>1 DEF Dies
    <3>2. \A o \in Orders : doc.booked[o] <= 1 + crashes  BY DEF Once, OneBooking
    <3>3. OneBooking(c)'  BY <1>1, <3>1, <3>2 DEF OneBooking
    <3> QED  BY <2>2, <3>1, <3>3 DEF Once, AboutOne, UpToDate, Saves
  <2> QED
    BY <2>1, <2>3, <2>4, <2>5, <2>6, <2>7, <2>8, <2>9, <2>10, <2>11 DEF Shaped
<1> QED  BY <1>2, <1>3

\* As long as calls take turns, an order is booked once, and once more at most for
\* every crash, whatever resets come in between: fill_order saves the account
\* before it saves the order (simulation_account.py:455).
THEOREM BookedOnceHolds ==
    ASSUME LastDate \in Nat, NEW c, Callers = {c}
    PROVE  Spec => []BookedOnce
<1>1. Init => Once(c)
  <2> SUFFICES ASSUME Init PROVE Once(c)
    OBVIOUS
  <2>1. call[c].at = "idle" /\ used.crashes = 0  BY DEF Init, Idle
  <2>2. \A o \in Orders : doc.booked[o] = 0  BY DEF Init, Fresh, NoBookings
  <2> QED  BY <2>1, <2>2 DEF Once, OneBooking, AboutOne, UpToDate, Saves
<1>2. TypeOK /\ Once(c) /\ [Next]_vars => Once(c)'  BY OnceStep
<1>3. Once(c) => BookedOnce  BY DEF Once, OneBooking, BookedOnce
<1> QED  BY <1>1, <1>2, <1>3, TypeCorrect, PTL DEF Spec

-----------------------------------------------------------------------------
\* Any number of callers: a document that was read earlier books only orders that
\* are settled by now - their rows say so, or a call is about to - besides the
\* one a fill adds to it.
Settled(o) ==
    \/ rows[o] \in Outcomes
    \/ \E c \in Callers : call[c].at = "row" /\ o \in call[c].about
BooksSettled(account, own) == \A o \in Orders \ own : account.booked[o] > 0 => Settled(o)
Own(k) == IF k.then = "row" THEN k.about ELSE {}
HaveRows(c) ==
    call[c].at \in {"fill", "row"} \/ Saves(call[c], "row") =>
        \E o \in Orders : call[c].about = {o} /\ rows[o] # "none"
ReadEarlier(c) ==
    call[c].at = "save" =>
        /\ call[c].then \in {"idle", "list", "row"}
        /\ BooksSettled(call[c].doc, Own(call[c]))
AllSettled ==
    /\ BooksSettled(doc, {})
    /\ \A c \in Callers : call[c].at # "purge" /\ HaveRows(c) /\ ReadEarlier(c)

\* What is settled stays so, and a call that stands where it stood keeps what it has.
LEMMA SettledStays ==
    ASSUME TypeOK, NEW c \in Callers, NEW next, To(c, next), Shaped(c, next), AllSettled,
           Limit.crashes = 0, Limit.resets = 0
    PROVE  /\ \A o \in Orders : Settled(o) => Settled(o)'
           /\ \A o \in Orders : rows[o] # "none" => rows'[o] # "none"
           /\ call' = [call EXCEPT ![c] = next]
           /\ \A e \in Callers \ {c} : call'[e] = call[e]
           /\ call'[c] = next
<1>1. call' = [call EXCEPT ![c] = next] /\ call'[c] = next /\ \A e \in Callers \ {c} : call'[e] = call[e]
  BY DEF To, TypeOK
<1>2. rows \in [Orders -> RowStatuses] /\ call[c].outcome \in Outcomes /\ call[c].about \subseteq Orders
  BY DEF TypeOK, Calls
<1>3. ~Purges(c, next) /\ ~Dies(c, next) /\ ~Resets(c, next)
  BY DEF Purges, Dies, Resets, AllSettled
<1>4. CASE Tells(c, next)
  <2>1. PICK o \in call[c].about :
          rows' = [rows EXCEPT ![o] = IF rows[o] = "none" THEN @ ELSE call[c].outcome]
    BY <1>4 DEF Tells
  <2>2. rows[o] # "none"  BY <1>4 DEF Tells, AllSettled, HaveRows
  <2>3. rows'[o] = call[c].outcome /\ \A x \in Orders \ {o} : rows'[x] = rows[x]
    BY <1>2, <2>1, <2>2
  <2>4. \A x \in Orders : rows[x] # "none" => rows'[x] # "none"
    BY <1>2, <2>3 DEF Outcomes
  <2>5. ASSUME NEW x \in Orders, Settled(x) PROVE Settled(x)'
    <3>1. CASE x = o  BY <1>2, <2>3, <3>1 DEF Settled
    <3>2. CASE x # o
      <4>1. CASE rows[x] \in Outcomes  BY <2>3, <3>2, <4>1 DEF Settled
      <4>2. ASSUME NEW e \in Callers, call[e].at = "row", x \in call[e].about PROVE Settled(x)'
        <5>1. CASE e # c  BY <1>1, <4>2, <5>1 DEF Settled
        <5>2. CASE e = c
          <6>1. PICK y \in Orders : call[c].about = {y}  BY <4>2, <5>2 DEF AllSettled, HaveRows
          <6> QED  BY <2>1, <3>2, <4>2, <5>2, <6>1
        <5> QED  BY <5>1, <5>2
      <4> QED  BY <2>5, <4>1, <4>2 DEF Settled
    <3> QED  BY <3>1, <3>2
  <2> QED  BY <1>1, <2>4, <2>5
<1>5. CASE Inserts(c, next)
  <2>1. PICK o \in Orders : rows' = [rows EXCEPT ![o] = IF rows[o] = "none" THEN "pending" ELSE @]
    BY <1>5 DEF Inserts
  <2>2. \A x \in Orders : rows[x] # "none" => rows'[x] = rows[x]  BY <1>2, <2>1
  <2>3. call[c].at # "row"  BY <1>5 DEF Inserts
  <2>4. ASSUME NEW x \in Orders, Settled(x) PROVE Settled(x)'
    BY <1>1, <2>2, <2>3, <2>4 DEF Settled, Outcomes
  <2> QED  BY <1>1, <2>2, <2>4
<1>6. CASE Quiet(c, next) \/ Copies(c, next) \/ Writes(c, next) \/ Reads(c, next) \/ Books(c, next)
           \/ Rejects(c, next) \/ Cancels(c, next)
  <2>1. UNCHANGED rows /\ call[c].at # "row"
    BY <1>6 DEF Quiet, Copies, Writes, Reads, Books, Rejects, Cancels
  <2>2. ASSUME NEW x \in Orders, Settled(x) PROVE Settled(x)'
    BY <1>1, <2>1, <2>2 DEF Settled
  <2> QED  BY <1>1, <2>1, <2>2
<1> QED  BY <1>3, <1>4, <1>5, <1>6 DEF Shaped

LEMMA SettledStep ==
    ASSUME TypeOK, AllSettled, [Next]_vars, Limit.crashes = 0, Limit.resets = 0
    PROVE  AllSettled'
<1>1. CASE UNCHANGED vars
  <2>1. UNCHANGED <<doc, rows, call>>  BY <1>1 DEF vars
  <2>2. \A o \in Orders : Settled(o) => Settled(o)'  BY <2>1 DEF Settled
  <2>3. BooksSettled(doc, {})'  BY <2>1, <2>2 DEF AllSettled, BooksSettled
  <2>4. \A c \in Callers : call'[c].at # "purge" /\ HaveRows(c)'  BY <2>1 DEF AllSettled, HaveRows, Saves
  <2>5. \A c \in Callers : ReadEarlier(c)'
    BY <2>1, <2>2 DEF AllSettled, ReadEarlier, BooksSettled, Own
  <2> QED  BY <2>3, <2>4, <2>5 DEF AllSettled
<1>2. CASE Next
  <2>b. PICK c \in Callers : \E next : To(c, next) /\ Shaped(c, next)  BY <1>2, StepsAreShaped
  <2>1. PICK next : To(c, next) /\ Shaped(c, next)  BY <2>b
  <2>2. /\ \A o \in Orders : Settled(o) => Settled(o)'
        /\ \A o \in Orders : rows[o] # "none" => rows'[o] # "none"
        /\ call' = [call EXCEPT ![c] = next] /\ call'[c] = next
        /\ \A e \in Callers \ {c} : call'[e] = call[e]
    BY <2>1, SettledStays
  <2>3. ~Purges(c, next) /\ ~Dies(c, next) /\ ~Resets(c, next)
    BY DEF Purges, Dies, Resets, AllSettled
  <2>a. doc.booked \in [Orders -> Nat] /\ call[c].about \subseteq Orders  BY DEF TypeOK, Accounts, Calls
  \* The calls that stand where they stood.
  <2>4. ASSUME NEW e \in Callers \ {c}
        PROVE  call'[e].at # "purge" /\ HaveRows(e)' /\ ReadEarlier(e)'
    <3>1. call'[e] = call[e] /\ call[e].at # "purge" /\ HaveRows(e) /\ ReadEarlier(e)
      BY <2>2 DEF AllSettled
    <3>2. HaveRows(e)'  BY <2>2, <3>1 DEF HaveRows, Saves
    <3>3. ReadEarlier(e)'  BY <2>2, <3>1 DEF ReadEarlier, BooksSettled, Own
    <3> QED  BY <3>1, <3>2, <3>3
  \* What is left to show of a step that does not save the account.
  <2>5. ASSUME UNCHANGED doc, next.at # "purge", HaveRows(c)', ReadEarlier(c)' PROVE AllSettled'
    <3>1. BooksSettled(doc, {})'  BY <2>2, <2>5 DEF AllSettled, BooksSettled
    <3> QED  BY <2>2, <2>4, <2>5, <3>1 DEF AllSettled
  <2>6. CASE Quiet(c, next) \/ Tells(c, next) \/ Inserts(c, next)
    <3>1. UNCHANGED doc /\ next.at \in Plain  BY <2>6 DEF Quiet, Tells, Inserts, Plain
    <3> QED  BY <2>2, <2>5, <3>1 DEF Plain, HaveRows, ReadEarlier, Saves
  <2>7. CASE Copies(c, next)
    <3>1. HaveRows(c)'  BY <2>2, <2>7 DEF Copies, HaveRows, Saves
    <3>2. BooksSettled(next.doc, {})'  BY <2>2, <2>7 DEF Copies, AllSettled, BooksSettled
    <3>3. Own(next) = {} /\ next.then \in {"idle", "list"}  BY <2>7 DEF Copies, Own
    <3>4. ReadEarlier(c)'  BY <2>2, <3>2, <3>3 DEF ReadEarlier, BooksSettled, Own
    <3> QED  BY <2>5, <2>7, <3>1, <3>4 DEF Copies
  <2>8. CASE Reads(c, next) \/ Cancels(c, next) \/ Rejects(c, next)
    <3>1. UNCHANGED <<doc, rows>> /\ next.at \in {"fill", "row"}  BY <2>8 DEF Reads, Cancels, Rejects
    <3>2. \E o \in Orders : next.about = {o} /\ rows[o] # "none"
      BY <2>8 DEF Reads, Cancels, Rejects, AllSettled, HaveRows
    <3> QED  BY <2>2, <2>5, <3>1, <3>2 DEF HaveRows, ReadEarlier, Saves
  <2>9. CASE Books(c, next)
    <3>1. PICK o \in Orders : call[c].about = {o} /\ rows[o] # "none"
      BY <2>9 DEF Books, AllSettled, HaveRows
    <3>2. /\ next.doc.booked = [doc.booked EXCEPT ![o] = @ + 1] /\ next.at = "save" /\ next.then = "row"
          /\ next.about = {o} /\ UNCHANGED <<doc, rows>>
      BY <2>9, <3>1 DEF Books
    <3>3. HaveRows(c)'  BY <2>2, <3>1, <3>2 DEF HaveRows, Saves
    <3>4. \A x \in Orders \ {o} : next.doc.booked[x] = doc.booked[x]  BY <2>a, <3>2
    <3>5. \A x \in Orders \ {o} : next.doc.booked[x] > 0 => Settled(x)'
      BY <2>2, <3>4 DEF AllSettled, BooksSettled
    <3>6. Own(next) = {o}  BY <3>2 DEF Own
    <3>7. ReadEarlier(c)'  BY <2>2, <3>2, <3>5, <3>6 DEF ReadEarlier, BooksSettled, Own
    <3> QED  BY <2>5, <3>2, <3>3, <3>7
  <2>10. CASE Writes(c, next)
    <3>1. /\ call[c].then \in {"idle", "list", "row"} /\ next.at = call[c].then
          /\ doc' = call[c].doc /\ UNCHANGED rows /\ next.about = call[c].about
      BY <2>10 DEF Writes, AllSettled, ReadEarlier
    <3>2. \A o \in Orders \ Own(call[c]) : doc'.booked[o] > 0 => Settled(o)'
      BY <2>2, <2>10, <3>1 DEF Writes, AllSettled, ReadEarlier, BooksSettled
    <3>3. \A o \in Own(call[c]) : Settled(o)'
      BY <2>2, <3>1 DEF Own, Settled
    <3>4. BooksSettled(doc, {})'  BY <3>2, <3>3 DEF BooksSettled
    <3>5. HaveRows(c)'
      <4>1. CASE call[c].then = "row"
        BY <2>2, <2>10, <3>1, <4>1 DEF Writes, AllSettled, HaveRows, Saves
      <4>2. CASE call[c].then # "row"
        BY <2>2, <3>1, <4>2 DEF HaveRows, Saves
      <4> QED  BY <4>1, <4>2
    <3>6. ReadEarlier(c)' /\ next.at # "purge"  BY <2>2, <3>1 DEF ReadEarlier
    <3> QED  BY <2>2, <2>4, <3>4, <3>5, <3>6 DEF AllSettled
  <2> QED  BY <2>1, <2>3, <2>6, <2>7, <2>8, <2>9, <2>10 DEF Shaped
<1> QED  BY <1>1, <1>2

\* Without crashes and resets, an order among the trades of the account is no
\* longer open unless a call is about to say so, whatever calls run at once and
\* however old the account is that one of them saves (simulation_account.py:455).
THEOREM BookedIsDecidedHolds ==
    ASSUME LastDate \in Nat, Limit.crashes = 0, Limit.resets = 0
    PROVE  Spec => []BookedIsDecided
<1>1. Init => AllSettled
  <2> SUFFICES ASSUME Init PROVE AllSettled
    OBVIOUS
  <2>1. \A c \in Callers : call[c].at = "idle"  BY DEF Init, Idle
  <2>2. \A o \in Orders : doc.booked[o] = 0  BY DEF Init, Fresh, NoBookings
  <2> QED  BY <2>1, <2>2 DEF AllSettled, BooksSettled, HaveRows, ReadEarlier, Saves
<1>2. TypeOK /\ AllSettled /\ [Next]_vars => AllSettled'  BY SettledStep
<1>3. AllSettled => BookedIsDecided
  BY DEF AllSettled, BooksSettled, BookedIsDecided, Settled, Fillable, Outcomes
<1> QED  BY <1>1, <1>2, <1>3, TypeCorrect, PTL DEF Spec

-----------------------------------------------------------------------------
(***************************************************************************)
(* The mirror of a terminal (BrokerMirror), however its synchronisations    *)
(* overlap.                                                                 *)
(***************************************************************************)
CONSTANTS Syncs, Parts
VARIABLES local, inbox, remote, executed, mirror, sync

Mirror == INSTANCE BrokerMirror WITH account <- mirror

\* Everything a synchronisation carries was executed, and is executed still; an
\* order is sent once.
WasExecuted(trades) ==
    /\ trades \in [Mirror!Executions -> Nat]
    /\ \A e \in Mirror!Executions : trades[e] <= (IF e[2] <= executed[e[1]] THEN 1 ELSE 0)
Syncing == [pc : {"idle", "orders", "executions", "load", "reconcile", "saved"},
            position : [Orders -> Nat],
            orders : [Orders -> {"none", "open", "filled", "cancelled", "rejected"}],
            done : SUBSET Orders, seen : SUBSET Mirror!Executions,
            trades : [Mirror!Executions -> Nat], alone : BOOLEAN]
Carries(k) ==
    /\ \A o \in Orders : k.position[o] <= executed[o]
    /\ \A o \in Orders : k.orders[o] = "filled" => remote[o] = "filled"
    /\ \A e \in k.seen : e[2] <= executed[e[1]]
    /\ WasExecuted(k.trades)
Terminal ==
    /\ \A o \in Orders : <<"order", o>> \in inbox => remote[o] = "none"
    /\ \A o \in Orders : remote[o] = "none" => executed[o] = 0
    /\ \A o \in Orders : remote[o] = "open" => executed[o] < Parts
Faithful ==
    /\ Mirror!TypeOK /\ Terminal
    /\ sync \in [Syncs -> Syncing]
    /\ mirror.position \in [Orders -> Nat] /\ WasExecuted(mirror.trades)
    /\ \A o \in Orders : mirror.position[o] <= executed[o]
    /\ \A o \in Orders : local[o] = "filled" => remote[o] = "filled"
    /\ \A s \in Syncs : Carries(sync[s])

\* What a synchronisation that nothing interrupted has read is what there is, and
\* what it changed says so.
UpToNow(k) ==
    k.alone =>
        /\ k.pc # "idle" => k.position = executed
        /\ k.pc \in {"orders", "executions", "load"} => k.done = {}
        /\ k.pc \in {"executions", "load", "reconcile", "saved"} => k.orders = remote
        /\ k.pc \in {"load", "reconcile", "saved"} =>
              k.seen = {e \in Mirror!Executions : e[2] <= executed[e[1]]}
        /\ k.pc \in {"reconcile", "saved"} =>
              /\ \A e \in Mirror!Executions : k.trades[e] = (IF e[2] <= executed[e[1]] THEN 1 ELSE 0)
              /\ \A o \in k.done : remote[o] # "none" => local[o] = Mirror!StatusOf(remote[o])
        /\ k.pc = "saved" =>
              k.done = Orders /\ mirror.position = k.position /\ mirror.trades = k.trades

\* What happened at the terminal stays.
Lasting ==
    /\ \A o \in Orders : executed[o] <= executed'[o]
    /\ \A o \in Orders : remote[o] = "filled" => remote'[o] = "filled"

LEMMA CarriesOn ==
    ASSUME Mirror!TypeOK, Mirror!TypeOK', Lasting, Parts \in Nat
    PROVE  /\ \A k \in Syncing : Carries(k) => Carries(k)'
           /\ \A trades : WasExecuted(trades) => WasExecuted(trades)'
<1>1. executed \in [Orders -> Nat] /\ executed' \in [Orders -> Nat]  BY DEF Mirror!TypeOK
<1>2. \A e \in Mirror!Executions : /\ e[1] \in Orders /\ e[2] \in Nat
                                   /\ e[2] <= executed[e[1]] => e[2] <= executed'[e[1]]
  BY <1>1 DEF Mirror!Executions, Lasting
<1>3. ASSUME NEW trades, WasExecuted(trades) PROVE WasExecuted(trades)'
  <2>1. ASSUME NEW e \in Mirror!Executions
        PROVE  trades[e] <= (IF e[2] <= executed'[e[1]] THEN 1 ELSE 0)
    BY <1>2, <1>3 DEF WasExecuted
  <2> QED  BY <1>3, <2>1 DEF WasExecuted
<1>4. ASSUME NEW k \in Syncing, Carries(k) PROVE Carries(k)'
  <2>1. \A o \in Orders : k.position[o] <= executed'[o]
    BY <1>1, <1>4 DEF Syncing, Carries, Lasting
  <2>2. \A e \in k.seen : e[2] <= executed'[e[1]]
    BY <1>2, <1>4 DEF Syncing, Carries
  <2> QED  BY <1>3, <1>4, <2>1, <2>2 DEF Carries, Lasting
<1> QED  BY <1>3, <1>4

LEMMA SyncFields ==
    ASSUME NEW k \in Syncing
    PROVE  /\ [k EXCEPT !.alone = FALSE] \in Syncing
           /\ Carries(k) => Carries([k EXCEPT !.alone = FALSE])
<1> DEFINE d == [k EXCEPT !.alone = FALSE]
<1>1. d \in Syncing  BY DEF Syncing
<1>2. d.position = k.position /\ d.orders = k.orders /\ d.seen = k.seen /\ d.trades = k.trades
  BY DEF Syncing
<1> HIDE DEF d
<1>3. Carries(k) => Carries(d)  BY <1>2 DEF Carries
<1> QED  BY <1>1, <1>3 DEF d

LEMMA UnreadCarriesNothing ==
    ASSUME Mirror!TypeOK, Parts \in Nat
    PROVE  Mirror!Unread \in Syncing /\ Carries(Mirror!Unread) /\ Mirror!NoExecutions \in [Orders -> Nat]
<1>1. Mirror!NoExecutions \in [Orders -> Nat] /\ \A o \in Orders : Mirror!NoExecutions[o] = 0
  BY DEF Mirror!NoExecutions
<1>2. Mirror!Unread \in Syncing  BY <1>1 DEF Mirror!Unread, Syncing
<1>3. /\ Mirror!Unread.position = Mirror!NoExecutions
      /\ Mirror!Unread.orders = [o \in Orders |-> "none"]
      /\ Mirror!Unread.seen = {}
      /\ Mirror!Unread.trades = [e \in Mirror!Executions |-> 0]
  BY DEF Mirror!Unread
<1>4. executed \in [Orders -> Nat]  BY DEF Mirror!TypeOK
<1>5. Carries(Mirror!Unread)  BY <1>1, <1>3, <1>4 DEF Carries, WasExecuted
<1> QED  BY <1>1, <1>2, <1>5

\* The orders and the terminal, without the synchronisations.
LEMMA OutsideSteps ==
    ASSUME Parts \in Nat \ {0}, Faithful,
           \E o \in Orders :
              \/ Mirror!Create(o) \/ Mirror!Submit(o) \/ Mirror!Unavailable(o)
              \/ Mirror!CommandCancel(o) \/ Mirror!CancelRow(o)
              \/ \E status \in {"open", "rejected"} : Mirror!Accept(o, status)
              \/ Mirror!AcceptCancel(o) \/ Mirror!Execute(o)
    PROVE  /\ Mirror!TypeOK' /\ Terminal' /\ Lasting
           /\ \A o \in Orders : local'[o] = "filled" => remote'[o] = "filled"
           /\ sync' = Mirror!Disturbed /\ UNCHANGED mirror
<1>0. /\ local \in [Orders -> {"none", "pending", "filled", "cancelled", "rejected"}]
      /\ inbox \subseteq {"order", "cancel"} \X Orders
      /\ remote \in [Orders -> {"none", "open", "filled", "cancelled", "rejected"}]
      /\ executed \in [Orders -> 0..Parts]
      /\ Terminal /\ \A o \in Orders : local[o] = "filled" => remote[o] = "filled"
  BY DEF Faithful, Mirror!TypeOK
<1>1. ASSUME NEW o \in Orders, Mirror!Create(o) \/ Mirror!Unavailable(o) \/ Mirror!CancelRow(o)
      PROVE  /\ Mirror!TypeOK' /\ Terminal' /\ Lasting
             /\ \A x \in Orders : local'[x] = "filled" => remote'[x] = "filled"
             /\ sync' = Mirror!Disturbed /\ UNCHANGED mirror
  BY <1>0, <1>1 DEF Mirror!Create, Mirror!Unavailable, Mirror!CancelRow, Mirror!TypeOK, Terminal, Lasting
<1>2. ASSUME NEW o \in Orders, Mirror!Submit(o) \/ Mirror!CommandCancel(o)
      PROVE  /\ Mirror!TypeOK' /\ Terminal' /\ Lasting
             /\ \A x \in Orders : local'[x] = "filled" => remote'[x] = "filled"
             /\ sync' = Mirror!Disturbed /\ UNCHANGED mirror
  BY <1>0, <1>2 DEF Mirror!Submit, Mirror!Submitted, Mirror!CommandCancel, Mirror!TypeOK, Terminal, Lasting
<1>3. ASSUME NEW o \in Orders, NEW status \in {"open", "rejected"}, Mirror!Accept(o, status)
      PROVE  /\ Mirror!TypeOK' /\ Terminal' /\ Lasting
             /\ \A x \in Orders : local'[x] = "filled" => remote'[x] = "filled"
             /\ sync' = Mirror!Disturbed /\ UNCHANGED mirror
  <2>1. remote[o] = "none" /\ executed[o] = 0 /\ remote' = [remote EXCEPT ![o] = status]
    BY <1>0, <1>3 DEF Mirror!Accept, Terminal
  <2> QED  BY <1>0, <1>3, <2>1 DEF Mirror!Accept, Mirror!TypeOK, Terminal, Lasting
<1>4. ASSUME NEW o \in Orders, Mirror!AcceptCancel(o)
      PROVE  /\ Mirror!TypeOK' /\ Terminal' /\ Lasting
             /\ \A x \in Orders : local'[x] = "filled" => remote'[x] = "filled"
             /\ sync' = Mirror!Disturbed /\ UNCHANGED mirror
  BY <1>0, <1>4 DEF Mirror!AcceptCancel, Mirror!TypeOK, Terminal, Lasting
<1>5. ASSUME NEW o \in Orders, Mirror!Execute(o)
      PROVE  /\ Mirror!TypeOK' /\ Terminal' /\ Lasting
             /\ \A x \in Orders : local'[x] = "filled" => remote'[x] = "filled"
             /\ sync' = Mirror!Disturbed /\ UNCHANGED mirror
  <2>1. remote[o] = "open" /\ executed[o] < Parts /\ executed' = [executed EXCEPT ![o] = @ + 1]
    BY <1>0, <1>5 DEF Mirror!Execute, Terminal
  <2>2. executed' \in [Orders -> 0..Parts] /\ executed'[o] = executed[o] + 1
        /\ \A x \in Orders \ {o} : executed'[x] = executed[x]
    BY <1>0, <2>1
  <2>3. remote' \in [Orders -> {"none", "open", "filled", "cancelled", "rejected"}]
        /\ remote'[o] = (IF executed'[o] = Parts THEN "filled" ELSE "open")
        /\ \A x \in Orders \ {o} : remote'[x] = remote[x]
    BY <1>0, <1>5, <2>1 DEF Mirror!Execute
  <2>4. UNCHANGED <<local, inbox, mirror>> /\ sync' = Mirror!Disturbed  BY <1>5 DEF Mirror!Execute
  <2>5. Mirror!TypeOK'  BY <1>0, <2>2, <2>3, <2>4 DEF Mirror!TypeOK
  <2>6. Terminal'
    BY <1>0, <2>1, <2>2, <2>3, <2>4 DEF Terminal
  <2>7. Lasting /\ \A x \in Orders : local'[x] = "filled" => remote'[x] = "filled"
    BY <1>0, <2>1, <2>2, <2>3, <2>4 DEF Lasting
  <2> QED  BY <2>4, <2>5, <2>6, <2>7
<1> QED  BY <1>1, <1>2, <1>3, <1>4, <1>5

\* A step of a synchronisation leaves the terminal alone, and what it takes over
\* was executed.
SyncKept(s, next) ==
    /\ next \in Syncing /\ Carries(next) /\ UpToNow(next)'
    /\ UNCHANGED <<inbox, remote, executed>>
    /\ local' \in [Orders -> {"none", "pending", "filled", "cancelled", "rejected"}]
    /\ \A o \in Orders : local'[o] = "filled" => remote[o] = "filled"
    /\ mirror'.position \in [Orders -> Nat] /\ WasExecuted(mirror'.trades)
    /\ \A o \in Orders : mirror'.position[o] <= executed[o]
    /\ \/ sync' = Mirror!DisturbedBy(s, next)
       \/ sync' = [sync EXCEPT ![s] = next] /\ UNCHANGED <<local, mirror>>

LEMMA SyncSteps ==
    ASSUME Parts \in Nat \ {0}, Faithful, NEW s \in Syncs, UpToNow(sync[s]),
           \/ Mirror!ReadPosition(s) \/ Mirror!ReadOrders(s) \/ Mirror!ReadExecutions(s) \/ Mirror!Load(s)
           \/ \E o \in Orders : Mirror!Reconcile(s, o)
           \/ Mirror!Save(s) \/ Mirror!Over(s)
    PROVE  \E next : SyncKept(s, next)
<1> DEFINE Goal == \E next : SyncKept(s, next)
           k == sync[s]
           Then(t) == IF t THEN 1 ELSE 0
<1>1. SUFFICES Goal
  OBVIOUS
<1>2. /\ k \in Syncing /\ Carries(k)
      /\ local \in [Orders -> {"none", "pending", "filled", "cancelled", "rejected"}]
      /\ \A o \in Orders : local[o] = "filled" => remote[o] = "filled"
      /\ remote \in [Orders -> {"none", "open", "filled", "cancelled", "rejected"}]
      /\ executed \in [Orders -> 0..Parts] /\ executed \in [Orders -> Nat]
      /\ mirror.position \in [Orders -> Nat] /\ WasExecuted(mirror.trades)
      /\ \A o \in Orders : mirror.position[o] <= executed[o]
  BY DEF Faithful, Mirror!TypeOK
<1>3. /\ Mirror!Unread \in Syncing /\ Carries(Mirror!Unread)
      /\ Mirror!Unread.pc = "idle" /\ Mirror!NoExecutions \in [Orders -> Nat]
  BY UnreadCarriesNothing DEF Faithful, Mirror!Unread
<1>4. \A e \in Mirror!Executions : e[1] \in Orders /\ e[2] \in Nat
  BY DEF Mirror!Executions
<1>5. CASE Mirror!ReadPosition(s)
  <2>0. PICK next : next = [Mirror!Unread EXCEPT !.pc = "orders", !.position = executed]
    OBVIOUS
  <2>1. next \in Syncing  BY <2>0, <1>2, <1>3 DEF Syncing
  <2>2. /\ next.pc = "orders" /\ next.position = executed /\ next.orders = Mirror!Unread.orders
        /\ next.seen = Mirror!Unread.seen /\ next.trades = Mirror!Unread.trades /\ next.done = {}
    BY <2>0, <1>3 DEF Syncing, Mirror!Unread
  <2>3. sync' = Mirror!DisturbedBy(s, next) /\ UNCHANGED <<local, inbox, remote, executed, mirror>>
    BY <2>0, <1>5 DEF Mirror!ReadPosition
  <2>4. Carries(next)  BY <1>2, <1>3, <2>2 DEF Carries
  <2>5. UpToNow(next)'  BY <2>2, <2>3 DEF UpToNow
  <2> QED  BY <1>2, <2>1, <2>3, <2>4, <2>5 DEF SyncKept
<1>6. CASE Mirror!ReadOrders(s)
  <2>0. PICK next : next = [k EXCEPT !.pc = "executions", !.orders = remote]
    OBVIOUS
  <2>1. next \in Syncing  BY <2>0, <1>2 DEF Syncing
  <2>2. /\ next.pc = "executions" /\ next.position = k.position /\ next.orders = remote
        /\ next.seen = k.seen /\ next.trades = k.trades /\ next.alone = k.alone /\ next.done = k.done
    BY <2>0, <1>2 DEF Syncing
  <2>3. sync' = Mirror!DisturbedBy(s, next) /\ UNCHANGED <<local, inbox, remote, executed, mirror>>
        /\ k.pc = "orders"
    BY <2>0, <1>6 DEF Mirror!ReadOrders, Mirror!At
  <2>4. Carries(next)  BY <1>2, <2>2 DEF Carries
  <2>5. UpToNow(next)'  BY <2>2, <2>3 DEF UpToNow
  <2> QED  BY <1>2, <2>1, <2>3, <2>4, <2>5 DEF SyncKept
<1>7. CASE Mirror!ReadExecutions(s)
  <2> DEFINE seen == {e \in Mirror!Executions : e[2] <= executed[e[1]]}
  <2>0. PICK next : next = [k EXCEPT !.pc = "load", !.seen = seen]
    OBVIOUS
  <2>1. next \in Syncing  BY <2>0, <1>2 DEF Syncing
  <2>2. /\ next.pc = "load" /\ next.position = k.position /\ next.orders = k.orders
        /\ next.seen = seen /\ next.trades = k.trades /\ next.alone = k.alone /\ next.done = k.done
    BY <2>0, <1>2 DEF Syncing
  <2>3. sync' = Mirror!DisturbedBy(s, next) /\ UNCHANGED <<local, inbox, remote, executed, mirror>>
        /\ k.pc = "executions"
    BY <2>0, <1>7 DEF Mirror!ReadExecutions, Mirror!At
  <2>4. Carries(next)  BY <1>2, <2>2 DEF Carries
  <2>5. UpToNow(next)'  BY <2>2, <2>3 DEF UpToNow
  <2> QED  BY <1>2, <2>1, <2>3, <2>4, <2>5 DEF SyncKept
<1>8. CASE Mirror!Load(s)
  <2> DEFINE trades == [e \in Mirror!Executions |->
                            Mirror!Traded(mirror.trades[e], IF e \in k.seen THEN 1 ELSE 0)]
  <2>0. PICK next : next = [k EXCEPT !.pc = "reconcile", !.trades = trades]
    OBVIOUS
  <2>1. ASSUME NEW e \in Mirror!Executions
        PROVE  /\ trades[e] \in Nat /\ trades[e] <= Then(e[2] <= executed[e[1]])
               /\ k.seen = {x \in Mirror!Executions : x[2] <= executed[x[1]]} =>
                     trades[e] = Then(e[2] <= executed[e[1]])
    <3>1. mirror.trades[e] \in Nat /\ mirror.trades[e] <= Then(e[2] <= executed[e[1]])
      BY <1>2 DEF WasExecuted
    <3>2. e \in k.seen => e[2] <= executed[e[1]]  BY <1>2 DEF Carries
    <3>3. trades[e] = IF mirror.trades[e] > 0 THEN mirror.trades[e] ELSE Then(e \in k.seen)
      BY DEF Mirror!Traded
    <3>4. mirror.trades[e] \in 0..1  BY <3>1
    <3>5. CASE mirror.trades[e] > 0
      <4>1. mirror.trades[e] = 1 /\ e[2] <= executed[e[1]]  BY <3>1, <3>4, <3>5
      <4> QED  BY <3>3, <3>5, <4>1
    <3>6. CASE ~(mirror.trades[e] > 0)
      <4>1. trades[e] = Then(e \in k.seen)  BY <3>3, <3>6
      <4> QED  BY <3>2, <4>1
    <3> QED  BY <3>5, <3>6
  <2>2. trades \in [Mirror!Executions -> Nat]  BY <2>1
  <2> HIDE DEF trades
  <2>3. WasExecuted(trades)  BY <2>1, <2>2 DEF WasExecuted
  <2>4. next \in Syncing  BY <2>0, <1>2, <2>2 DEF Syncing
  <2>5. /\ next.pc = "reconcile" /\ next.position = k.position /\ next.orders = k.orders
        /\ next.seen = k.seen /\ next.trades = trades /\ next.alone = k.alone /\ next.done = k.done
    BY <2>0, <1>2 DEF Syncing
  <2>6. sync' = Mirror!DisturbedBy(s, next) /\ UNCHANGED <<local, inbox, remote, executed, mirror>>
        /\ k.pc = "load"
    BY <2>0, <1>8 DEF Mirror!Load, Mirror!At, trades
  <2>7. Carries(next)  BY <1>2, <2>3, <2>5 DEF Carries
  <2>8. UpToNow(next)'
    BY <2>1, <2>5, <2>6 DEF UpToNow
  <2> QED  BY <1>2, <2>4, <2>6, <2>7, <2>8 DEF SyncKept
<1>9. ASSUME NEW o \in Orders, Mirror!Reconcile(s, o) PROVE Goal
  <2>0. PICK next : next = [k EXCEPT !.done = @ \cup {o}]
    OBVIOUS
  <2>1. next \in Syncing  BY <2>0, <1>2 DEF Syncing
  <2>2. /\ next.pc = k.pc /\ next.position = k.position /\ next.orders = k.orders
        /\ next.seen = k.seen /\ next.trades = k.trades /\ next.alone = k.alone
        /\ next.done = k.done \cup {o}
    BY <2>0, <1>2 DEF Syncing
  <2>3. /\ sync' = Mirror!DisturbedBy(s, next) /\ UNCHANGED <<inbox, remote, executed, mirror>>
        /\ k.pc = "reconcile"
        /\ local' = IF k.orders[o] = "none" THEN local
                    ELSE [local EXCEPT ![o] = Mirror!StatusOf(k.orders[o])]
    BY <2>0, <1>9 DEF Mirror!Reconcile, Mirror!At
  <2>4. Carries(next)  BY <1>2, <2>2 DEF Carries
  <2>5. k.orders[o] \in {"none", "open", "filled", "cancelled", "rejected"}
    BY <1>2 DEF Syncing
  <2>6. k.orders[o] # "none" =>
          /\ Mirror!StatusOf(k.orders[o]) \in {"pending", "filled", "cancelled", "rejected"}
          /\ Mirror!StatusOf(k.orders[o]) = "filled" => remote[o] = "filled"
    BY <1>2, <2>5 DEF Mirror!StatusOf, Carries
  <2>7. local' \in [Orders -> {"none", "pending", "filled", "cancelled", "rejected"}]
    BY <1>2, <2>3, <2>6
  <2>8. \A x \in Orders : local'[x] = "filled" => remote[x] = "filled"
    BY <1>2, <2>3, <2>6
  <2>9. ASSUME k.alone
        PROVE  \A x \in next.done : remote[x] # "none" => local'[x] = Mirror!StatusOf(remote[x])
    <3>1. k.orders = remote /\ k.done \subseteq Orders
      BY <1>2, <2>3, <2>9 DEF UpToNow, Syncing
    <3>2. \A x \in k.done : remote[x] # "none" => local[x] = Mirror!StatusOf(remote[x])
      BY <2>3, <2>9 DEF UpToNow
    <3>3. remote[o] # "none" => local'[o] = Mirror!StatusOf(remote[o])
      BY <1>2, <2>3, <3>1
    <3>4. \A x \in k.done \ {o} : local'[x] = local[x]
      BY <1>2, <2>3, <3>1
    <3> QED  BY <2>2, <3>2, <3>3, <3>4
  <2>10. UpToNow(next)'
    BY <2>2, <2>3, <2>9 DEF UpToNow
  <2> QED  BY <1>2, <2>1, <2>3, <2>4, <2>7, <2>8, <2>10 DEF SyncKept
<1>10. CASE Mirror!Save(s)
  <2>0. PICK next : next = [k EXCEPT !.pc = "saved"]
    OBVIOUS
  <2>1. next \in Syncing  BY <2>0, <1>2 DEF Syncing
  <2>2. /\ next.pc = "saved" /\ next.position = k.position /\ next.orders = k.orders
        /\ next.seen = k.seen /\ next.trades = k.trades /\ next.alone = k.alone /\ next.done = k.done
    BY <2>0, <1>2 DEF Syncing
  <2>3. /\ sync' = Mirror!DisturbedBy(s, next) /\ UNCHANGED <<local, inbox, remote, executed>>
        /\ k.pc = "reconcile" /\ k.done = Orders
        /\ mirror' = [position |-> k.position, trades |-> k.trades]
    BY <2>0, <1>10 DEF Mirror!Save, Mirror!At
  <2>4. Carries(next)  BY <1>2, <2>2 DEF Carries
  <2>5. mirror'.position = k.position /\ mirror'.trades = k.trades  BY <2>3
  <2>6. UpToNow(next)'  BY <2>2, <2>3, <2>5 DEF UpToNow
  <2>7. /\ mirror'.position \in [Orders -> Nat] /\ WasExecuted(mirror'.trades)
        /\ \A o \in Orders : mirror'.position[o] <= executed[o]
    BY <1>2, <2>5 DEF Syncing, Carries
  <2> QED  BY <1>2, <2>1, <2>3, <2>4, <2>6, <2>7 DEF SyncKept
<1>11. CASE Mirror!Over(s)
  <2>1. sync' = [sync EXCEPT ![s] = Mirror!Unread] /\ UNCHANGED <<local, inbox, remote, executed, mirror>>
    BY <1>11 DEF Mirror!Over
  <2>2. UpToNow(Mirror!Unread)'
    <3> DEFINE next == Mirror!Unread
    <3>1. next.pc = "idle"  BY <1>3
    <3> QED  BY <1>3 DEF UpToNow, Mirror!Unread
  <2> QED  BY <1>2, <1>3, <2>1, <2>2 DEF SyncKept
<1> QED  BY <1>5, <1>6, <1>7, <1>8, <1>9, <1>10, <1>11

MirrorInv == Faithful /\ \A s \in Syncs : UpToNow(sync[s])

LEMMA MirrorStep ==
    ASSUME Parts \in Nat \ {0}, MirrorInv, [Mirror!Next]_(Mirror!vars)
    PROVE  MirrorInv'
<1>0. Faithful /\ \A s \in Syncs : UpToNow(sync[s]) /\ sync[s] \in Syncing /\ Carries(sync[s])
  BY DEF MirrorInv, Faithful
<1>1. CASE UNCHANGED Mirror!vars
  <2>1. UNCHANGED <<local, inbox, remote, executed, mirror, sync>>  BY <1>1 DEF Mirror!vars
  <2>2. Faithful'
    BY <1>0, <2>1 DEF Faithful, Mirror!TypeOK, Terminal, Carries, WasExecuted
  <2>3. \A s \in Syncs : UpToNow(sync[s])'  BY <1>0, <2>1 DEF UpToNow
  <2> QED  BY <2>2, <2>3 DEF MirrorInv
<1>a. ASSUME NEW s \in Syncs, NEW t \in Syncing, t = [sync[s] EXCEPT !.alone = FALSE]
      PROVE  Carries(t) /\ UpToNow(t)'
  <2>1. Carries(t)  BY <1>0, <1>a, SyncFields
  <2>2. t.alone = FALSE  BY <1>0, <1>a DEF Syncing
  <2> QED  BY <2>1, <2>2 DEF UpToNow
<1>2. CASE \E o \in Orders :
              \/ Mirror!Create(o) \/ Mirror!Submit(o) \/ Mirror!Unavailable(o)
              \/ Mirror!CommandCancel(o) \/ Mirror!CancelRow(o)
              \/ \E status \in {"open", "rejected"} : Mirror!Accept(o, status)
              \/ Mirror!AcceptCancel(o) \/ Mirror!Execute(o)
  <2>1. /\ Mirror!TypeOK' /\ Terminal' /\ Lasting
        /\ \A o \in Orders : local'[o] = "filled" => remote'[o] = "filled"
        /\ sync' = Mirror!Disturbed /\ UNCHANGED mirror
    BY <1>0, <1>2, OutsideSteps
  <2>2. /\ \A k \in Syncing : Carries(k) => Carries(k)'
        /\ \A trades : WasExecuted(trades) => WasExecuted(trades)'
    BY <1>0, <2>1, CarriesOn DEF Faithful
  <2>3. ASSUME NEW s \in Syncs
        PROVE  sync'[s] \in Syncing /\ Carries(sync[s])' /\ UpToNow(sync[s])'
    <3>1. PICK t : t = [sync[s] EXCEPT !.alone = FALSE]
      OBVIOUS
    <3>2. t \in Syncing  BY <1>0, <3>1, SyncFields
    <3>3. sync'[s] = t  BY <2>1, <3>1 DEF Mirror!Disturbed
    <3>4. Carries(t)' /\ UpToNow(t)'  BY <1>a, <2>2, <3>1, <3>2
    <3> QED  BY <3>2, <3>3, <3>4 DEF Carries, UpToNow
  <2>4. sync' \in [Syncs -> Syncing]
    BY <2>1, <2>3 DEF Mirror!Disturbed
  <2>5. /\ mirror'.position \in [Orders -> Nat] /\ WasExecuted(mirror.trades)'
        /\ \A o \in Orders : mirror'.position[o] <= executed'[o]
    <3>1. /\ mirror.position \in [Orders -> Nat] /\ WasExecuted(mirror.trades)
          /\ \A o \in Orders : mirror.position[o] <= executed[o]
          /\ executed \in [Orders -> Nat] /\ executed' \in [Orders -> Nat]
      BY <1>0, <2>1 DEF Faithful, Mirror!TypeOK
    <3>2. PICK trades : trades = mirror.trades
      OBVIOUS
    <3>3. WasExecuted(trades)' /\ mirror'.trades = trades  BY <2>1, <2>2, <3>1, <3>2
    <3>4. WasExecuted(mirror.trades)'  BY <3>3 DEF WasExecuted
    <3>5. \A o \in Orders : mirror'.position[o] <= executed'[o]  BY <2>1, <3>1 DEF Lasting
    <3> QED  BY <2>1, <3>1, <3>4, <3>5
  <2> QED  BY <2>1, <2>3, <2>4, <2>5 DEF MirrorInv, Faithful
<1>3. ASSUME NEW s \in Syncs,
             \/ Mirror!ReadPosition(s) \/ Mirror!ReadOrders(s) \/ Mirror!ReadExecutions(s) \/ Mirror!Load(s)
             \/ \E o \in Orders : Mirror!Reconcile(s, o)
             \/ Mirror!Save(s) \/ Mirror!Over(s)
      PROVE  MirrorInv'
  <2>1. PICK next : SyncKept(s, next)  BY <1>0, <1>3, SyncSteps
  <2>2. /\ next \in Syncing /\ Carries(next) /\ UpToNow(next)'
        /\ UNCHANGED <<inbox, remote, executed>>
        /\ local' \in [Orders -> {"none", "pending", "filled", "cancelled", "rejected"}]
        /\ \A o \in Orders : local'[o] = "filled" => remote[o] = "filled"
        /\ mirror'.position \in [Orders -> Nat] /\ WasExecuted(mirror'.trades)
        /\ \A o \in Orders : mirror'.position[o] <= executed[o]
        /\ \/ sync' = Mirror!DisturbedBy(s, next)
           \/ sync' = [sync EXCEPT ![s] = next] /\ UNCHANGED <<local, mirror>>
    BY <2>1 DEF SyncKept
  <2>3. Mirror!TypeOK' /\ Terminal'
    BY <1>0, <2>2 DEF Faithful, Mirror!TypeOK, Terminal
  <2>4. sync'[s] = next
    BY <1>0, <2>2 DEF Faithful, Mirror!DisturbedBy
  <2>5. sync'[s] \in Syncing /\ Carries(sync[s])' /\ UpToNow(sync[s])'
    BY <2>2, <2>4 DEF Carries, WasExecuted, UpToNow
  <2>6. ASSUME NEW e \in Syncs \ {s}
        PROVE  sync'[e] \in Syncing /\ Carries(sync[e])' /\ UpToNow(sync[e])'
    <3>1. CASE sync' = Mirror!DisturbedBy(s, next)
      <4>1. PICK t : t = [sync[e] EXCEPT !.alone = FALSE]
        OBVIOUS
      <4>2. t \in Syncing  BY <1>0, <4>1, SyncFields
      <4>3. sync'[e] = t  BY <3>1, <4>1 DEF Mirror!DisturbedBy
      <4>4. Carries(t) /\ UpToNow(t)'  BY <1>a, <4>1, <4>2
      <4> QED  BY <2>2, <4>2, <4>3, <4>4 DEF Carries, WasExecuted, UpToNow
    <3>2. CASE sync' = [sync EXCEPT ![s] = next] /\ UNCHANGED <<local, mirror>>
      <4>1. sync'[e] = sync[e]  BY <1>0, <3>2 DEF Faithful
      <4> QED  BY <1>0, <2>2, <3>2, <4>1 DEF Carries, WasExecuted, UpToNow
    <3> QED  BY <2>2, <3>1, <3>2
  <2>7. sync' \in [Syncs -> Syncing]
    BY <1>0, <2>2, <2>5, <2>6 DEF Faithful, Mirror!DisturbedBy
  <2>8. WasExecuted(mirror.trades)'  BY <2>2 DEF WasExecuted
  <2> QED  BY <2>2, <2>3, <2>5, <2>6, <2>7, <2>8 DEF MirrorInv, Faithful
<1> QED  BY <1>1, <1>2, <1>3 DEF Mirror!Next

LEMMA MirrorStart ==
    ASSUME Parts \in Nat \ {0}, Mirror!Init
    PROVE  MirrorInv
<1>1. /\ Mirror!TypeOK /\ local = [o \in Orders |-> "none"] /\ inbox = {}
      /\ remote = [o \in Orders |-> "none"] /\ executed = Mirror!NoExecutions
      /\ mirror = [position |-> Mirror!NoExecutions, trades |-> [e \in Mirror!Executions |-> 0]]
      /\ sync = [s \in Syncs |-> Mirror!Unread]
  BY DEF Mirror!Init, Mirror!TypeOK, Mirror!NoExecutions
<1>2. /\ Mirror!Unread \in Syncing /\ Carries(Mirror!Unread)
      /\ Mirror!NoExecutions \in [Orders -> Nat]
      /\ \A o \in Orders : Mirror!NoExecutions[o] = 0
  BY <1>1, UnreadCarriesNothing DEF Mirror!NoExecutions
<1>3. Terminal  BY <1>1, <1>2 DEF Terminal
<1>4. WasExecuted(mirror.trades)
  BY <1>1 DEF WasExecuted
<1>5. Faithful  BY <1>1, <1>2, <1>3, <1>4 DEF Faithful
<1>6. Mirror!Unread.pc = "idle"  BY DEF Mirror!Unread
<1>7. \A s \in Syncs : UpToNow(sync[s])  BY <1>1, <1>6 DEF UpToNow
<1> QED  BY <1>5, <1>7 DEF MirrorInv

\* However synchronisations with a terminal overlap, fail, or read what is
\* changing, the mirrored account has no trade twice and none that was not
\* executed, no order says it is filled that is not, and a synchronisation that
\* nothing interrupts leaves the mirror equal to the terminal, whatever the ones
\* before it left (simulation_account.py:208, broker_adapters.py:420).
THEOREM MirrorIsFaithfulHolds ==
    ASSUME Parts \in Nat \ {0}
    PROVE  Mirror!Spec => []Mirror!MirrorIsFaithful
<1>1. Mirror!Init => MirrorInv  BY MirrorStart
<1>2. MirrorInv /\ [Mirror!Next]_(Mirror!vars) => MirrorInv'  BY MirrorStep
<1>3. MirrorInv => Mirror!NothingInvented
  BY DEF MirrorInv, Faithful, WasExecuted, Mirror!NothingInvented
<1>4. MirrorInv => Mirror!MirrorsTheTerminal
  BY DEF MirrorInv, UpToNow, Mirror!MirrorsTheTerminal, Mirror!At
<1>5. MirrorInv => Mirror!MirrorIsFaithful  BY <1>3, <1>4 DEF Mirror!MirrorIsFaithful
<1> QED  BY <1>1, <1>2, <1>5, PTL DEF Mirror!Spec

-----------------------------------------------------------------------------
(***************************************************************************)
(* The permanent cache of market history (HistoryCache), for any requests,   *)
(* trading days, threads and revisions upstream: what it holds of a day it    *)
(* holds for good.                                                          *)
(***************************************************************************)
CONSTANTS Periods, Trading, Cutoff, MaxVersion
VARIABLES version, manifest, known, writer, access
Cache == INSTANCE HistoryCache WITH call <- access, Asks <- Periods


\* A day is a number from some first day on.
LEMMA LeastDay ==
    ASSUME NEW S, S \subseteq Nat, S # {}
    PROVE  \E m \in S : \A x \in S : m <= x
<1> DEFINE R == OpToRel(<, Nat)
<1>1. IsWellFoundedOn(R, Nat)  BY NatLessThanWellFounded
<1>2. \A x, y \in Nat : y < x => <<y, x>> \in R  BY DEF OpToRel
<1> HIDE DEF R
<1>3. PICK m \in S : \A y \in S : ~(<<y, m>> \in R)  BY <1>1, WFMin
<1>4. ASSUME NEW x \in S PROVE m <= x
  <2>1. x \in Nat /\ m \in Nat /\ ~(x < m)  BY <1>2, <1>3, <1>4
  <2> QED  BY <2>1
<1> QED  BY <1>3, <1>4

LEMMA LastDay ==
    ASSUME NEW S, S \subseteq Nat, S # {}, NEW top \in Nat, \A x \in S : x <= top
    PROVE  \E m \in S : \A x \in S : x <= m
<1> DEFINE T == {top - x : x \in S}
<1>1. T \subseteq Nat /\ T # {}
  <2>1. \A x \in S : top - x \in Nat  OBVIOUS
  <2> QED  BY <2>1
<1>2. PICK t \in T : \A u \in T : t <= u  BY <1>1, LeastDay
<1>3. PICK m \in S : t = top - m  BY <1>2
<1>4. ASSUME NEW x \in S PROVE x <= m
  <2>1. top - x \in T  BY <1>4
  <2>2. t <= top - x  BY <1>2, <2>1
  <2>3. x \in Nat /\ m \in Nat  BY <1>3, <1>4
  <2> QED  BY <1>3, <2>2, <2>3
<1> QED  BY <1>3, <1>4

Ranges == Nat \X Nat
LEMMA DaysOf ==
    ASSUME NEW R, NEW d
    PROVE  d \in Cache!Days(R) <=> \E r \in R : d \in r[1]..r[2]
BY DEF Cache!Days

\* _missing_ranges: all that is asked for and not covered, no day twice.
LEMMA MissingIsLacking ==
    ASSUME NEW ask \in Ranges, NEW R, R \subseteq Ranges
    PROVE  /\ Cache!Days(Cache!MissingRanges(ask, R)) = (ask[1]..ask[2]) \ Cache!Days(R)
           /\ Cache!MissingRanges(ask, R) \subseteq Ranges
           /\ \A r \in Cache!MissingRanges(ask, R) : r[1] <= r[2] /\ r[2] <= ask[2]
           /\ \A r, s \in Cache!MissingRanges(ask, R) : r = s \/ (r[1]..r[2]) \cap (s[1]..s[2]) = {}
<1> DEFINE M == Cache!MissingRanges(ask, R)
           D == Cache!Days(R)
<1>0. ask[1] \in Nat /\ ask[2] \in Nat /\ \A r \in R : r[1] \in Nat /\ r[2] \in Nat  BY DEF Ranges
<1>1. ASSUME NEW r \in M
      PROVE  /\ r \in Ranges /\ r[1] \in Nat /\ r[2] \in Nat /\ r = <<r[1], r[2]>>
             /\ ask[1] <= r[1] /\ r[1] <= r[2] /\ r[2] <= ask[2]
             /\ (r[1]..r[2]) \cap D = {}
             /\ r[1] = ask[1] \/ r[1] - 1 \in D
             /\ r[2] = ask[2] \/ r[2] + 1 \in D
  <2>1. /\ r \in ({ask[1]} \cup {s[2] + 1 : s \in R}) \X ({ask[2]} \cup {s[1] - 1 : s \in R})
        /\ ask[1] <= r[1] /\ r[1] <= r[2] /\ r[2] <= ask[2]
        /\ (r[1]..r[2]) \cap D = {}
        /\ r[1] = ask[1] \/ r[1] - 1 \in D
        /\ r[2] = ask[2] \/ r[2] + 1 \in D
    BY <1>1 DEF Cache!MissingRanges
  <2>2. r[1] \in Int /\ r[2] \in Int /\ r = <<r[1], r[2]>>  BY <1>0, <2>1
  <2>3. r[1] \in Nat /\ r[2] \in Nat  BY <1>0, <2>1, <2>2
  <2> QED  BY <2>1, <2>2, <2>3 DEF Ranges
<1>2. ASSUME NEW d \in ask[1]..ask[2], d \notin D PROVE \E r \in M : d \in r[1]..r[2]
  <2> DEFINE L == {x \in Nat : ask[1] <= x /\ x <= d /\ (x..d) \cap D = {}}
             H == {x \in Nat : d <= x /\ x <= ask[2] /\ (d..x) \cap D = {}}
  <2>0. d \in Nat /\ ask[1] <= d /\ d <= ask[2]  BY <1>0, <1>2
  <2>1. PICK lo \in L : \A x \in L : lo <= x
    <3>1. d \in L  BY <1>2, <2>0
    <3> QED  BY <3>1, LeastDay
  <2>2. PICK hi \in H : \A x \in H : x <= hi
    <3>1. d \in H  BY <1>2, <2>0
    <3>2. H \subseteq Nat /\ \A x \in H : x <= ask[2]  OBVIOUS
    <3> HIDE DEF H
    <3> QED  BY <1>0, <3>1, <3>2, LastDay
  <2>3. lo \in Nat /\ ask[1] <= lo /\ lo <= d /\ (lo..d) \cap D = {} /\ lo \notin D  BY <2>1, <2>0
  <2>4. hi \in Nat /\ d <= hi /\ hi <= ask[2] /\ (d..hi) \cap D = {} /\ hi \notin D  BY <2>2, <2>0
  <2>5. lo = ask[1] \/ (lo - 1 \in D /\ \E s \in R : lo = s[2] + 1)
    <3> SUFFICES ASSUME lo # ask[1] PROVE lo - 1 \in D /\ \E s \in R : lo = s[2] + 1
      OBVIOUS
    <3>1. lo - 1 \in Nat /\ ask[1] <= lo - 1 /\ lo - 1 <= d  BY <2>3, <1>0
    <3>2. lo - 1 \notin L  BY <2>1, <2>3, <3>1
    <3>3. PICK y \in (lo - 1)..d : y \in D  BY <3>1, <3>2
    <3>4. y = lo - 1  BY <2>3, <2>0, <3>1, <3>3
    <3>5. PICK s \in R : lo - 1 \in s[1]..s[2]  BY <3>3, <3>4, DaysOf
    <3>6. lo \notin s[1]..s[2]  BY <2>3, DaysOf
    <3>7. lo = s[2] + 1  BY <1>0, <2>3, <3>5, <3>6
    <3> QED  BY <3>3, <3>4, <3>7
  <2>6. hi = ask[2] \/ (hi + 1 \in D /\ \E s \in R : hi = s[1] - 1)
    <3> SUFFICES ASSUME hi # ask[2] PROVE hi + 1 \in D /\ \E s \in R : hi = s[1] - 1
      OBVIOUS
    <3>1. hi + 1 \in Nat /\ hi + 1 <= ask[2] /\ d <= hi + 1  BY <2>4, <1>0, <2>0
    <3>2. hi + 1 \notin H  BY <2>2, <2>4, <3>1
    <3>3. PICK y \in d..(hi + 1) : y \in D  BY <3>1, <3>2
    <3>4. y = hi + 1  BY <2>4, <2>0, <3>1, <3>3
    <3>5. PICK s \in R : hi + 1 \in s[1]..s[2]  BY <3>3, <3>4, DaysOf
    <3>6. hi \notin s[1]..s[2]  BY <2>4, DaysOf
    <3>7. hi = s[1] - 1  BY <1>0, <2>4, <3>5, <3>6
    <3> QED  BY <3>3, <3>4, <3>7
  <2>7. (lo..hi) \cap D = {}
    <3>1. \A x \in lo..hi : x \in lo..d \/ x \in d..hi  BY <2>0, <2>3, <2>4
    <3> QED  BY <3>1, <2>3, <2>4
  <2>8. lo \in {ask[1]} \cup {s[2] + 1 : s \in R}  BY <2>5
  <2>9. hi \in {ask[2]} \cup {s[1] - 1 : s \in R}  BY <2>6
  <2> DEFINE r == <<lo, hi>>
  <2>10. r[1] = lo /\ r[2] = hi /\ r \in ({ask[1]} \cup {s[2] + 1 : s \in R}) \X ({ask[2]} \cup {s[1] - 1 : s \in R})
    BY <2>8, <2>9
  <2> HIDE DEF r
  <2>11. r \in M  BY <2>0, <2>3, <2>4, <2>5, <2>6, <2>7, <2>10 DEF Cache!MissingRanges
  <2>12. d \in r[1]..r[2]  BY <2>0, <2>3, <2>4, <2>10
  <2> QED  BY <2>11, <2>12
<1>3. ASSUME NEW r \in M, NEW s \in M, NEW d \in r[1]..r[2], d \in s[1]..s[2] PROVE r = s
  <2>1. ~(r[1] < s[1]) /\ ~(s[1] < r[1])
    <3>1. ASSUME NEW a \in M, NEW b \in M, d \in a[1]..a[2], d \in b[1]..b[2], a[1] < b[1] PROVE FALSE
      <4>1. /\ a[1] \in Nat /\ a[2] \in Nat /\ b[1] \in Nat /\ b[2] \in Nat
            /\ ask[1] <= a[1] /\ (a[1]..a[2]) \cap D = {}
            /\ (b[1] = ask[1] \/ b[1] - 1 \in D)
        BY <1>1, <3>1
      <4>2. b[1] - 1 \in a[1]..a[2]  BY <3>1, <4>1
      <4> QED  BY <1>0, <3>1, <4>1, <4>2
    <3> QED  BY <1>3, <3>1
  <2>2. ~(r[2] < s[2]) /\ ~(s[2] < r[2])
    <3>1. ASSUME NEW a \in M, NEW b \in M, d \in a[1]..a[2], d \in b[1]..b[2], a[2] < b[2] PROVE FALSE
      <4>1. /\ a[1] \in Nat /\ a[2] \in Nat /\ b[1] \in Nat /\ b[2] \in Nat
            /\ b[2] <= ask[2] /\ (b[1]..b[2]) \cap D = {}
            /\ (a[2] = ask[2] \/ a[2] + 1 \in D)
        BY <1>1, <3>1
      <4>2. a[2] + 1 \in b[1]..b[2]  BY <3>1, <4>1
      <4> QED  BY <1>0, <3>1, <4>1, <4>2
    <3> QED  BY <1>3, <3>1
  <2> QED  BY <1>1, <1>3, <2>1, <2>2
<1>4. \A d : d \in Cache!Days(M) <=> d \in (ask[1]..ask[2]) \ D
  <2>1. ASSUME NEW d \in Cache!Days(M) PROVE d \in (ask[1]..ask[2]) \ D
    <3>1. PICK r \in M : d \in r[1]..r[2]  BY <2>1, DaysOf
    <3> HIDE DEF M, D
    <3> QED  BY <1>0, <1>1, <3>1
  <2>2. ASSUME NEW d \in (ask[1]..ask[2]) \ D PROVE d \in Cache!Days(M)
    <3> HIDE DEF M, D
    <3> QED  BY <1>2, <2>2, DaysOf
  <2> QED  BY <2>1, <2>2
<1> HIDE DEF M, D
<1>5. M \subseteq Ranges /\ \A r \in M : r[1] <= r[2] /\ r[2] <= ask[2]  BY <1>1
<1>6. \A r, s \in M : r = s \/ (r[1]..r[2]) \cap (s[1]..s[2]) = {}  BY <1>3
<1> QED  BY <1>4, <1>5, <1>6 DEF M, D

\* Ranges that neither meet nor adjoin.
Apart(R) == \A r, s \in R : r = s \/ r[2] + 1 < s[1] \/ s[2] + 1 < r[1]
\* _merge_ranges: the days stay, the ranges are apart.
LEMMA MergedAreApart ==
    ASSUME NEW top \in Nat, NEW R, R \subseteq Ranges, \A r \in R : r[2] <= top
    PROVE  /\ Cache!Days(Cache!MergeRanges(R)) = Cache!Days(R)
           /\ Cache!MergeRanges(R) \subseteq Ranges
           /\ \A r \in Cache!MergeRanges(R) : r[2] <= top
           /\ Apart(Cache!MergeRanges(R))
<1> DEFINE M == Cache!MergeRanges(R)
           D == Cache!Days(R)
<1>0. /\ \A r \in R : r[1] \in Nat /\ r[2] \in Nat /\ r[2] <= top
      /\ \A d \in D : d \in Nat /\ d <= top
  <2>1. \A r \in R : r[1] \in Nat /\ r[2] \in Nat /\ r[2] <= top  BY DEF Ranges
  <2> QED  BY <2>1, DaysOf
<1>1. ASSUME NEW r \in M
      PROVE  /\ r \in Ranges /\ r[1] \in Nat /\ r[2] \in Nat /\ r = <<r[1], r[2]>> /\ r[2] <= top
             /\ r[1] <= r[2] /\ r[1]..r[2] \subseteq D /\ r[1] - 1 \notin D /\ r[2] + 1 \notin D
  <2>1. /\ r \in {s[1] : s \in R} \X {s[2] : s \in R}
        /\ r[1] <= r[2] /\ r[1]..r[2] \subseteq D /\ r[1] - 1 \notin D /\ r[2] + 1 \notin D
    BY <1>1 DEF Cache!MergeRanges
  <2>2. r[1] \in Nat /\ r[2] \in Nat /\ r = <<r[1], r[2]>> /\ r[2] <= top  BY <1>0, <2>1
  <2> QED  BY <2>1, <2>2 DEF Ranges
<1>2. ASSUME NEW d \in D PROVE \E r \in M : d \in r[1]..r[2]
  <2> DEFINE L == {x \in Nat : x <= d /\ x..d \subseteq D}
             H == {x \in Nat : d <= x /\ d..x \subseteq D}
  <2>0. d \in Nat /\ d..d = {d}  BY <1>0, <1>2
  <2>1. PICK lo \in L : \A x \in L : lo <= x
    <3>1. d \in L  BY <1>2, <2>0
    <3> QED  BY <3>1, LeastDay
  <2>2. PICK hi \in H : \A x \in H : x <= hi
    <3>1. d \in H  BY <1>2, <2>0
    <3>2. H \subseteq Nat /\ \A x \in H : x <= top
      <4>1. \A x \in H : x \in d..x  BY <2>0
      <4> QED  BY <1>0, <4>1
    <3> HIDE DEF H
    <3> QED  BY <3>1, <3>2, LastDay
  <2>3. lo \in Nat /\ lo <= d /\ lo..d \subseteq D /\ lo \in D  BY <2>1, <2>0
  <2>4. hi \in Nat /\ d <= hi /\ d..hi \subseteq D /\ hi \in D  BY <2>2, <2>0
  <2>5. lo - 1 \notin D
    <3> SUFFICES ASSUME lo - 1 \in D PROVE FALSE
      OBVIOUS
    <3>1. lo - 1 \in Nat  BY <1>0
    <3>2. (lo - 1)..d \subseteq D
      <4>1. \A x \in (lo - 1)..d : x = lo - 1 \/ x \in lo..d  BY <2>0, <2>3
      <4> QED  BY <4>1, <2>3
    <3>3. lo - 1 \in L  BY <3>1, <3>2, <2>3, <2>0
    <3> QED  BY <2>1, <2>3, <3>3
  <2>6. hi + 1 \notin D
    <3> SUFFICES ASSUME hi + 1 \in D PROVE FALSE
      OBVIOUS
    <3>1. d..(hi + 1) \subseteq D
      <4>1. \A x \in d..(hi + 1) : x = hi + 1 \/ x \in d..hi  BY <2>0, <2>4
      <4> QED  BY <4>1, <2>4
    <3>2. hi + 1 \in H  BY <3>1, <2>4, <2>0
    <3> QED  BY <2>2, <2>4, <3>2
  <2>7. PICK s \in R : lo \in s[1]..s[2]  BY <2>3, DaysOf
  <2>8. lo = s[1]
    <3>1. lo - 1 \notin s[1]..s[2]  BY <2>5, DaysOf
    <3> QED  BY <1>0, <2>3, <2>7, <3>1
  <2>9. PICK t \in R : hi \in t[1]..t[2]  BY <2>4, DaysOf
  <2>10. hi = t[2]
    <3>1. hi + 1 \notin t[1]..t[2]  BY <2>6, DaysOf
    <3> QED  BY <1>0, <2>4, <2>9, <3>1
  <2>11. lo..hi \subseteq D
    <3>1. \A x \in lo..hi : x \in lo..d \/ x \in d..hi  BY <2>0, <2>3, <2>4
    <3> QED  BY <3>1, <2>3, <2>4
  <2> DEFINE r == <<lo, hi>>
  <2>12. r[1] = lo /\ r[2] = hi /\ r \in {x[1] : x \in R} \X {x[2] : x \in R}
    BY <2>8, <2>10
  <2> HIDE DEF r
  <2>13. r \in M  BY <2>0, <2>3, <2>4, <2>5, <2>6, <2>11, <2>12 DEF Cache!MergeRanges
  <2>14. d \in r[1]..r[2]  BY <2>0, <2>3, <2>4, <2>12
  <2> QED  BY <2>13, <2>14
<1>3. ASSUME NEW r \in M, NEW s \in M, ~(r[2] + 1 < s[1]), ~(s[2] + 1 < r[1]) PROVE r = s
  <2>1. /\ r[1] \in Nat /\ r[2] \in Nat /\ s[1] \in Nat /\ s[2] \in Nat
        /\ r = <<r[1], r[2]>> /\ s = <<s[1], s[2]>> /\ r[1] <= r[2] /\ s[1] <= s[2]
    BY <1>1
  <2>2. /\ r[2] + 1 \notin s[1]..s[2] /\ s[2] + 1 \notin r[1]..r[2]
        /\ r[1] - 1 \notin s[1]..s[2] /\ s[1] - 1 \notin r[1]..r[2]
    BY <1>1
  <2>3. r[2] = s[2]  BY <1>3, <2>1, <2>2
  <2>4. r[1] = s[1]  BY <1>3, <2>1, <2>2
  <2> QED  BY <2>1, <2>3, <2>4
<1>4. \A d : d \in Cache!Days(M) <=> d \in D
  <2>1. ASSUME NEW d \in Cache!Days(M) PROVE d \in D
    <3>1. PICK r \in M : d \in r[1]..r[2]  BY <2>1, DaysOf
    <3> HIDE DEF M, D
    <3> QED  BY <1>1, <3>1
  <2>2. ASSUME NEW d \in D PROVE d \in Cache!Days(M)
    <3> HIDE DEF M, D
    <3> QED  BY <1>2, <2>2, DaysOf
  <2> QED  BY <2>1, <2>2
<1> HIDE DEF M, D
<1>5. M \subseteq Ranges /\ \A r \in M : r[2] <= top  BY <1>1
<1>6. \A r, s \in M : r = s \/ r[2] + 1 < s[1] \/ s[2] + 1 < r[1]  BY <1>3
<1> QED  BY <1>4, <1>5, <1>6 DEF M, D, Apart

IsAccess(k) ==
    k \in [pc : {k.pc}, ask : {k.ask}, snapshot : {k.snapshot}, gaps : {k.gaps}, fetched : {k.fetched},
           answer : {k.answer}]
Accesses == DOMAIN access = Callers /\ \A c \in Callers : IsAccess(access[c])
\* Who writes holds the lock, and extends what the store holds.
Committing ==
    /\ \A c \in Callers : access[c].pc \in {"write", "verify"} => writer = {c}
    /\ \A c \in Callers : access[c].pc = "write" => access[c].snapshot = manifest

\* What the changes of a request leave alone.
Moved(k, pc) == [k EXCEPT !.pc = pc]
Looked(k, gaps, pc) == [k EXCEPT !.gaps = gaps, !.pc = pc]
Fetched(k, gaps, pc, table) == [k EXCEPT !.gaps = gaps, !.pc = pc, !.fetched = table]
Saw(k, base, pc) == [k EXCEPT !.snapshot = base, !.pc = pc]
Answers(k, table) == [k EXCEPT !.pc = "done", !.answer = table]
LEMMA AccessFields ==
    ASSUME NEW k, IsAccess(k), NEW pc, NEW any, NEW some
    PROVE  /\ IsAccess(Moved(k, pc)) /\ Moved(k, pc).pc = pc
           /\ IsAccess(Looked(k, any, pc)) /\ Looked(k, any, pc).pc = pc
           /\ IsAccess(Fetched(k, any, pc, some)) /\ Fetched(k, any, pc, some).pc = pc
           /\ IsAccess(Saw(k, any, pc)) /\ Saw(k, any, pc).pc = pc /\ Saw(k, any, pc).snapshot = any
           /\ IsAccess(Answers(k, any)) /\ Answers(k, any).pc = "done"
BY DEF IsAccess, Moved, Looked, Fetched, Saw, Answers
Begun(pc, ask, base) == [Cache!Idle EXCEPT !.pc = pc, !.ask = ask, !.snapshot = base]
LEMMA AccessBegins ==
    ASSUME NEW pc, NEW ask, NEW any
    PROVE  IsAccess(Cache!Idle) /\ IsAccess(Begun(pc, ask, any)) /\ Begun(pc, ask, any).pc = pc
BY DEF IsAccess, Cache!Idle, Begun

LEMMA AccessMoves ==
    ASSUME Accesses, NEW c \in Callers, NEW next, IsAccess(next), access' = [access EXCEPT ![c] = next]
    PROVE  Accesses' /\ access'[c] = next /\ \A d \in Callers \ {c} : access'[d] = access[d]
BY DEF Accesses

\* The lock is held by who writes, over what the store holds (HistoryCache._commit).
LEMMA CommitsInTurn == Cache!Spec => [](Accesses /\ Committing)
<1> DEFINE Committed == Accesses /\ Committing
<1>1. Cache!Init => Committed
  <2>1. IsAccess(Cache!Idle) /\ Cache!Idle.pc = "idle"  BY AccessBegins DEF Cache!Idle
  <2> QED  BY <2>1 DEF Cache!Init, Accesses, Committing
<1>2. Committed /\ [Cache!Next]_(Cache!vars) => Committed'
  <2> SUFFICES ASSUME Committed, [Cache!Next]_(Cache!vars) PROVE Committed'
    OBVIOUS
  <2>k. \A c \in Callers : IsAccess(access[c])  BY DEF Accesses
  \* A request that does not begin to write.
  <2>a. ASSUME NEW c \in Callers, NEW next, IsAccess(next), access' = [access EXCEPT ![c] = next],
               next.pc \notin {"write", "verify"}, UNCHANGED <<manifest, writer>>
        PROVE  Committed'
    <3>1. Accesses' /\ access'[c] = next /\ \A d \in Callers \ {c} : access'[d] = access[d]
      BY <2>a, AccessMoves
    <3> QED  BY <2>a, <3>1 DEF Committing
  <2>1. ASSUME NEW c \in Callers, NEW ask \in Periods, Cache!Start(c, ask) PROVE Committed'
    <3>2. \/ access' = [access EXCEPT ![c] = Begun("look", ask, known)]
          \/ access' = [access EXCEPT ![c] = Begun("read", ask, manifest)]
      BY <2>1 DEF Cache!Start, Begun
    <3>3. UNCHANGED <<manifest, writer>>  BY <2>1 DEF Cache!Start
    <3> QED  BY <2>a, <3>2, <3>3, AccessBegins
  <2>2. ASSUME NEW c \in Callers, Cache!Remember(c) PROVE Committed'
    <3> DEFINE next == Moved(access[c], "look")
    <3>1. IsAccess(next) /\ next.pc = "look"  BY <2>k, AccessFields
    <3>2. access' = [access EXCEPT ![c] = next] /\ UNCHANGED <<manifest, writer>>  BY <2>2 DEF Cache!Remember, Moved
    <3> HIDE DEF next
    <3> QED  BY <2>a, <3>1, <3>2
  <2>3. ASSUME NEW c \in Callers, Cache!Look(c) PROVE Committed'
    <3> DEFINE gaps == Cache!MissingRanges(Cache!Permanent(access[c].ask), access[c].snapshot.coverage)
               pc == IF gaps = {} THEN "answer" ELSE "fetch"
               next == Looked(access[c], gaps, pc)
    <3>1. access' = [access EXCEPT ![c] = next] /\ UNCHANGED <<manifest, writer>>  BY <2>3 DEF Cache!Look, Looked
    <3>2. pc \in {"answer", "fetch"}  OBVIOUS
    <3> HIDE DEF gaps, pc
    <3>3. IsAccess(next) /\ next.pc = pc  BY <2>k, AccessFields
    <3> HIDE DEF next
    <3> QED  BY <2>a, <3>1, <3>2, <3>3
  <2>4. ASSUME NEW c \in Callers, Cache!Fetch(c) PROVE Committed'
    <3>0. PICK gap \in access[c].gaps :
             access' = [access EXCEPT
                ![c].gaps = @ \ {gap}, ![c].pc = IF access[c].gaps = {gap} THEN "commit" ELSE @,
                ![c].fetched = @ \cup Cache!Upstream(Cache!Span(gap))]
      BY <2>4 DEF Cache!Fetch
    <3> DEFINE gaps == access[c].gaps \ {gap}
               pc == IF access[c].gaps = {gap} THEN "commit" ELSE access[c].pc
               fetched == access[c].fetched \cup Cache!Upstream(Cache!Span(gap))
               next == Fetched(access[c], gaps, pc, fetched)
    <3>1. access' = [access EXCEPT ![c] = next] /\ UNCHANGED <<manifest, writer>>
      BY <2>4, <3>0 DEF Cache!Fetch, Fetched
    <3>2. pc \in {"commit", "fetch"}  BY <2>4 DEF Cache!Fetch
    <3> HIDE DEF gaps, pc, fetched
    <3>3. IsAccess(next) /\ next.pc = pc  BY <2>k, AccessFields
    <3> HIDE DEF next
    <3> QED  BY <2>a, <3>1, <3>2, <3>3
  <2>5. ASSUME NEW c \in Callers, Cache!Lock(c) PROVE Committed'
    <3> DEFINE done == Cache!MissingRanges(Cache!Permanent(access[c].ask), manifest.coverage) = {}
               pc == IF done THEN "answer" ELSE "write"
               next == Saw(access[c], manifest, pc)
    <3>1. access' = [access EXCEPT ![c] = next] /\ writer = {} /\ UNCHANGED manifest
          /\ writer' = IF done THEN {} ELSE {c}
      BY <2>5 DEF Cache!Lock, Cache!CommitBase, Saw
    <3>2. pc = "answer" \/ (pc = "write" /\ writer' = {c})  BY <3>1
    <3> HIDE DEF done, pc
    <3>3. IsAccess(next) /\ next.pc = pc /\ next.snapshot = manifest  BY <2>k, AccessFields
    <3> HIDE DEF next
    <3>4. Accesses' /\ access'[c] = next /\ \A d \in Callers \ {c} : access'[d] = access[d]
      BY <3>1, <3>3, AccessMoves
    <3> QED  BY <3>1, <3>2, <3>3, <3>4 DEF Committing
  <2>6. ASSUME NEW c \in Callers, Cache!Write(c) PROVE Committed'
    <3> DEFINE next == Moved(access[c], "verify")
    <3>1. IsAccess(next) /\ next.pc = "verify"  BY <2>k, AccessFields
    <3>2. access' = [access EXCEPT ![c] = next] /\ writer = {c} /\ UNCHANGED writer
      BY <2>6 DEF Cache!Write, Committing, Moved
    <3> HIDE DEF next
    <3>3. Accesses' /\ access'[c] = next /\ \A d \in Callers \ {c} : access'[d] = access[d]
      BY <3>1, <3>2, AccessMoves
    <3> QED  BY <3>1, <3>2, <3>3 DEF Committing
  <2>7. ASSUME NEW c \in Callers, Cache!Verify(c) PROVE Committed'
    <3> DEFINE next == Saw(access[c], manifest, "answer")
    <3>1. IsAccess(next) /\ next.pc = "answer"  BY <2>k, AccessFields
    <3>2. access' = [access EXCEPT ![c] = next] /\ writer = {c} /\ UNCHANGED manifest
      BY <2>7 DEF Cache!Verify, Committing, Saw
    <3> HIDE DEF next
    <3>3. Accesses' /\ access'[c] = next /\ \A d \in Callers \ {c} : access'[d] = access[d]
      BY <3>1, <3>2, AccessMoves
    <3> QED  BY <3>1, <3>2, <3>3 DEF Committing
  <2>8. ASSUME NEW c \in Callers, NEW answer, access' = [access EXCEPT ![c].pc = "done", ![c].answer = answer],
               UNCHANGED manifest, writer' \in {writer, writer \ {c}}
        PROVE  Committed'
    <3> DEFINE next == Answers(access[c], answer)
    <3>1. IsAccess(next) /\ next.pc = "done"  BY <2>k, AccessFields
    <3>2. access' = [access EXCEPT ![c] = next]  BY <2>8 DEF Answers
    <3> HIDE DEF next
    <3>3. Accesses' /\ access'[c] = next /\ \A d \in Callers \ {c} : access'[d] = access[d]
      BY <3>1, <3>2, AccessMoves
    <3> QED  BY <2>8, <3>1, <3>3 DEF Committing
  <2>9. ASSUME NEW c \in Callers, Cache!Answer(c) \/ Cache!Bypass(c) PROVE Committed'
    <3>1. \E answer : access' = [access EXCEPT ![c].pc = "done", ![c].answer = answer]
      BY <2>9 DEF Cache!Answer, Cache!Bypass
    <3>2. UNCHANGED manifest /\ writer' \in {writer, writer \ {c}}
      BY <2>9 DEF Cache!Answer, Cache!Bypass
    <3> QED  BY <2>8, <3>1, <3>2
  <2>10. ASSUME NEW c \in Callers, Cache!Return(c) PROVE Committed'
    <3>1. IsAccess(Cache!Idle) /\ Cache!Idle.pc = "idle"  BY AccessBegins DEF Cache!Idle
    <3> QED  BY <2>10, <2>a, <3>1 DEF Cache!Return
  <2>11. CASE Cache!Expire \/ Cache!Revise \/ UNCHANGED Cache!vars
    BY <2>11 DEF Cache!Expire, Cache!Revise, Cache!vars, Accesses, IsAccess, Committing
  <2> QED
    BY <2>1, <2>2, <2>3, <2>4, <2>5, <2>6, <2>7, <2>9, <2>10, <2>11 DEF Cache!Next
<1> QED  BY <1>1, <1>2, PTL DEF Cache!Spec

\* Confirmed history stays: whatever requests overlap, whatever manifest a process
\* remembers and wherever a request fails, no commit loses a row or revises one
\* (HistoryCache._commit, data/history_cache.py).
THEOREM HistoryStaysHolds == Cache!Spec => Cache!HistoryStays
<1> DEFINE Committed == Accesses /\ Committing
<1>1. Committed /\ [Cache!Next]_(Cache!vars) => [manifest.rows \subseteq manifest'.rows]_(Cache!vars)
  <2> SUFFICES ASSUME Committed, Cache!Next PROVE manifest.rows \subseteq manifest'.rows
    OBVIOUS
  <2>1. UNCHANGED manifest \/ \E c \in Callers : Cache!Write(c)
    BY DEF Cache!Next, Cache!Start, Cache!Remember, Cache!Look, Cache!Fetch, Cache!Lock, Cache!Verify,
       Cache!Answer, Cache!Bypass, Cache!Return, Cache!Expire, Cache!Revise
  <2>2. ASSUME NEW c \in Callers, Cache!Write(c) PROVE manifest.rows \subseteq manifest'.rows
    <3>1. manifest' = Cache!Extended(c) /\ access[c].snapshot = manifest  BY <2>2 DEF Cache!Write, Committing
    <3> QED  BY <3>1 DEF Cache!Extended
  <2> QED  BY <2>1, <2>2
<1> QED  BY <1>1, CommitsInTurn, PTL DEF Cache!Spec, Cache!HistoryStays

DaysIn(table) == {row.day : row \in table}
OnePerDay(table) == \A a, b \in table : a.day = b.day => a = b
\* A manifest that has the rows of the days it covers.
Sound(m) ==
    /\ m.coverage \subseteq Ranges /\ \A r \in m.coverage : r[2] <= Cutoff
    /\ DaysIn(m.rows) = Cache!Days(m.coverage) \cap Trading
    /\ OnePerDay(m.rows) /\ Apart(m.coverage)
Old(ask) == Cache!Span(Cache!Permanent(ask))
\* What a request fetched, with what it still will, is what its snapshot lacks.
Gathered(ask, coverage, gaps, table) ==
    /\ (Old(ask) \ (Cache!Days(coverage) \cup Cache!Days(gaps))) \cap Trading \subseteq DaysIn(table)
    /\ DaysIn(table) \subseteq Trading /\ OnePerDay(table)
    /\ DaysIn(table) \cap Cache!Days(gaps) = {}
    /\ \A g, h \in gaps : g = h \/ Cache!Span(g) \cap Cache!Span(h) = {}
Whole(ask, table) == DaysIn(table) = Cache!Span(ask) \cap Trading /\ OnePerDay(table)
\* A request at its place, while the store covers these days.
Placed(k, days) ==
    /\ k.pc # "idle" => k.ask \in Periods
    /\ Sound(k.snapshot) /\ Cache!Days(k.snapshot.coverage) \subseteq days
    /\ k.pc \in {"read", "look"} => k.fetched = {}
    /\ k.pc \in {"fetch", "commit", "write"} => Gathered(k.ask, k.snapshot.coverage, k.gaps, k.fetched)
    /\ k.pc \in {"commit", "write"} => k.gaps = {}
    /\ k.pc = "verify" => Old(k.ask) \subseteq days
    /\ k.pc = "answer" => Old(k.ask) \subseteq Cache!Days(k.snapshot.coverage)
    /\ k.pc = "done" => Whole(k.ask, k.answer)
Covered == Cache!Days(manifest.coverage)
HistoryInPlace ==
    /\ Sound(manifest)
    /\ known # Cache!Forgotten => Sound(known) /\ Cache!Days(known.coverage) \subseteq Covered
    /\ \A c \in Callers : Placed(access[c], Covered)

LEMMA OldDays ==
    ASSUME Cache!DaysAreNumbers, NEW ask \in Periods
    PROVE  /\ ask \in Ranges /\ ask[1] \in Nat /\ ask[2] \in Nat
           /\ Cache!Permanent(ask) \in Ranges
           /\ Cache!Permanent(ask)[1] = ask[1]
           /\ Cache!Permanent(ask)[2] = IF ask[2] > Cutoff THEN Cutoff ELSE ask[2]
           /\ Cache!Permanent(ask)[2] <= Cutoff
           /\ Old(ask) = {d \in Cache!Span(ask) : d <= Cutoff}
           /\ Cache!Dynamic(ask) = {d \in Cache!Span(ask) : d > Cutoff}
<1>1. ask \in Ranges /\ ask[1] \in Nat /\ ask[2] \in Nat /\ Cutoff \in Nat  BY DEF Cache!DaysAreNumbers, Ranges
<1>2. /\ Cache!Permanent(ask)[1] = ask[1]
      /\ Cache!Permanent(ask)[2] = IF ask[2] > Cutoff THEN Cutoff ELSE ask[2]
  BY <1>1 DEF Cache!Permanent, Cache!Lesser
<1>3. Cache!Permanent(ask) \in Ranges
  BY <1>1 DEF Cache!Permanent, Cache!Lesser, Ranges
<1>4. Cache!Permanent(ask)[2] <= Cutoff  BY <1>1, <1>2
<1>5. Old(ask) = {d \in Cache!Span(ask) : d <= Cutoff}  BY <1>1, <1>2 DEF Old, Cache!Span
<1>6. Cache!Dynamic(ask) = {d \in Cache!Span(ask) : d > Cutoff}
  BY <1>1 DEF Cache!Dynamic, Cache!Greater, Cache!Span
<1> QED  BY <1>1, <1>2, <1>3, <1>4, <1>5, <1>6

LEMMA UpstreamRows ==
    ASSUME NEW days
    PROVE  DaysIn(Cache!Upstream(days)) = days \cap Trading /\ OnePerDay(Cache!Upstream(days))
<1>1. \A d \in days \cap Trading : [day |-> d, version |-> version] \in Cache!Upstream(days)
  BY DEF Cache!Upstream
<1>2. \A row \in Cache!Upstream(days) : row.day \in days \cap Trading  BY DEF Cache!Upstream
<1>3. DaysIn(Cache!Upstream(days)) = days \cap Trading
  <2>1. ASSUME NEW d \in days \cap Trading PROVE d \in DaysIn(Cache!Upstream(days))
    <3>1. [day |-> d, version |-> version].day = d  OBVIOUS
    <3> QED  BY <1>1, <3>1 DEF DaysIn
  <2> QED  BY <1>2, <2>1 DEF DaysIn
<1>4. OnePerDay(Cache!Upstream(days))  BY DEF OnePerDay, Cache!Upstream
<1> QED  BY <1>3, <1>4

LEMMA RowsJoin ==
    ASSUME NEW A, NEW B, OnePerDay(A), OnePerDay(B), DaysIn(A) \cap DaysIn(B) = {}
    PROVE  OnePerDay(A \cup B) /\ DaysIn(A \cup B) = DaysIn(A) \cup DaysIn(B)
BY DEF OnePerDay, DaysIn
LEMMA RowsWithin ==
    ASSUME NEW A, OnePerDay(A), NEW days
    PROVE  OnePerDay(Cache!Within(A, days)) /\ DaysIn(Cache!Within(A, days)) = DaysIn(A) \cap days
BY DEF OnePerDay, DaysIn, Cache!Within
LEMMA DaysJoin ==
    ASSUME NEW A, NEW B
    PROVE  Cache!Days(A \cup B) = Cache!Days(A) \cup Cache!Days(B)
BY DEF Cache!Days

\* What a request misses in a manifest.
Lacks(ask, m) == Cache!MissingRanges(Cache!Permanent(ask), m.coverage)
LEMMA WhatItLacks ==
    ASSUME Cache!DaysAreNumbers, NEW ask \in Periods, NEW m, Sound(m)
    PROVE  /\ Cache!Days(Lacks(ask, m)) = Old(ask) \ Cache!Days(m.coverage)
           /\ Lacks(ask, m) \subseteq Ranges /\ \A r \in Lacks(ask, m) : r[2] <= Cutoff
           /\ \A g, h \in Lacks(ask, m) : g = h \/ Cache!Span(g) \cap Cache!Span(h) = {}
           /\ Lacks(ask, m) = {} => Old(ask) \subseteq Cache!Days(m.coverage)
<1> DEFINE p == Cache!Permanent(ask)
           M == Cache!MissingRanges(p, m.coverage)
<1>1. p \in Ranges /\ p[1] \in Nat /\ p[2] \in Nat /\ p[2] <= Cutoff /\ Cutoff \in Nat
  BY OldDays DEF Cache!DaysAreNumbers, Ranges
<1>2. Old(ask) = p[1]..p[2]  BY DEF Old, Cache!Span
<1> HIDE DEF p
<1>3. /\ Cache!Days(M) = (p[1]..p[2]) \ Cache!Days(m.coverage)
      /\ M \subseteq Ranges
      /\ \A r \in M : r[1] <= r[2] /\ r[2] <= p[2]
      /\ \A r, s \in M : r = s \/ (r[1]..r[2]) \cap (s[1]..s[2]) = {}
  BY <1>1, MissingIsLacking DEF Sound
<1> HIDE DEF M
<1>4. M = Lacks(ask, m)  BY DEF M, p, Lacks
<1>5. \A r \in M : r[2] <= Cutoff
  <2>1. \A r \in M : r[2] \in Nat  BY <1>3 DEF Ranges
  <2> QED  BY <1>1, <1>3, <2>1
<1>6. M = {} => Cache!Days(M) = {}  BY DEF Cache!Days
<1>7. M = {} => Old(ask) \subseteq Cache!Days(m.coverage)
  <2> SUFFICES ASSUME M = {} PROVE (p[1]..p[2]) \subseteq Cache!Days(m.coverage)
    BY <1>2
  <2> QED  BY <1>3, <1>6
<1> QED  BY <1>2, <1>3, <1>4, <1>5, <1>7 DEF Cache!Span

\* A commit makes a sound manifest of a sound one.
Extension(m, ask, table) ==
    [coverage |-> Cache!MergeRanges(m.coverage \cup Lacks(ask, m)),
     rows |-> m.rows \cup Cache!Within(table, Cache!Days(Lacks(ask, m)))]
LEMMA ExtensionIsSound ==
    ASSUME Cache!DaysAreNumbers, NEW ask \in Periods, NEW m, Sound(m), NEW table, Gathered(ask, m.coverage, {}, table)
    PROVE  /\ Sound(Extension(m, ask, table))
           /\ Cache!Days(Extension(m, ask, table).coverage) = Cache!Days(m.coverage) \cup Old(ask)
<1> DEFINE L == Lacks(ask, m)
           R == m.coverage \cup L
           W == Cache!Within(table, Cache!Days(L))
           e == Extension(m, ask, table)
<1>1. /\ Cache!Days(L) = Old(ask) \ Cache!Days(m.coverage)
      /\ L \subseteq Ranges /\ \A r \in L : r[2] <= Cutoff
  BY WhatItLacks
<1>2. e.coverage = Cache!MergeRanges(R) /\ e.rows = m.rows \cup W  BY DEF Extension
<1> HIDE DEF L, e
<1>3. R \subseteq Ranges /\ (\A r \in R : r[2] <= Cutoff) /\ Cutoff \in Nat  BY <1>1 DEF Sound, Cache!DaysAreNumbers
<1>4. Cache!Days(R) = Cache!Days(m.coverage) \cup Cache!Days(L)  BY DaysJoin
<1> HIDE DEF R
<1>5. /\ Cache!Days(e.coverage) = Cache!Days(R)
      /\ e.coverage \subseteq Ranges /\ \A r \in e.coverage : r[2] <= Cutoff
      /\ Apart(e.coverage)
  BY <1>2, <1>3, MergedAreApart
<1>6. Cache!Days(e.coverage) = Cache!Days(m.coverage) \cup Old(ask)  BY <1>1, <1>4, <1>5
<1>7. OnePerDay(W) /\ DaysIn(W) = DaysIn(table) \cap Cache!Days(L)  BY RowsWithin DEF Gathered
<1> HIDE DEF W
<1>8. Cache!Days({}) = {}  BY DEF Cache!Days
<1>9. DaysIn(W) = Cache!Days(L) \cap Trading  BY <1>1, <1>7, <1>8 DEF Gathered
<1>10. DaysIn(m.rows) = Cache!Days(m.coverage) \cap Trading /\ OnePerDay(m.rows)  BY DEF Sound
<1>11. DaysIn(m.rows) \cap DaysIn(W) = {}  BY <1>1, <1>9, <1>10
<1>12. OnePerDay(e.rows) /\ DaysIn(e.rows) = DaysIn(m.rows) \cup DaysIn(W)
  <2>1. OnePerDay(m.rows \cup W) /\ DaysIn(m.rows \cup W) = DaysIn(m.rows) \cup DaysIn(W)
    BY <1>7, <1>10, <1>11, RowsJoin
  <2> QED  BY <1>2, <2>1
<1>13. DaysIn(e.rows) = Cache!Days(e.coverage) \cap Trading  BY <1>4, <1>5, <1>9, <1>10, <1>12
<1> QED  BY <1>5, <1>6, <1>12, <1>13 DEF Sound, e

\* What the store covers, it goes on covering: who is at its place stays there.
LEMMA PlacedStays ==
    ASSUME NEW k, NEW days, NEW more, Placed(k, days), days \subseteq more
    PROVE  Placed(k, more)
BY DEF Placed
LEMMA AccessKeeps ==
    ASSUME NEW k, IsAccess(k), NEW pc, NEW any, NEW some
    PROVE  /\ Moved(k, pc).ask = k.ask /\ Moved(k, pc).snapshot = k.snapshot /\ Moved(k, pc).gaps = k.gaps
           /\ Moved(k, pc).fetched = k.fetched
           /\ Looked(k, any, pc).ask = k.ask /\ Looked(k, any, pc).snapshot = k.snapshot
           /\ Looked(k, any, pc).gaps = any /\ Looked(k, any, pc).fetched = k.fetched
           /\ Fetched(k, any, pc, some).ask = k.ask /\ Fetched(k, any, pc, some).snapshot = k.snapshot
           /\ Fetched(k, any, pc, some).gaps = any /\ Fetched(k, any, pc, some).fetched = some
           /\ Saw(k, any, pc).ask = k.ask /\ Saw(k, any, pc).gaps = k.gaps
           /\ Saw(k, any, pc).fetched = k.fetched
           /\ Answers(k, any).ask = k.ask /\ Answers(k, any).snapshot = k.snapshot
           /\ Answers(k, any).answer = any
BY DEF IsAccess, Moved, Looked, Fetched, Saw, Answers
LEMMA BegunFields ==
    ASSUME NEW pc, NEW ask, NEW base
    PROVE  /\ Begun(pc, ask, base).ask = ask /\ Begun(pc, ask, base).snapshot = base
           /\ Begun(pc, ask, base).fetched = {}
BY DEF Begun, Cache!Idle

LEMMA OneAccessMoves ==
    ASSUME Accesses, HistoryInPlace, NEW c \in Callers, NEW next, IsAccess(next), access' = [access EXCEPT ![c] = next],
           Sound(manifest'), Covered \subseteq Covered', Placed(next, Covered'),
           known' # Cache!Forgotten => Sound(known') /\ Cache!Days(known'.coverage) \subseteq Covered'
    PROVE  HistoryInPlace'
<1>1. Accesses' /\ access'[c] = next /\ \A d \in Callers \ {c} : access'[d] = access[d]
  BY AccessMoves
<1>2. ASSUME NEW d \in Callers PROVE Placed(access'[d], Covered')
  <2>1. CASE d = c  BY <1>1, <2>1
  <2>2. CASE d # c
    <3>1. Placed(access[d], Covered)  BY DEF HistoryInPlace
    <3>2. Placed(access[d], Covered')  BY <3>1, PlacedStays
    <3>3. access'[d] = access[d]  BY <1>1, <2>2
    <3> QED  BY <3>2, <3>3
  <2> QED  BY <2>1, <2>2
<1>3. Sound(manifest)'  BY DEF Sound
<1>4. (known # Cache!Forgotten => Sound(known) /\ Cache!Days(known.coverage) \subseteq Covered)'
  BY DEF Sound, Cache!Forgotten, Cache!Days
<1>5. \A d \in Callers : Placed(access[d], Covered)'
  <2> SUFFICES ASSUME NEW d \in Callers PROVE Placed(access[d], Covered)'
    OBVIOUS
  <2>1. Placed(access'[d], Covered')  BY <1>2
  <2> QED  BY <2>1 DEF Placed
<1> QED  BY <1>3, <1>4, <1>5 DEF HistoryInPlace

\* A request begins, looks, and fetches a gap.
LEMMA BeginsInPlace ==
    ASSUME NEW ask \in Periods, NEW base, NEW days, Sound(base), Cache!Days(base.coverage) \subseteq days,
           NEW pc \in {"read", "look"}
    PROVE  Placed(Begun(pc, ask, base), days)
BY AccessBegins, BegunFields DEF Placed
LEMMA LooksInPlace ==
    ASSUME Cache!DaysAreNumbers, NEW k, IsAccess(k), NEW days, Placed(k, days), k.pc = "look",
           NEW pc, pc = IF Lacks(k.ask, k.snapshot) = {} THEN "answer" ELSE "fetch"
    PROVE  Placed(Looked(k, Lacks(k.ask, k.snapshot), pc), days)
<1> DEFINE L == Lacks(k.ask, k.snapshot)
           next == Looked(k, L, pc)
<1>1. k.ask \in Periods /\ Sound(k.snapshot) /\ Cache!Days(k.snapshot.coverage) \subseteq days /\ k.fetched = {}
  BY DEF Placed
<1>2. /\ Cache!Days(L) = Old(k.ask) \ Cache!Days(k.snapshot.coverage)
      /\ \A g, h \in L : g = h \/ Cache!Span(g) \cap Cache!Span(h) = {}
      /\ L = {} => Old(k.ask) \subseteq Cache!Days(k.snapshot.coverage)
  BY <1>1, WhatItLacks
<1> HIDE DEF L
<1>3. /\ next.pc = pc /\ next.ask = k.ask /\ next.snapshot = k.snapshot /\ next.gaps = L
      /\ next.fetched = k.fetched
  BY AccessFields, AccessKeeps
<1>4. DaysIn({}) = {} /\ OnePerDay({})  BY DEF DaysIn, OnePerDay
<1>5. Gathered(k.ask, k.snapshot.coverage, L, {})
  BY <1>2, <1>4 DEF Gathered
<1>6. pc = "answer" => L = {}  BY DEF L
<1>7. pc \in {"answer", "fetch"}  OBVIOUS
<1> HIDE DEF next
<1> QED  BY <1>1, <1>2, <1>3, <1>5, <1>6, <1>7 DEF Placed, L, next

LEMMA FetchesInPlace ==
    ASSUME Cache!DaysAreNumbers, NEW k, IsAccess(k), NEW days, Placed(k, days), k.pc = "fetch", NEW gap \in k.gaps,
           NEW pc, pc = IF k.gaps = {gap} THEN "commit" ELSE "fetch"
    PROVE  Placed(Fetched(k, k.gaps \ {gap}, pc, k.fetched \cup Cache!Upstream(Cache!Span(gap))), days)
<1> DEFINE rest == k.gaps \ {gap}
           new == Cache!Upstream(Cache!Span(gap))
           table == k.fetched \cup new
           next == Fetched(k, rest, pc, table)
<1>1. /\ k.ask \in Periods /\ Sound(k.snapshot) /\ Cache!Days(k.snapshot.coverage) \subseteq days
      /\ Gathered(k.ask, k.snapshot.coverage, k.gaps, k.fetched)
  BY DEF Placed
<1>2. /\ next.pc = pc /\ next.ask = k.ask /\ next.snapshot = k.snapshot /\ next.gaps = rest
      /\ next.fetched = table
  BY AccessFields, AccessKeeps
<1> HIDE DEF next
<1>3. DaysIn(new) = Cache!Span(gap) \cap Trading /\ OnePerDay(new)  BY UpstreamRows
<1> HIDE DEF new
<1>4. Cache!Days(k.gaps) = Cache!Span(gap) \cup Cache!Days(rest)  BY DEF Cache!Days, Cache!Span
<1>5. Cache!Span(gap) \cap Cache!Days(rest) = {}
  <2>1. \A h \in rest : Cache!Span(gap) \cap Cache!Span(h) = {}  BY <1>1 DEF Gathered
  <2> QED  BY <2>1 DEF Cache!Days, Cache!Span
<1>6. DaysIn(k.fetched) \cap DaysIn(new) = {} /\ OnePerDay(k.fetched)
  BY <1>1, <1>3, <1>4 DEF Gathered
<1>7. OnePerDay(table) /\ DaysIn(table) = DaysIn(k.fetched) \cup DaysIn(new)  BY <1>3, <1>6, RowsJoin
<1> HIDE DEF table
<1>8. \A g, h \in rest : g = h \/ Cache!Span(g) \cap Cache!Span(h) = {}  BY <1>1 DEF Gathered
<1> HIDE DEF rest
<1>9. DaysIn(table) \subseteq Trading /\ DaysIn(table) \cap Cache!Days(rest) = {}
  BY <1>1, <1>3, <1>4, <1>5, <1>7 DEF Gathered
<1>10. (Old(k.ask) \ (Cache!Days(k.snapshot.coverage) \cup Cache!Days(rest))) \cap Trading \subseteq DaysIn(table)
  BY <1>1, <1>3, <1>4, <1>7 DEF Gathered
<1>11. Gathered(k.ask, k.snapshot.coverage, rest, table)  BY <1>7, <1>8, <1>9, <1>10 DEF Gathered
<1>12. pc = "commit" => rest = {}  BY DEF rest
<1>13. pc \in {"commit", "fetch"}  OBVIOUS
<1> QED  BY <1>1, <1>2, <1>11, <1>12, <1>13 DEF Placed, next, rest, table, new

\* Under the lock the request goes over to what the store holds.
LEMMA LocksInPlace ==
    ASSUME Cache!DaysAreNumbers, NEW k, IsAccess(k), NEW m, Sound(m), Placed(k, Cache!Days(m.coverage)), k.pc = "commit",
           NEW pc, pc = IF Lacks(k.ask, m) = {} THEN "answer" ELSE "write"
    PROVE  Placed(Saw(k, m, pc), Cache!Days(m.coverage))
<1> DEFINE next == Saw(k, m, pc)
           days == Cache!Days(m.coverage)
<1>1. /\ k.ask \in Periods /\ Sound(k.snapshot) /\ Cache!Days(k.snapshot.coverage) \subseteq days /\ k.gaps = {}
      /\ Gathered(k.ask, k.snapshot.coverage, k.gaps, k.fetched)
  BY DEF Placed
<1>2. /\ next.pc = pc /\ next.ask = k.ask /\ next.snapshot = m /\ next.gaps = k.gaps
      /\ next.fetched = k.fetched
  BY AccessFields, AccessKeeps
<1>3. Gathered(k.ask, m.coverage, k.gaps, k.fetched)  BY <1>1 DEF Gathered
<1>4. Lacks(k.ask, m) = {} => Old(k.ask) \subseteq days  BY <1>1, WhatItLacks
<1>5. pc \in {"write", "answer"} /\ (pc = "answer" => Lacks(k.ask, m) = {})  OBVIOUS
<1> HIDE DEF next
<1> QED  BY <1>1, <1>2, <1>3, <1>4, <1>5 DEF Placed, next

\* The rows of the manifest and those that are too new for it are an answer.
LEMMA AnswersInPlace ==
    ASSUME Cache!DaysAreNumbers, NEW k, IsAccess(k), NEW days, Placed(k, days), k.pc = "answer"
    PROVE  Placed(Answers(k, Cache!Within(k.snapshot.rows, Cache!Span(Cache!Permanent(k.ask)))
                             \cup Cache!Upstream(Cache!Dynamic(k.ask))), days)
<1> DEFINE old == Cache!Within(k.snapshot.rows, Old(k.ask))
           new == Cache!Upstream(Cache!Dynamic(k.ask))
           next == Answers(k, old \cup new)
<1>1. /\ k.ask \in Periods /\ Sound(k.snapshot) /\ Cache!Days(k.snapshot.coverage) \subseteq days
      /\ Old(k.ask) \subseteq Cache!Days(k.snapshot.coverage)
  BY DEF Placed
<1>2. /\ next.pc = "done" /\ next.ask = k.ask /\ next.snapshot = k.snapshot /\ next.answer = old \cup new
  BY AccessFields, AccessKeeps
<1>3. OnePerDay(old) /\ DaysIn(old) = DaysIn(k.snapshot.rows) \cap Old(k.ask)
  BY <1>1, RowsWithin DEF Sound
<1>4. OnePerDay(new) /\ DaysIn(new) = Cache!Dynamic(k.ask) \cap Trading  BY UpstreamRows
<1> HIDE DEF old, new, next
<1>5. DaysIn(old) = Old(k.ask) \cap Trading  BY <1>1, <1>3 DEF Sound
<1>6. /\ Old(k.ask) \cap Cache!Dynamic(k.ask) = {}
      /\ Old(k.ask) \cup Cache!Dynamic(k.ask) = Cache!Span(k.ask)
  <2>1. /\ Old(k.ask) = {d \in Cache!Span(k.ask) : d <= Cutoff}
        /\ Cache!Dynamic(k.ask) = {d \in Cache!Span(k.ask) : d > Cutoff}
        /\ k.ask[1] \in Nat /\ k.ask[2] \in Nat /\ Cutoff \in Nat
    BY <1>1, OldDays DEF Cache!DaysAreNumbers
  <2>2. \A d \in Cache!Span(k.ask) : d \in Int  BY <2>1 DEF Cache!Span
  <2>3. \A d \in Cache!Span(k.ask) : d <= Cutoff <=> ~(d > Cutoff)  BY <2>1, <2>2
  <2> QED  BY <2>1, <2>3
<1>7. DaysIn(old) \cap DaysIn(new) = {}  BY <1>4, <1>5, <1>6
<1>8. OnePerDay(old \cup new) /\ DaysIn(old \cup new) = DaysIn(old) \cup DaysIn(new)
  BY <1>3, <1>4, <1>7, RowsJoin
<1>9. DaysIn(old \cup new) = Cache!Span(k.ask) \cap Trading  BY <1>4, <1>5, <1>6, <1>8
<1>10. Whole(k.ask, old \cup new)  BY <1>8, <1>9 DEF Whole
<1>11. Placed(next, days)  BY <1>1, <1>2, <1>10 DEF Placed
<1> QED  BY <1>11 DEF next, old, new, Old
LEMMA BypassInPlace ==
    ASSUME NEW k, IsAccess(k), NEW days, Placed(k, days), k.pc # "idle"
    PROVE  Placed(Answers(k, Cache!Upstream(Cache!Span(k.ask))), days)
<1> DEFINE new == Cache!Upstream(Cache!Span(k.ask))
           next == Answers(k, new)
<1>1. k.ask \in Periods /\ Sound(k.snapshot) /\ Cache!Days(k.snapshot.coverage) \subseteq days  BY DEF Placed
<1>2. /\ next.pc = "done" /\ next.ask = k.ask /\ next.snapshot = k.snapshot /\ next.answer = new
  BY AccessFields, AccessKeeps
<1>3. Whole(k.ask, new)  BY UpstreamRows DEF Whole
<1> HIDE DEF new, next
<1> QED  BY <1>1, <1>2, <1>3 DEF Placed, next, new

LEMMA SoundEmpty == Sound(Cache!NoManifest) /\ Cache!Days(Cache!NoManifest.coverage) = {}
BY DEF Sound, Cache!NoManifest, Cache!Days, DaysIn, OnePerDay, Apart
LEMMA IdleInPlace == ASSUME NEW days PROVE Placed(Cache!Idle, days) /\ IsAccess(Cache!Idle)
<1>1. Cache!Idle.pc = "idle" /\ Cache!Idle.snapshot = Cache!NoManifest  BY DEF Cache!Idle
<1> QED  BY <1>1, SoundEmpty, AccessBegins DEF Placed

LEMMA HistoryIsInPlace ==
    ASSUME Cache!DaysAreNumbers
    PROVE  Cache!Spec => []HistoryInPlace
<1>1. Cache!Init => HistoryInPlace
  <2> SUFFICES ASSUME Cache!Init PROVE HistoryInPlace
    OBVIOUS
  <2>1. manifest = Cache!NoManifest /\ known = Cache!Forgotten /\ \A c \in Callers : access[c] = Cache!Idle
    BY DEF Cache!Init
  <2>2. Sound(manifest)  BY <2>1, SoundEmpty
  <2>3. \A c \in Callers : Placed(access[c], Covered)  BY <2>1, IdleInPlace
  <2> QED  BY <2>1, <2>2, <2>3 DEF HistoryInPlace
<1>2. Accesses /\ Committing /\ HistoryInPlace /\ [Cache!Next]_(Cache!vars) => HistoryInPlace'
  <2> SUFFICES ASSUME Accesses, Committing, HistoryInPlace, [Cache!Next]_(Cache!vars) PROVE HistoryInPlace'
    OBVIOUS
  <2>k. /\ Sound(manifest)
        /\ known # Cache!Forgotten => Sound(known) /\ Cache!Days(known.coverage) \subseteq Covered
        /\ \A c \in Callers : IsAccess(access[c]) /\ Placed(access[c], Covered)
    BY DEF Accesses, HistoryInPlace
  \* A request moves, the store stays.
  <2>a. ASSUME NEW c \in Callers, NEW next, IsAccess(next), access' = [access EXCEPT ![c] = next],
               UNCHANGED manifest, Placed(next, Covered),
               UNCHANGED known \/ known' = manifest \/ known' = Cache!Forgotten
                 \/ (Sound(known') /\ Cache!Days(known'.coverage) \subseteq Covered)
        PROVE  HistoryInPlace'
    <3>1. Covered' = Covered  BY <2>a DEF Covered
    <3>2. Sound(manifest')  BY <2>a, <2>k
    <3>3. known' # Cache!Forgotten => Sound(known') /\ Cache!Days(known'.coverage) \subseteq Covered'
      BY <2>a, <2>k, <3>1 DEF Covered
    <3>4. Placed(next, Covered')  BY <2>a, <3>1
    <3>5. Covered \subseteq Covered'  BY <3>1
    <3> QED  BY <2>a, <3>2, <3>3, <3>4, <3>5, OneAccessMoves
  <2>1. ASSUME NEW c \in Callers, NEW ask \in Periods, Cache!Start(c, ask) PROVE HistoryInPlace'
    <3>1. UNCHANGED <<manifest, known>>  BY <2>1 DEF Cache!Start
    <3>2. \/ known # Cache!Forgotten /\ access' = [access EXCEPT ![c] = Begun("look", ask, known)]
          \/ access' = [access EXCEPT ![c] = Begun("read", ask, manifest)]
      BY <2>1 DEF Cache!Start, Begun
    <3>3. CASE known # Cache!Forgotten /\ access' = [access EXCEPT ![c] = Begun("look", ask, known)]
      <4>1. IsAccess(Begun("look", ask, known)) /\ Placed(Begun("look", ask, known), Covered)
        BY <2>k, <3>3, AccessBegins, BeginsInPlace
      <4> QED  BY <2>a, <3>1, <3>3, <4>1
    <3>4. CASE access' = [access EXCEPT ![c] = Begun("read", ask, manifest)]
      <4>1. IsAccess(Begun("read", ask, manifest)) /\ Placed(Begun("read", ask, manifest), Covered)
        BY <2>k, <3>4, AccessBegins, BeginsInPlace DEF Covered
      <4> QED  BY <2>a, <3>1, <3>4, <4>1
    <3> QED  BY <3>2, <3>3, <3>4
  <2>2. ASSUME NEW c \in Callers, Cache!Remember(c) PROVE HistoryInPlace'
    <3> DEFINE next == Moved(access[c], "look")
    <3>1. /\ access' = [access EXCEPT ![c] = next] /\ UNCHANGED manifest /\ access[c].pc = "read"
          /\ known' = access[c].snapshot
      BY <2>2 DEF Cache!Remember, Moved
    <3>2. IsAccess(next) /\ next.pc = "look"  BY <2>k, AccessFields
    <3>3. /\ next.ask = access[c].ask /\ next.snapshot = access[c].snapshot
          /\ next.fetched = access[c].fetched
      BY <2>k, AccessKeeps
    <3>4. Sound(access[c].snapshot) /\ Cache!Days(access[c].snapshot.coverage) \subseteq Covered
      BY <2>k DEF Placed
    <3> HIDE DEF next
    <3>5. Placed(next, Covered)  BY <2>k, <3>1, <3>2, <3>3 DEF Placed
    <3>6. Sound(known') /\ Cache!Days(known'.coverage) \subseteq Covered  BY <3>1, <3>4
    <3> QED  BY <2>a, <3>1, <3>2, <3>5, <3>6
  <2>3. ASSUME NEW c \in Callers, Cache!Look(c) PROVE HistoryInPlace'
    <3> DEFINE L == Lacks(access[c].ask, access[c].snapshot)
               pc == IF L = {} THEN "answer" ELSE "fetch"
               next == Looked(access[c], L, pc)
    <3>1. access' = [access EXCEPT ![c] = next] /\ UNCHANGED <<manifest, known>> /\ access[c].pc = "look"
      BY <2>3 DEF Cache!Look, Looked, Lacks
    <3>2. IsAccess(next)  BY <2>k, AccessFields
    <3>3. Placed(next, Covered)  BY <2>k, <3>1, LooksInPlace
    <3> HIDE DEF next
    <3> QED  BY <2>a, <3>1, <3>2, <3>3
  <2>4. ASSUME NEW c \in Callers, Cache!Fetch(c) PROVE HistoryInPlace'
    <3>0. PICK gap \in access[c].gaps :
             access' = [access EXCEPT
                ![c].gaps = @ \ {gap}, ![c].pc = IF access[c].gaps = {gap} THEN "commit" ELSE @,
                ![c].fetched = @ \cup Cache!Upstream(Cache!Span(gap))]
      BY <2>4 DEF Cache!Fetch
    <3> DEFINE pc == IF access[c].gaps = {gap} THEN "commit" ELSE "fetch"
               next == Fetched(access[c], access[c].gaps \ {gap}, pc,
                               access[c].fetched \cup Cache!Upstream(Cache!Span(gap)))
    <3>1. access' = [access EXCEPT ![c] = next] /\ UNCHANGED <<manifest, known>> /\ access[c].pc = "fetch"
      BY <2>4, <3>0 DEF Cache!Fetch, Fetched
    <3>2. IsAccess(next)  BY <2>k, AccessFields
    <3>3. Placed(next, Covered)  BY <2>k, <3>1, FetchesInPlace
    <3> HIDE DEF next
    <3> QED  BY <2>a, <3>1, <3>2, <3>3
  <2>5. ASSUME NEW c \in Callers, Cache!Lock(c) PROVE HistoryInPlace'
    <3> DEFINE pc == IF Lacks(access[c].ask, manifest) = {} THEN "answer" ELSE "write"
               next == Saw(access[c], manifest, pc)
    <3>1. /\ access' = [access EXCEPT ![c] = next] /\ UNCHANGED manifest /\ known' = manifest
          /\ access[c].pc = "commit"
      BY <2>5 DEF Cache!Lock, Cache!CommitBase, Saw, Lacks
    <3>2. IsAccess(next)  BY <2>k, AccessFields
    <3>3. Placed(next, Covered)  BY <2>k, <3>1, LocksInPlace DEF Covered
    <3> HIDE DEF next
    <3> QED  BY <2>a, <3>1, <3>2, <3>3
  <2>6. ASSUME NEW c \in Callers, Cache!Write(c) PROVE HistoryInPlace'
    <3> DEFINE k == access[c]
               next == Moved(k, "verify")
    <3>1. /\ access' = [access EXCEPT ![c] = next] /\ k.pc = "write" /\ known' = Cache!Forgotten
          /\ manifest' = Cache!Extended(c) /\ k.snapshot = manifest
      BY <2>6 DEF Cache!Write, Committing, Moved
    <3>2. Cache!Extended(c) = Extension(manifest, k.ask, k.fetched)
      BY <3>1 DEF Cache!Extended, Cache!Lacking, Extension, Lacks
    <3>3. k.ask \in Periods /\ Gathered(k.ask, manifest.coverage, {}, k.fetched)
      BY <2>k, <3>1 DEF Placed
    <3>4. /\ Sound(manifest')
          /\ Cache!Days(manifest'.coverage) = Covered \cup Old(k.ask)
      BY <2>k, <3>1, <3>2, <3>3, ExtensionIsSound DEF Covered
    <3>5. IsAccess(next) /\ next.pc = "verify" /\ next.ask = k.ask /\ next.snapshot = k.snapshot
      BY <2>k, AccessFields, AccessKeeps
    <3>6. Covered' = Covered \cup Old(k.ask)  BY <3>4 DEF Covered, Cache!Days
    <3>7. Sound(k.snapshot) /\ Cache!Days(k.snapshot.coverage) \subseteq Covered  BY <2>k DEF Placed
    <3> HIDE DEF next
    <3>8. Placed(next, Covered')  BY <3>3, <3>5, <3>6, <3>7 DEF Placed
    <3> QED  BY <3>1, <3>4, <3>5, <3>6, <3>8, OneAccessMoves
  <2>7. ASSUME NEW c \in Callers, Cache!Verify(c) PROVE HistoryInPlace'
    <3> DEFINE next == Saw(access[c], manifest, "answer")
    <3>1. /\ access' = [access EXCEPT ![c] = next] /\ UNCHANGED manifest /\ known' = manifest
          /\ access[c].pc = "verify"
      BY <2>7 DEF Cache!Verify, Saw
    <3>2. /\ IsAccess(next) /\ next.pc = "answer" /\ next.ask = access[c].ask /\ next.snapshot = manifest
      BY <2>k, AccessFields, AccessKeeps
    <3> HIDE DEF next
    <3>3. Placed(next, Covered)  BY <2>k, <3>1, <3>2 DEF Placed, Covered
    <3> QED  BY <2>a, <3>1, <3>2, <3>3
  <2>8. ASSUME NEW c \in Callers, Cache!Answer(c) PROVE HistoryInPlace'
    <3> DEFINE next == Answers(access[c], Cache!Within(access[c].snapshot.rows, Cache!Span(Cache!Permanent(access[c].ask)))
                             \cup Cache!Upstream(Cache!Dynamic(access[c].ask)))
    <3>1. /\ access' = [access EXCEPT ![c] = next] /\ UNCHANGED <<manifest, known>> /\ access[c].pc = "answer"
      BY <2>8 DEF Cache!Answer, Answers
    <3>2. IsAccess(next)  BY <2>k, AccessFields
    <3>3. Placed(next, Covered)  BY <2>k, <3>1, AnswersInPlace
    <3> HIDE DEF next
    <3> QED  BY <2>a, <3>1, <3>2, <3>3
  <2>9. ASSUME NEW c \in Callers, Cache!Bypass(c) PROVE HistoryInPlace'
    <3> DEFINE next == Answers(access[c], Cache!Upstream(Cache!Span(access[c].ask)))
    <3>1. /\ access' = [access EXCEPT ![c] = next] /\ UNCHANGED <<manifest, known>> /\ access[c].pc # "idle"
      BY <2>9 DEF Cache!Bypass, Answers
    <3>2. IsAccess(next)  BY <2>k, AccessFields
    <3>3. Placed(next, Covered)  BY <2>k, <3>1, BypassInPlace
    <3> HIDE DEF next
    <3> QED  BY <2>a, <3>1, <3>2, <3>3
  <2>10. ASSUME NEW c \in Callers, Cache!Return(c) PROVE HistoryInPlace'
    <3>1. access' = [access EXCEPT ![c] = Cache!Idle] /\ UNCHANGED <<manifest, known>>
      BY <2>10 DEF Cache!Return
    <3>2. IsAccess(Cache!Idle) /\ Placed(Cache!Idle, Covered)  BY IdleInPlace
    <3> QED  BY <2>a, <3>1, <3>2
  <2>11. CASE Cache!Expire \/ Cache!Revise \/ UNCHANGED Cache!vars
    <3>1. UNCHANGED <<manifest, access>> /\ known' \in {known, Cache!Forgotten}
      BY <2>11 DEF Cache!Expire, Cache!Revise, Cache!vars
    <3>2. UNCHANGED Covered  BY <3>1 DEF Covered, Cache!Days
    <3>3. Sound(manifest)'  BY <2>k, <3>1 DEF Sound
    <3>4. (known # Cache!Forgotten => Sound(known) /\ Cache!Days(known.coverage) \subseteq Covered)'
      <4>1. Cache!Forgotten' = Cache!Forgotten  BY DEF Cache!Forgotten
      <4>2. CASE known' = known  BY <2>k, <3>2, <4>1, <4>2 DEF Sound, Cache!Days
      <4>3. CASE known' = Cache!Forgotten  BY <4>1, <4>3
      <4> QED  BY <3>1, <4>2, <4>3
    <3>5. \A c \in Callers : Placed(access[c], Covered)'  BY <2>k, <3>1, <3>2 DEF Placed
    <3> QED  BY <3>3, <3>4, <3>5 DEF HistoryInPlace
  <2> QED
    BY <2>1, <2>2, <2>3, <2>4, <2>5, <2>6, <2>7, <2>8, <2>9, <2>10, <2>11 DEF Cache!Next
<1> QED  BY <1>1, <1>2, CommitsInTurn, PTL DEF Cache!Spec

\* What the manifest calls covered has its rows, one for each day, whichever
\* requests overlap, whatever snapshot they began with and wherever one fails
\* (HistoryCache.get_or_fetch, data/history_cache.py).
THEOREM CoveredIsStoredHolds ==
    ASSUME Cache!DaysAreNumbers
    PROVE  Cache!Spec => []Cache!CoveredIsStored
<1>1. HistoryInPlace => Cache!CoveredIsStored
  BY DEF HistoryInPlace, Sound, Apart, DaysIn, OnePerDay, Cache!CoveredIsStored
<1> QED  BY <1>1, HistoryIsInPlace, PTL

\* A request is answered with all of its trading days, and one row for each: from
\* the snapshot, from what it committed, or past the cache.
THEOREM AnswersAreWholeHolds ==
    ASSUME Cache!DaysAreNumbers
    PROVE  Cache!Spec => []Cache!AnswersAreWhole
<1>1. HistoryInPlace => Cache!AnswersAreWhole
  BY DEF HistoryInPlace, Placed, Whole, DaysIn, OnePerDay, Cache!AnswersAreWhole
<1> QED  BY <1>1, HistoryIsInPlace, PTL

-----------------------------------------------------------------------------
(***************************************************************************)
(* The files of agents (Artifacts), for any callers, requests and contents:  *)
(* records can be read, a call delivers the files it was asked for, and a     *)
(* call that is repeated leaves them once.                                   *)
(***************************************************************************)
CONSTANTS Requests, Contents, NoKey, NoTask, Bad, Bounds
VARIABLES records, objects, saving, begun, alone, spent
Files == INSTANCE Artifacts WITH call <- saving, used <- spent, Limit <- Bounds

IsSeq(s) == Len(s) \in Nat /\ s = [i \in 1..Len(s) |-> s[i]]
Places == {"idle", "item", "check", "draw", "look", "create", "done"}
IsCall(k) ==
    /\ k \in [at : {k.at}, request : {k.request}, files : {k.files}, made : {k.made}, id : {k.id}]
    /\ k.at \in Places /\ IsSeq(k.made)
\* The files of a call are those of its request, apart from what a report says;
\* the next one is one of them.
Asked(k, all) ==
    k.at # "idle" =>
        /\ k.request \in all
        /\ IsSeq(k.files) /\ Len(k.files) = Len(k.request.files)
        /\ \A n \in 1..Len(k.files) :
              /\ k.files[n] = [name |-> k.files[n].name, content |-> k.files[n].content]
              /\ k.files[n].name = k.request.files[n].name
              /\ k.request.kind # "report" => k.files[n] = k.request.files[n]
        /\ IF k.at = "done" THEN Len(k.made) = Len(k.files) ELSE Len(k.made) < Len(k.files)
Routed(k) ==
    /\ k.at = "item" => k.request.kind = "files"
    /\ k.at = "check" => k.request.kind = "report" /\ k.request.key # NoKey
    /\ k.at = "draw" => k.request.kind = "report"
Working == /\ begun \subseteq Requests /\ spent.calls \in Nat /\ DOMAIN saving = Callers
           /\ spent = [calls |-> spent.calls, troubles |-> spent.troubles]
           /\ \A c \in Callers : IsCall(saving[c]) /\ Asked(saving[c], begun) /\ Routed(saving[c])

LEMMA Longer ==
    ASSUME NEW s, IsSeq(s), NEW e
    PROVE  /\ IsSeq(Append(s, e)) /\ Len(Append(s, e)) = Len(s) + 1 /\ Append(s, e)[Len(s) + 1] = e
           /\ \A i \in 1..Len(s) : Append(s, e)[i] = s[i]
<1> DEFINE T == {s[i] : i \in 1..Len(s)} \cup {e}
<1>1. s \in Seq(T)  BY DEF IsSeq
<1>2. Append(s, e) \in Seq(T) /\ Len(Append(s, e)) = Len(s) + 1 /\ Append(s, e)[Len(s) + 1] = e
      /\ \A i \in 1..Len(s) : Append(s, e)[i] = s[i]
  BY <1>1, AppendProperties, LenProperties
<1>3. Len(Append(s, e)) \in Nat  BY <1>2, LenProperties
<1>4. Append(s, e) \in [1..Len(Append(s, e)) -> T]  BY <1>2, LenProperties
<1>5. \A f, A, B : f \in [A -> B] => f = [i \in A |-> f[i]]  OBVIOUS
<1>6. Append(s, e) = [i \in 1..Len(Append(s, e)) |-> Append(s, e)[i]]  BY <1>4, <1>5
<1> QED  BY <1>2, <1>3, <1>6 DEF IsSeq

\* What the changes of a call leave alone.
Sent(k, at) == [k EXCEPT !.at = at]
Took(k, id) ==
    LET made == Append(k.made, id)
    IN [k EXCEPT !.made = made, !.at = IF Len(made) = Len(k.files) THEN "done" ELSE "item"]
Wrote(k, id) == [k EXCEPT !.at = "create", !.id = id]
Drew(k, content) == [k EXCEPT !.files[1].content = content, !.at = "look"]
LEMMA SentOn ==
    ASSUME NEW k, IsCall(k), NEW at \in Places
    PROVE  /\ IsCall(Sent(k, at)) /\ Sent(k, at).at = at
           /\ Sent(k, at).request = k.request /\ Sent(k, at).files = k.files /\ Sent(k, at).made = k.made
           /\ Sent(k, at).id = k.id
BY DEF IsCall, Sent
\* The changes write records of the same fields.
IsCallOf(r, k, at, files, made, id) ==
    /\ r \in [at : {at}, request : {k.request}, files : {files}, made : {made}, id : {id}]
    /\ r.at = at /\ r.request = k.request /\ r.files = files /\ r.made = made /\ r.id = id
LEMMA CallOf ==
    ASSUME NEW r, NEW k, NEW at \in Places, NEW files, NEW made, NEW id, IsCallOf(r, k, at, files, made, id),
           IsSeq(made)
    PROVE  IsCall(r)
BY DEF IsCall, IsCallOf
LEMMA WroteOn ==
    ASSUME NEW k, IsCall(k), NEW id
    PROVE  /\ IsCall(Wrote(k, id)) /\ Wrote(k, id).at = "create" /\ Wrote(k, id).id = id
           /\ Wrote(k, id).request = k.request /\ Wrote(k, id).files = k.files /\ Wrote(k, id).made = k.made
<1>1. IsCallOf(Wrote(k, id), k, "create", k.files, k.made, id)  BY DEF IsCall, Wrote, IsCallOf
<1>2. "create" \in Places /\ IsSeq(k.made)  BY DEF Places, IsCall
<1>3. IsCall(Wrote(k, id))  BY <1>1, <1>2, CallOf
<1> QED  BY <1>1, <1>3 DEF IsCallOf
LEMMA TookOn ==
    ASSUME NEW k, IsCall(k), NEW id
    PROVE  /\ IsCall(Took(k, id)) /\ Took(k, id).id = k.id
           /\ Took(k, id).request = k.request /\ Took(k, id).files = k.files
           /\ Took(k, id).made = Append(k.made, id)
           /\ Took(k, id).at = IF Len(k.made) + 1 = Len(k.files) THEN "done" ELSE "item"
<1>1. IsSeq(Append(k.made, id)) /\ Len(Append(k.made, id)) = Len(k.made) + 1  BY Longer DEF IsCall
<1>2. \A made, end : IsCallOf([k EXCEPT !.made = made, !.at = end], k, end, k.files, made, k.id)
  BY DEF IsCall, IsCallOf
<1> DEFINE end == IF Len(k.made) + 1 = Len(k.files) THEN "done" ELSE "item"
<1>3. IsCallOf(Took(k, id), k, end, k.files, Append(k.made, id), k.id)  BY <1>1, <1>2 DEF Took
<1>4. end \in Places  BY DEF Places
<1> HIDE DEF end
<1>5. IsCall(Took(k, id))  BY <1>1, <1>3, <1>4, CallOf
<1>6. Took(k, id).at = end  BY <1>3 DEF IsCallOf
<1> QED  BY <1>3, <1>5, <1>6 DEF IsCallOf, end
LEMMA DrewOn ==
    ASSUME NEW k, IsCall(k), NEW content
    PROVE  /\ IsCall(Drew(k, content)) /\ Drew(k, content).at = "look" /\ Drew(k, content).id = k.id
           /\ Drew(k, content).request = k.request /\ Drew(k, content).made = k.made
           /\ Drew(k, content).files = [k.files EXCEPT ![1].content = content]
<1> DEFINE files == [k.files EXCEPT ![1].content = content]
<1>1. IsCallOf(Drew(k, content), k, "look", files, k.made, k.id)  BY DEF IsCall, Drew, IsCallOf
<1>2. "look" \in Places /\ IsSeq(k.made)  BY DEF Places, IsCall
<1> HIDE DEF files
<1>3. IsCall(Drew(k, content))  BY <1>1, <1>2, CallOf
<1>4. Drew(k, content).files = files  BY <1>1 DEF IsCallOf
<1> QED  BY <1>1, <1>3, <1>4 DEF IsCallOf, files

\* What a step does: it stops, finds a file that is there, goes on, draws a
\* report, writes an object, or creates its record.
Does(c, next) == saving' = [saving EXCEPT ![c] = next]
Stops(c) == Does(c, Files!Idle) /\ UNCHANGED <<records, objects>>
Finds(c, id) ==
    /\ id \in DOMAIN records /\ Does(c, Took(saving[c], id)) /\ UNCHANGED <<records, objects>>
    /\ \/ saving[c].at = "item" /\ id \in Files!Duplicates(c)
       \/ saving[c].at \in {"check", "look"} /\ id = Files!Identity(c)
Goes(c) ==
    /\ UNCHANGED <<records, objects>>
    /\ \/ saving[c].at = "item" /\ Files!Duplicates(c) = {} /\ Does(c, Sent(saving[c], "look"))
       \/ saving[c].at = "check" /\ Does(c, Sent(saving[c], "draw"))
Draws(c) ==
    saving[c].at = "draw" /\ UNCHANGED <<records, objects>> /\ \E content : Does(c, Drew(saving[c], content))
WritesFile(c) ==
    LET id == Files!Identity(c)
    IN /\ saving[c].at = "look" /\ id \notin DOMAIN records
       /\ objects' = Files!With(objects, <<id, Files!File(c).name>>, Files!File(c).content)
       /\ Does(c, Wrote(saving[c], id)) /\ UNCHANGED records
Creates(c) ==
    /\ saving[c].at = "create" /\ saving[c].id \notin DOMAIN records
    /\ records' = Files!With(records, saving[c].id,
                             [name |-> Files!File(c).name, content |-> Files!File(c).content,
                              task |-> saving[c].request.task])
    /\ Does(c, Took(saving[c], saving[c].id)) /\ UNCHANGED objects
Steps(c) == Stops(c) \/ (\E id : Finds(c, id)) \/ Goes(c) \/ Draws(c) \/ WritesFile(c) \/ Creates(c)

LEMMA TakesOne ==
    ASSUME Working, NEW c \in Callers, NEW id, Files!Take(c, id)
    PROVE  Does(c, Took(saving[c], id))
<1> DEFINE made == Append(saving[c].made, id)
           end == IF Len(made) = Len(saving[c].files) THEN "done" ELSE "item"
<1>1. saving' = [saving EXCEPT ![c].made = made, ![c].at = end]  BY DEF Files!Take
<1>2. c \in DOMAIN saving  BY DEF Working
<1> HIDE DEF made, end
<1>3. [saving EXCEPT ![c].made = made, ![c].at = end]
      = [saving EXCEPT ![c] = [saving[c] EXCEPT !.made = made, !.at = end]]
  BY <1>2
<1> QED  BY <1>1, <1>3 DEF Does, Took, made, end

LEMMA Ways ==
    ASSUME Working, NEW c \in Callers, Files!Step(c)
    PROVE  UNCHANGED <<begun, alone, spent>> /\ Steps(c)
<1>c. c \in DOMAIN saving  BY DEF Working
<1>s. \A at : [saving EXCEPT ![c].at = at] = [saving EXCEPT ![c] = Sent(saving[c], at)]  BY <1>c DEF Sent
<1>1. CASE Files!Refuse(c)  BY <1>1 DEF Files!Refuse, Steps, Stops, Does
<1>2. CASE Files!FindDuplicate(c)
  <2>1. UNCHANGED <<records, objects, begun, alone, spent>> /\ saving[c].at = "item"
    BY <1>2 DEF Files!FindDuplicate, Files!At
  <2>2. CASE \E id \in Files!Duplicates(c) : Files!Take(c, id)
    <3>1. PICK id \in Files!Duplicates(c) : Files!Take(c, id)  BY <2>2
    <3>2. id \in DOMAIN records  BY <3>1 DEF Files!Duplicates
    <3>3. Does(c, Took(saving[c], id))  BY <3>1, TakesOne
    <3>4. Finds(c, id)  BY <2>1, <3>1, <3>2, <3>3 DEF Finds
    <3> QED  BY <2>1, <3>4 DEF Steps
  <2>3. CASE Files!Duplicates(c) = {} /\ saving' = [saving EXCEPT ![c].at = "look"]
    BY <1>s, <2>1, <2>3 DEF Steps, Goes, Does
  <2> QED  BY <1>2, <2>2, <2>3 DEF Files!FindDuplicate
<1>3. CASE Files!Check(c)
  <2>1. UNCHANGED <<records, objects, begun, alone, spent>> /\ saving[c].at = "check"
    BY <1>3 DEF Files!Check, Files!At
  <2>2. CASE Files!Identity(c) \in DOMAIN records
    <3>1. Files!Take(c, Files!Identity(c))  BY <1>3, <2>2 DEF Files!Check
    <3>2. Finds(c, Files!Identity(c))  BY <2>1, <2>2, <3>1, TakesOne DEF Finds
    <3> QED  BY <2>1, <3>2 DEF Steps
  <2>3. CASE Files!Identity(c) \notin DOMAIN records
    <3>1. saving' = [saving EXCEPT ![c].at = "draw"]  BY <1>3, <2>3 DEF Files!Check
    <3> QED  BY <1>s, <2>1, <3>1 DEF Steps, Goes, Does
  <2> QED  BY <2>2, <2>3
<1>4. CASE Files!Draw(c)
  <2>1. UNCHANGED <<records, objects, begun, alone, spent>> /\ saving[c].at = "draw"
    BY <1>4 DEF Files!Draw, Files!At
  <2>2. PICK content : saving' = [saving EXCEPT ![c].files[1].content = content, ![c].at = "look"]
    BY <1>4 DEF Files!Draw
  <2>3. [saving EXCEPT ![c].files[1].content = content, ![c].at = "look"]
        = [saving EXCEPT ![c] = [saving[c] EXCEPT !.files[1].content = content, !.at = "look"]]
    BY <1>c
  <2>4. Draws(c)  BY <2>1, <2>2, <2>3 DEF Draws, Does, Drew
  <2> QED  BY <2>1, <2>4 DEF Steps
<1>5. CASE Files!Look(c)
  <2>1. UNCHANGED <<records, begun, alone, spent>> /\ saving[c].at = "look"
    BY <1>5 DEF Files!Look, Files!At
  <2> DEFINE id == Files!Identity(c)
  <2>2. CASE id \in DOMAIN records
    <3>1. Files!Take(c, id) /\ UNCHANGED objects  BY <1>5, <2>2 DEF Files!Look
    <3>2. Finds(c, id)  BY <2>1, <2>2, <3>1, TakesOne DEF Finds
    <3> QED  BY <2>1, <3>2 DEF Steps
  <2>3. CASE id \notin DOMAIN records
    <3>1. /\ objects' = Files!With(objects, <<id, Files!File(c).name>>, Files!File(c).content)
          /\ saving' = [saving EXCEPT ![c].at = "create", ![c].id = id]
      BY <1>5, <2>3 DEF Files!Look
    <3> HIDE DEF id
    <3>2. [saving EXCEPT ![c].at = "create", ![c].id = id]
          = [saving EXCEPT ![c] = [saving[c] EXCEPT !.at = "create", !.id = id]]
      BY <1>c
    <3>3. Does(c, Wrote(saving[c], id))  BY <3>1, <3>2 DEF Does, Wrote
    <3>4. WritesFile(c)  BY <2>1, <2>3, <3>1, <3>3 DEF WritesFile, id
    <3> QED  BY <2>1, <3>4 DEF Steps
  <2> QED  BY <2>2, <2>3
<1>6. CASE Files!Create(c)
  <2>1. UNCHANGED <<objects, begun, alone, spent>> /\ saving[c].at = "create"
    BY <1>6 DEF Files!Create, Files!At
  <2>2. CASE saving[c].id \in DOMAIN records
    <3>1. saving' = [saving EXCEPT ![c] = Files!Idle] /\ UNCHANGED records  BY <1>6, <2>2 DEF Files!Create
    <3> QED  BY <2>1, <3>1 DEF Steps, Stops, Does
  <2>3. CASE saving[c].id \notin DOMAIN records
    <3>1. Files!Take(c, saving[c].id)  BY <1>6, <2>3 DEF Files!Create
    <3>2. Creates(c)  BY <1>6, <2>1, <2>3, <3>1, TakesOne DEF Files!Create, Files!Request, Creates
    <3> QED  BY <2>1, <3>2 DEF Steps
  <2> QED  BY <2>2, <2>3
<1> QED  BY <1>1, <1>2, <1>3, <1>4, <1>5, <1>6 DEF Files!Step

\* A request begins, or a call is cut off.
Enters(c, request, next) ==
    /\ saving[c].at \in {"idle", "done"} /\ request \in Requests /\ begun' = begun \cup {request}
    /\ Does(c, next) /\ IsCall(next) /\ Asked(next, begun') /\ Routed(next)
    /\ next.made = <<>> /\ next.request = request /\ next.files = request.files
    /\ next.at \in {"item", "check", "draw", "look"} /\ (next.at = "look" => request.kind = "binary")
    /\ alone' = (alone /\ \A other \in Callers \ {c} : saving[other].at \in {"idle", "done"})
    /\ spent'.calls = spent.calls + 1 /\ spent' = [calls |-> spent'.calls, troubles |-> spent'.troubles]
    /\ UNCHANGED <<records, objects>>
LEMMA Beginning ==
    ASSUME Files!ArtifactsAssumption, Working, NEW c \in Callers, Files!Begin(c)
    PROVE  \E request, next : Enters(c, request, next)
<1>1. PICK request \in Requests :
        /\ saving' = [saving EXCEPT ![c] = [Files!Idle EXCEPT !.request = request, !.files = request.files,
                        !.at = CASE request.kind = "files" -> "item"
                                 [] request.kind = "binary" -> "look"
                                 [] request.kind = "report" -> IF request.key = NoKey THEN "draw" ELSE "check"]]
        /\ begun' = begun \cup {request}
  BY DEF Files!Begin
<1> DEFINE end == CASE request.kind = "files" -> "item"
                    [] request.kind = "binary" -> "look"
                    [] request.kind = "report" -> IF request.key = NoKey THEN "draw" ELSE "check"
           next == [Files!Idle EXCEPT !.request = request, !.files = request.files, !.at = end]
<1>2. /\ request.kind \in {"files", "binary", "report"}
      /\ Len(request.files) \in Nat \ {0}
      /\ request.files = [n \in 1..Len(request.files) |->
                            [name |-> request.files[n].name, content |-> request.files[n].content]]
  BY DEF Files!ArtifactsAssumption
<1>3. /\ request.kind = "files" => end = "item"
      /\ request.kind = "binary" => end = "look"
      /\ request.kind = "report" => end = IF request.key = NoKey THEN "draw" ELSE "check"
  OBVIOUS
<1> HIDE DEF end
<1>4. /\ next \in [at : {end}, request : {request}, files : {request.files}, made : {<<>>}, id : {NoKey}]
      /\ next.at = end /\ next.request = request /\ next.files = request.files /\ next.made = <<>>
  BY DEF Files!Idle
<1> HIDE DEF next
<1>5. IsSeq(<<>>) /\ Len(<<>>) = 0  BY DEF IsSeq
<1>6. end \in {"item", "look", "draw", "check"}  BY <1>2, <1>3
<1>7. IsCall(next)
  <2>1. next \in [at : {next.at}, request : {next.request}, files : {next.files}, made : {next.made}, id : {next.id}]
    BY <1>4
  <2> QED  BY <1>4, <1>5, <1>6, <2>1 DEF IsCall, Places
<1>8. Asked(next, begun')
  <2>1. IsSeq(request.files)
    <3>1. \A f, A : (\A F : f = [n \in A |-> F[n]] => f = [n \in A |-> f[n]])  OBVIOUS
    <3>2. request.files = [n \in 1..Len(request.files) |-> request.files[n]]  BY <1>2
    <3> QED  BY <1>2, <3>2 DEF IsSeq
  <2>2. \A n \in 1..Len(request.files) :
           request.files[n] = [name |-> request.files[n].name, content |-> request.files[n].content]
    BY <1>2
  <2> QED  BY <1>1, <1>2, <1>4, <1>5, <1>6, <2>1, <2>2 DEF Asked
<1>9. Routed(next)  BY <1>2, <1>3, <1>4 DEF Routed
<1>10. saving[c].at \in {"idle", "done"}
       /\ alone' = (alone /\ \A other \in Callers \ {c} : saving[other].at \in {"idle", "done"})
  BY DEF Files!Begin, Files!Busy, Files!At
<1>11. spent'.calls = spent.calls + 1 /\ spent' = [calls |-> spent'.calls, troubles |-> spent'.troubles]
  BY DEF Files!Begin, Working
<1>12. UNCHANGED <<records, objects>>  BY DEF Files!Begin
<1>13. Does(c, next)  BY <1>1 DEF Does, next, end
<1>14. next.at = "look" => request.kind = "binary"  BY <1>2, <1>3, <1>4
<1>15. Enters(c, request, next)
  BY <1>1, <1>4, <1>6, <1>7, <1>8, <1>9, <1>10, <1>11, <1>12, <1>13, <1>14 DEF Enters
<1> QED  BY <1>15

Cuts(c) == /\ Stops(c) /\ UNCHANGED <<begun, alone>> /\ spent'.calls = spent.calls
           /\ spent' = [calls |-> spent'.calls, troubles |-> spent'.troubles]
LEMMA Cutting ==
    ASSUME Working, NEW c \in Callers, Files!Cut(c)
    PROVE  Cuts(c)
BY DEF Files!Cut, Cuts, Stops, Does, Working

\* Whatever happens, one call moves and the others stand.
LEMMA OneMoves ==
    ASSUME Files!ArtifactsAssumption, Working, Files!Next
    PROVE  \E c \in Callers :
              \/ \E request, next : Enters(c, request, next)
              \/ UNCHANGED <<begun, alone, spent>> /\ Steps(c)
              \/ Cuts(c)
<1>1. PICK c \in Callers : Files!Begin(c) \/ Files!Step(c) \/ Files!Cut(c)  BY DEF Files!Next
<1> QED  BY <1>1, Beginning, Ways, Cutting

LEMMA CallMoved ==
    ASSUME Working, NEW c \in Callers, NEW next, Does(c, next)
    PROVE  DOMAIN saving' = Callers /\ saving'[c] = next /\ \A d \in Callers \ {c} : saving'[d] = saving[d]
BY DEF Working, Does

LEMMA WorkingStays ==
    ASSUME Files!ArtifactsAssumption, Working, [Files!Next]_(Files!vars)
    PROVE  Working'
<1> DEFINE Good(k) == IsCall(k) /\ Asked(k, begun') /\ Routed(k)
<1>0. CASE UNCHANGED Files!vars  BY <1>0 DEF Files!vars, Working
<1>1. ASSUME NEW c \in Callers, NEW next, Does(c, next), Good(next), begun \subseteq begun', begun' \subseteq Requests,
             spent'.calls \in Nat, spent' = [calls |-> spent'.calls, troubles |-> spent'.troubles]
      PROVE  Working'
  <2>1. DOMAIN saving' = Callers /\ saving'[c] = next /\ \A d \in Callers \ {c} : saving'[d] = saving[d]
    BY <1>1, CallMoved
  <2>2. \A d \in Callers : Good(saving[d])
    BY <1>1 DEF Working, Asked
  <2>3. \A d \in Callers : Good(saving'[d])  BY <1>1, <2>1, <2>2
  <2> QED  BY <1>1, <2>1, <2>3 DEF Working
<1>2. Good(Files!Idle)
  <2>1. IsSeq(<<>>)  BY DEF IsSeq
  <2> QED  BY <2>1 DEF IsCall, Asked, Routed, Files!Idle, Places
<1>3. ASSUME NEW c \in Callers, UNCHANGED <<begun, spent>>, Steps(c) PROVE Working'
  <2> DEFINE k == saving[c]
  <2>1. IsCall(k) /\ Asked(k, begun) /\ Routed(k)  BY DEF Working
  <2>2. ASSUME NEW next, Does(c, next), Good(next) PROVE Working'
    BY <1>1, <1>3, <2>2 DEF Working
  <2>3. CASE Stops(c)  BY <1>2, <2>2, <2>3 DEF Stops
  <2>4. ASSUME NEW id, k.at \in Places \ {"idle", "done"}, Does(c, Took(k, id)), k.request.kind = "files" \/ Len(k.request.files) = 1
        PROVE Working'
    <3> DEFINE next == Took(k, id)
    <3>1. /\ IsCall(next) /\ next.request = k.request /\ next.files = k.files
          /\ next.made = Append(k.made, id)
          /\ next.at = IF Len(k.made) + 1 = Len(k.files) THEN "done" ELSE "item"
      BY <2>1, TookOn
    <3>2. Len(Append(k.made, id)) = Len(k.made) + 1 /\ Len(k.made) \in Nat  BY <2>1, Longer DEF IsCall, IsSeq
    <3> HIDE DEF next
    <3>3. Asked(next, begun')
      <4>1. k.at # "idle" /\ begun' = begun  BY <1>3, <2>4 DEF Places
      <4>2. Asked(k, begun')  BY <2>1, <4>1
      <4>3. Len(k.files) \in Nat /\ Len(k.made) < Len(k.files)
        BY <2>4, <4>1, <4>2 DEF Asked, IsSeq, Places
      <4>4. IF next.at = "done" THEN Len(next.made) = Len(next.files) ELSE Len(next.made) < Len(next.files)
        BY <3>1, <3>2, <4>3
      <4> QED  BY <3>1, <4>1, <4>2, <4>4 DEF Asked
    <3>4. Routed(next)
      <4>1. next.at = "item" => Len(k.request.files) # 1
        <5>1. Len(k.made) < Len(k.files) /\ Len(k.files) = Len(k.request.files)
          BY <2>1, <2>4 DEF Asked
        <5>2. Len(k.files) = 1 => Len(k.made) + 1 = Len(k.files)  BY <3>2, <5>1
        <5> QED  BY <3>1, <5>1, <5>2
      <4> QED  BY <2>4, <3>1, <4>1 DEF Routed
    <3> QED  BY <2>2, <2>4, <3>1, <3>3, <3>4 DEF next
  <2>5. k.at # "idle" => k.request \in Requests /\ (k.request.kind = "files" \/ Len(k.request.files) = 1)
    BY <2>1 DEF Asked, Working, Files!ArtifactsAssumption
  <2>6. CASE \E id : Finds(c, id)  BY <2>4, <2>5, <2>6 DEF Finds, Places
  <2>7. CASE Creates(c)  BY <2>4, <2>5, <2>7 DEF Creates, Places
  <2>8. CASE Goes(c)
    <3>1. ASSUME NEW at \in {"look", "draw"}, Does(c, Sent(k, at)), k.at \in {"item", "check"},
                 at = "draw" => k.at = "check"
          PROVE  Working'
      <4>1. IsCall(Sent(k, at)) /\ Sent(k, at).at = at /\ Sent(k, at).request = k.request
            /\ Sent(k, at).files = k.files /\ Sent(k, at).made = k.made
        BY <2>1, SentOn DEF Places
      <4>2. Asked(Sent(k, at), begun') /\ Routed(Sent(k, at))
        BY <1>3, <2>1, <3>1, <4>1 DEF Asked, Routed
      <4> QED  BY <2>2, <3>1, <4>1, <4>2
    <3> QED  BY <2>8, <3>1 DEF Goes
  <2>9. CASE Draws(c)
    <3>1. PICK content : Does(c, Drew(k, content)) /\ k.at = "draw"  BY <2>9 DEF Draws
    <3> DEFINE next == Drew(k, content)
    <3>2. /\ IsCall(next) /\ next.at = "look" /\ next.request = k.request /\ next.made = k.made
          /\ next.files = [k.files EXCEPT ![1].content = content]
      BY <2>1, DrewOn
    <3> HIDE DEF next
    <3>3. k.request.kind = "report"  BY <2>1, <3>1 DEF Routed
    <3>4. /\ IsSeq(k.files) /\ Len(k.files) = Len(k.request.files) /\ Len(k.made) < Len(k.files)
          /\ \A n \in 1..Len(k.files) : /\ k.files[n] = [name |-> k.files[n].name, content |-> k.files[n].content]
                                        /\ k.files[n].name = k.request.files[n].name
      BY <2>1, <3>1 DEF Asked
    <3>5. /\ IsSeq(next.files) /\ Len(next.files) = Len(k.files)
          /\ \A n \in 1..Len(k.files) : /\ next.files[n] = [name |-> next.files[n].name, content |-> next.files[n].content]
                                        /\ next.files[n].name = k.files[n].name
      <4> DEFINE files == k.files row == [k.files[1] EXCEPT !.content = content]
      <4>1. next.files = [files EXCEPT ![1] = row]  BY <3>2
      <4>2. 1 \in 1..Len(files) => row = [name |-> row.name, content |-> row.content] /\ row.name = files[1].name
        <5>1. SUFFICES ASSUME 1 \in 1..Len(files)
                       PROVE  row = [name |-> row.name, content |-> row.content] /\ row.name = files[1].name
          OBVIOUS
        <5>2. files[1] = [name |-> files[1].name, content |-> files[1].content]  BY <3>4, <5>1
        <5> DEFINE name == files[1].name
        <5> HIDE DEF name
        <5>3. \A old : [[name |-> name, content |-> old] EXCEPT !.content = content]
                       = [name |-> name, content |-> content]
          OBVIOUS
        <5>4. row = [name |-> name, content |-> content]  BY <5>2, <5>3 DEF name
        <5> HIDE DEF row
        <5> QED  BY <5>4 DEF name
      <4> HIDE DEF files, row
      <4>3. IsSeq(files)  BY <3>4 DEF files
      <4>4. files \in Seq({files[i] : i \in 1..Len(files)} \cup {row})  BY <4>3 DEF IsSeq
      <4>5. 1 \in 1..Len(files) => 1 \in DOMAIN files  BY <4>3 DEF IsSeq
      <4>6. /\ next.files = [i \in 1..Len(files) |-> IF i = 1 THEN row ELSE files[i]]
            /\ Len(files) \in Nat
        BY <4>1, <4>3 DEF IsSeq
      <4>7. Len(next.files) = Len(files)  BY <4>6
      <4>8. IsSeq(next.files)  BY <4>6, <4>7 DEF IsSeq
      <4>9. ASSUME NEW n \in 1..Len(files)
            PROVE  /\ next.files[n] = [name |-> next.files[n].name, content |-> next.files[n].content]
                   /\ next.files[n].name = files[n].name
        <5>1. next.files[n] = IF n = 1 THEN row ELSE files[n]  BY <4>6, <4>9
        <5> QED  BY <3>4, <4>2, <4>9, <5>1 DEF files
      <4> QED  BY <4>7, <4>8, <4>9 DEF files
    <3>6. Asked(next, begun')
      BY <1>3, <2>1, <3>1, <3>2, <3>3, <3>4, <3>5 DEF Asked
    <3>7. Routed(next)  BY <3>2 DEF Routed
    <3> QED  BY <2>2, <3>1, <3>2, <3>6, <3>7 DEF next
  <2>10. CASE WritesFile(c)
    <3> DEFINE id == Files!Identity(c)
    <3>1. Does(c, Wrote(k, id)) /\ k.at = "look"  BY <2>10 DEF WritesFile
    <3> HIDE DEF id
    <3>2. /\ IsCall(Wrote(k, id)) /\ Wrote(k, id).at = "create" /\ Wrote(k, id).request = k.request
          /\ Wrote(k, id).files = k.files /\ Wrote(k, id).made = k.made
      BY <2>1, WroteOn
    <3>3. Asked(Wrote(k, id), begun') /\ Routed(Wrote(k, id))  BY <1>3, <2>1, <3>1, <3>2 DEF Asked, Routed
    <3> QED  BY <2>2, <3>1, <3>2, <3>3
  <2> QED  BY <1>3, <2>3, <2>6, <2>7, <2>8, <2>9, <2>10 DEF Steps
<1>4. ASSUME NEW c \in Callers, Cuts(c) PROVE Working'
  BY <1>1, <1>2, <1>4 DEF Cuts, Stops, Working
<1>5. ASSUME NEW c \in Callers, NEW request, NEW next, Enters(c, request, next) PROVE Working'
  <2>1. spent.calls \in Nat /\ begun \subseteq Requests  BY DEF Working
  <2>2. spent'.calls \in Nat /\ spent' = [calls |-> spent'.calls, troubles |-> spent'.troubles]
        /\ begun \subseteq begun' /\ begun' \subseteq Requests
    BY <1>5, <2>1 DEF Enters
  <2>3. Does(c, next) /\ Good(next)  BY <1>5 DEF Enters
  <2> QED  BY <1>1, <2>2, <2>3
<1> QED  BY <1>0, <1>3, <1>4, <1>5, OneMoves

-----------------------------------------------------------------------------
\* While calls take turns only one is under way.
OneBusy == alone => \A c, d \in Callers : Files!Busy(c) /\ Files!Busy(d) => c = d
\* What each kind of step makes of the call that takes it.
LEMMA Onward ==
    ASSUME Working, NEW c \in Callers, Steps(c), NEW k, k = saving[c]
    PROVE  \E next :
              /\ Does(c, next)
              /\ next.at \notin {"idle", "done"} => Files!Busy(c)
              /\ next.at # "idle" => next.request = k.request
              /\ \/ Stops(c) /\ next = Files!Idle
                 \/ \E id : Finds(c, id) /\ next = Took(k, id)
                 \/ Goes(c) /\ k.at = "item" /\ Files!Duplicates(c) = {} /\ next = Sent(k, "look")
                 \/ Goes(c) /\ k.at = "check" /\ next = Sent(k, "draw")
                 \/ Draws(c) /\ \E content : next = Drew(k, content)
                 \/ WritesFile(c) /\ next = Wrote(k, Files!Identity(c))
                 \/ Creates(c) /\ next = Took(k, k.id)
<1>k. IsCall(k)  BY DEF Working
<1>b. k.at \notin {"idle", "done"} => Files!Busy(c)  BY DEF Files!Busy, Files!At
<1>1. CASE Stops(c)
  <2>1. Files!Idle.at = "idle"  BY DEF Files!Idle
  <2> QED  BY <1>1, <2>1 DEF Stops
<1>2. CASE \E id : Finds(c, id)
  <2>1. PICK id : Finds(c, id)  BY <1>2
  <2>2. Took(k, id).request = k.request  BY <1>k, TookOn
  <2> QED  BY <1>b, <2>1, <2>2 DEF Finds
<1>3. CASE Goes(c)
  <2>1. Sent(k, "look").request = k.request /\ Sent(k, "draw").request = k.request
    BY <1>k, SentOn DEF Places
  <2> QED  BY <1>b, <1>3, <2>1 DEF Goes
<1>4. CASE Draws(c)
  <2>1. PICK content : Does(c, Drew(k, content))  BY <1>4 DEF Draws
  <2>2. Drew(k, content).request = k.request  BY <1>k, DrewOn
  <2> QED  BY <1>b, <1>4, <2>1, <2>2 DEF Draws
<1>5. CASE WritesFile(c)
  <2>1. Wrote(k, Files!Identity(c)).request = k.request  BY <1>k, WroteOn
  <2> QED  BY <1>b, <1>5, <2>1 DEF WritesFile
<1>6. CASE Creates(c)
  <2>1. Took(k, k.id).request = k.request  BY <1>k, TookOn
  <2> QED  BY <1>b, <1>6, <2>1 DEF Creates
<1> QED  BY <1>1, <1>2, <1>3, <1>4, <1>5, <1>6 DEF Steps

LEMMA TurnsAreTaken ==
    ASSUME Files!ArtifactsAssumption, Working, OneBusy, [Files!Next]_(Files!vars)
    PROVE  OneBusy'
<1>0. CASE UNCHANGED Files!vars  BY <1>0 DEF Files!vars, OneBusy, Files!Busy, Files!At
<1>1. ASSUME NEW c \in Callers, NEW next, Does(c, next), alone' => alone,
             alone' /\ next.at \notin {"idle", "done"} =>
                Files!Busy(c) \/ \A d \in Callers \ {c} : saving[d].at \in {"idle", "done"}
      PROVE  OneBusy'
  <2>1. saving'[c] = next /\ \A d \in Callers \ {c} : saving'[d] = saving[d]  BY <1>1, CallMoved
  <2> QED  BY <1>1, <2>1 DEF OneBusy, Files!Busy, Files!At
<1>2. ASSUME NEW c \in Callers, UNCHANGED alone, Steps(c) PROVE OneBusy'
  <2>1. PICK next : Does(c, next) /\ (next.at \notin {"idle", "done"} => Files!Busy(c))
    BY <1>2, Onward
  <2> QED  BY <1>1, <1>2, <2>1
<1>3. ASSUME NEW c \in Callers, Cuts(c) PROVE OneBusy'
  BY <1>1, <1>3 DEF Cuts, Stops, Files!Idle
<1>4. ASSUME NEW c \in Callers, NEW request, NEW next, Enters(c, request, next) PROVE OneBusy'
  BY <1>1, <1>4 DEF Enters
<1> QED  BY <1>0, <1>2, <1>3, <1>4, OneMoves

-----------------------------------------------------------------------------
\* The file a call is at, of its record.
Current(k) == k.files[Len(k.made) + 1]
\* The object of a record is there before it, under the path a caller that
\* creates the record holds.
Stored ==
    \A c \in Callers :
        saving[c].at = "create" =>
            LET path == <<saving[c].id, Current(saving[c]).name>>
            IN path \in DOMAIN objects /\ (alone => objects[path] = Current(saving[c]).content)

\* While no object is written for a record that is there, and none under a
\* caller's path except by itself, records are readable.
LEMMA ObjectsStand ==
    ASSUME Files!ArtifactsAssumption, Working, OneBusy, Stored, Files!RecordsAreReadable, [Files!Next]_(Files!vars)
    PROVE  Stored' /\ Files!RecordsAreReadable'
<1>0. CASE UNCHANGED Files!vars  BY <1>0 DEF Files!vars, Stored, Files!RecordsAreReadable, Current
\* A step that writes neither.
<1>1. ASSUME NEW c \in Callers, NEW next, Does(c, next), next.at # "create", alone' => alone, UNCHANGED <<records, objects>>
      PROVE  Stored' /\ Files!RecordsAreReadable'
  <2>1. saving'[c] = next /\ \A d \in Callers \ {c} : saving'[d] = saving[d]  BY <1>1, CallMoved
  <2>2. Stored'  BY <1>1, <2>1 DEF Stored, Current
  <2> QED  BY <1>1, <2>2 DEF Files!RecordsAreReadable
<1>2. ASSUME NEW c \in Callers, UNCHANGED <<begun, alone, spent>>, Steps(c)
      PROVE  Stored' /\ Files!RecordsAreReadable'
  <2> DEFINE k == saving[c]
  <2>k. IsCall(k)  BY DEF Working
  <2>n. Does(c, Files!Idle) => Files!Idle.at # "create"  BY DEF Files!Idle
  <2>1. CASE Stops(c)  BY <1>1, <1>2, <2>1, <2>n DEF Stops
  <2>2. CASE \E id : Finds(c, id)
    <3>1. PICK id : Finds(c, id)  BY <2>2
    <3>2. Took(k, id).at # "create"  BY <2>k, TookOn
    <3> QED  BY <1>1, <1>2, <3>1, <3>2 DEF Finds
  <2>3. CASE Goes(c)
    <3>1. Sent(k, "look").at # "create" /\ Sent(k, "draw").at # "create"  BY <2>k, SentOn DEF Places
    <3> QED  BY <1>1, <1>2, <2>3, <3>1 DEF Goes
  <2>4. CASE Draws(c)
    <3>1. PICK content : Does(c, Drew(k, content))  BY <2>4 DEF Draws
    <3>2. Drew(k, content).at # "create"  BY <2>k, DrewOn
    <3> QED  BY <1>1, <1>2, <2>4, <3>1, <3>2 DEF Draws
  <2>5. CASE WritesFile(c)
    <3> DEFINE id == Files!Identity(c) name == Current(k).name content == Current(k).content path == <<id, name>>
    <3>1. /\ objects' = Files!With(objects, path, content) /\ id \notin DOMAIN records
          /\ Does(c, Wrote(k, id)) /\ UNCHANGED records /\ k.at = "look"
      BY <2>5 DEF WritesFile, Files!File, Files!Place, Current
    <3>2. /\ Wrote(k, id).id = id /\ Wrote(k, id).files = k.files /\ Wrote(k, id).made = k.made
      BY <2>k, WroteOn
    <3>3. saving'[c] = Wrote(k, id) /\ \A d \in Callers \ {c} : saving'[d] = saving[d]  BY <3>1, CallMoved
    <3>4. Current(Wrote(k, id)) = Current(k)  BY <3>2 DEF Current
    <3> HIDE DEF id, name, content
    <3>5. DOMAIN objects' = DOMAIN objects \cup {path} /\ objects'[path] = content
          /\ \A x \in DOMAIN objects \ {path} : objects'[x] = objects[x]
      BY <3>1 DEF Files!With
    <3>6. Files!RecordsAreReadable'
      <4>1. \A x \in DOMAIN records : \A n : <<x, n>> # path  BY <3>1
      <4> QED  BY <1>2, <3>1, <3>5, <4>1 DEF Files!RecordsAreReadable
    <3>7. alone => \A d \in Callers \ {c} : saving[d].at # "create"
      BY <3>1 DEF OneBusy, Files!Busy, Files!At
    <3>8. Stored'
      <4>1. SUFFICES ASSUME NEW d \in Callers, saving'[d].at = "create"
                     PROVE  LET p == <<saving'[d].id, Current(saving'[d]).name>>
                            IN p \in DOMAIN objects' /\ (alone => objects'[p] = Current(saving'[d]).content)
        BY <1>2 DEF Stored, Current
      <4>2. CASE d = c  BY <3>2, <3>3, <3>4, <3>5, <4>2 DEF name, content
      <4>3. CASE d # c  BY <3>3, <3>5, <3>7, <4>1, <4>3 DEF Stored
      <4> QED  BY <4>2, <4>3
    <3> QED  BY <3>6, <3>8
  <2>6. CASE Creates(c)
    <3> DEFINE id == k.id name == Current(k).name content == Current(k).content
               row == [name |-> name, content |-> content, task |-> k.request.task]
    <3>1. /\ k.at = "create" /\ id \notin DOMAIN records /\ records' = Files!With(records, id, row)
          /\ Does(c, Took(k, id)) /\ UNCHANGED objects
      BY <2>6 DEF Creates, Files!File, Files!Place, Current
    <3>2. Took(k, id).at # "create"  BY <2>k, TookOn
    <3>3. saving'[c] = Took(k, id) /\ \A d \in Callers \ {c} : saving'[d] = saving[d]  BY <3>1, CallMoved
    <3>4. <<id, name>> \in DOMAIN objects /\ (alone => objects[<<id, name>>] = content)
      BY <3>1 DEF Stored
    <3>5. row.name = name /\ row.content = content  OBVIOUS
    <3> HIDE DEF id, name, content, row
    <3>6. DOMAIN records' = DOMAIN records \cup {id} /\ records'[id] = row
          /\ \A x \in DOMAIN records : records'[x] = records[x]
      BY <3>1 DEF Files!With
    <3>7. Files!RecordsAreReadable'
      <4>1. SUFFICES ASSUME NEW x \in DOMAIN records'
                     PROVE  LET path == <<x, records'[x].name>>
                            IN path \in DOMAIN objects /\ (alone => objects[path] = records'[x].content)
        BY <1>2, <3>1 DEF Files!RecordsAreReadable
      <4>2. CASE x = id  BY <3>4, <3>5, <3>6, <4>2
      <4>3. CASE x \in DOMAIN records  BY <3>6, <4>3 DEF Files!RecordsAreReadable
      <4> QED  BY <3>6, <4>2, <4>3
    <3>8. Stored'
      <4>1. SUFFICES ASSUME NEW d \in Callers, saving'[d].at = "create"
                     PROVE  LET p == <<saving'[d].id, Current(saving'[d]).name>>
                            IN p \in DOMAIN objects /\ (alone => objects[p] = Current(saving'[d]).content)
        BY <1>2, <3>1 DEF Stored, Current
      <4>2. d # c  BY <3>2, <3>3, <4>1
      <4> QED  BY <3>3, <4>1, <4>2 DEF Stored
    <3> QED  BY <3>7, <3>8
  <2> QED  BY <1>2, <2>1, <2>2, <2>3, <2>4, <2>5, <2>6 DEF Steps
<1>3. ASSUME NEW c \in Callers, Cuts(c) PROVE Stored' /\ Files!RecordsAreReadable'
  BY <1>1, <1>3 DEF Cuts, Stops, Files!Idle
<1>4. ASSUME NEW c \in Callers, NEW request, NEW next, Enters(c, request, next)
      PROVE  Stored' /\ Files!RecordsAreReadable'
  BY <1>1, <1>4 DEF Enters
<1> QED  BY <1>0, <1>2, <1>3, <1>4, OneMoves

-----------------------------------------------------------------------------
\* The identity of the n-th file of a request, of a caller at its m-th call.
IdOf(q, n, c, m) ==
    IF q.key # NoKey THEN <<"key", q.key, n>>
    ELSE IF q.kind = "binary" THEN <<"contents", q.files[n].name, q.files[n].content>>
    ELSE <<"random", c, m, n>>
Fits(q, n, c, id, calls) == \E m \in 0..calls : id = IdOf(q, n, c, m)
\* Where a record is from: the name of a file and, apart from reports, its content.
IsOf(row, q, n) == row.name = q.files[n].name /\ (q.kind # "report" => row.content = q.files[n].content)
FromRequests ==
    \A id \in DOMAIN records :
        \E q \in begun : \E n \in 1..Len(q.files) : \E c \in Callers :
            Fits(q, n, c, id, spent.calls) /\ IsOf(records[id], q, n) /\ records[id].task = q.task
\* A caller that is under way has not used its random identity.
Unused == \A c \in Callers, n \in Nat :
    Files!Busy(c) /\ <<"random", c, spent.calls, n>> \in DOMAIN records => n < Len(saving[c].made) + 1
Named ==
    \A c \in Callers : saving[c].at = "create" =>
        Fits(saving[c].request, Len(saving[c].made) + 1, c, saving[c].id, spent.calls)
\* What a call has is there: its own, if its key is its own.
OwnKeyOf(q, all) == \A r \in all : r.key = q.key => r.key = NoKey \/ r = q
ByIdentity(q) == (q.kind # "files" \/ q.task = NoTask) /\ (q.key # NoKey \/ q.kind = "binary")
KeptOf(k, c, table, all) ==
    k.at # "idle" =>
        \A n \in 1..Len(k.made) :
            /\ k.made[n] \in DOMAIN table
            /\ OwnKeyOf(k.request, all) => IsOf(table[k.made[n]], k.request, n)
            /\ ByIdentity(k.request) => k.made[n] = IdOf(k.request, n, c, 0)
Retained == \A c \in Callers : KeptOf(saving[c], c, records, begun)

\* The identity that the service makes is that of the call's next file.
LEMMA IdentityFits ==
    ASSUME Files!ArtifactsAssumption, Working, NEW c \in Callers, saving[c].at \in {"check", "look"}
    PROVE  LET k == saving[c]
               place == Len(k.made) + 1
           IN /\ Files!Identity(c) = IdOf(k.request, place, c, spent.calls)
              /\ Fits(k.request, place, c, Files!Identity(c), spent.calls)
              /\ place \in 1..Len(k.request.files) /\ k.request \in begun
              /\ Current(k).name = k.request.files[place].name
              /\ k.request.kind # "report" => Current(k) = k.request.files[place]
<1> DEFINE k == saving[c] place == Len(k.made) + 1
<1>1. Asked(k, begun) /\ IsCall(k) /\ spent.calls \in Nat  BY DEF Working
<1>2. /\ k.request \in begun /\ Len(k.made) \in Nat /\ Len(k.files) \in Nat
      /\ Len(k.files) = Len(k.request.files) /\ Len(k.made) < Len(k.files)
  BY <1>1 DEF Asked, IsCall, IsSeq
<1>3. place \in 1..Len(k.request.files)  BY <1>2
<1>4. k.files[place].name = k.request.files[place].name
      /\ (k.request.kind # "report" => k.files[place] = k.request.files[place])
  BY <1>1, <1>2, <1>3 DEF Asked
<1>5. Current(k) = k.files[place]  BY DEF Current
<1>6. Files!Identity(c) = IdOf(k.request, place, c, spent.calls)
  <2>1. Files!Identity(c) =
          IF k.request.key # NoKey THEN <<"key", k.request.key, place>>
          ELSE IF k.request.kind = "binary" THEN <<"contents", k.files[place].name, k.files[place].content>>
          ELSE <<"random", c, spent.calls, place>>
    BY DEF Files!Identity, Files!Request, Files!Place, Files!File
  <2>2. k.request.kind = "binary" => k.files[place] = k.request.files[place]  BY <1>4
  <2> HIDE DEF k, place
  <2> QED  BY <2>1, <2>2 DEF IdOf
<1>7. spent.calls \in 0..spent.calls  BY <1>1
<1> HIDE DEF k, place
<1>8. Fits(k.request, place, c, Files!Identity(c), spent.calls)  BY <1>6, <1>7 DEF Fits
<1> QED  BY <1>2, <1>3, <1>4, <1>5, <1>6, <1>8 DEF k, place

LEMMA FitsLater ==
    ASSUME NEW q, NEW n, NEW c, NEW id, NEW calls \in Nat, NEW more \in Nat, calls <= more, Fits(q, n, c, id, calls)
    PROVE  Fits(q, n, c, id, more)
BY DEF Fits

\* Two files of the same identity are the same, if a key is of one request.
LEMMA SameIdentity ==
    ASSUME NEW q, NEW n, NEW c, NEW r, NEW i, NEW d, NEW id, NEW calls \in Nat,
           Fits(q, n, c, id, calls), Fits(r, i, d, id, calls), NEW row, IsOf(row, r, i)
    PROVE  /\ q.key # NoKey => r.key = q.key /\ i = n
           /\ q.key = NoKey => r.key = NoKey
           /\ q.key = NoKey /\ q.kind = "binary" => r.kind = "binary" /\ IsOf(row, q, n)
           /\ q.key = NoKey /\ q.kind # "binary" => r.kind # "binary" /\ d = c /\ i = n
<1>1. PICK m \in 0..calls, l \in 0..calls : id = IdOf(q, n, c, m) /\ id = IdOf(r, i, d, l)  BY DEF Fits
<1>2. /\ q.key # NoKey => id = <<"key", q.key, n>>
      /\ q.key = NoKey /\ q.kind = "binary" => id = <<"contents", q.files[n].name, q.files[n].content>>
      /\ q.key = NoKey /\ q.kind # "binary" => id = <<"random", c, m, n>>
  BY <1>1 DEF IdOf
<1>3. /\ r.key # NoKey => id = <<"key", r.key, i>>
      /\ r.key = NoKey /\ r.kind = "binary" => id = <<"contents", r.files[i].name, r.files[i].content>>
      /\ r.key = NoKey /\ r.kind # "binary" => id = <<"random", d, l, i>>
  BY <1>1 DEF IdOf
<1>4. \A a, b, e, f : <<"key", a, b>> = <<"key", e, f>> => a = e /\ b = f  OBVIOUS
<1>5. \A a, b, e, f : <<"contents", a, b>> = <<"contents", e, f>> => a = e /\ b = f  OBVIOUS
<1>6. \A a, b, e, f, g, h : <<"random", a, b, e>> = <<"random", f, g, h>> => a = f /\ b = g /\ e = h  OBVIOUS
<1>7. \A a, b, e, f : <<"key", a, b>> # <<"contents", e, f>>  OBVIOUS
<1>8. \A a, b, e, f, g : <<"key", a, b>> # <<"random", e, f, g>>  OBVIOUS
<1>9. \A a, b, e, f, g : <<"contents", a, b>> # <<"random", e, f, g>>  OBVIOUS
<1>10. CASE q.key # NoKey
  <2>1. r.key # NoKey  BY <1>2, <1>3, <1>7, <1>8, <1>10
  <2> QED  BY <1>2, <1>3, <1>4, <1>10, <2>1
<1>11. CASE q.key = NoKey /\ q.kind = "binary"
  <2>1. r.key = NoKey  BY <1>2, <1>3, <1>7, <1>11
  <2>2. r.kind = "binary"  BY <1>2, <1>3, <1>9, <1>11, <2>1
  <2>3. q.files[n].name = r.files[i].name /\ q.files[n].content = r.files[i].content
    BY <1>2, <1>3, <1>5, <1>11, <2>1, <2>2
  <2>4. IsOf(row, q, n)  BY <1>11, <2>2, <2>3 DEF IsOf
  <2> QED  BY <1>11, <2>1, <2>2, <2>4
<1>12. CASE q.key = NoKey /\ q.kind # "binary"
  <2>1. r.key = NoKey  BY <1>2, <1>3, <1>8, <1>12
  <2>2. r.kind # "binary"  BY <1>2, <1>3, <1>9, <1>12, <2>1
  <2> QED  BY <1>2, <1>3, <1>6, <1>12, <2>1, <2>2
<1> QED  BY <1>10, <1>11, <1>12

LEMMA KeptGrows ==
    ASSUME NEW k, NEW c, NEW table, NEW more, NEW all, NEW wider, KeptOf(k, c, table, all),
           DOMAIN table \subseteq DOMAIN more, \A id \in DOMAIN table : more[id] = table[id], all \subseteq wider
    PROVE  KeptOf(k, c, more, wider)
<1>1. OwnKeyOf(k.request, wider) => OwnKeyOf(k.request, all)  BY DEF OwnKeyOf
<1> QED  BY <1>1 DEF KeptOf

LEMMA KeptTakes ==
    ASSUME NEW k, NEW c, NEW table, NEW all, KeptOf(k, c, table, all), IsCall(k), k.at # "idle", NEW id \in DOMAIN table,
           OwnKeyOf(k.request, all) => IsOf(table[id], k.request, Len(k.made) + 1),
           ByIdentity(k.request) => id = IdOf(k.request, Len(k.made) + 1, c, 0)
    PROVE  KeptOf(Took(k, id), c, table, all)
<1> DEFINE made == Append(k.made, id) place == Len(k.made) + 1
<1>1. Took(k, id).made = made /\ Took(k, id).request = k.request  BY TookOn
<1>2. /\ Len(made) = Len(k.made) + 1 /\ made[place] = id /\ Len(k.made) \in Nat
      /\ \A n \in 1..Len(k.made) : made[n] = k.made[n]
  BY Longer DEF IsCall, IsSeq
<1>3. \A n \in 1..Len(made) : n = place \/ n \in 1..Len(k.made)  BY <1>2
<1> HIDE DEF made, place
<1>4. ASSUME NEW n \in 1..Len(made)
      PROVE  /\ made[n] \in DOMAIN table
             /\ OwnKeyOf(k.request, all) => IsOf(table[made[n]], k.request, n)
             /\ ByIdentity(k.request) => made[n] = IdOf(k.request, n, c, 0)
  <2>1. CASE n = place  BY <1>2, <2>1 DEF place
  <2>2. CASE n \in 1..Len(k.made)  BY <1>2, <2>2 DEF KeptOf
  <2> QED  BY <1>3, <2>1, <2>2
<1> QED  BY <1>1, <1>4 DEF KeptOf

\* What is true of the calls, when one of them moves to a place where nothing is
\* created, over records that stay.
Traced == FromRequests /\ Unused /\ Named /\ Retained
LEMMA RecordsStand ==
    ASSUME Working, Traced, NEW c \in Callers, NEW next, Does(c, next), UNCHANGED <<records, spent>>,
           begun \subseteq begun', KeptOf(next, c, records, begun'),
           next.at \notin {"idle", "done"} => Files!Busy(c) /\ Len(next.made) >= Len(saving[c].made),
           Len(next.made) \in Nat, Len(saving[c].made) \in Nat,
           next.at = "create" => Fits(next.request, Len(next.made) + 1, c, next.id, spent.calls)
    PROVE  Traced'
<1>1. saving'[c] = next /\ \A d \in Callers \ {c} : saving'[d] = saving[d]  BY CallMoved
<1>2. FromRequests'  BY DEF FromRequests, Traced
<1>3. Unused'  BY <1>1 DEF Unused, Traced, Files!Busy, Files!At
<1>4. Named'  BY <1>1 DEF Named, Traced
<1>5. Retained'
  <2>1. \A d \in Callers : KeptOf(saving[d], d, records, begun')  BY KeptGrows DEF Retained, Traced
  <2> QED  BY <1>1, <2>1 DEF Retained
<1> QED  BY <1>2, <1>3, <1>4, <1>5 DEF Traced

LEMMA Found ==
    ASSUME Files!ArtifactsAssumption, Working, Traced, NEW c \in Callers, NEW id, Finds(c, id)
    PROVE  KeptOf(Took(saving[c], id), c, records, begun)
<1> DEFINE k == saving[c] q == k.request place == Len(k.made) + 1
<1>1. IsCall(k) /\ Asked(k, begun) /\ Routed(k) /\ KeptOf(k, c, records, begun)
  BY DEF Working, Traced, Retained
<1>2. id \in DOMAIN records /\ k.at # "idle"  BY DEF Finds
<1>3. CASE k.at = "item" /\ id \in Files!Duplicates(c)
  <2>1. /\ q.kind = "files" /\ q.task # NoTask
        /\ records[id].name = Current(k).name /\ records[id].content = Current(k).content
    BY <1>1, <1>3 DEF Routed, Files!Duplicates, Files!Request, Files!File, Files!Place, Current
  <2>2. Current(k) = q.files[place]
    <3>1. Len(k.made) \in Nat /\ Len(k.files) \in Nat /\ Len(k.made) < Len(k.files)
      BY <1>1, <1>3 DEF Asked, IsCall, IsSeq
    <3>2. place \in 1..Len(k.files)  BY <3>1
    <3> QED  BY <1>1, <1>2, <2>1, <3>2 DEF Asked, Current
  <2> HIDE DEF k, q, place
  <2>3. IsOf(records[id], q, place) /\ ~ByIdentity(q)  BY <2>1, <2>2 DEF IsOf, ByIdentity
  <2> QED  BY <1>1, <1>2, <2>3, KeptTakes DEF k, q, place
<1>4. CASE k.at \in {"check", "look"} /\ id = Files!Identity(c)
  <2>1. /\ id = IdOf(q, place, c, spent.calls) /\ Fits(q, place, c, id, spent.calls)
    BY <1>4, IdentityFits
  <2>r. PICK r \in begun : \E i, d : Fits(r, i, d, id, spent.calls) /\ IsOf(records[id], r, i)
    BY <1>2 DEF Traced, FromRequests
  <2>2. PICK i, d : Fits(r, i, d, id, spent.calls) /\ IsOf(records[id], r, i)  BY <2>r
  <2>3. spent.calls \in Nat /\ Len(k.made) \in Nat  BY <1>1 DEF Working, IsCall, IsSeq
  <2>4. /\ q.key # NoKey => r.key = q.key /\ i = place
        /\ q.key = NoKey /\ q.kind = "binary" => IsOf(records[id], q, place)
    BY <2>1, <2>2, <2>3, SameIdentity
  <2>5. q.key # NoKey \/ q.kind = "binary"
    <3>1. SUFFICES ASSUME q.key = NoKey, q.kind # "binary" PROVE FALSE  OBVIOUS
    <3>2. id = <<"random", c, spent.calls, place>>  BY <2>1, <3>1 DEF IdOf
    <3>3. Files!Busy(c)  BY <1>4 DEF Files!Busy, Files!At
    <3>4. place \in Nat  BY <2>3
    <3>5. place < Len(k.made) + 1  BY <1>2, <3>2, <3>3, <3>4 DEF Traced, Unused
    <3> QED  BY <2>3, <3>5
  <2>6. OwnKeyOf(q, begun) => IsOf(records[id], q, place)  BY <2>2, <2>4, <2>5 DEF OwnKeyOf
  <2>7. id = IdOf(q, place, c, 0)  BY <2>1, <2>5 DEF IdOf
  <2> QED  BY <1>1, <1>2, <2>6, <2>7, KeptTakes
<1> QED  BY <1>3, <1>4 DEF Finds

LEMMA Created ==
    ASSUME Files!ArtifactsAssumption, Working, Traced, NEW c \in Callers, Creates(c), UNCHANGED <<begun, spent>>
    PROVE  Traced'
<1> DEFINE k == saving[c] q == k.request place == Len(k.made) + 1 id == k.id next == Took(k, id)
           row == [name |-> Current(k).name, content |-> Current(k).content, task |-> q.task]
<1>1. IsCall(k) /\ Asked(k, begun) /\ KeptOf(k, c, records, begun)  BY DEF Working, Traced, Retained
<1>2. /\ k.at = "create" /\ id \notin DOMAIN records /\ records' = Files!With(records, id, row) /\ Does(c, next)
  BY DEF Creates, Files!File, Files!Place, Current
<1>3. DOMAIN records' = DOMAIN records \cup {id} /\ records'[id] = row
      /\ \A x \in DOMAIN records : records'[x] = records[x]
  BY <1>2 DEF Files!With
<1>4. Len(k.made) \in Nat /\ place \in 1..Len(k.files) /\ place \in Nat /\ place \in 1..Len(q.files) /\ q \in begun
  <2>1. /\ Len(k.made) \in Nat /\ Len(k.files) \in Nat /\ Len(k.made) < Len(k.files) /\ q \in begun
        /\ Len(k.files) = Len(q.files)
    BY <1>1, <1>2 DEF Asked, IsCall, IsSeq
  <2> QED  BY <2>1
<1>5. IsOf(row, q, place)
  <2>1. k.files[place].name = q.files[place].name /\ (q.kind # "report" => k.files[place] = q.files[place])
    BY <1>1, <1>2, <1>4 DEF Asked
  <2>2. Current(k) = k.files[place]  BY DEF Current
  <2>3. row.name = Current(k).name /\ row.content = Current(k).content  OBVIOUS
  <2> HIDE DEF row
  <2> QED  BY <2>1, <2>2, <2>3 DEF IsOf
<1>6. Fits(q, place, c, id, spent.calls)  BY <1>2 DEF Traced, Named
<1>7. saving'[c] = next /\ \A d \in Callers \ {c} : saving'[d] = saving[d]  BY <1>2, CallMoved
<1>8. next.made = Append(k.made, id) /\ next.at \in {"item", "done"}  BY <1>1, TookOn
<1>9. Len(next.made) = place  BY <1>1, <1>8, Longer DEF IsCall
<1>10. row.task = q.task  OBVIOUS
<1>11. \A n \in Nat : \A d : <<"random", d, spent.calls, n>> = id => n = place /\ d = c
  <2>1. PICK m \in 0..spent.calls : id = IdOf(q, place, c, m)  BY <1>6 DEF Fits
  <2>2. \A a, b, e, f, g, h : <<"random", a, b, e>> = <<"random", f, g, h>> => a = f /\ b = g /\ e = h  OBVIOUS
  <2>3. \A a, b, e, f, g : <<"key", a, b>> # <<"random", e, f, g>>  OBVIOUS
  <2>4. \A a, b, e, f, g : <<"contents", a, b>> # <<"random", e, f, g>>  OBVIOUS
  <2> HIDE DEF k, q, place, id, next, row
  <2>5. \/ id = <<"key", q.key, place>> \/ id = <<"contents", q.files[place].name, q.files[place].content>>
        \/ id = <<"random", c, m, place>>
    BY <2>1 DEF IdOf
  <2> QED  BY <2>2, <2>3, <2>4, <2>5
<1>12. KeptOf(next, c, records', begun)
  <2>1. KeptOf(k, c, records', begun)  BY <1>1, <1>3, KeptGrows
  <2>2. ByIdentity(q) => id = IdOf(q, place, c, 0)
    <3>1. PICK m \in 0..spent.calls : id = IdOf(q, place, c, m)  BY <1>6 DEF Fits
    <3> QED  BY <3>1 DEF ByIdentity, IdOf
  <2>3. id \in DOMAIN records' /\ IsOf(records'[id], q, place)  BY <1>3, <1>5
  <2> QED  BY <1>1, <1>2, <2>1, <2>2, <2>3, KeptTakes
<1> HIDE DEF k, q, place, id, next, row
<1>13. FromRequests'
  <2>1. SUFFICES ASSUME NEW x \in DOMAIN records'
                 PROVE  \E r \in begun : \E n \in 1..Len(r.files) : \E d \in Callers :
                           Fits(r, n, d, x, spent.calls) /\ IsOf(records'[x], r, n) /\ records'[x].task = r.task
    BY DEF FromRequests
  <2>2. CASE x = id  BY <1>3, <1>4, <1>5, <1>6, <1>10, <2>2
  <2>3. CASE x \in DOMAIN records  BY <1>3, <2>3 DEF Traced, FromRequests
  <2> QED  BY <1>3, <2>2, <2>3
<1>14. Unused'
  <2>1. SUFFICES ASSUME NEW d \in Callers, NEW n \in Nat, Files!Busy(d)', <<"random", d, spent.calls, n>> \in DOMAIN records'
                 PROVE  n < Len(saving'[d].made) + 1
    BY DEF Unused
  <2>2. CASE <<"random", d, spent.calls, n>> = id
    <3>1. n = place /\ d = c  BY <1>11, <2>2
    <3> QED  BY <1>4, <1>7, <1>9, <3>1
  <2>3. CASE <<"random", d, spent.calls, n>> \in DOMAIN records
    <3>1. CASE d = c
      <4>1. Files!Busy(c)  BY <1>2 DEF Files!Busy, Files!At, k
      <4>2. n < place  BY <2>3, <3>1, <4>1 DEF Traced, Unused, place, k
      <4> QED  BY <1>4, <1>7, <1>9, <3>1, <4>2
    <3>2. CASE d # c
      <4>1. Files!Busy(d)  BY <1>7, <2>1, <3>2 DEF Files!Busy, Files!At
      <4> QED  BY <1>7, <2>3, <3>2, <4>1 DEF Traced, Unused
    <3> QED  BY <3>1, <3>2
  <2> QED  BY <1>3, <2>1, <2>2, <2>3
<1>15. Named'  BY <1>7, <1>8 DEF Traced, Named
<1>16. Retained'
  <2>1. \A d \in Callers : KeptOf(saving[d], d, records', begun)  BY <1>3, KeptGrows DEF Retained, Traced
  <2> QED  BY <1>7, <1>12, <2>1 DEF Retained
<1> QED  BY <1>13, <1>14, <1>15, <1>16 DEF Traced

LEMMA FilesAreTraced ==
    ASSUME Files!ArtifactsAssumption, Working, Traced, [Files!Next]_(Files!vars)
    PROVE  Traced'
<1>0. CASE UNCHANGED Files!vars
  BY <1>0 DEF Files!vars, Traced, FromRequests, Unused, Named, Retained, Files!Busy, Files!At
<1>i. \A c : KeptOf(Files!Idle, c, records, begun') /\ Len(Files!Idle.made) \in Nat /\ Files!Idle.at = "idle"
  BY DEF KeptOf, Files!Idle
<1>1. ASSUME NEW c \in Callers, UNCHANGED <<begun, alone, spent>>, Steps(c) PROVE Traced'
  <2> DEFINE k == saving[c]
  <2>1. IsCall(k) /\ Asked(k, begun) /\ KeptOf(k, c, records, begun) /\ Len(k.made) \in Nat
    BY DEF Working, Traced, Retained, IsCall, IsSeq
  <2>2. CASE Stops(c)
    BY <1>1, <1>i, <2>1, <2>2, RecordsStand DEF Stops
  <2>3. CASE \E id : Finds(c, id)
    <3>1. PICK id : Finds(c, id)  BY <2>3
    <3> DEFINE next == Took(k, id)
    <3>2. KeptOf(next, c, records, begun)  BY <3>1, Found
    <3>3. next.made = Append(k.made, id) /\ next.at \in {"item", "done"}  BY <2>1, TookOn
    <3>4. Len(next.made) = Len(k.made) + 1  BY <2>1, <3>3, Longer DEF IsCall
    <3>5. Files!Busy(c) /\ Does(c, next) /\ UNCHANGED <<records, objects>>
      BY <3>1 DEF Finds, Files!Busy, Files!At
    <3> HIDE DEF next
    <3> QED  BY <1>1, <2>1, <3>2, <3>3, <3>4, <3>5, RecordsStand
  <2>4. CASE Goes(c)
    <3>1. ASSUME NEW at \in {"look", "draw"}, Does(c, Sent(k, at)), k.at \in {"item", "check"} PROVE Traced'
      <4> DEFINE next == Sent(k, at)
      <4>1. next.at = at /\ next.made = k.made /\ next.request = k.request  BY <2>1, SentOn DEF Places
      <4>2. KeptOf(next, c, records, begun)  BY <2>1, <3>1, <4>1 DEF KeptOf
      <4>3. Files!Busy(c)  BY <3>1 DEF Files!Busy, Files!At
      <4>4. UNCHANGED records  BY <2>4 DEF Goes
      <4> HIDE DEF next
      <4> QED  BY <1>1, <2>1, <3>1, <4>1, <4>2, <4>3, <4>4, RecordsStand DEF next
    <3> QED  BY <2>4, <3>1 DEF Goes
  <2>5. CASE Draws(c)
    <3>1. PICK content : Does(c, Drew(k, content)) /\ k.at = "draw" /\ UNCHANGED records  BY <2>5 DEF Draws
    <3> DEFINE next == Drew(k, content)
    <3>2. next.at = "look" /\ next.made = k.made /\ next.request = k.request  BY <2>1, DrewOn
    <3>3. KeptOf(next, c, records, begun)  BY <2>1, <3>1, <3>2 DEF KeptOf
    <3>4. Files!Busy(c)  BY <3>1 DEF Files!Busy, Files!At
    <3> HIDE DEF next
    <3> QED  BY <1>1, <2>1, <3>1, <3>2, <3>3, <3>4, RecordsStand DEF next
  <2>6. CASE WritesFile(c)
    <3> DEFINE id == Files!Identity(c) next == Wrote(k, id)
    <3>1. Does(c, next) /\ k.at = "look" /\ UNCHANGED records  BY <2>6 DEF WritesFile
    <3>2. Fits(k.request, Len(k.made) + 1, c, id, spent.calls)  BY <3>1, IdentityFits
    <3> HIDE DEF id
    <3>3. next.at = "create" /\ next.made = k.made /\ next.request = k.request /\ next.id = id
      BY <2>1, WroteOn
    <3>4. KeptOf(next, c, records, begun)  BY <2>1, <3>1, <3>3 DEF KeptOf
    <3>5. Files!Busy(c)  BY <3>1 DEF Files!Busy, Files!At
    <3> HIDE DEF next
    <3> QED  BY <1>1, <2>1, <3>1, <3>2, <3>3, <3>4, <3>5, RecordsStand
  <2>7. CASE Creates(c)  BY <1>1, <2>7, Created
  <2> QED  BY <1>1, <2>2, <2>3, <2>4, <2>5, <2>6, <2>7 DEF Steps
\* A later random identity is none of those before.
<1>2. ASSUME NEW c \in Callers, NEW request, NEW next, Enters(c, request, next) PROVE Traced'
  <2>1. /\ Does(c, next) /\ UNCHANGED records /\ spent'.calls = spent.calls + 1 /\ begun' = begun \cup {request}
        /\ next.made = <<>> /\ next.at # "create"
    BY <1>2 DEF Enters
  <2>2. saving'[c] = next /\ \A d \in Callers \ {c} : saving'[d] = saving[d]  BY <2>1, CallMoved
  <2>3. spent.calls \in Nat  BY DEF Working
  <2>4. \A q, n, d, id : Fits(q, n, d, id, spent.calls) => Fits(q, n, d, id, spent'.calls)
    BY <2>1, <2>3 DEF Fits
  <2>5. FromRequests'
    <3>1. SUFFICES ASSUME NEW id \in DOMAIN records
                   PROVE  \E q \in begun' : \E n \in 1..Len(q.files) : \E d \in Callers :
                             Fits(q, n, d, id, spent'.calls) /\ IsOf(records[id], q, n) /\ records[id].task = q.task
      BY <2>1 DEF FromRequests
    <3>2. PICK q \in begun : \E n \in 1..Len(q.files) : \E d \in Callers :
                             Fits(q, n, d, id, spent.calls) /\ IsOf(records[id], q, n) /\ records[id].task = q.task
      BY DEF FromRequests, Traced
    <3>3. q \in begun'  BY <2>1
    <3> QED  BY <2>4, <3>2, <3>3
  <2>6. Unused'
    <3>1. SUFFICES ASSUME NEW d \in Callers, NEW n \in Nat, <<"random", d, spent'.calls, n>> \in DOMAIN records
                   PROVE  FALSE
      BY <2>1 DEF Unused
    <3> DEFINE id == <<"random", d, spent'.calls, n>>
    <3>2. PICK q, i, e : Fits(q, i, e, id, spent.calls)
      BY <3>1 DEF FromRequests, Traced
    <3>3. PICK m \in 0..spent.calls : id = IdOf(q, i, e, m)  BY <3>2 DEF Fits
    <3>4. \A a, b, f, g, h, j : <<"random", a, b, f>> = <<"random", g, h, j>> => b = h  OBVIOUS
    <3>5. \A a, b, f, g, h : <<"key", a, b>> # <<"random", f, g, h>>  OBVIOUS
    <3>6. \A a, b, f, g, h : <<"contents", a, b>> # <<"random", f, g, h>>  OBVIOUS
    <3>7. \/ id = <<"key", q.key, i>> \/ id = <<"contents", q.files[i].name, q.files[i].content>>
          \/ id = <<"random", e, m, i>>
      BY <3>3 DEF IdOf
    <3>8. spent'.calls = m  BY <3>4, <3>5, <3>6, <3>7
    <3> QED  BY <2>1, <2>3, <3>8
  <2>7. Named'  BY <2>1, <2>2, <2>4 DEF Traced, Named
  <2>8. Retained'
    <3>1. \A d \in Callers : KeptOf(saving[d], d, records, begun')  BY <2>1, KeptGrows DEF Retained, Traced
    <3>2. KeptOf(next, c, records, begun')  BY <2>1 DEF KeptOf
    <3> QED  BY <2>1, <2>2, <3>1, <3>2 DEF Retained
  <2> QED  BY <2>5, <2>6, <2>7, <2>8 DEF Traced
<1>3. ASSUME NEW c \in Callers, Cuts(c) PROVE Traced'
  <2>1. Does(c, Files!Idle) /\ UNCHANGED <<records, begun>> /\ spent'.calls = spent.calls
    BY <1>3 DEF Cuts, Stops
  <2>2. saving'[c] = Files!Idle /\ \A d \in Callers \ {c} : saving'[d] = saving[d]  BY <2>1, CallMoved
  <2>3. FromRequests'  BY <2>1 DEF FromRequests, Traced
  <2>4. Unused'  BY <1>i, <2>1, <2>2 DEF Unused, Traced, Files!Busy, Files!At
  <2>5. Named'  BY <1>i, <2>1, <2>2 DEF Named, Traced
  <2>6. Retained'  BY <1>i, <2>1, <2>2 DEF Retained, Traced
  <2> QED  BY <2>3, <2>4, <2>5, <2>6 DEF Traced
<1> QED  BY <1>0, <1>1, <1>2, <1>3, OneMoves

-----------------------------------------------------------------------------
\* While calls take turns, a file that a caller writes for a task has no twin
\* there; so as long as there is one request, its files are there once.
Twin(row, k) ==
    row.task = k.request.task /\ row.name = Current(k).name /\ row.content = Current(k).content
ForTask(q) == q.kind = "files" /\ q.task # NoTask
NoTwins ==
    alone => \A c \in Callers : saving[c].at \in {"look", "create"} /\ ForTask(saving[c].request) =>
        \A id \in DOMAIN records : ~Twin(records[id], saving[c])
OneEach ==
    \A q : alone /\ begun \subseteq {q} /\ ForTask(q) =>
        \A i, j \in DOMAIN records :
            records[i].name = records[j].name /\ records[i].content = records[j].content => i = j

LEMMA FilesAreOnce ==
    ASSUME Files!ArtifactsAssumption, Working, OneBusy, Traced, NoTwins, OneEach, [Files!Next]_(Files!vars)
    PROVE  NoTwins' /\ OneEach'
<1>0. CASE UNCHANGED Files!vars  BY <1>0 DEF Files!vars, NoTwins, OneEach, Twin, Current
<1>1. ASSUME NEW c \in Callers, NEW next, Does(c, next), UNCHANGED records, alone' => alone, begun \subseteq begun',
             alone' /\ next.at \in {"look", "create"} /\ ForTask(next.request) =>
                \A id \in DOMAIN records : ~Twin(records[id], next)
      PROVE  NoTwins' /\ OneEach'
  <2>1. saving'[c] = next /\ \A d \in Callers \ {c} : saving'[d] = saving[d]  BY <1>1, CallMoved
  <2>2. NoTwins'  BY <1>1, <2>1 DEF NoTwins, Twin, Current
  <2>3. OneEach'
    <3>1. \A q : begun' \subseteq {q} => begun \subseteq {q}  BY <1>1
    <3> QED  BY <1>1, <3>1 DEF OneEach
  <2> QED  BY <2>2, <2>3
<1>2. ASSUME NEW c \in Callers, UNCHANGED <<begun, alone, spent>>, Steps(c) PROVE NoTwins' /\ OneEach'
  <2> DEFINE k == saving[c]
  <2>k. IsCall(k) /\ Asked(k, begun) /\ Routed(k)  BY DEF Working
  <2>1. CASE Stops(c)
    <3>1. Files!Idle.at = "idle"  BY DEF Files!Idle
    <3> QED  BY <1>1, <1>2, <2>1, <3>1 DEF Stops
  <2>2. CASE \E id : Finds(c, id)
    <3>1. PICK id : Finds(c, id)  BY <2>2
    <3>2. Took(k, id).at \notin {"look", "create"}  BY <2>k, TookOn
    <3> QED  BY <1>1, <1>2, <3>1, <3>2 DEF Finds
  <2>3. CASE Goes(c) /\ k.at = "item" /\ Files!Duplicates(c) = {} /\ Does(c, Sent(k, "look"))
    <3> DEFINE next == Sent(k, "look")
    <3>1. next.made = k.made /\ next.request = k.request /\ next.files = k.files  BY <2>k, SentOn DEF Places
    <3> HIDE DEF next
    <3>2. ForTask(k.request) => \A id \in DOMAIN records : ~Twin(records[id], k)
      BY <2>3 DEF ForTask, Twin, Files!Duplicates, Files!Request, Files!File, Files!Place, Current
    <3>3. ForTask(next.request) => \A id \in DOMAIN records : ~Twin(records[id], next)
      BY <3>1, <3>2 DEF Twin, Current
    <3>4. UNCHANGED records  BY <2>3 DEF Goes
    <3> QED  BY <1>1, <1>2, <2>3, <3>3, <3>4 DEF next
  <2>4. CASE Goes(c) /\ Does(c, Sent(k, "draw"))
    <3>1. Sent(k, "draw").at = "draw"  BY <2>k, SentOn DEF Places
    <3> QED  BY <1>1, <1>2, <2>4, <3>1 DEF Goes
  <2>5. CASE Draws(c)
    <3>1. PICK content : Does(c, Drew(k, content)) /\ k.at = "draw" /\ UNCHANGED records  BY <2>5 DEF Draws
    <3>2. Drew(k, content).request = k.request  BY <2>k, DrewOn
    <3>3. ~ForTask(k.request)  BY <2>k, <3>1 DEF ForTask, Routed
    <3> QED  BY <1>1, <1>2, <3>1, <3>2, <3>3
  <2>6. CASE WritesFile(c)
    <3> DEFINE id == Files!Identity(c) next == Wrote(k, id)
    <3>1. Does(c, next) /\ k.at = "look" /\ UNCHANGED records  BY <2>6 DEF WritesFile
    <3>2. next.made = k.made /\ next.request = k.request /\ next.files = k.files  BY <2>k, WroteOn
    <3> HIDE DEF next
    <3>3. alone /\ ForTask(next.request) => \A x \in DOMAIN records : ~Twin(records[x], next)
      BY <3>1, <3>2 DEF NoTwins, Twin, Current
    <3> QED  BY <1>1, <1>2, <3>1, <3>3
  <2>7. CASE Creates(c)
    <3> DEFINE id == k.id next == Took(k, id)
               row == [name |-> Current(k).name, content |-> Current(k).content, task |-> k.request.task]
    <3>1. /\ k.at = "create" /\ id \notin DOMAIN records /\ records' = Files!With(records, id, row) /\ Does(c, next)
      BY <2>7 DEF Creates, Files!File, Files!Place, Current
    <3>2. row.name = Current(k).name /\ row.content = Current(k).content  OBVIOUS
    <3>3. next.at \notin {"look", "create"}  BY <2>k, TookOn
    <3>4. saving'[c] = next /\ \A d \in Callers \ {c} : saving'[d] = saving[d]  BY <3>1, CallMoved
    <3>5. alone => \A d \in Callers \ {c} : saving[d].at \notin {"look", "create"}
      BY <3>1 DEF OneBusy, Files!Busy, Files!At
    <3> HIDE DEF row, next, id
    <3>6. DOMAIN records' = DOMAIN records \cup {id} /\ records'[id] = row
          /\ \A x \in DOMAIN records : records'[x] = records[x]
      BY <3>1 DEF Files!With
    <3>7. NoTwins'  BY <1>2, <3>3, <3>4, <3>5 DEF NoTwins
    <3>8. ASSUME NEW q, alone, begun \subseteq {q}, ForTask(q), NEW x \in DOMAIN records
          PROVE  ~(records[x].name = row.name /\ records[x].content = row.content)
      <4>1. k.request = q  BY <2>k, <3>1, <3>8 DEF Asked
      <4>2. records[x].task = q.task  BY <3>8 DEF Traced, FromRequests
      <4>3. ~Twin(records[x], k)  BY <3>1, <3>8, <4>1 DEF NoTwins
      <4> QED  BY <3>2, <4>1, <4>2, <4>3 DEF Twin
    <3>9. OneEach'
      <4>1. SUFFICES ASSUME NEW q, alone, begun \subseteq {q}, ForTask(q), NEW i \in DOMAIN records', NEW j \in DOMAIN records',
                            records'[i].name = records'[j].name, records'[i].content = records'[j].content
                     PROVE  i = j
        BY <1>2 DEF OneEach
      <4>2. CASE i \in DOMAIN records /\ j \in DOMAIN records
        BY <3>6, <4>1, <4>2 DEF OneEach
      <4>3. CASE i = id \/ j = id  BY <3>6, <3>8, <4>1, <4>3
      <4> QED  BY <3>6, <4>2, <4>3
    <3> QED  BY <3>7, <3>9
  <2> QED  BY <1>2, <2>1, <2>2, <2>3, <2>4, <2>5, <2>6, <2>7 DEF Steps, Goes
<1>3. ASSUME NEW c \in Callers, Cuts(c) PROVE NoTwins' /\ OneEach'
  BY <1>1, <1>3 DEF Cuts, Stops, Files!Idle
<1>4. ASSUME NEW c \in Callers, NEW request, NEW next, Enters(c, request, next) PROVE NoTwins' /\ OneEach'
  <2>1. next.at = "look" => ~ForTask(next.request)  BY <1>4 DEF Enters, ForTask
  <2> QED  BY <1>1, <1>4, <2>1 DEF Enters
<1> QED  BY <1>0, <1>2, <1>3, <1>4, OneMoves

-----------------------------------------------------------------------------
FilesInv == Working /\ OneBusy /\ Stored /\ Files!RecordsAreReadable /\ Traced /\ NoTwins /\ OneEach
\* Initially there is nothing, and whatever a step does keeps all of it.
LEMMA FilesInvInductive ==
    ASSUME Files!ArtifactsAssumption
    PROVE  /\ Files!Init => FilesInv
           /\ FilesInv /\ [Files!Next]_(Files!vars) => FilesInv'
<1>1. ASSUME Files!Init PROVE FilesInv
  <2>1. saving = [c \in Callers |-> Files!Idle] /\ begun = {} /\ alone = TRUE /\ spent = [calls |-> 0, troubles |-> 0]
        /\ records = <<>> /\ objects = <<>>
    BY <1>1 DEF Files!Init
  <2>2. IsSeq(<<>>) /\ Len(<<>>) = 0 /\ DOMAIN records = {}  BY <2>1 DEF IsSeq
  <2>3. IsCall(Files!Idle) /\ Files!Idle.at = "idle" /\ Files!Idle.made = <<>>
    BY <2>2 DEF IsCall, Files!Idle, Places
  <2>4. \A c \in Callers : saving[c] = Files!Idle  BY <2>1
  <2>5. Working  BY <2>1, <2>3, <2>4 DEF Working, Asked, Routed
  <2>6. OneBusy /\ Stored /\ Files!RecordsAreReadable
    BY <2>2, <2>3, <2>4 DEF OneBusy, Stored, Files!RecordsAreReadable, Files!Busy, Files!At
  <2>7. Traced  BY <2>2, <2>3, <2>4 DEF Traced, FromRequests, Unused, Named, Retained, KeptOf
  <2>8. NoTwins /\ OneEach  BY <2>2 DEF NoTwins, OneEach
  <2> QED  BY <2>5, <2>6, <2>7, <2>8 DEF FilesInv
<1>2. ASSUME FilesInv, [Files!Next]_(Files!vars) PROVE FilesInv'
  BY <1>2, WorkingStays, TurnsAreTaken, ObjectsStand, FilesAreTraced, FilesAreOnce DEF FilesInv
<1> QED  BY <1>1, <1>2

LEMMA FilesInvSays ==
    ASSUME FilesInv
    PROVE  Files!RecordsAreReadable /\ Files!AnswersAreTheFiles /\ Files!RetriesAddNothing
<1>1. ASSUME NEW c \in Callers, saving[c].at = "done"
      PROVE  LET k == saving[c]
             IN DOMAIN k.made = 1..Len(k.request.files) /\ Len(k.made) = Len(k.request.files)
                /\ KeptOf(k, c, records, begun) /\ k.request \in begun
  BY <1>1 DEF FilesInv, Working, Asked, IsCall, IsSeq, Traced, Retained
<1>2. Files!AnswersAreTheFiles
  <2>1. SUFFICES ASSUME NEW c \in Callers, saving[c].at = "done", Files!OwnKey(c), NEW n \in DOMAIN saving[c].made
                 PROVE  LET record == records[saving[c].made[n]] file == saving[c].request.files[n]
                        IN record.name = file.name /\ (saving[c].request.kind # "report" => record.content = file.content)
    BY DEF Files!AnswersAreTheFiles, Files!Delivered, Files!Request, Files!At
  <2>2. OwnKeyOf(saving[c].request, begun)  BY <2>1 DEF Files!OwnKey, Files!Request, OwnKeyOf
  <2> QED  BY <1>1, <2>1, <2>2 DEF KeptOf, IsOf
<1>3. Files!RetriesAddNothing
  <2>1. SUFFICES ASSUME NEW c \in Callers, saving[c].at = "done", alone, begun = {saving[c].request},
                        \/ saving[c].request.key # NoKey \/ saving[c].request.kind = "binary"
                        \/ ForTask(saving[c].request)
                 PROVE  DOMAIN records = {saving[c].made[i] : i \in DOMAIN saving[c].made}
    BY DEF Files!RetriesAddNothing, Files!Request, Files!At, ForTask, Files!ToSet
  <2> DEFINE k == saving[c] q == k.request
  <2>2. DOMAIN k.made = 1..Len(q.files) /\ Len(k.made) = Len(q.files) /\ KeptOf(k, c, records, begun)
    BY <1>1, <2>1
  <2>3. \A i \in DOMAIN k.made : k.made[i] \in DOMAIN records  BY <2>1, <2>2 DEF KeptOf
  <2>4. ASSUME NEW id \in DOMAIN records PROVE \E i \in DOMAIN k.made : k.made[i] = id
    <3>1. PICK n \in 1..Len(q.files), d \in Callers : Fits(q, n, d, id, spent.calls) /\ IsOf(records[id], q, n)
      BY <2>1 DEF FilesInv, Traced, FromRequests
    <3>2. CASE ByIdentity(q)
      <4>1. k.made[n] = IdOf(q, n, c, 0)  BY <2>1, <2>2, <3>2 DEF KeptOf
      <4>2. PICK m \in 0..spent.calls : id = IdOf(q, n, d, m)  BY <3>1 DEF Fits
      <4>3. IdOf(q, n, c, 0) = IdOf(q, n, d, m)  BY <3>2 DEF ByIdentity, IdOf
      <4> QED  BY <2>2, <4>1, <4>2, <4>3
    <3>3. CASE ~ByIdentity(q)
      <4>1. ForTask(q)  BY <2>1, <3>3 DEF ByIdentity, ForTask
      <4>2. OwnKeyOf(q, begun)  BY <2>1 DEF OwnKeyOf
      <4>3. k.made[n] \in DOMAIN records /\ IsOf(records[k.made[n]], q, n)  BY <2>1, <2>2, <4>2 DEF KeptOf
      <4>4. q.kind # "report"  BY <4>1 DEF ForTask
      <4>5. records[k.made[n]].name = records[id].name /\ records[k.made[n]].content = records[id].content
        BY <3>1, <4>3, <4>4 DEF IsOf
      <4>6. begun \subseteq {q}  BY <2>1
      <4>7. k.made[n] = id  BY <2>1, <4>1, <4>3, <4>5, <4>6 DEF FilesInv, OneEach
      <4> QED  BY <2>2, <4>7
    <3> QED  BY <3>2, <3>3
  <2> QED  BY <2>3, <2>4
<1> QED  BY <1>2, <1>3 DEF FilesInv

\* What a record describes can be read; while calls take turns it is what the
\* record says (create: the object first, then its record).
THEOREM RecordsAreReadableHolds == Files!ArtifactsAssumption /\ Files!Spec => []Files!RecordsAreReadable
<1>1. ASSUME Files!ArtifactsAssumption PROVE Files!Spec => []Files!RecordsAreReadable
  <2>1. Files!Init => FilesInv  BY <1>1, FilesInvInductive
  <2>2. FilesInv /\ [Files!Next]_(Files!vars) => FilesInv'  BY <1>1, FilesInvInductive
  <2>3. FilesInv => Files!RecordsAreReadable  BY FilesInvSays
  <2> QED  BY <2>1, <2>2, <2>3, PTL DEF Files!Spec
<1> QED  BY <1>1

\* A call that comes to its end returns the files it was asked for, if no other
\* request has its key (_create_bytes takes the record of the identity as it is).
THEOREM AnswersAreTheFilesHolds == Files!ArtifactsAssumption /\ Files!Spec => []Files!AnswersAreTheFiles
<1>1. ASSUME Files!ArtifactsAssumption PROVE Files!Spec => []Files!AnswersAreTheFiles
  <2>1. Files!Init => FilesInv  BY <1>1, FilesInvInductive
  <2>2. FilesInv /\ [Files!Next]_(Files!vars) => FilesInv'  BY <1>1, FilesInvInductive
  <2>3. FilesInv => Files!AnswersAreTheFiles  BY FilesInvSays
  <2> QED  BY <2>1, <2>2, <2>3, PTL DEF Files!Spec
<1> QED  BY <1>1

\* A call that is cut off and repeated leaves its files once: the same identity
\* finds them, or the same name and contents in the task.
THEOREM RetriesAddNothingHolds == Files!ArtifactsAssumption /\ Files!Spec => []Files!RetriesAddNothing
<1>1. ASSUME Files!ArtifactsAssumption PROVE Files!Spec => []Files!RetriesAddNothing
  <2>1. Files!Init => FilesInv  BY <1>1, FilesInvInductive
  <2>2. FilesInv /\ [Files!Next]_(Files!vars) => FilesInv'  BY <1>1, FilesInvInductive
  <2>3. FilesInv => Files!RetriesAddNothing  BY FilesInvSays
  <2> QED  BY <2>1, <2>2, <2>3, PTL DEF Files!Spec
<1> QED  BY <1>1
=============================================================================
