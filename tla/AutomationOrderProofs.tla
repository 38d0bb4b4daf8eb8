------------------------- MODULE AutomationOrderProofs -------------------------
(***************************************************************************)
(* A proposal of a deployed strategy gets one order at most, for any number *)
(* of decisions, users and requests at once, crashes included; and as long  *)
(* as calls take turns and none is cut short, a decision is sent to the     *)
(* live broker once, every order is named by its decision, and a run keeps  *)
(* within the limit of its orders.  And of the deployments: nothing is       *)
(* deployed that no person approved, for any number of them and of calls at  *)
(* once, crashes included; as long as calls take turns an account has one    *)
(* active deployment at most, and as long as none is cut short an automation *)
(* that is on has one.                                                      *)
(***************************************************************************)
EXTENDS AutomationOrder, FiniteSetTheorems, TLAPS

\* Deployments beside the orders: their calls and limit have names of their own.
CONSTANTS Deployments, Sandbox, Users, DeploymentLimit
VARIABLES account, listed, config, candidate, change, spent
Deploying == INSTANCE Deployment WITH
    Limit <- DeploymentLimit, row <- listed, task <- config, call <- change, used <- spent

Kinds == {"user", "run", "reject"}
Calls == [at : Phases, kind : Kinds, about : SUBSET Decisions, row : Audits, planned : BOOLEAN,
          risk : Risks, order : SUBSET OrderIds, confirmation : Confirmations,
          todo : SUBSET Decisions]
Typed == TypeOK /\ call \in [Callers -> Calls]

LEMMA Moves ==
    ASSUME call \in [Callers -> Calls], NEW c \in Callers, NEW next, To(c, next)
    PROVE  /\ call'[c] = next
           /\ \A k \in Callers : k # c => call'[k] = call[k]
           /\ next \in Calls => call' \in [Callers -> Calls]
BY DEF To

LEMMA TypesStay ==
    ASSUME call \in [Callers -> Calls], call' \in [Callers -> Calls],
           TypeOK, audit' \in [Decisions -> Audits], orders' \in [OrderIds -> OrderStatuses],
           sent' \in [Decisions -> Nat], made' \in Nat, today' \in BOOLEAN, started' \in BOOLEAN,
           used' \in [requests : Nat, settlements : Nat, crashes : Nat]
    PROVE  Typed'
BY DEF Typed, TypeOK, Calls

LEMMA IdleIsTyped == Idle \in Calls /\ NoAudit \in Audits
BY DEF Idle, Calls, Phases, Kinds, Risks, Confirmations, NoAudit, Audits, NoOrder

\* A row that a call writes is a row.
LEMMA RowsAreTyped ==
    ASSUME Typed, NEW c \in Callers
    PROVE  Written(c) \in Audits
<1>1. call[c] \in Calls  BY DEF Typed
<1>2. /\ call[c].row \in Audits /\ call[c].order \in SUBSET OrderIds /\ call[c].risk \in Risks
  BY <1>1 DEF Calls
<1> QED  BY <1>1, <1>2 DEF Written, Audits, Confirmations

\* Every variable keeps its type, and calls work on rows of decisions only
\* (automation.py, automation_store.py).
THEOREM TypeCorrect ==
    ASSUME AutomationOrderAssumption
    PROVE  Spec => []Typed
<1>1. Init => Typed
  <2> SUFFICES ASSUME Init PROVE Typed
    OBVIOUS
  <2>1. call \in [Callers -> Calls] /\ audit \in [Decisions -> Audits]
    BY IdleIsTyped DEF Init
  <2>2. \A c \in Callers : call[c].at \in Phases /\ call[c].row \in Audits
    BY <2>1 DEF Calls
  <2> QED  BY <2>1, <2>2 DEF Init, Typed, TypeOK, OrderStatuses
<1>2. Typed /\ [Next]_vars => Typed'
  <2> SUFFICES ASSUME Typed, [Next]_vars PROVE Typed'
    OBVIOUS
  <2> USE DEF Env, Spend
  <2>a. /\ audit \in [Decisions -> Audits] /\ orders \in [OrderIds -> OrderStatuses]
        /\ sent \in [Decisions -> Nat] /\ made \in Nat /\ today \in BOOLEAN /\ started \in BOOLEAN
        /\ used \in [requests : Nat, settlements : Nat, crashes : Nat]
        /\ call \in [Callers -> Calls] /\ TypeOK
    BY DEF Typed, TypeOK
  <2>b. Deployed \in BOOLEAN  BY DEF AutomationOrderAssumption
  <2>d. ASSUME NEW c \in Callers
        PROVE  [call[c] EXCEPT !.at = IF call[c].kind = "run" THEN "work" ELSE "next",
                               !.about = {}] \in Calls
    BY ZenonT(60), <2>a DEF Calls, Phases
  <2>e. ASSUME NEW c \in Callers, NEW risk \in Risks, NEW order \in SUBSET OrderIds
        PROVE  /\ [Outcome(c, risk, order) EXCEPT !.at = Known(c)] \in Calls
               /\ \A phase \in Phases : [Outcome(c, risk, order) EXCEPT !.at = phase] \in Calls
    <3>1. Known(c) \in Phases  BY DEF Known, Phases
    <3>2. Outcome(c, risk, order) \in Calls  BY ZenonT(60), <2>a DEF Outcome, Calls
    <3> QED  BY <3>1, <3>2 DEF Calls
  <2>1. ASSUME NEW c \in Callers, StartRun(c) PROVE Typed'
    <3>1. call' \in [Callers -> Calls]
      <4> DEFINE next == [Idle EXCEPT !.at = "work", !.kind = "run", !.planned = Deployed,
                                  !.todo = Decisions]
      <4>1. next \in Calls
        BY <2>b, IdleIsTyped DEF Calls, Phases, Kinds
      <4>2. To(c, next)  BY <2>1 DEF StartRun
      <4> HIDE DEF next
      <4> QED  BY <4>1, <4>2, <2>a, Moves
    <3> QED  BY <2>1, <2>a, <3>1, TypesStay DEF StartRun
  <2>2. ASSUME NEW c \in Callers, EndRun(c) PROVE Typed'
    <3>1. call' \in [Callers -> Calls]
      BY <2>2, <2>a, Moves, IdleIsTyped DEF EndRun
    <3> QED  BY <2>2, <2>a, <3>1, TypesStay DEF EndRun
  <2>3. ASSUME NEW c \in Callers, Refuse(c) PROVE Typed'
    <3>1. call' \in [Callers -> Calls]
      <4>1. CASE Done(c)  BY <4>1, <2>a, <2>d, Moves DEF Done
      <4>2. ASSUME NEW risk \in {"rejected", "approved"},
                   To(c, [Outcome(c, risk, NoOrder) EXCEPT !.at = Known(c)])
            PROVE  call' \in [Callers -> Calls]
        <5> DEFINE next == [Outcome(c, risk, NoOrder) EXCEPT !.at = Known(c)]
        <5>1. next \in Calls  BY <2>e DEF Risks, NoOrder
        <5> HIDE DEF next
        <5> QED  BY <4>2, <5>1, <2>a, Moves DEF next
      <4> QED  BY <2>3, <4>1, <4>2 DEF Refuse
    <3> QED  BY <2>3, <2>a, <3>1, TypesStay DEF Refuse
  <2>4. ASSUME NEW c \in Callers, ConfirmRun(c) PROVE Typed'
    <3>1. call' \in [Callers -> Calls]
      <4>1. PICK todo \in SUBSET Waiting : To(c, [Idle EXCEPT !.at = "next", !.todo = todo])
        BY <2>4 DEF ConfirmRun
      <4> DEFINE next == [Idle EXCEPT !.at = "next", !.todo = todo]
      <4>2. next \in Calls
        BY IdleIsTyped DEF Calls, Phases, Waiting
      <4> HIDE DEF next
      <4> QED  BY <4>1, <4>2, <2>a, Moves DEF next
    <3> QED  BY <2>4, <2>a, <3>1, TypesStay DEF ConfirmRun
  <2>c. ASSUME NEW c \in Callers, NEW d \in Decisions PROVE Confirmed(c, d) \in Calls
    <3>1. audit[d].proposed \in BOOLEAN  BY <2>a DEF Audits
    <3>2. call[c] \in Calls  BY <2>a
    <3> QED  BY ZenonT(60), <2>b, <3>1, <3>2 DEF Confirmed, Calls, Phases, NoOrder, Risks, Confirmations
  <2>5. ASSUME NEW c \in Callers, NextOfRun(c) PROVE Typed'
    <3>1. call' \in [Callers -> Calls]
      <4>1. CASE To(c, Idle)  BY <4>1, <2>a, Moves, IdleIsTyped
      <4>2. ASSUME NEW d \in call[c].todo,
                   To(c, [(IF Orderable(audit[d]) THEN Confirmed(c, d) ELSE call[c]) EXCEPT !.todo = @ \ {d}])
            PROVE  call' \in [Callers -> Calls]
        <5>1. call[c] \in Calls /\ d \in Decisions  BY <2>a DEF Calls
        <5>2. Confirmed(c, d) \in Calls  BY <5>1, <2>c
        <5>3. \A k \in Calls : [k EXCEPT !.todo = @ \ {d}] \in Calls  BY DEF Calls
        <5> QED  BY <4>2, <5>1, <5>2, <5>3, <2>a, Moves
      <4> QED  BY <2>5, <4>1, <4>2 DEF NextOfRun
    <3> QED  BY <2>5, <2>a, <3>1, TypesStay DEF NextOfRun
  <2>6. ASSUME NEW c \in Callers, Settle(c) PROVE Typed'
    <3>1. call' \in [Callers -> Calls]
      <4> DEFINE next == [Idle EXCEPT !.at = "settle", !.order = {o \in OrderIds : orders[o] = "pending"}]
      <4>1. next \in Calls
        BY IdleIsTyped DEF Calls, Phases
      <4>2. To(c, next)  BY <2>6 DEF Settle
      <4> HIDE DEF next
      <4> QED  BY <4>1, <4>2, <2>a, Moves
    <3> QED  BY <2>6, <2>a, <3>1, TypesStay DEF Settle
  <2>7. ASSUME NEW c \in Callers, SettleNext(c) PROVE Typed'
    <3>1. call' \in [Callers -> Calls]
      <4>1. CASE To(c, Idle)  BY <4>1, <2>a, Moves, IdleIsTyped
      <4>2. CASE \E o \in call[c].order : To(c, [call[c] EXCEPT !.order = @ \ {o}])
        BY <4>2, <2>a, Moves DEF Calls
      <4> QED  BY <2>7, <4>1, <4>2 DEF SettleNext
    <3>2. orders' \in [OrderIds -> OrderStatuses]
      BY <2>7, <2>a DEF SettleNext, OrderStatuses
    <3> QED  BY <2>7, <2>a, <3>1, <3>2, TypesStay DEF SettleNext
  <2>8. ASSUME NEW c \in Callers, Crash(c) PROVE Typed'
    <3>1. call' \in [Callers -> Calls]
      BY <2>8, <2>a, Moves, IdleIsTyped DEF Crash
    <3> QED  BY <2>8, <2>a, <3>1, TypesStay DEF Crash
  <2>9. ASSUME NEW c \in Callers, NEW d \in Decisions, NEW approved \in BOOLEAN,
               NEW proposed \in BOOLEAN, Propose(c, d, approved, proposed)
        PROVE  Typed'
    <3>1. call' \in [Callers -> Calls]
      <4> DEFINE next == [call[c] EXCEPT !.about = {d}, !.todo = @ \ {d}]
      <4>1. next \in Calls /\ \A phase \in {"submit"} : [next EXCEPT !.at = phase] \in Calls
        BY ZenonT(60), <2>a DEF Calls, Phases
      <4>2. [next EXCEPT !.about = {}] \in Calls  BY <4>1 DEF Calls
      <4>3. [next EXCEPT !.at = "update", !.risk = "rejected", !.order = NoOrder] \in Calls
        BY <4>1 DEF Calls, Phases, Risks, NoOrder
      <4> HIDE DEF next
      <4> QED  BY <2>9, <2>a, <4>1, <4>2, <4>3, Moves DEF Propose, next
    <3>2. audit' \in [Decisions -> Audits]
      BY <2>9, <2>a DEF Propose, Add, Audits, Risks, Confirmations, NoOrder
    <3> QED  BY <2>9, <2>a, <3>1, <3>2, TypesStay DEF Propose
  <2>10. ASSUME NEW c \in Callers, NEW d \in Decisions, Decide(c, d) PROVE Typed'
    <3>1. call' \in [Callers -> Calls]
      <4> DEFINE next == [call[c] EXCEPT !.about = {d}, !.todo = @ \ {d}, !.order = NoOrder,
                         !.at = IF Mode = "auto" /\ WithinLimit THEN "submit" ELSE "add",
                         !.risk = IF Mode = "auto" THEN "rejected" ELSE "approved"]
      <4>1. next \in Calls
        <5>1. ASSUME NEW phase \in Phases, NEW risk \in Risks
              PROVE  [call[c] EXCEPT !.about = {d}, !.todo = @ \ {d}, !.order = NoOrder,
                                     !.at = phase, !.risk = risk] \in Calls
          BY <2>a DEF Calls, NoOrder
        <5> QED  BY <5>1 DEF Phases, Risks
      <4>2. To(c, next)  BY <2>10 DEF Decide
      <4> HIDE DEF next
      <4> QED  BY <4>1, <4>2, <2>a, Moves
    <3> QED  BY <2>10, <2>a, <3>1, TypesStay DEF Decide
  <2>11. ASSUME NEW c \in Callers, NEW d \in Decisions, AddDecision(c, d) PROVE Typed'
    <3>1. call' \in [Callers -> Calls]
      BY <2>11, <2>a, <2>d, Moves DEF AddDecision, Done
    <3>2. audit' \in [Decisions -> Audits]
      BY <2>11, <2>a, IdleIsTyped DEF AddDecision, Add, Audits, Calls
    <3> QED  BY <2>11, <2>a, <3>1, <3>2, TypesStay DEF AddDecision
  <2>12. ASSUME NEW c \in Callers, NEW d \in Decisions, CreateOrder(c, d) PROVE Typed'
    <3>1. call' \in [Callers -> Calls]
      <4>1. PICK risk \in Risks, order \in SUBSET OrderIds, phase \in Phases \cup {Known(c)} :
              To(c, [Outcome(c, risk, order) EXCEPT !.at = phase])
        BY <2>12 DEF CreateOrder, Risks, Phases
      <4> DEFINE next == [Outcome(c, risk, order) EXCEPT !.at = phase]
      <4>2. next \in Calls  BY <2>e
      <4> HIDE DEF next
      <4> QED  BY <4>1, <4>2, <2>a, Moves DEF next
    <3>2. orders' \in [OrderIds -> OrderStatuses] /\ made' \in Nat
      BY <2>12, <2>a DEF CreateOrder, OrderStatuses, Count
    <3> QED  BY <2>12, <2>a, <3>1, <3>2, TypesStay DEF CreateOrder
  <2>13. ASSUME NEW c \in Callers, NEW d \in Decisions, SubmitLive(c, d) PROVE Typed'
    <3>1. [decision |-> d, attempt |-> 1] \in OrderIds
      BY DEF OrderIds, AutomationOrderAssumption
    <3>2. call' \in [Callers -> Calls]
      <4>1. PICK risk \in Risks, order \in SUBSET OrderIds :
              To(c, [Outcome(c, risk, order) EXCEPT !.at = Known(c)])
        BY <2>13, <3>1 DEF SubmitLive, LiveId, NoOrder, Risks
      <4> DEFINE next == [Outcome(c, risk, order) EXCEPT !.at = Known(c)]
      <4>2. next \in Calls  BY <2>e
      <4> HIDE DEF next
      <4> QED  BY <4>1, <4>2, <2>a, Moves DEF next
    <3>3. sent' \in [Decisions -> Nat] /\ made' \in Nat
      BY <2>13, <2>a DEF SubmitLive, Count
    <3> QED  BY <2>13, <2>a, <3>2, <3>3, TypesStay DEF SubmitLive
  <2>14. ASSUME NEW c \in Callers, NEW d \in Decisions, Update(c, d) PROVE Typed'
    <3>1. call' \in [Callers -> Calls]
      <4> DEFINE next == [call[c] EXCEPT !.at = "write", !.row = audit[d]]
      <4>1. next \in Calls
        BY ZenonT(60), <2>a DEF Calls, Phases
      <4>2. To(c, next)  BY <2>14 DEF Update
      <4> HIDE DEF next
      <4> QED  BY <4>1, <4>2, <2>a, Moves
    <3> QED  BY <2>14, <2>a, <3>1, TypesStay DEF Update
  <2>15. ASSUME NEW c \in Callers, NEW d \in Decisions, Write(c, d) PROVE Typed'
    <3>1. call' \in [Callers -> Calls]
      BY <2>15, <2>a, <2>d, Moves DEF Write, Done
    <3>2. audit' \in [Decisions -> Audits]
      BY <2>15, <2>a, RowsAreTyped DEF Write, Add
    <3> QED  BY <2>15, <2>a, <3>1, <3>2, TypesStay DEF Write
  <2>16. ASSUME NEW c \in Callers, NEW d \in Decisions, Confirm(c, d) PROVE Typed'
    <3>1. call' \in [Callers -> Calls]
      BY <2>16, <2>a, <2>c DEF Confirm
    <3> QED  BY <2>16, <2>a, <3>1, TypesStay DEF Confirm
  <2>17. ASSUME NEW c \in Callers, NEW d \in Decisions, Reject(c, d) PROVE Typed'
    <3>1. call' \in [Callers -> Calls]
      <4> DEFINE next == [Idle EXCEPT !.at = "update", !.kind = "reject", !.about = {d}]
      <4>1. next \in Calls
        BY IdleIsTyped DEF Calls, Phases, Kinds
      <4>2. To(c, next)  BY <2>17 DEF Reject
      <4> HIDE DEF next
      <4> QED  BY <4>1, <4>2, <2>a, Moves
    <3> QED  BY <2>17, <2>a, <3>1, TypesStay DEF Reject
  <2>18. ASSUME NEW c \in Callers, NEW o \in OrderIds, SubmitToBroker(c, o) PROVE Typed'
    <3>1. call' \in [Callers -> Calls]
      <4>1. Known(c) \in Phases  BY DEF Known, Phases
      <4>2. /\ [call[c] EXCEPT !.at = Known(c)] \in Calls
            /\ [call[c] EXCEPT !.at = Known(c), !.risk = "rejected"] \in Calls
        BY <4>1, <2>a DEF Calls, Risks
      <4> QED  BY <2>18, <4>2, <2>a, Moves DEF SubmitToBroker, Goes
    <3>2. orders' \in [OrderIds -> OrderStatuses]
      BY <2>18, <2>a DEF SubmitToBroker, OrderStatuses
    <3> QED  BY <2>18, <2>a, <3>1, <3>2, TypesStay DEF SubmitToBroker
  <2>19. ASSUME NEW c \in Callers, NEW o \in OrderIds, Fill(c, o) PROVE Typed'
    <3>1. call' \in [Callers -> Calls]
      <4>1. PICK s \in {"filled", "rejected"} :
              To(c, [call[c] EXCEPT !.at = Known(c), !.risk = IF s = "filled" THEN @ ELSE s])
        BY <2>19 DEF Fill
      <4>2. Known(c) \in Phases  BY DEF Known, Phases
      <4> DEFINE next == [call[c] EXCEPT !.at = Known(c), !.risk = IF s = "filled" THEN @ ELSE s]
      <4>3. next \in Calls  BY ZenonT(60), <4>2, <2>a DEF Calls, Risks
      <4> HIDE DEF next
      <4> QED  BY <4>1, <4>3, <2>a, Moves DEF next
    <3>2. orders' \in [OrderIds -> OrderStatuses] /\ made' \in Nat
      BY <2>19, <2>a DEF Fill, OrderStatuses, Count
    <3> QED  BY <2>19, <2>a, <3>1, <3>2, TypesStay DEF Fill
  <2>20. ASSUME NEW c \in Callers, NEW o \in OrderIds, FillRaises(c, o) PROVE Typed'
    <3>1. [Outcome(c, "rejected", NoOrder) EXCEPT !.at = "update"] \in Calls
      BY ZenonT(60), <2>a DEF Outcome, NoOrder, Calls, Phases, Risks
    <3>2. call' \in [Callers -> Calls]
      BY <2>20, <2>a, <2>d, <3>1, Moves DEF FillRaises, Done
    <3> QED  BY <2>20, <2>a, <3>2, TypesStay DEF FillRaises
  <2>21. ASSUME NEW o \in OrderIds, CancelOrder(o) PROVE Typed'
    <3>1. orders' \in [OrderIds -> OrderStatuses]
      BY <2>21, <2>a DEF CancelOrder, OrderStatuses
    <3> QED  BY <2>21, <2>a, <3>1, TypesStay DEF CancelOrder
  <2>22. CASE DayEnds  BY <2>22, <2>a, TypesStay DEF DayEnds
  <2>23. CASE UNCHANGED vars  BY <2>23, <2>a, TypesStay DEF vars
  <2> QED  BY <2>1, <2>2, <2>3, <2>4, <2>5, <2>6, <2>7, <2>8, <2>9, <2>10, <2>11, <2>12, <2>13,
              <2>14, <2>15, <2>16, <2>17, <2>18, <2>19, <2>20, <2>21, <2>22, <2>23 DEF Next
<1> QED  BY <1>1, <1>2, PTL DEF Spec

-----------------------------------------------------------------------------
(***************************************************************************)
(* One order for a proposal.  What a deployed strategy proposed never       *)
(* changes once it is recorded, so a call that orders knows whether it      *)
(* carries out a proposal, and whoever does uses the same identifier.       *)
(***************************************************************************)

Resting == {"idle", "next", "settle"}

\* What a call knows about the decision it is at.
Told(c) ==
    /\ call[c].at # "add"
    /\ \A d, e \in call[c].about : d = e
    /\ \A d \in call[c].about :
          /\ audit[d].there
          /\ call[c].at = "submit" => call[c].planned = audit[d].proposed
          /\ call[c].at = "write" =>
                call[c].row.there /\ call[c].row.proposed = audit[d].proposed
    /\ IF call[c].kind = "run"
       THEN /\ started /\ call[c].planned /\ call[c].at \notin Resting
            /\ \A d \in call[c].todo : ~audit[d].there
       ELSE call[c].at # "work" /\ \A d \in call[c].todo : audit[d].there

OneRun == \A b, c \in Callers : call[b].kind = "run" /\ call[c].kind = "run" => b = c
Numbered ==
    \A o \in OrderIds : orders[o] # "none" =>
        audit[o.decision].there /\ (audit[o.decision].proposed => o.attempt = 1)
Recorded == \A d \in Decisions : audit[d].proposed => audit[d].there
Unstarted == ~started => \A d \in Decisions : ~audit[d].there
Ordered == OneRun /\ Numbered /\ Recorded /\ Unstarted /\ \A c \in Callers : Told(c)

Alone(c) == \A k \in Callers : k # c => call'[k] = call[k]
SameProposals == \A d \in Decisions :
    audit'[d].there = audit[d].there /\ audit'[d].proposed = audit[d].proposed
NoneOpened == \A o \in OrderIds : orders[o] = "none" => orders'[o] = "none"

LEMMA MovesAlone ==
    ASSUME Typed, NEW c \in Callers, NEW next, To(c, next)
    PROVE  call'[c] = next /\ Alone(c)
BY Moves DEF Typed, Alone

LEMMA StaysNumbered ==
    ASSUME Ordered, SameProposals, NoneOpened
    PROVE  Numbered'
BY DEF Ordered, Numbered, SameProposals, NoneOpened, OrderIds

\* A step of one call that changes no proposal keeps what is known, if the call
\* knows what it says and the orders are numbered.
LEMMA Knows ==
    ASSUME Typed, Ordered, NEW c \in Callers, Alone(c), SameProposals, UNCHANGED started,
           call'[c].kind = "run" => call[c].kind = "run", Told(c)', Numbered'
    PROVE  Ordered'
<1>1. \A k \in Callers : Told(k)'
  <2> SUFFICES ASSUME NEW k \in Callers, k # c PROVE Told(k)'
    OBVIOUS
  <2>1. Told(k) /\ call'[k] = call[k] /\ call[k] \in Calls  BY DEF Ordered, Alone, Typed
  <2> QED  BY <2>1 DEF Told, SameProposals, Calls
<1>2. OneRun'  BY DEF Ordered, OneRun, Alone
<1>3. Unstarted' /\ Recorded'  BY DEF Ordered, Recorded, Unstarted, SameProposals
<1> QED  BY <1>1, <1>2, <1>3 DEF Ordered

\* The same where the call is no longer at a decision.
LEMMA Leaves ==
    ASSUME Typed, Ordered, NEW c \in Callers, Alone(c), SameProposals, NoneOpened,
           UNCHANGED started,
           \/ call'[c] = Idle
           \/ /\ call'[c].about = {} /\ call'[c].kind # "run" /\ call'[c].at \notin {"add", "work"}
              /\ \A d \in call'[c].todo : d \in Decisions /\ audit[d].there
           \/ /\ call'[c].about = {} /\ call'[c].kind = "run" /\ call[c].kind = "run"
              /\ call'[c].at \notin Resting \cup {"add"} /\ call'[c].planned = call[c].planned
              /\ call'[c].todo \subseteq call[c].todo
    PROVE  Ordered'
<1>1. Told(c) /\ call[c] \in Calls  BY DEF Ordered, Typed
<1>2. CASE call'[c] = Idle  BY <1>2, StaysNumbered, Knows DEF Told, Idle
<1>3. CASE /\ call'[c].about = {} /\ call'[c].kind # "run" /\ call'[c].at \notin {"add", "work"}
           /\ \A d \in call'[c].todo : d \in Decisions /\ audit[d].there
  <2>1. Told(c)'  BY <1>3 DEF Told, SameProposals
  <2> QED  BY <1>3, <2>1, StaysNumbered, Knows
<1>4. CASE /\ call'[c].about = {} /\ call'[c].kind = "run" /\ call[c].kind = "run"
           /\ call'[c].at \notin Resting \cup {"add"} /\ call'[c].planned = call[c].planned
           /\ call'[c].todo \subseteq call[c].todo
  <2>1. Told(c)'  BY <1>1, <1>4 DEF Told, SameProposals, Calls
  <2> QED  BY <1>4, <2>1, StaysNumbered, Knows
<1> QED  BY <1>2, <1>3, <1>4

\* A call that is done with a decision.
LEMMA DoneLeaves ==
    ASSUME Typed, Ordered, NEW c \in Callers, Done(c), SameProposals, NoneOpened,
           UNCHANGED started
    PROVE  Ordered'
<1>1. call[c] \in Calls /\ Told(c)  BY DEF Typed, Ordered
<1>2. Alone(c) /\ call'[c] = [call[c] EXCEPT !.at = IF call[c].kind = "run" THEN "work" ELSE "next", !.about = {}]
  BY MovesAlone DEF Done
<1>3. /\ call'[c].about = {} /\ call'[c].kind = call[c].kind /\ call'[c].planned = call[c].planned
      /\ call'[c].todo = call[c].todo
      /\ call'[c].at = IF call[c].kind = "run" THEN "work" ELSE "next"
  BY <1>1, <1>2 DEF Calls
<1> QED  BY <1>1, <1>2, <1>3, Leaves DEF Resting, Told, Calls

\* A step within one decision, once its order was submitted.
LEMMA Proceeds ==
    ASSUME Typed, Ordered, NEW c \in Callers, Alone(c), UNCHANGED <<audit, started>>, Numbered',
           call'[c].about = call[c].about, call'[c].kind = call[c].kind,
           call'[c].planned = call[c].planned, call'[c].todo = call[c].todo,
           call'[c].at \in {"update", "broker", "fill"}
    PROVE  Ordered'
<1>1. Told(c) /\ SameProposals  BY DEF Ordered, SameProposals
<1>2. Told(c)'  BY <1>1 DEF Told, Resting
<1> QED  BY <1>1, <1>2, Knows

\* A call submits nothing for a decision it does not know, but may begin to.
LEMMA Begins ==
    ASSUME Typed, Ordered, Deployed \in BOOLEAN, Deployed, NEW c \in Callers, NEW d \in Decisions,
           audit[d].there, call[c].at \in Resting, Alone(c), UNCHANGED <<audit, orders, started>>,
           call'[c].about = {d}, call'[c].kind = call[c].kind, call'[c].todo \subseteq call[c].todo,
           call'[c].planned = (Deployed /\ audit[d].proposed), call'[c].at \in {"submit", "update"}
    PROVE  Ordered'
<1>1. call[c] \in Calls /\ Told(c) /\ call[c].kind # "run"  BY DEF Typed, Ordered, Told
<1>2. audit[d].proposed \in BOOLEAN  BY DEF Typed, TypeOK, Audits
<1>3. Told(c)'  BY <1>1, <1>2 DEF Told
<1> QED  BY <1>1, <1>3, StaysNumbered, Knows DEF SameProposals, NoneOpened

LEMMA ConfirmedFields ==
    ASSUME NEW c \in Callers, call[c] \in Calls, NEW d
    PROVE  /\ Confirmed(c, d).about = {d} /\ Confirmed(c, d).kind = call[c].kind
           /\ Confirmed(c, d).todo = call[c].todo
           /\ Confirmed(c, d).planned = (Deployed /\ audit[d].proposed)
           /\ Confirmed(c, d).at \in {"submit", "update"}
           /\ \A todo : LET k == [Confirmed(c, d) EXCEPT !.todo = todo]
                        IN  /\ k.about = {d} /\ k.kind = call[c].kind /\ k.todo = todo
                            /\ k.planned = (Deployed /\ audit[d].proposed)
                            /\ k.at \in {"submit", "update"}
BY DEF Confirmed, Calls
LEMMA StepKeepsOrdered ==
    ASSUME AutomationOrderAssumption, Deployed, Typed, Typed', Ordered, [Next]_vars
    PROVE  Ordered'
<1> USE DEF Env, Spend
<1>a. /\ \A c \in Callers : call[c] \in Calls /\ Told(c)
      /\ Deployed \in BOOLEAN /\ audit \in [Decisions -> Audits] /\ orders \in [OrderIds -> OrderStatuses]
  BY DEF Typed, TypeOK, Ordered, AutomationOrderAssumption
<1>b. UNCHANGED audit => SameProposals  BY DEF SameProposals
<1>c. UNCHANGED orders => NoneOpened  BY DEF NoneOpened
<1>d. ASSUME NEW c \in Callers PROVE Known(c) = "update"  BY DEF Known
<1>1. ASSUME NEW c \in Callers, StartRun(c) PROVE Ordered'
  <2> DEFINE next == [Idle EXCEPT !.at = "work", !.kind = "run", !.planned = Deployed, !.todo = Decisions]
  <2>1. /\ next.at = "work" /\ next.kind = "run" /\ next.planned /\ next.about = {}
        /\ next.todo = Decisions
    BY DEF Idle
  <2>2. To(c, next) /\ UNCHANGED <<audit, orders>> /\ ~started /\ started'
    BY <1>1 DEF StartRun
  <2> HIDE DEF next
  <2>3. call'[c] = next /\ Alone(c)  BY <2>2, MovesAlone
  <2>4. Told(c)'  BY <2>1, <2>2, <2>3 DEF Told, Resting, Ordered, Unstarted
  <2>5. \A k \in Callers : call[k].kind # "run"  BY <1>a, <2>2 DEF Told
  <2>6. ASSUME NEW k \in Callers, k # c PROVE Told(k)'
    BY <1>a, <2>2, <2>3, <2>5, <2>6 DEF Told, Alone
  <2>7. OneRun'  BY <2>3, <2>5 DEF OneRun, Alone
  <2> QED  BY <2>2, <2>4, <2>6, <2>7 DEF Ordered, Numbered, Recorded, Unstarted
<1>2. ASSUME NEW c \in Callers, EndRun(c) PROVE Ordered'
  BY <1>2, <1>b, <1>c, MovesAlone, Leaves DEF EndRun
<1>3. ASSUME NEW c \in Callers, Refuse(c) PROVE Ordered'
  <2>1. CASE Done(c)  BY <1>3, <2>1, <1>b, <1>c, DoneLeaves DEF Refuse
  <2>2. ASSUME NEW risk \in {"rejected", "approved"},
               To(c, [Outcome(c, risk, NoOrder) EXCEPT !.at = Known(c)])
        PROVE  Ordered'
    <3>1. Alone(c) /\ call'[c] = [Outcome(c, risk, NoOrder) EXCEPT !.at = "update"]
      BY <2>2, <1>d, MovesAlone
    <3> QED  BY <1>3, <3>1, <1>a, <1>b, <1>c, StaysNumbered, Proceeds DEF Refuse, Outcome, Calls
  <2> QED  BY <1>3, <2>1, <2>2 DEF Refuse
<1>4. ASSUME NEW c \in Callers, ConfirmRun(c) PROVE Ordered'
  <2>1. PICK todo \in SUBSET Waiting : To(c, [Idle EXCEPT !.at = "next", !.todo = todo])
    BY <1>4 DEF ConfirmRun
  <2>2. Alone(c) /\ call'[c] = [Idle EXCEPT !.at = "next", !.todo = todo]  BY <2>1, MovesAlone
  <2>3. call'[c].about = {} /\ call'[c].kind = "user" /\ call'[c].at = "next" /\ call'[c].todo = todo
    BY <2>2 DEF Idle
  <2>4. \A d \in todo : d \in Decisions /\ audit[d].there  BY DEF Waiting, Ordered, Recorded
  <2> QED  BY <1>4, <2>2, <2>3, <2>4, <1>b, <1>c, Leaves DEF ConfirmRun
<1>5. ASSUME NEW c \in Callers, NextOfRun(c) PROVE Ordered'
  <2>1. CASE To(c, Idle)
    BY <1>5, <2>1, <1>b, <1>c, MovesAlone, Leaves DEF NextOfRun
  <2>2. ASSUME NEW d \in call[c].todo, Orderable(audit[d]), To(c, [Confirmed(c, d) EXCEPT !.todo = @ \ {d}])
        PROVE  Ordered'
    <3>1. d \in Decisions /\ audit[d].there /\ call[c].at = "next"
      BY <1>5, <1>a DEF NextOfRun, At, Told, Resting, Calls
    <3>2. Confirmed(c, d).todo = call[c].todo  BY <1>a, ConfirmedFields
    <3>3. Alone(c) /\ call'[c] = [Confirmed(c, d) EXCEPT !.todo = call[c].todo \ {d}]
      BY <2>2, <3>2, MovesAlone
    <3>4. /\ call'[c].about = {d} /\ call'[c].kind = call[c].kind /\ call'[c].todo = call[c].todo \ {d}
          /\ call'[c].planned = (Deployed /\ audit[d].proposed) /\ call'[c].at \in {"submit", "update"}
      BY <3>3, <1>a, ConfirmedFields
    <3> QED  BY <1>5, <1>a, <3>1, <3>3, <3>4, Begins DEF NextOfRun, Resting
  <2>3. ASSUME NEW d \in call[c].todo, ~Orderable(audit[d]), To(c, [call[c] EXCEPT !.todo = @ \ {d}])
        PROVE  Ordered'
    <3>1. Alone(c) /\ call'[c] = [call[c] EXCEPT !.todo = @ \ {d}]  BY <2>3, MovesAlone
    <3>2. /\ call'[c].about = call[c].about /\ call'[c].kind = call[c].kind /\ call'[c].at = "next"
          /\ call'[c].todo = call[c].todo \ {d} /\ call[c].kind # "run"
      BY <1>5, <3>1, <1>a DEF NextOfRun, At, Calls, Told, Resting
    <3>3. Told(c)'  BY <1>5, <3>2, <1>a DEF NextOfRun, At, Told
    <3> QED  BY <1>5, <3>1, <3>2, <3>3, <1>b, <1>c, StaysNumbered, Knows DEF NextOfRun
  <2> QED  BY <1>5, <2>1, <2>2, <2>3 DEF NextOfRun
<1>6. ASSUME NEW c \in Callers, Settle(c) PROVE Ordered'
  <2>1. Alone(c) /\ call'[c] = [Idle EXCEPT !.at = "settle", !.order = {o \in OrderIds : orders[o] = "pending"}]
    BY <1>6, MovesAlone DEF Settle
  <2>2. call'[c].about = {} /\ call'[c].kind = "user" /\ call'[c].at = "settle" /\ call'[c].todo = {}
    BY <2>1 DEF Idle
  <2> QED  BY <1>6, <2>1, <2>2, <1>b, <1>c, Leaves DEF Settle
<1>7. ASSUME NEW c \in Callers, SettleNext(c) PROVE Ordered'
  <2>1. NoneOpened  BY <1>7, <1>a DEF SettleNext, NoneOpened, OrderStatuses
  <2>2. CASE To(c, Idle)
    BY <1>7, <2>1, <2>2, <1>b, MovesAlone, Leaves DEF SettleNext
  <2>3. ASSUME NEW o \in call[c].order, To(c, [call[c] EXCEPT !.order = @ \ {o}]) PROVE Ordered'
    <3>1. Alone(c) /\ call'[c] = [call[c] EXCEPT !.order = @ \ {o}]  BY <2>3, MovesAlone
    <3>2. /\ call'[c].about = call[c].about /\ call'[c].kind = call[c].kind /\ call'[c].at = "settle"
          /\ call'[c].todo = call[c].todo /\ call[c].kind # "run"
      BY <1>7, <3>1, <1>a DEF SettleNext, At, Calls, Told, Resting
    <3>3. Told(c)'  BY <1>7, <3>2, <1>a DEF SettleNext, At, Told
    <3> QED  BY <1>7, <2>1, <3>1, <3>2, <3>3, <1>b, StaysNumbered, Knows DEF SettleNext
  <2> QED  BY <1>7, <2>2, <2>3 DEF SettleNext
<1>8. ASSUME NEW c \in Callers, Crash(c) PROVE Ordered'
  BY <1>8, <1>b, <1>c, MovesAlone, Leaves DEF Crash
<1>9. ASSUME NEW c \in Callers, NEW d \in Decisions, NEW approved \in BOOLEAN,
             NEW proposed \in BOOLEAN, Propose(c, d, approved, proposed)
      PROVE  Ordered'
  <2>1. /\ call[c].at = "work" /\ d \in call[c].todo /\ UNCHANGED <<orders, started>>
    BY <1>9 DEF Propose, At
  <2> DEFINE next == [call[c] EXCEPT !.about = {d}, !.todo = @ \ {d}]
  <2>2. /\ next.kind = call[c].kind /\ next.planned = call[c].planned /\ next.todo = call[c].todo \ {d}
        /\ next.about = {d} /\ next.at = "work" /\ next \in Calls
    BY <2>1, <1>a DEF Calls
  <2>3. \/ ~proposed /\ To(c, [next EXCEPT !.about = {}])
        \/ proposed /\ \/ To(c, [next EXCEPT !.about = {}])
                       \/ To(c, [next EXCEPT !.at = "submit"])
                       \/ To(c, [next EXCEPT !.at = "update", !.risk = "rejected", !.order = NoOrder])
    BY <1>9 DEF Propose
  <2> HIDE DEF next
  <2>4. /\ Alone(c) /\ call'[c].kind = call[c].kind /\ call'[c].planned = call[c].planned
        /\ call'[c].todo = call[c].todo \ {d}
        /\ \/ call'[c].about = {} /\ call'[c].at = "work"
           \/ call'[c].about = {d} /\ call'[c].at \in {"submit", "update"} /\ proposed
    <3>1. CASE To(c, [next EXCEPT !.about = {}])
      <4>1. Alone(c) /\ call'[c] = [next EXCEPT !.about = {}]  BY <3>1, MovesAlone
      <4> QED  BY <2>2, <4>1 DEF Calls
    <3>2. CASE proposed /\ To(c, [next EXCEPT !.at = "submit"])
      <4>1. Alone(c) /\ call'[c] = [next EXCEPT !.at = "submit"]  BY <3>2, MovesAlone
      <4> QED  BY <2>2, <3>2, <4>1 DEF Calls
    <3>3. CASE proposed /\ To(c, [next EXCEPT !.at = "update", !.risk = "rejected", !.order = NoOrder])
      <4>1. Alone(c) /\ call'[c] = [next EXCEPT !.at = "update", !.risk = "rejected", !.order = NoOrder]
        BY <3>3, MovesAlone
      <4> QED  BY <2>2, <3>3, <4>1 DEF Calls
    <3> QED  BY <2>3, <3>1, <3>2, <3>3
  <2>5. /\ audit'[d].there /\ audit'[d].proposed = proposed
        /\ \A e \in Decisions : e # d => audit'[e] = audit[e]
    BY <1>9, <1>a DEF Propose, Add
  <2>6. CASE call[c].kind = "run"
    <3>1. ~audit[d].there /\ call[c].planned /\ started  BY <2>1, <2>6, <1>a DEF Told
    <3>2. Told(c)'
      BY ZenonT(60), <2>1, <2>4, <2>5, <2>6, <3>1, <1>a DEF Told, Resting, Calls
    <3>3. ASSUME NEW k \in Callers, k # c PROVE Told(k)'
      <4>1. call'[k] = call[k] /\ call[k].kind # "run"
        BY <2>4, <2>6, <3>3 DEF Alone, Ordered, OneRun
      <4>2. \A e \in call[k].about \cup call[k].todo : e \in Decisions /\ e # d
        BY <3>1, <4>1, <1>a DEF Told, Calls
      <4> QED  BY <2>1, <2>5, <4>1, <4>2, <1>a DEF Told
    <3>4. OneRun'  BY <2>4 DEF Ordered, OneRun, Alone
    <3>5. Numbered'  BY <2>1, <2>5, <3>1 DEF Ordered, Numbered, OrderIds
    <3>6. Recorded' /\ Unstarted'  BY <2>1, <2>5, <3>1 DEF Ordered, Recorded, Unstarted
    <3> QED  BY <3>2, <3>3, <3>4, <3>5, <3>6 DEF Ordered
  <2>7. CASE call[c].kind # "run"
    BY <2>1, <2>7, <1>a DEF Told
  <2> QED  BY <2>6, <2>7
<1>10. ASSUME NEW c \in Callers, NEW d \in Decisions, Decide(c, d) \/ AddDecision(c, d) PROVE Ordered'
  BY <1>10, <1>a DEF Decide, AddDecision, At, Told
<1>11. ASSUME NEW c \in Callers, NEW d \in Decisions, CreateOrder(c, d) PROVE Ordered'
  <2>1. PICK risk \in Risks, phase \in {"broker", "fill", "update"} :
          To(c, [Outcome(c, risk, {IdOf(c, d)}) EXCEPT !.at = phase])
    BY <1>11, <1>d DEF CreateOrder, Risks
  <2>2. Alone(c) /\ call'[c] = [Outcome(c, risk, {IdOf(c, d)}) EXCEPT !.at = phase]
    BY <2>1, MovesAlone
  <2>3. Numbered'
    <3>1. /\ IdOf(c, d) \in OrderIds /\ IdOf(c, d).decision = d
          /\ call[c].planned => IdOf(c, d).attempt = 1
      BY <1>11 DEF CreateOrder, IdOf, FreshId
    <3>2. audit[d].there /\ call[c].planned = audit[d].proposed
      BY <1>11, <1>a DEF CreateOrder, At, Told
    <3>3. UNCHANGED audit /\ \A o \in OrderIds : o # IdOf(c, d) => orders'[o] = orders[o]
      BY <1>11, <1>a DEF CreateOrder
    <3> QED  BY <3>1, <3>2, <3>3 DEF Ordered, Numbered
  <2> QED  BY <1>11, <2>2, <2>3, <1>a, Proceeds DEF CreateOrder, Outcome, Calls
<1>12. ASSUME NEW c \in Callers, NEW d \in Decisions, SubmitLive(c, d) PROVE Ordered'
  <2>1. PICK risk, order : To(c, [Outcome(c, risk, order) EXCEPT !.at = "update"])
    BY <1>12, <1>d DEF SubmitLive
  <2>2. Alone(c) /\ call'[c] = [Outcome(c, risk, order) EXCEPT !.at = "update"]
    BY <2>1, MovesAlone
  <2> QED  BY <1>12, <2>2, <1>a, <1>b, <1>c, StaysNumbered, Proceeds DEF SubmitLive, Outcome, Calls
<1>13. ASSUME NEW c \in Callers, NEW d \in Decisions, Update(c, d) PROVE Ordered'
  <2>1. Alone(c) /\ call'[c] = [call[c] EXCEPT !.at = "write", !.row = audit[d]]
    BY <1>13, MovesAlone DEF Update
  <2>2. /\ call'[c].about = call[c].about /\ call'[c].kind = call[c].kind /\ call'[c].at = "write"
        /\ call'[c].todo = call[c].todo /\ call'[c].planned = call[c].planned /\ call'[c].row = audit[d]
    BY <2>1, <1>a DEF Calls
  <2>3. Told(c)'  BY <1>13, <2>2, <1>a DEF Update, Told, Resting
  <2> QED  BY <1>13, <2>1, <2>2, <2>3, <1>b, <1>c, StaysNumbered, Knows DEF Update
<1>14. ASSUME NEW c \in Callers, NEW d \in Decisions, Write(c, d) PROVE Ordered'
  <2>1. call[c].row.there /\ call[c].row.proposed = audit[d].proposed /\ audit[d].there
    BY <1>14, <1>a DEF Write, At, Told
  <2>2. call[c].row \in Audits  BY <1>a DEF Calls
  <2>3. Written(c).there = call[c].row.there /\ Written(c).proposed = call[c].row.proposed
    BY <2>2 DEF Written, Audits
  <2>4. audit[d].there \in BOOLEAN /\ call[c].row.there \in BOOLEAN  BY <2>2, <1>a DEF Audits
  <2>5. SameProposals
    BY <1>14, <2>1, <2>3, <2>4, <1>a DEF Write, Add, SameProposals
  <2> QED  BY <1>14, <2>5, <1>c, DoneLeaves DEF Write
<1>15. ASSUME NEW c \in Callers, NEW d \in Decisions, Confirm(c, d) PROVE Ordered'
  <2>1. call[c].at = "idle" /\ audit[d].there /\ call' = [call EXCEPT ![c] = Confirmed(c, d)]
    BY <1>15 DEF Confirm, At
  <2>2. call'[c] = Confirmed(c, d) /\ Alone(c)  BY <2>1 DEF Typed, Alone
  <2>3. /\ call'[c].about = {d} /\ call'[c].kind = call[c].kind /\ call'[c].todo = call[c].todo
        /\ call'[c].planned = (Deployed /\ audit[d].proposed) /\ call'[c].at \in {"submit", "update"}
    BY <2>2, <1>a, ConfirmedFields
  <2> QED  BY <1>15, <2>1, <2>2, <2>3, <1>a, Begins DEF Confirm, Resting
<1>16. ASSUME NEW c \in Callers, NEW d \in Decisions, Reject(c, d) PROVE Ordered'
  <2>1. Alone(c) /\ call'[c] = [Idle EXCEPT !.at = "update", !.kind = "reject", !.about = {d}]
    BY <1>16, MovesAlone DEF Reject
  <2>2. call'[c].about = {d} /\ call'[c].kind = "reject" /\ call'[c].at = "update" /\ call'[c].todo = {}
    BY <2>1 DEF Idle
  <2>3. Told(c)'  BY <1>16, <2>2 DEF Reject, Told
  <2> QED  BY <1>16, <2>1, <2>2, <2>3, <1>b, <1>c, StaysNumbered, Knows DEF Reject
<1>17. ASSUME NEW c \in Callers, NEW o \in OrderIds, SubmitToBroker(c, o) PROVE Ordered'
  <2>1. NoneOpened  BY <1>17, <1>a DEF SubmitToBroker, NoneOpened, OrderStatuses
  <2>2. PICK next \in {[call[c] EXCEPT !.at = "update"],
                      [call[c] EXCEPT !.at = "update", !.risk = "rejected"]} : To(c, next)
    BY <1>17, <1>d DEF SubmitToBroker, Goes
  <2>3. /\ Alone(c) /\ call'[c].about = call[c].about /\ call'[c].kind = call[c].kind
        /\ call'[c].planned = call[c].planned /\ call'[c].todo = call[c].todo /\ call'[c].at = "update"
    <3>1. Alone(c) /\ call'[c] = next  BY <2>2, MovesAlone
    <3> QED  BY <3>1, <1>a DEF Calls
  <2> QED  BY <1>17, <2>1, <2>3, <1>b, StaysNumbered, Proceeds DEF SubmitToBroker
<1>18. ASSUME NEW c \in Callers, NEW o \in OrderIds, Fill(c, o) PROVE Ordered'
  <2>1. NoneOpened  BY <1>18, <1>a DEF Fill, NoneOpened, OrderStatuses
  <2>2. PICK next \in {[call[c] EXCEPT !.at = "update", !.risk = IF s = "filled" THEN @ ELSE s] :
                          s \in {"filled", "rejected"}} : To(c, next)
    BY <1>18, <1>d DEF Fill
  <2>3. /\ Alone(c) /\ call'[c].about = call[c].about /\ call'[c].kind = call[c].kind
        /\ call'[c].planned = call[c].planned /\ call'[c].todo = call[c].todo /\ call'[c].at = "update"
    <3>1. Alone(c) /\ call'[c] = next  BY <2>2, MovesAlone
    <3> QED  BY <3>1, <1>a DEF Calls
  <2> QED  BY <1>18, <2>1, <2>3, <1>b, StaysNumbered, Proceeds DEF Fill
<1>19. ASSUME NEW c \in Callers, NEW o \in OrderIds, FillRaises(c, o) PROVE Ordered'
  <2>1. CASE Done(c)  BY <1>19, <2>1, <1>b, <1>c, DoneLeaves DEF FillRaises
  <2>2. CASE To(c, [Outcome(c, "rejected", NoOrder) EXCEPT !.at = "update"])
    <3>1. Alone(c) /\ call'[c] = [Outcome(c, "rejected", NoOrder) EXCEPT !.at = "update"]
      BY <2>2, MovesAlone
    <3> QED  BY <1>19, <3>1, <1>a, <1>b, <1>c, StaysNumbered, Proceeds DEF FillRaises, Outcome, Calls
  <2> QED  BY <1>19, <2>1, <2>2 DEF FillRaises
<1>20. ASSUME UNCHANGED <<audit, started, call>>, NoneOpened PROVE Ordered'
  <2>1. Numbered'  BY <1>20, <1>b, StaysNumbered
  <2>2. \A c \in Callers : Told(c)'  BY <1>20, <1>a DEF Told
  <2> QED  BY <1>20, <2>1, <2>2 DEF Ordered, OneRun, Recorded, Unstarted
<1>21. ASSUME NEW o \in OrderIds, CancelOrder(o) PROVE Ordered'
  BY <1>21, <1>20, <1>a DEF CancelOrder, NoneOpened
<1>22. CASE DayEnds \/ UNCHANGED vars  BY <1>22, <1>20, <1>c DEF DayEnds, vars
<1> QED  BY <1>1, <1>2, <1>3, <1>4, <1>5, <1>6, <1>7, <1>8, <1>9, <1>10, <1>11, <1>12, <1>13,
            <1>14, <1>15, <1>16, <1>17, <1>18, <1>19, <1>21, <1>22 DEF Next

\* A proposal of a deployed strategy gets one order at most, however many users
\* confirm it, alone or with others, at once or again after a crash: the
\* identifier of _submit_proposal suffices for that.
THEOREM OneOrderHolds ==
    ASSUME AutomationOrderAssumption
    PROVE  Spec => []OneOrder
<1>1. Init /\ Deployed => Ordered
  <2> SUFFICES ASSUME Init PROVE Ordered
    OBVIOUS
  <2>1. \A c \in Callers : call[c] = Idle /\ Told(c)  BY DEF Init, Told, Idle
  <2>2. OneRun  BY <2>1 DEF OneRun, Idle
  <2>3. Numbered /\ Recorded /\ Unstarted  BY DEF Init, Numbered, Recorded, Unstarted, NoAudit
  <2> QED  BY <2>1, <2>2, <2>3 DEF Ordered
<1>2. Deployed /\ Typed /\ Typed' /\ Ordered /\ [Next]_vars => Ordered'
  BY StepKeepsOrdered
<1>3. Typed /\ Ordered => OneOrder
  <2> SUFFICES ASSUME Ordered, NEW d \in Decisions, audit[d].proposed
               PROVE  Attempts(d) <= 1
    BY DEF OneOrder
  <2> DEFINE opened == {o \in OrderIds : o.decision = d /\ orders[o] # "none"}
             first == [decision |-> d, attempt |-> 1]
  <2>1. opened \subseteq {first}
    BY DEF Ordered, Numbered, OrderIds
  <2>2. IsFiniteSet({first}) /\ Cardinality({first}) = 1  BY FS_Singleton
  <2>3. Cardinality(opened) <= 1  BY <2>1, <2>2, FS_Subset
  <2> QED  BY <2>3 DEF Attempts
<1>4. CASE Deployed  BY <1>1, <1>2, <1>3, <1>4, TypeCorrect, PTL DEF Spec
<1>5. CASE ~Deployed
  <2>1. OneOrder  BY <1>5 DEF OneOrder
  <2> QED  BY <2>1, PTL
<1> QED  BY <1>4, <1>5
-----------------------------------------------------------------------------
(***************************************************************************)
(* One request to the live broker.  Until a call has written the identifier *)
(* of its request into the decision, it carries it along; nobody else looks *)
(* at the decision before, as long as calls take turns.                     *)
(***************************************************************************)
OneCaller == \A b, c \in Callers : b = c

Carrying(c) ==
    /\ \A d, e \in call[c].about : d = e
    /\ \A d \in call[c].about : sent[d] # 0 =>
          call[c].kind # "reject" /\ call[c].at \in {"add", "update", "write"} /\ call[c].order # {}
    /\ call[c].at = "write" => \A d \in call[c].about : call[c].row = audit[d]
    /\ call[c].kind = "reject" => call[c].at \in {"update", "write", "next"} /\ call[c].todo = {}
    /\ IF call[c].kind = "run"
       THEN call[c].at \notin Resting /\ \A d \in call[c].todo : sent[d] = 0 /\ d \notin call[c].about
       ELSE call[c].at \notin {"work", "add"}

Accounted == \A d \in Decisions :
    /\ sent[d] \in {0, 1}
    /\ sent[d] = 1 => audit[d].order # {} \/ \E c \in Callers : d \in call[c].about
Untouched == ~started =>
    /\ \A d \in Decisions : audit[d] = NoAudit /\ sent[d] = 0
    /\ \A c \in Callers : call[c].about = {} /\ call[c].todo = {}
Sending == Accounted /\ Untouched /\ \A c \in Callers : Carrying(c)

\* A step that writes no row and sends nothing.
LEMMA Carries ==
    ASSUME Typed, Sending, OneCaller, NEW c \in Callers, UNCHANGED <<audit, sent>>, Carrying(c)',
           \A d \in call[c].about : sent[d] # 0 => d \in call'[c].about,
           ~started' => ~started /\ call'[c].about = {} /\ call'[c].todo = {}
    PROVE  Sending'
<1>1. \A k \in Callers : k = c  BY DEF OneCaller
<1>2. (\A k \in Callers : Carrying(k))'  BY <1>1
<1>3. Accounted'  BY <1>1 DEF Sending, Accounted
<1>4. Untouched'  BY <1>1 DEF Sending, Untouched
<1> QED  BY <1>2, <1>3, <1>4 DEF Sending

\* What nobody has sent and nobody carries is free to be taken up.
LEMMA Unsent ==
    ASSUME Sending, OneCaller, NEW c \in Callers, call[c].at \in Resting,
           NEW d \in Decisions, audit[d].order = NoOrder
    PROVE  sent[d] = 0
<1>1. \A k \in Callers : k = c  BY DEF OneCaller
<1>2. Carrying(c) /\ Accounted  BY DEF Sending
<1> QED  BY <1>1, <1>2 DEF Carrying, Accounted, Resting, NoOrder

LEMMA KnownPhase == \A c \in Callers :
    Known(c) \in {"add", "update"} /\ (call[c].kind # "run" => Known(c) = "update")
BY DEF Known

LEMMA StepKeepsSending ==
    ASSUME AutomationOrderAssumption, OneCaller, Limit["crashes"] = 0, Typed, Typed', Sending, [Next]_vars
    PROVE  Sending'
<1> USE DEF Env, Spend
<1>a. /\ \A c \in Callers : call[c] \in Calls /\ Carrying(c)
      /\ audit \in [Decisions -> Audits] /\ sent \in [Decisions -> Nat] /\ started \in BOOLEAN
      /\ used \in [requests : Nat, settlements : Nat, crashes : Nat]
  BY DEF Typed, TypeOK, Sending
<1>b. /\ ~started => /\ \A d \in Decisions : audit[d] = NoAudit /\ sent[d] = 0
                     /\ \A c \in Callers : call[c].about = {} /\ call[c].todo = {}
      /\ \A d \in Decisions : sent[d] \in {0, 1}
  BY DEF Sending, Untouched, Accounted
<1>c. NoAudit.there = FALSE /\ NoAudit.proposed = FALSE  BY DEF NoAudit
\* A call that ends, or begins anew, has nothing to carry.
<1>d. ASSUME NEW c \in Callers, To(c, Idle), UNCHANGED <<audit, sent, started>>,
             \A d \in call[c].about : sent[d] = 0
      PROVE  Sending'
  <2>1. call'[c] = Idle  BY <1>d, MovesAlone
  <2>2. Carrying(c)'  BY <2>1 DEF Carrying, Idle, Resting
  <2>3. call'[c].about = {} /\ call'[c].todo = {}  BY <2>1 DEF Idle
  <2> QED  BY <1>d, <2>2, <2>3, Carries
\* So has one that is done with a decision it sent nothing for.
<1>e. ASSUME NEW c \in Callers, Done(c), UNCHANGED <<audit, sent, started>>,
             \A d \in call[c].about : sent[d] = 0
      PROVE  Sending'
  <2>1. call'[c] = [call[c] EXCEPT !.at = IF call[c].kind = "run" THEN "work" ELSE "next", !.about = {}]
    BY <1>e, MovesAlone DEF Done
  <2>2. /\ call'[c].about = {} /\ call'[c].kind = call[c].kind /\ call'[c].todo = call[c].todo
        /\ call'[c].at = IF call[c].kind = "run" THEN "work" ELSE "next"
    BY <2>1, <1>a DEF Calls
  <2>3. Carrying(c)'  BY <1>e, <2>2, <1>a DEF Carrying, Resting
  <2> QED  BY <1>e, <2>2, <2>3, <1>b, Carries
\* And one that goes on without having sent.
<1>f. ASSUME NEW c \in Callers, UNCHANGED <<audit, sent, started>>,
             \A d \in call[c].about : sent[d] = 0, call[c].kind # "reject", call[c].at \notin Resting,
             call'[c].about = call[c].about, call'[c].kind = call[c].kind, call'[c].todo = call[c].todo,
             call'[c].at \in {"broker", "fill", Known(c)}
      PROVE  Sending'
  <2>1. Carrying(c)'  BY <1>f, <1>a, KnownPhase DEF Carrying, Resting
  <2> QED  BY <1>f, <2>1, <1>b, Carries
<1>g. ASSUME NEW c \in Callers, NEW phase \in {"idle", "work", "submit", "broker", "fill", "next", "settle"},
             At(c, phase)
      PROVE  \A d \in call[c].about : sent[d] = 0
  BY <1>g, <1>a DEF At, Carrying
<1>h. ASSUME NEW c \in Callers, NEW risk, NEW order, NEW phase
      PROVE  LET k == [Outcome(c, risk, order) EXCEPT !.at = phase]
             IN  /\ k.about = call[c].about /\ k.kind = call[c].kind /\ k.todo = call[c].todo
                 /\ k.at = phase /\ k.order = order
  BY <1>a DEF Outcome, Calls
\* A decision that a user confirms.
<1>i. ASSUME NEW c \in Callers, NEW d \in Decisions, call[c].at \in Resting, call[c].kind # "reject",
             Orderable(audit[d]), started, UNCHANGED <<audit, sent, started>>,
             call'[c].about = {d}, call'[c].kind = call[c].kind, call'[c].at \in {"submit", "update"}
      PROVE  Sending'
  <2>1. sent[d] = 0  BY <1>i, Unsent DEF Orderable
  <2>2. call[c].kind # "run"  BY <1>i, <1>a DEF Carrying
  <2>3. Carrying(c)'  BY <1>i, <2>1, <2>2 DEF Carrying
  <2>4. \A e \in call[c].about : sent[e] = 0  BY <1>i, <1>a DEF Carrying, Resting
  <2> QED  BY <1>i, <2>3, <2>4, Carries
<1>1. ASSUME NEW c \in Callers, StartRun(c) PROVE Sending'
  <2> DEFINE next == [Idle EXCEPT !.at = "work", !.kind = "run", !.planned = Deployed, !.todo = Decisions]
  <2>1. next.at = "work" /\ next.kind = "run" /\ next.about = {}  /\ next.todo = Decisions
    BY DEF Idle
  <2>2. To(c, next) /\ UNCHANGED <<audit, sent>> /\ ~started /\ started'
    BY <1>1 DEF StartRun
  <2> HIDE DEF next
  <2>3. call'[c] = next  BY <2>2, MovesAlone
  <2>4. Carrying(c)'  BY <2>1, <2>2, <2>3, <1>b DEF Carrying, Resting
  <2> QED  BY <2>2, <2>4, <1>b, Carries
<1>2. ASSUME NEW c \in Callers, EndRun(c) PROVE Sending'
  BY <1>2, <1>d, <1>g DEF EndRun
<1>3. ASSUME NEW c \in Callers, Refuse(c) PROVE Sending'
  <2>1. CASE Done(c)  BY <1>3, <2>1, <1>e, <1>g DEF Refuse
  <2>2. ASSUME NEW risk \in {"rejected", "approved"},
               To(c, [Outcome(c, risk, NoOrder) EXCEPT !.at = Known(c)])
        PROVE  Sending'
    <3>1. call'[c] = [Outcome(c, risk, NoOrder) EXCEPT !.at = Known(c)]  BY <2>2, MovesAlone
    <3>2. call[c].kind # "reject" /\ call[c].at \notin Resting
      BY <1>3, <1>a DEF Refuse, At, Carrying, Resting
    <3>3. \A d \in call[c].about : sent[d] = 0  BY <1>3, <1>g DEF Refuse
    <3>4. /\ call'[c].about = call[c].about /\ call'[c].kind = call[c].kind
          /\ call'[c].todo = call[c].todo /\ call'[c].at = Known(c)
      BY <3>1, <1>h
    <3> QED  BY <1>3, <3>2, <3>3, <3>4, <1>f DEF Refuse
  <2> QED  BY <1>3, <2>1, <2>2 DEF Refuse
<1>4. ASSUME NEW c \in Callers, ConfirmRun(c) PROVE Sending'
  <2>1. PICK todo \in SUBSET Waiting : To(c, [Idle EXCEPT !.at = "next", !.todo = todo])
    BY <1>4 DEF ConfirmRun
  <2>2. call'[c] = [Idle EXCEPT !.at = "next", !.todo = todo]  BY <2>1, MovesAlone
  <2>3. call'[c].about = {} /\ call'[c].kind = "user" /\ call'[c].at = "next" /\ call'[c].todo = todo
    BY <2>2 DEF Idle
  <2>4. ~started => todo = {}  BY <1>b, <1>c DEF Waiting
  <2>5. Carrying(c)'  BY <2>3 DEF Carrying
  <2>6. \A d \in call[c].about : sent[d] = 0  BY <1>4, <1>g DEF ConfirmRun
  <2> QED  BY <1>4, <2>3, <2>4, <2>5, <2>6, Carries DEF ConfirmRun
<1>5. ASSUME NEW c \in Callers, NextOfRun(c) PROVE Sending'
  <2>1. \A d \in call[c].about : sent[d] = 0  BY <1>5, <1>g DEF NextOfRun
  <2>2. CASE To(c, Idle)  BY <1>5, <2>1, <2>2, <1>d DEF NextOfRun
  <2>3. ASSUME NEW d \in call[c].todo, Orderable(audit[d]), To(c, [Confirmed(c, d) EXCEPT !.todo = @ \ {d}])
        PROVE  Sending'
    <3>1. d \in Decisions /\ call[c].at = "next" /\ started /\ call[c].kind # "reject"
      BY <1>5, <1>a, <1>b DEF NextOfRun, At, Carrying, Calls
    <3>2. Confirmed(c, d).todo = call[c].todo  BY <1>a, ConfirmedFields
    <3>3. call'[c] = [Confirmed(c, d) EXCEPT !.todo = call[c].todo \ {d}]
      BY <2>3, <3>2, MovesAlone
    <3>4. call'[c].about = {d} /\ call'[c].kind = call[c].kind /\ call'[c].at \in {"submit", "update"}
      BY <3>3, <1>a, ConfirmedFields
    <3> QED  BY <1>5, <2>3, <3>1, <3>4, <1>i DEF NextOfRun, Resting
  <2>4. ASSUME NEW d \in call[c].todo, ~Orderable(audit[d]), To(c, [call[c] EXCEPT !.todo = @ \ {d}])
        PROVE  Sending'
    <3>1. call'[c] = [call[c] EXCEPT !.todo = @ \ {d}]  BY <2>4, MovesAlone
    <3>2. /\ call'[c].about = call[c].about /\ call'[c].kind = call[c].kind /\ call'[c].at = "next"
          /\ call'[c].todo = call[c].todo \ {d} /\ call[c].kind # "run"
      BY <1>5, <3>1, <1>a DEF NextOfRun, At, Calls, Carrying, Resting
    <3>3. Carrying(c)'  BY <1>5, <2>1, <3>2, <1>a DEF NextOfRun, Carrying
    <3> QED  BY <1>5, <2>1, <3>2, <3>3, <1>b, Carries DEF NextOfRun
  <2> QED  BY <1>5, <2>2, <2>3, <2>4 DEF NextOfRun
<1>6. ASSUME NEW c \in Callers, Settle(c) PROVE Sending'
  <2>1. call'[c] = [Idle EXCEPT !.at = "settle", !.order = {o \in OrderIds : orders[o] = "pending"}]
    BY <1>6, MovesAlone DEF Settle
  <2>2. call'[c].about = {} /\ call'[c].kind = "user" /\ call'[c].at = "settle" /\ call'[c].todo = {}
    BY <2>1 DEF Idle
  <2>3. Carrying(c)'  BY <2>2 DEF Carrying
  <2>4. \A d \in call[c].about : sent[d] = 0  BY <1>6, <1>g DEF Settle
  <2> QED  BY <1>6, <2>2, <2>3, <2>4, Carries DEF Settle
<1>7. ASSUME NEW c \in Callers, SettleNext(c) PROVE Sending'
  <2>1. \A d \in call[c].about : sent[d] = 0  BY <1>7, <1>g DEF SettleNext
  <2>2. CASE To(c, Idle)  BY <1>7, <2>1, <2>2, <1>d DEF SettleNext
  <2>3. ASSUME NEW o \in call[c].order, To(c, [call[c] EXCEPT !.order = @ \ {o}]) PROVE Sending'
    <3>1. call'[c] = [call[c] EXCEPT !.order = @ \ {o}]  BY <2>3, MovesAlone
    <3>2. /\ call'[c].about = call[c].about /\ call'[c].kind = call[c].kind /\ call'[c].at = "settle"
          /\ call'[c].todo = call[c].todo /\ call[c].kind \notin {"run", "reject"}
      BY <1>7, <3>1, <1>a DEF SettleNext, At, Calls, Carrying, Resting
    <3>3. Carrying(c)'  BY <1>7, <2>1, <3>2, <1>a DEF SettleNext, Carrying
    <3> QED  BY <1>7, <2>1, <3>2, <3>3, <1>b, Carries DEF SettleNext
  <2> QED  BY <1>7, <2>2, <2>3 DEF SettleNext
<1>8. ASSUME NEW c \in Callers, Crash(c) PROVE Sending'
  BY <1>8, <1>a DEF Crash
<1>9. ASSUME NEW c \in Callers, NEW d \in Decisions, NEW approved \in BOOLEAN,
             NEW proposed \in BOOLEAN, Propose(c, d, approved, proposed)
      PROVE  Sending'
  <2>1. /\ call[c].at = "work" /\ d \in call[c].todo /\ UNCHANGED <<sent, started>>
        /\ call[c].kind = "run" /\ started /\ sent[d] = 0
    BY <1>9, <1>a, <1>b DEF Propose, At, Carrying
  <2> DEFINE next == [call[c] EXCEPT !.about = {d}, !.todo = @ \ {d}]
  <2>2. /\ next.kind = call[c].kind /\ next.todo = call[c].todo \ {d}
        /\ next.about = {d} /\ next.at = "work" /\ next \in Calls
    BY <2>1, <1>a DEF Calls
  <2>3. \/ To(c, [next EXCEPT !.about = {}])
        \/ To(c, [next EXCEPT !.at = "submit"])
        \/ To(c, [next EXCEPT !.at = "update", !.risk = "rejected", !.order = NoOrder])
    BY <1>9 DEF Propose
  <2> HIDE DEF next
  <2>4. /\ call'[c].kind = call[c].kind /\ call'[c].todo = call[c].todo \ {d}
        /\ call'[c].about \in {{}, {d}} /\ call'[c].at \in {"work", "submit", "update"}
    <3>1. CASE To(c, [next EXCEPT !.about = {}])
      <4>1. call'[c] = [next EXCEPT !.about = {}]  BY <3>1, MovesAlone
      <4> QED  BY <2>2, <4>1 DEF Calls
    <3>2. CASE To(c, [next EXCEPT !.at = "submit"])
      <4>1. call'[c] = [next EXCEPT !.at = "submit"]  BY <3>2, MovesAlone
      <4> QED  BY <2>2, <4>1 DEF Calls
    <3>3. CASE To(c, [next EXCEPT !.at = "update", !.risk = "rejected", !.order = NoOrder])
      <4>1. call'[c] = [next EXCEPT !.at = "update", !.risk = "rejected", !.order = NoOrder]
        BY <3>3, MovesAlone
      <4> QED  BY <2>2, <4>1 DEF Calls
    <3> QED  BY <2>3, <3>1, <3>2, <3>3
  <2>5. \A e \in Decisions : e # d => audit'[e] = audit[e]
    BY <1>9, <1>a DEF Propose, Add
  <2>6. Carrying(c)'  BY <2>1, <2>4, <1>a DEF Carrying, Resting
  <2>7. \A k \in Callers : k = c  BY DEF OneCaller
  <2>8. (\A k \in Callers : Carrying(k))'  BY <2>6, <2>7
  <2>9. \A e \in call[c].about : sent[e] = 0  BY <2>1, <1>a DEF Carrying
  <2>10. Accounted'  BY <2>1, <2>5, <2>7, <2>9 DEF Sending, Accounted
  <2> QED  BY <2>1, <2>8, <2>10 DEF Sending, Untouched
<1>10. ASSUME NEW c \in Callers, NEW d \in Decisions, Decide(c, d) PROVE Sending'
  <2>1. /\ call[c].at = "work" /\ d \in call[c].todo /\ UNCHANGED <<audit, sent, started>>
        /\ call[c].kind = "run" /\ started /\ sent[d] = 0
    BY <1>10, <1>a, <1>b DEF Decide, At, Carrying
  <2> DEFINE next == [call[c] EXCEPT !.about = {d}, !.todo = @ \ {d}, !.order = NoOrder,
                         !.at = IF Mode = "auto" /\ WithinLimit THEN "submit" ELSE "add",
                         !.risk = IF Mode = "auto" THEN "rejected" ELSE "approved"]
  <2>2. /\ next.kind = call[c].kind /\ next.todo = call[c].todo \ {d}
        /\ next.about = {d} /\ next.at \in {"submit", "add"}
    BY <1>a DEF Calls
  <2>3. To(c, next)  BY <1>10 DEF Decide
  <2> HIDE DEF next
  <2>4. call'[c] = next  BY <2>3, MovesAlone
  <2>5. Carrying(c)'  BY <2>1, <2>2, <2>4, <1>a DEF Carrying, Resting
  <2>6. \A e \in call[c].about : sent[e] = 0  BY <2>1, <1>a DEF Carrying
  <2> QED  BY <2>1, <2>5, <2>6, Carries
\* A call that writes what it carries, or what was there.
<1>j. ASSUME NEW c \in Callers, NEW d \in call[c].about, NEW row, Add(d, row), Done(c),
             UNCHANGED <<sent, started>>, sent[d] # 0 => row.order # {}
      PROVE  Sending'
  <2>1. call'[c] = [call[c] EXCEPT !.at = IF call[c].kind = "run" THEN "work" ELSE "next", !.about = {}]
    BY <1>j, MovesAlone DEF Done
  <2>2. /\ call'[c].about = {} /\ call'[c].kind = call[c].kind /\ call'[c].todo = call[c].todo
        /\ call'[c].at = IF call[c].kind = "run" THEN "work" ELSE "next"
    BY <2>1, <1>a DEF Calls
  <2>3. Carrying(c)'  BY <1>j, <2>2, <1>a DEF Carrying, Resting
  <2>4. \A k \in Callers : k = c  BY DEF OneCaller
  <2>5. (\A k \in Callers : Carrying(k))'  BY <2>3, <2>4
  <2>6. d \in Decisions /\ \A e \in call[c].about : e = d  BY <1>a DEF Carrying, Calls
  <2>7. /\ audit'[d] = row /\ \A e \in Decisions : e # d => audit'[e] = audit[e]
    BY <1>j, <2>6, <1>a DEF Add
  <2>8. Accounted'  BY <1>j, <2>4, <2>6, <2>7 DEF Sending, Accounted
  <2>9. started  BY <1>b
  <2> QED  BY <1>j, <2>5, <2>8, <2>9 DEF Sending, Untouched
<1>11. ASSUME NEW c \in Callers, NEW d \in Decisions, AddDecision(c, d) PROVE Sending'
  <2> DEFINE row == [NoAudit EXCEPT !.there = TRUE, !.risk = call[c].risk, !.order = call[c].order]
  <2>1. row.order = call[c].order  BY DEF NoAudit
  <2>2. Add(d, row) /\ Done(c) /\ d \in call[c].about /\ UNCHANGED <<sent, started>>
    BY <1>11 DEF AddDecision
  <2> HIDE DEF row
  <2>3. sent[d] # 0 => row.order # {}  BY <2>1, <2>2, <1>a DEF Carrying
  <2> QED  BY <2>2, <2>3, <1>j
<1>12. ASSUME NEW c \in Callers, NEW d \in Decisions, CreateOrder(c, d) PROVE Sending'
  <2>1. PICK risk \in Risks, phase \in {"broker", "fill", Known(c)} :
          To(c, [Outcome(c, risk, {IdOf(c, d)}) EXCEPT !.at = phase])
    BY <1>12 DEF CreateOrder, Risks
  <2>2. call'[c] = [Outcome(c, risk, {IdOf(c, d)}) EXCEPT !.at = phase]
    BY <2>1, MovesAlone
  <2>3. call[c].kind # "reject" /\ call[c].at \notin Resting
    BY <1>12, <1>a DEF CreateOrder, At, Carrying, Resting
  <2>4. /\ call'[c].about = call[c].about /\ call'[c].kind = call[c].kind
        /\ call'[c].todo = call[c].todo /\ call'[c].at = phase
    BY <2>2, <1>h
  <2>5. \A e \in call[c].about : sent[e] = 0  BY <1>12, <1>g DEF CreateOrder
  <2> QED  BY <1>12, <2>3, <2>4, <2>5, <1>f DEF CreateOrder
<1>13. ASSUME NEW c \in Callers, NEW d \in Decisions, SubmitLive(c, d) PROVE Sending'
  <2>1. /\ call[c].kind # "reject" /\ call[c].at = "submit" /\ d \in call[c].about
        /\ \A e \in call[c].about : e = d /\ sent[e] = 0
    BY <1>13, <1>a, <1>g DEF SubmitLive, At, Carrying
  <2>2. CASE To(c, [Outcome(c, "rejected", NoOrder) EXCEPT !.at = Known(c)]) /\ UNCHANGED sent
    <3>1. call'[c] = [Outcome(c, "rejected", NoOrder) EXCEPT !.at = Known(c)]  BY <2>2, MovesAlone
    <3>2. /\ call'[c].about = call[c].about /\ call'[c].kind = call[c].kind
          /\ call'[c].todo = call[c].todo /\ call'[c].at = Known(c)
      BY <3>1, <1>h
    <3> QED  BY <1>13, <2>1, <2>2, <3>2, <1>f DEF SubmitLive, Resting
  <2>3. ASSUME NEW risk \in Risks, sent' = [sent EXCEPT ![d] = @ + 1],
               To(c, [Outcome(c, risk, LiveId(d, risk)) EXCEPT !.at = Known(c)])
        PROVE  Sending'
    <3>1. call'[c] = [Outcome(c, risk, LiveId(d, risk)) EXCEPT !.at = Known(c)]  BY <2>3, MovesAlone
    <3>2. /\ call'[c].about = call[c].about /\ call'[c].kind = call[c].kind
          /\ call'[c].todo = call[c].todo /\ call'[c].at = Known(c) /\ call'[c].order = LiveId(d, risk)
      BY <3>1, <1>h
    <3>3. sent'[d] = 1 /\ \A e \in Decisions : e # d => sent'[e] = sent[e]
      BY <2>1, <2>3, <1>a
    <3>4. d \notin call[c].todo \/ call[c].kind # "run"
      BY <2>1, <1>a DEF Carrying
    <3>5. Carrying(c)'
      BY <2>1, <3>2, <3>3, <3>4, <1>a, KnownPhase DEF Carrying, Resting, LiveId, Calls
    <3>6. \A k \in Callers : k = c  BY DEF OneCaller
    <3>7. (\A k \in Callers : Carrying(k))'  BY <3>5, <3>6
    <3>8. Accounted'  BY <1>13, <2>1, <3>2, <3>3, <3>6 DEF Sending, Accounted, SubmitLive
    <3>9. started /\ started'  BY <1>13, <2>1, <1>b DEF SubmitLive
    <3> QED  BY <3>7, <3>8, <3>9 DEF Sending, Untouched
  <2> QED  BY <1>13, <2>2, <2>3 DEF SubmitLive
<1>14. ASSUME NEW c \in Callers, NEW d \in Decisions, Update(c, d) PROVE Sending'
  <2>1. call'[c] = [call[c] EXCEPT !.at = "write", !.row = audit[d]]
    BY <1>14, MovesAlone DEF Update
  <2>2. /\ call'[c].about = call[c].about /\ call'[c].kind = call[c].kind /\ call'[c].at = "write"
        /\ call'[c].todo = call[c].todo /\ call'[c].order = call[c].order /\ call'[c].row = audit[d]
    BY <2>1, <1>a DEF Calls
  <2>3. Carrying(c)'  BY <1>14, <2>2, <1>a DEF Update, At, Carrying, Resting
  <2> QED  BY <1>14, <2>2, <2>3, <1>b, Carries DEF Update
<1>15. ASSUME NEW c \in Callers, NEW d \in Decisions, Write(c, d) PROVE Sending'
  <2>1. d \in call[c].about /\ Add(d, Written(c)) /\ Done(c) /\ UNCHANGED <<sent, started>> /\ call[c].at = "write"
    BY <1>15 DEF Write, At
  <2>2. call[c].row \in Audits  BY <1>a DEF Calls
  <2>3. sent[d] # 0 => call[c].kind # "reject" /\ call[c].order # {}
    BY <2>1, <1>a DEF Carrying
  <2>4. call[c].kind # "reject" /\ call[c].order # {} => Written(c).order = call[c].order
    BY <2>2 DEF Written, Audits, NoOrder
  <2>5. sent[d] # 0 => Written(c).order # {}  BY <2>3, <2>4
  <2> QED  BY <2>1, <2>5, <1>j
<1>16. ASSUME NEW c \in Callers, NEW d \in Decisions, Confirm(c, d) PROVE Sending'
  <2>1. call[c].at = "idle" /\ audit[d].there /\ call' = [call EXCEPT ![c] = Confirmed(c, d)] /\ Orderable(audit[d])
    BY <1>16 DEF Confirm, At
  <2>2. call'[c] = Confirmed(c, d)  BY <2>1 DEF Typed
  <2>3. call'[c].about = {d} /\ call'[c].kind = call[c].kind /\ call'[c].at \in {"submit", "update"}
    BY <2>2, <1>a, ConfirmedFields
  <2>4. started /\ call[c].kind # "reject"  BY <2>1, <1>a, <1>b, <1>c DEF Carrying
  <2> QED  BY <1>16, <2>1, <2>3, <2>4, <1>i DEF Confirm, Resting
<1>17. ASSUME NEW c \in Callers, NEW d \in Decisions, Reject(c, d) PROVE Sending'
  <2>1. call'[c] = [Idle EXCEPT !.at = "update", !.kind = "reject", !.about = {d}]
    BY <1>17, MovesAlone DEF Reject
  <2>2. call'[c].about = {d} /\ call'[c].kind = "reject" /\ call'[c].at = "update" /\ call'[c].todo = {}
    BY <2>1 DEF Idle
  <2>3. call[c].at = "idle" /\ audit[d].order = NoOrder /\ started
    BY <1>17, <1>b, <1>c DEF Reject, At, Rejectable
  <2>4. sent[d] = 0  BY <2>3, Unsent DEF Resting
  <2>5. Carrying(c)'  BY <1>17, <2>2, <2>4 DEF Reject, Carrying
  <2>6. \A e \in call[c].about : sent[e] = 0  BY <2>3, <1>a DEF Carrying
  <2> QED  BY <1>17, <2>3, <2>5, <2>6, Carries DEF Reject
<1>18. ASSUME NEW c \in Callers, NEW o \in OrderIds, SubmitToBroker(c, o) \/ Fill(c, o) PROVE Sending'
  <2>1. PICK next \in {[call[c] EXCEPT !.at = Known(c)],
                      [call[c] EXCEPT !.at = Known(c), !.risk = "rejected"]}
                  \cup {[call[c] EXCEPT !.at = Known(c), !.risk = IF s = "filled" THEN @ ELSE s] :
                          s \in {"filled", "rejected"}} : To(c, next)
    BY <1>18 DEF SubmitToBroker, Fill, Goes
  <2>2. call'[c] = next  BY <2>1, MovesAlone
  <2>3. /\ call'[c].about = call[c].about /\ call'[c].kind = call[c].kind
        /\ call'[c].todo = call[c].todo /\ call'[c].at = Known(c)
    BY <2>2, <1>a DEF Calls
  <2>4. call[c].kind # "reject" /\ call[c].at \notin Resting
    BY <1>18, <1>a DEF SubmitToBroker, Fill, At, Carrying, Resting
  <2>5. \A e \in call[c].about : sent[e] = 0  BY <1>18, <1>g DEF SubmitToBroker, Fill
  <2> QED  BY <1>18, <2>3, <2>4, <2>5, <1>f DEF SubmitToBroker, Fill
<1>19. ASSUME NEW c \in Callers, NEW o \in OrderIds, FillRaises(c, o) PROVE Sending'
  <2>1. CASE Done(c)  BY <1>19, <2>1, <1>e, <1>g DEF FillRaises
  <2>2. CASE Deployed /\ To(c, [Outcome(c, "rejected", NoOrder) EXCEPT !.at = "update"])
    <3>1. call'[c] = [Outcome(c, "rejected", NoOrder) EXCEPT !.at = "update"]
      BY <2>2, MovesAlone
    <3>2. /\ call'[c].about = call[c].about /\ call'[c].kind = call[c].kind
          /\ call'[c].todo = call[c].todo /\ call'[c].at = "update"
      BY <3>1, <1>h
    <3>3. call[c].kind # "reject" /\ call[c].at \notin Resting /\ Known(c) = "update"
      BY <1>19, <2>2, <1>a DEF FillRaises, At, Carrying, Resting, Known
    <3>4. \A e \in call[c].about : sent[e] = 0  BY <1>19, <1>g DEF FillRaises
    <3> QED  BY <1>19, <3>2, <3>3, <3>4, <1>f DEF FillRaises
  <2> QED  BY <1>19, <2>1, <2>2 DEF FillRaises
<1>20. ASSUME UNCHANGED <<audit, sent, started, call>> PROVE Sending'
  <2>1. (\A c \in Callers : Carrying(c))'  BY <1>20, <1>a DEF Carrying
  <2>2. Accounted' /\ Untouched'  BY <1>20 DEF Sending, Accounted, Untouched
  <2> QED  BY <2>1, <2>2 DEF Sending
<1>21. ASSUME NEW o \in OrderIds, CancelOrder(o) PROVE Sending'
  BY <1>21, <1>20 DEF CancelOrder
<1>22. CASE DayEnds \/ UNCHANGED vars  BY <1>22, <1>20 DEF DayEnds, vars
<1> QED  BY <1>1, <1>2, <1>3, <1>4, <1>5, <1>6, <1>7, <1>8, <1>9, <1>10, <1>11, <1>12, <1>13,
            <1>14, <1>15, <1>16, <1>17, <1>18, <1>19, <1>21, <1>22 DEF Next

\* As long as calls take turns and none is cut short, a decision is sent to the
\* live broker once, also when nobody knows what became of the request
\* (_execute_live_decision keeps its identifier).
THEOREM SentOnceHolds ==
    ASSUME AutomationOrderAssumption, OneCaller, Limit["crashes"] = 0
    PROVE  Spec => []SentOnce
<1>1. Init => Sending
  <2> SUFFICES ASSUME Init PROVE Sending
    OBVIOUS
  <2>1. \A c \in Callers : call[c] = Idle /\ Carrying(c)  BY DEF Init, Carrying, Idle
  <2>2. Accounted  BY DEF Init, Accounted
  <2>3. Untouched  BY <2>1 DEF Init, Untouched, Idle
  <2> QED  BY <2>1, <2>2, <2>3 DEF Sending
<1>2. Typed /\ Typed' /\ Sending /\ [Next]_vars => Sending'
  BY StepKeepsSending
<1>3. Sending => SentOnce  BY DEF Sending, Accounted, SentOnce
<1> QED  BY <1>1, <1>2, <1>3, TypeCorrect, PTL DEF Spec
-----------------------------------------------------------------------------
(***************************************************************************)
(* Every order that is open or filled is named by its decision, or carried  *)
(* by the call that will write it there.  A call orders for decisions that   *)
(* have no order yet, and loses no order on the way: one that it cannot     *)
(* fill was cancelled.                                                      *)
(***************************************************************************)
Carriers == {"broker", "fill", "add", "update", "write"}
Brings(k, o) == k.kind # "reject" /\ k.at \in Carriers /\ o.decision \in k.about /\ o \in k.order
Orderly(c) ==
    /\ call[c].kind # "reject" => \A d \in call[c].about : audit[d].order = {}
    /\ call[c].kind = "run" => \A d \in call[c].todo : audit[d].order = {}
    /\ call[c].at = "fill" => /\ \A o \in call[c].order : orders[o] \in {"pending", "cancelled"}
                              /\ \A o, p \in call[c].order : o = p
Named == \A o \in OrderIds : Alive(o) =>
    o \in audit[o.decision].order \/ \E c \in Callers : Brings(call[c], o)
Booking == Named /\ \A c \in Callers : Orderly(c)

\* What becomes of a call.
LEMMA AfterDone ==
    ASSUME Typed, NEW c \in Callers, Done(c)
    PROVE  /\ call'[c].about = {} /\ call'[c].kind = call[c].kind /\ call'[c].todo = call[c].todo
           /\ call'[c].planned = call[c].planned
           /\ call'[c].at = IF call[c].kind = "run" THEN "work" ELSE "next"
<1>1. call[c] \in Calls  BY DEF Typed
<1>2. call'[c] = [call[c] EXCEPT !.at = IF call[c].kind = "run" THEN "work" ELSE "next", !.about = {}]
  BY MovesAlone DEF Done
<1> QED  BY <1>1, <1>2 DEF Calls

LEMMA AfterOutcome ==
    ASSUME Typed, NEW c \in Callers, NEW risk, NEW order, NEW phase
    PROVE  LET k == [Outcome(c, risk, order) EXCEPT !.at = phase]
           IN  /\ k.about = call[c].about /\ k.kind = call[c].kind
               /\ k.todo = call[c].todo /\ k.planned = call[c].planned
               /\ k.at = phase /\ k.order = order /\ k.risk = risk
<1>1. call[c] \in Calls  BY DEF Typed
<1> QED  BY <1>1 DEF Calls, Outcome

LEMMA AfterPropose ==
    ASSUME Typed, NEW c \in Callers, NEW d \in Decisions, NEW approved, NEW proposed,
           Propose(c, d, approved, proposed)
    PROVE  /\ call'[c].kind = call[c].kind /\ call'[c].todo = call[c].todo \ {d}
           /\ call'[c].planned = call[c].planned
           /\ \/ call'[c].about = {} /\ call'[c].at = "work" /\ (~proposed \/ Mode # "auto")
              \/ call'[c].about = {d} /\ call'[c].at = "submit" /\ WithinLimit
              \/ call'[c].about = {d} /\ call'[c].at = "update" /\ call'[c].risk = "rejected" /\ call'[c].order = {}
<1> DEFINE next == [call[c] EXCEPT !.about = {d}, !.todo = @ \ {d}]
<1>1. /\ next \in Calls /\ next.kind = call[c].kind /\ next.todo = call[c].todo \ {d}
      /\ next.about = {d} /\ next.at = "work" /\ next.planned = call[c].planned
  BY DEF Typed, Calls, Propose, At
<1>2. \/ To(c, [next EXCEPT !.about = {}]) /\ (~proposed \/ Mode # "auto")
      \/ To(c, [next EXCEPT !.at = "submit"]) /\ WithinLimit
      \/ To(c, [next EXCEPT !.at = "update", !.risk = "rejected", !.order = NoOrder])
  BY DEF Propose
<1> HIDE DEF next
<1>3. CASE To(c, [next EXCEPT !.about = {}]) /\ (~proposed \/ Mode # "auto")
  <2>1. call'[c] = [next EXCEPT !.about = {}]  BY <1>3, MovesAlone
  <2> QED  BY <1>1, <1>3, <2>1 DEF Calls
<1>4. CASE To(c, [next EXCEPT !.at = "submit"]) /\ WithinLimit
  <2>1. call'[c] = [next EXCEPT !.at = "submit"]  BY <1>4, MovesAlone
  <2> QED  BY <1>1, <1>4, <2>1 DEF Calls
<1>5. CASE To(c, [next EXCEPT !.at = "update", !.risk = "rejected", !.order = NoOrder])
  <2>1. call'[c] = [next EXCEPT !.at = "update", !.risk = "rejected", !.order = NoOrder]
    BY <1>5, MovesAlone
  <2> QED  BY <1>1, <2>1 DEF Calls, NoOrder
<1> QED  BY <1>2, <1>3, <1>4, <1>5

\* A step that writes no row, opens no order and loses none.
LEMMA StaysBooked ==
    ASSUME Booking, OneCaller, NEW c \in Callers, UNCHANGED audit, Orderly(c)',
           \A o \in OrderIds : Alive(o)' => Alive(o),
           \A o \in OrderIds : Alive(o)' /\ Brings(call[c], o) => Brings(call'[c], o)
    PROVE  Booking'
<1>1. \A k \in Callers : k = c  BY DEF OneCaller
<1>2. (\A k \in Callers : Orderly(k))'  BY <1>1
<1>3. Named'
  <2> SUFFICES ASSUME NEW o \in OrderIds, Alive(o)'
               PROVE  o \in audit'[o.decision].order \/ \E k \in Callers : Brings(call'[k], o)
    BY DEF Named, Brings
  <2>1. Alive(o)  OBVIOUS
  <2>2. o \in audit[o.decision].order \/ \E k \in Callers : Brings(call[k], o)
    BY <2>1 DEF Booking, Named
  <2> QED  BY <2>2, <1>1
<1> QED  BY <1>2, <1>3 DEF Booking

\* A call that writes the order it carries, or leaves the one that is there.
LEMMA WritesTheOrder ==
    ASSUME Typed, Booking, Sending, OneCaller, NEW c \in Callers, NEW d \in call[c].about, NEW rewritten,
           Add(d, rewritten), Done(c), UNCHANGED orders,
           call[c].kind # "reject" => rewritten.order = call[c].order,
           call[c].kind = "reject" => rewritten.order = audit[d].order
    PROVE  Booking'
<1>1. \A k \in Callers : k = c  BY DEF OneCaller
<1>2. d \in Decisions /\ \A e \in call[c].about : e = d  BY DEF Sending, Carrying, Typed, Calls
<1>3. audit'[d] = rewritten /\ \A e \in Decisions : e # d => audit'[e] = audit[e]
  BY <1>2 DEF Add, Typed, TypeOK
<1>4. Orderly(c) /\ Carrying(c) /\ call[c] \in Calls  BY DEF Booking, Sending, Typed
<1>5. /\ call'[c].about = {} /\ call'[c].kind = call[c].kind /\ call'[c].todo = call[c].todo
      /\ call'[c].at # "fill"
  BY AfterDone
<1>6. call[c].kind = "run" => d \notin call[c].todo  BY <1>4 DEF Carrying
<1>7. Orderly(c)'  BY <1>3, <1>4, <1>5, <1>6 DEF Orderly, Calls
<1>8. (\A k \in Callers : Orderly(k))'  BY <1>1, <1>7
<1>9. Named'
  <2> SUFFICES ASSUME NEW o \in OrderIds, Alive(o)'
               PROVE  o \in audit'[o.decision].order
    BY DEF Named
  <2>1. o \in audit[o.decision].order \/ Brings(call[c], o)
    BY <1>1 DEF Booking, Named, Alive
  <2>2. o.decision \in Decisions  BY DEF OrderIds
  <2>3. CASE o.decision = d
    BY <1>3, <1>4, <2>1, <2>3 DEF Brings, Orderly
  <2>4. CASE o.decision # d
    BY <1>2, <1>3, <2>1, <2>2, <2>4 DEF Brings
  <2> QED  BY <2>3, <2>4
<1> QED  BY <1>8, <1>9 DEF Booking

LEMMA StepKeepsBooking ==
    ASSUME AutomationOrderAssumption, OneCaller, Limit["crashes"] = 0, Typed, Typed', Sending, Sending', Booking,
           [Next]_vars
    PROVE  Booking'
<1> USE DEF Env, Spend
<1>a. /\ \A c \in Callers : call[c] \in Calls /\ Carrying(c) /\ Orderly(c)
      /\ audit \in [Decisions -> Audits] /\ orders \in [OrderIds -> OrderStatuses] /\ started \in BOOLEAN
      /\ used \in [requests : Nat, settlements : Nat, crashes : Nat]
  BY DEF Typed, TypeOK, Sending, Booking
<1>b. UNCHANGED orders => \A o \in OrderIds : Alive(o)' => Alive(o)  BY DEF Alive
<1>c. ~started => \A d \in Decisions : audit[d] = NoAudit  BY DEF Sending, Untouched
<1>d. NoAudit.there = FALSE /\ NoAudit.proposed = FALSE /\ NoAudit.order = {}  BY DEF NoAudit, NoOrder
\* A call that carries nothing, and carries nothing afterwards.
<1>e. ASSUME NEW c \in Callers, UNCHANGED audit, \A o \in OrderIds : Alive(o)' => Alive(o),
             call[c].at \notin Carriers, Orderly(c)'
      PROVE  Booking'
  BY <1>e, StaysBooked DEF Brings
<1>f. ASSUME NEW c \in Callers, To(c, Idle), UNCHANGED audit, \A o \in OrderIds : Alive(o)' => Alive(o),
             call[c].at \notin Carriers
      PROVE  Booking'
  <2>1. call'[c] = Idle  BY <1>f, MovesAlone
  <2>2. Orderly(c)'  BY <2>1 DEF Orderly, Idle
  <2> QED  BY <1>f, <2>2, <1>e
\* A call that is done with a decision and has no living order for it.
<1>g. ASSUME NEW c \in Callers, Done(c), UNCHANGED <<audit, orders>>,
             \A o \in OrderIds : Brings(call[c], o) => ~Alive(o)
      PROVE  Booking'
  <2>1. /\ call'[c].about = {} /\ call'[c].kind = call[c].kind /\ call'[c].todo = call[c].todo
        /\ call'[c].at # "fill"
    BY <1>g, AfterDone
  <2>2. Orderly(c)'  BY <1>g, <2>1, <1>a DEF Orderly
  <2> QED  BY <1>g, <2>2, <1>b, StaysBooked DEF Alive
\* A decision without an order that a call turns to.
<1>h. ASSUME NEW c \in Callers, NEW d \in Decisions, call[c].at \notin Carriers, UNCHANGED <<audit, orders>>,
             audit[d].order = {}, call'[c].about \in {{}, {d}}, call'[c].kind = call[c].kind,
             call'[c].todo \subseteq call[c].todo, call'[c].at # "fill"
      PROVE  Booking'
  <2>1. Orderly(c)'  BY <1>h, <1>a DEF Orderly
  <2> QED  BY <1>h, <2>1, <1>b, <1>e
<1>1. ASSUME NEW c \in Callers, StartRun(c) PROVE Booking'
  <2>1. call'[c] = [Idle EXCEPT !.at = "work", !.kind = "run", !.planned = Deployed, !.todo = Decisions]
    BY <1>1, MovesAlone DEF StartRun
  <2>2. call'[c].at = "work" /\ call'[c].kind = "run" /\ call'[c].about = {}  /\ call'[c].todo = Decisions
    BY <2>1 DEF Idle
  <2>3. Orderly(c)'  BY <1>1, <2>2, <1>c, <1>d DEF Orderly, StartRun
  <2> QED  BY <1>1, <2>3, <1>b, <1>e DEF StartRun, At, Carriers
<1>2. ASSUME NEW c \in Callers, EndRun(c) PROVE Booking'
  BY <1>2, <1>b, <1>f DEF EndRun, At, Carriers
<1>3. ASSUME NEW c \in Callers, Refuse(c) PROVE Booking'
  <2>1. call[c].at \notin Carriers /\ UNCHANGED <<audit, orders>>  BY <1>3 DEF Refuse, At, Carriers
  <2>2. CASE Done(c)  BY <2>1, <2>2, <1>g DEF Brings
  <2>3. ASSUME NEW risk \in {"rejected", "approved"},
               To(c, [Outcome(c, risk, NoOrder) EXCEPT !.at = Known(c)])
        PROVE  Booking'
    <3>3. call'[c] = [Outcome(c, risk, NoOrder) EXCEPT !.at = Known(c)]  BY <2>3, MovesAlone
    <3>1. /\ call'[c].about = call[c].about /\ call'[c].kind = call[c].kind
          /\ call'[c].todo = call[c].todo /\ call'[c].at = Known(c)
      BY <3>3, AfterOutcome
    <3>2. Orderly(c)'  BY <2>1, <3>1, <1>a, KnownPhase DEF Orderly
    <3> QED  BY <2>1, <3>2, <1>b, <1>e
  <2> QED  BY <1>3, <2>2, <2>3 DEF Refuse
<1>4. ASSUME NEW c \in Callers, ConfirmRun(c) PROVE Booking'
  <2>1. PICK todo \in SUBSET Waiting : To(c, [Idle EXCEPT !.at = "next", !.todo = todo])
    BY <1>4 DEF ConfirmRun
  <2>2. call'[c] = [Idle EXCEPT !.at = "next", !.todo = todo]  BY <2>1, MovesAlone
  <2>3. call'[c].about = {} /\ call'[c].kind = "user" /\ call'[c].at = "next"
    BY <2>2 DEF Idle
  <2>4. Orderly(c)'  BY <2>3 DEF Orderly
  <2> QED  BY <1>4, <2>4, <1>b, <1>e DEF ConfirmRun, At, Carriers
<1>5. ASSUME NEW c \in Callers, NextOfRun(c) PROVE Booking'
  <2>1. call[c].at \notin Carriers /\ UNCHANGED <<audit, orders>> /\ call[c].at = "next"
    BY <1>5 DEF NextOfRun, At, Carriers
  <2>2. CASE To(c, Idle)  BY <2>1, <2>2, <1>b, <1>f
  <2>3. ASSUME NEW d \in call[c].todo, Orderable(audit[d]), To(c, [Confirmed(c, d) EXCEPT !.todo = @ \ {d}])
        PROVE  Booking'
    <3>1. Confirmed(c, d).todo = call[c].todo  BY <1>a, ConfirmedFields
    <3>2. call'[c] = [Confirmed(c, d) EXCEPT !.todo = call[c].todo \ {d}]
      BY <2>3, <3>1, MovesAlone
    <3>3. /\ call'[c].about = {d} /\ call'[c].kind = call[c].kind /\ call'[c].at \in {"submit", "update"}
          /\ call'[c].todo = call[c].todo \ {d}
      BY <3>2, <1>a, ConfirmedFields
    <3>4. d \in Decisions /\ audit[d].order = {}  BY <2>3, <1>a DEF Orderable, NoOrder, Calls
    <3> QED  BY <2>1, <3>3, <3>4, <1>h
  <2>4. ASSUME NEW d \in call[c].todo, ~Orderable(audit[d]), To(c, [call[c] EXCEPT !.todo = @ \ {d}])
        PROVE  Booking'
    <3>1. call'[c] = [call[c] EXCEPT !.todo = @ \ {d}]  BY <2>4, MovesAlone
    <3>2. /\ call'[c].about = call[c].about /\ call'[c].kind = call[c].kind /\ call'[c].at = "next"
          /\ call'[c].todo = call[c].todo \ {d}
      BY <2>1, <3>1, <1>a DEF Calls
    <3>3. Orderly(c)'  BY <2>1, <3>2, <1>a DEF Orderly
    <3> QED  BY <2>1, <3>3, <1>b, <1>e
  <2> QED  BY <1>5, <2>2, <2>3, <2>4 DEF NextOfRun
<1>6. ASSUME NEW c \in Callers, Settle(c) PROVE Booking'
  <2>1. call'[c] = [Idle EXCEPT !.at = "settle", !.order = {o \in OrderIds : orders[o] = "pending"}]
    BY <1>6, MovesAlone DEF Settle
  <2>2. call'[c].about = {} /\ call'[c].kind = "user" /\ call'[c].at = "settle"
    BY <2>1 DEF Idle
  <2>3. Orderly(c)'  BY <2>2 DEF Orderly
  <2> QED  BY <1>6, <2>3, <1>b, <1>e DEF Settle, At, Carriers
<1>7. ASSUME NEW c \in Callers, SettleNext(c) PROVE Booking'
  <2>1. call[c].at \notin Carriers /\ UNCHANGED audit /\ call[c].at = "settle"
    BY <1>7 DEF SettleNext, At, Carriers
  <2>2. \A o \in OrderIds : Alive(o)' => Alive(o)
    BY <1>7, <1>a, <1>b DEF SettleNext, Alive, Calls
  <2>3. CASE To(c, Idle)  BY <2>1, <2>2, <2>3, <1>f
  <2>4. ASSUME NEW o \in call[c].order, To(c, [call[c] EXCEPT !.order = @ \ {o}]) PROVE Booking'
    <3>1. call'[c] = [call[c] EXCEPT !.order = @ \ {o}]  BY <2>4, MovesAlone
    <3>2. /\ call'[c].about = call[c].about /\ call'[c].kind = call[c].kind /\ call'[c].at = "settle"
          /\ call'[c].todo = call[c].todo
      BY <2>1, <3>1, <1>a DEF Calls
    <3>3. Orderly(c)'  BY <2>1, <3>2, <1>a DEF Orderly
    <3> QED  BY <2>1, <2>2, <3>3, <1>e
  <2> QED  BY <1>7, <2>3, <2>4 DEF SettleNext
<1>8. ASSUME NEW c \in Callers, Crash(c) PROVE Booking'
  BY <1>8, <1>a DEF Crash
<1>9. ASSUME NEW c \in Callers, NEW d \in Decisions, NEW approved \in BOOLEAN,
             NEW proposed \in BOOLEAN, Propose(c, d, approved, proposed)
      PROVE  Booking'
  <2>1. /\ call[c].at = "work" /\ d \in call[c].todo /\ UNCHANGED orders /\ call[c].kind = "run"
    BY <1>9, <1>a DEF Propose, At, Carrying
  <2>2. audit[d].order = {}  BY <2>1, <1>a DEF Orderly
  <2>3. /\ call'[c].kind = "run" /\ call'[c].todo = call[c].todo \ {d}
        /\ call'[c].about \in {{}, {d}} /\ call'[c].at \in {"work", "submit", "update"}
    BY <1>9, <2>1, AfterPropose
  <2>4. audit'[d].order = {} /\ \A e \in Decisions : e # d => audit'[e] = audit[e]
    BY <1>9, <1>a DEF Propose, Add, NoOrder
  <2>5. Orderly(c)'  BY <2>1, <2>3, <2>4, <1>a DEF Orderly, Calls
  <2>6. \A k \in Callers : k = c  BY DEF OneCaller
  <2>7. (\A k \in Callers : Orderly(k))'  BY <2>5, <2>6
  <2>8. Named'
    <3> SUFFICES ASSUME NEW o \in OrderIds, Alive(o)' PROVE o \in audit'[o.decision].order
      BY DEF Named
    <3>1. o \in audit[o.decision].order
      BY <2>1, <2>6 DEF Booking, Named, Alive, Brings, Carriers
    <3> QED  BY <2>2, <2>4, <3>1 DEF OrderIds
  <2> QED  BY <2>7, <2>8 DEF Booking
<1>10. ASSUME NEW c \in Callers, NEW d \in Decisions, Decide(c, d) PROVE Booking'
  <2>1. /\ call[c].at = "work" /\ d \in call[c].todo /\ UNCHANGED <<audit, orders>> /\ call[c].kind = "run"
    BY <1>10, <1>a DEF Decide, At, Carrying
  <2> DEFINE next == [call[c] EXCEPT !.about = {d}, !.todo = @ \ {d}, !.order = NoOrder,
                         !.at = IF Mode = "auto" /\ WithinLimit THEN "submit" ELSE "add",
                         !.risk = IF Mode = "auto" THEN "rejected" ELSE "approved"]
  <2>2. /\ next.kind = call[c].kind /\ next.todo = call[c].todo \ {d}
        /\ next.about = {d} /\ next.at \in {"submit", "add"}
    BY <1>a DEF Calls
  <2>3. To(c, next)  BY <1>10 DEF Decide
  <2> HIDE DEF next
  <2>4. call'[c] = next  BY <2>3, MovesAlone
  <2>5. audit[d].order = {} /\ call[c].at \notin Carriers  BY <2>1, <1>a DEF Orderly, Carriers
  <2> QED  BY <2>1, <2>2, <2>4, <2>5, <1>h
<1>11. ASSUME NEW c \in Callers, NEW d \in Decisions, AddDecision(c, d) PROVE Booking'
  <2>1. PICK rewritten : /\ rewritten.order = call[c].order
                         /\ rewritten = [NoAudit EXCEPT !.there = TRUE, !.risk = call[c].risk, !.order = call[c].order]
    BY DEF NoAudit
  <2>2. Add(d, rewritten) /\ Done(c) /\ d \in call[c].about /\ UNCHANGED orders /\ call[c].at = "add"
    BY <1>11, <2>1 DEF AddDecision, At
  <2>3. call[c].kind # "reject"  BY <2>2, <1>a DEF Carrying
  <2> QED  BY <2>1, <2>2, <2>3, WritesTheOrder
<1>12. ASSUME NEW c \in Callers, NEW d \in Decisions, CreateOrder(c, d) PROVE Booking'
  <2> DEFINE o == IdOf(c, d)
  <2> DEFINE risk == IF orders[o] \in {"cancelled", "rejected"} THEN "rejected" ELSE "approved"
             phase == IF Execution = "external" THEN "broker"
                      ELSE IF FillsAtOnce(c) /\ orders[o] \in {"none", "pending"} THEN "fill" ELSE Known(c)
  <2>a. To(c, [Outcome(c, risk, {o}) EXCEPT !.at = phase])
    BY <1>12 DEF CreateOrder
  <2>b. phase \in {"broker", "fill", Known(c)} /\ (phase = "fill" => orders[o] \in {"none", "pending"})
    BY KnownPhase
  <2> HIDE DEF risk, phase
  <2>1. /\ To(c, [Outcome(c, risk, {o}) EXCEPT !.at = phase]) /\ phase \in {"broker", "fill", Known(c)}
        /\ phase = "fill" => orders[o] \in {"none", "pending"}
    BY <2>a, <2>b
  <2>c. call'[c] = [Outcome(c, risk, {o}) EXCEPT !.at = phase]  BY <2>1, MovesAlone
  <2>2. /\ call'[c].about = call[c].about /\ call'[c].kind = call[c].kind
        /\ call'[c].todo = call[c].todo /\ call'[c].at = phase /\ call'[c].order = {o}
    BY <2>c, AfterOutcome
  <2>3. /\ call[c].at = "submit" /\ d \in call[c].about /\ o \in OrderIds /\ UNCHANGED audit
        /\ orders' = [orders EXCEPT ![o] = IF @ = "none" THEN "pending" ELSE @]
    BY <1>12 DEF CreateOrder, At
  <2>4. call[c].kind # "reject"  BY <2>3, <1>a DEF Carrying
  <2>5. o.decision = d  BY DEF IdOf, FreshId
  <2> HIDE DEF o
  <2>6. /\ orders'[o] = IF orders[o] = "none" THEN "pending" ELSE orders[o]
        /\ \A p \in OrderIds : p # o => orders'[p] = orders[p]
    BY <2>3, <1>a
  <2>7. Orderly(c)'  BY <2>1, <2>2, <2>3, <2>6, <1>a DEF Orderly
  <2>8. \A k \in Callers : k = c  BY DEF OneCaller
  <2>9. (\A k \in Callers : Orderly(k))'  BY <2>7, <2>8
  <2>10. Named'
    <3> SUFFICES ASSUME NEW p \in OrderIds, Alive(p)'
                 PROVE  p \in audit[p.decision].order \/ Brings(call'[c], p)
      BY <2>3 DEF Named
    <3>1. CASE p = o
      <4>1. phase \in Carriers  BY <2>1, KnownPhase DEF Carriers
      <4>2. d \in call'[c].about /\ call'[c].kind # "reject" /\ p \in call'[c].order /\ p.decision = d
        BY <2>2, <2>3, <2>4, <2>5, <3>1
      <4> QED  BY <2>2, <4>1, <4>2 DEF Brings
    <3>2. CASE p # o
      <4>1. Alive(p)  BY <2>6, <3>2 DEF Alive
      <4>2. ~Brings(call[c], p)  BY <2>3 DEF Brings, Carriers
      <4> QED  BY <4>1, <4>2, <2>8 DEF Booking, Named
    <3> QED  BY <3>1, <3>2
  <2> QED  BY <2>9, <2>10 DEF Booking
<1>13. ASSUME NEW c \in Callers, NEW d \in Decisions, SubmitLive(c, d) PROVE Booking'
  <2>1. call[c].at \notin Carriers /\ UNCHANGED <<audit, orders>>
    BY <1>13 DEF SubmitLive, At, Carriers
  <2>2. PICK risk, order : To(c, [Outcome(c, risk, order) EXCEPT !.at = Known(c)])
    BY <1>13 DEF SubmitLive
  <2>5. call'[c] = [Outcome(c, risk, order) EXCEPT !.at = Known(c)]  BY <2>2, MovesAlone
  <2>3. /\ call'[c].about = call[c].about /\ call'[c].kind = call[c].kind
        /\ call'[c].todo = call[c].todo /\ call'[c].at = Known(c)
    BY <2>5, AfterOutcome
  <2>4. Orderly(c)'  BY <2>1, <2>3, <1>a, KnownPhase DEF Orderly
  <2> QED  BY <2>1, <2>4, <1>b, <1>e
<1>14. ASSUME NEW c \in Callers, NEW d \in Decisions, Update(c, d) PROVE Booking'
  <2>1. call'[c] = [call[c] EXCEPT !.at = "write", !.row = audit[d]] /\ UNCHANGED <<audit, orders>>
    BY <1>14, MovesAlone DEF Update
  <2>2. /\ call'[c].about = call[c].about /\ call'[c].kind = call[c].kind /\ call'[c].at = "write"
        /\ call'[c].todo = call[c].todo /\ call'[c].order = call[c].order
    BY <2>1, <1>a DEF Calls
  <2>3. Orderly(c)'  BY <2>1, <2>2, <1>a DEF Orderly
  <2>4. \A o : Brings(call[c], o) => Brings(call'[c], o)  BY <2>2 DEF Brings, Carriers
  <2> QED  BY <2>1, <2>3, <2>4, <1>b, StaysBooked
<1>15. ASSUME NEW c \in Callers, NEW d \in Decisions, Write(c, d) PROVE Booking'
  <2>1. d \in call[c].about /\ Add(d, Written(c)) /\ Done(c) /\ UNCHANGED orders /\ call[c].at = "write"
    BY <1>15 DEF Write, At
  <2>2. call[c].row \in Audits /\ call[c].row = audit[d]
    BY <2>1, <1>a DEF Calls, Carrying
  <2>3. call[c].kind # "reject" => call[c].row.order = {}  BY <2>1, <2>2, <1>a DEF Orderly
  <2>4. call[c].kind # "reject" => Written(c).order = call[c].order
    BY <2>2, <2>3 DEF Written, Audits, NoOrder
  <2>5. call[c].kind = "reject" => Written(c).order = audit[d].order
    BY <2>2 DEF Written, Audits
  <2> QED  BY <2>1, <2>4, <2>5, WritesTheOrder
<1>16. ASSUME NEW c \in Callers, NEW d \in Decisions, Confirm(c, d) PROVE Booking'
  <2>1. /\ call[c].at = "idle" /\ call' = [call EXCEPT ![c] = Confirmed(c, d)] /\ Orderable(audit[d])
        /\ UNCHANGED <<audit, orders>>
    BY <1>16 DEF Confirm, At
  <2>2. call'[c] = Confirmed(c, d)  BY <2>1 DEF Typed
  <2>3. /\ call'[c].about = {d} /\ call'[c].kind = call[c].kind /\ call'[c].at \in {"submit", "update"}
        /\ call'[c].todo = call[c].todo
    BY <2>2, <1>a, ConfirmedFields
  <2> QED  BY <2>1, <2>3, <1>h DEF Orderable, NoOrder, Carriers
<1>17. ASSUME NEW c \in Callers, NEW d \in Decisions, Reject(c, d) PROVE Booking'
  <2>1. call'[c] = [Idle EXCEPT !.at = "update", !.kind = "reject", !.about = {d}]
    BY <1>17, MovesAlone DEF Reject
  <2>2. call'[c].kind = "reject" /\ call'[c].at = "update"  BY <2>1 DEF Idle
  <2>3. Orderly(c)'  BY <2>2 DEF Orderly
  <2> QED  BY <1>17, <2>3, <1>b, <1>e DEF Reject, At, Carriers
<1>18. ASSUME NEW c \in Callers, NEW o \in OrderIds, SubmitToBroker(c, o) \/ Fill(c, o) PROVE Booking'
  <2>1. PICK next \in {[call[c] EXCEPT !.at = Known(c)],
                      [call[c] EXCEPT !.at = Known(c), !.risk = "rejected"]}
                  \cup {[call[c] EXCEPT !.at = Known(c), !.risk = IF s = "filled" THEN @ ELSE s] :
                          s \in {"filled", "rejected"}} : To(c, next)
    BY <1>18 DEF SubmitToBroker, Fill, Goes
  <2>2. call'[c] = next  BY <2>1, MovesAlone
  <2>3. /\ call'[c].about = call[c].about /\ call'[c].kind = call[c].kind /\ call'[c].order = call[c].order
        /\ call'[c].todo = call[c].todo /\ call'[c].at = Known(c)
    BY <2>2, <1>a DEF Calls
  <2>4. \A p \in OrderIds : Alive(p)' => Alive(p)
    BY <1>18, <1>a DEF SubmitToBroker, Fill, Alive
  <2>5. UNCHANGED audit  BY <1>18 DEF SubmitToBroker, Fill
  <2>6. Orderly(c)'  BY <2>3, <2>5, <1>a, KnownPhase DEF Orderly
  <2>7. \A p : Brings(call[c], p) => Brings(call'[c], p)  BY <2>3, KnownPhase DEF Brings, Carriers
  <2> QED  BY <2>4, <2>5, <2>6, <2>7, StaysBooked
<1>19. ASSUME NEW c \in Callers, NEW o \in OrderIds, FillRaises(c, o) PROVE Booking'
  <2>1. call[c].at = "fill" /\ o \in call[c].order /\ orders[o] # "pending" /\ UNCHANGED <<audit, orders>>
    BY <1>19 DEF FillRaises, At
  <2>2. \A p \in OrderIds : Brings(call[c], p) => ~Alive(p)
    BY <2>1, <1>a DEF Orderly, Brings, Alive
  <2>3. CASE Done(c)  BY <2>1, <2>2, <2>3, <1>g
  <2>4. CASE To(c, [Outcome(c, "rejected", NoOrder) EXCEPT !.at = "update"])
    <3>3. call'[c] = [Outcome(c, "rejected", NoOrder) EXCEPT !.at = "update"]  BY <2>4, MovesAlone
    <3>1. /\ call'[c].about = call[c].about /\ call'[c].kind = call[c].kind
          /\ call'[c].todo = call[c].todo /\ call'[c].at = "update"
      BY <3>3, AfterOutcome
    <3>2. Orderly(c)'  BY <2>1, <3>1, <1>a DEF Orderly
    <3> QED  BY <2>1, <2>2, <3>2, <1>b, StaysBooked
  <2> QED  BY <1>19, <2>3, <2>4 DEF FillRaises
<1>20. ASSUME NEW o \in OrderIds, CancelOrder(o) PROVE Booking'
  <2>1. UNCHANGED <<audit, call>> /\ orders' = [orders EXCEPT ![o] = "cancelled"]
    BY <1>20 DEF CancelOrder
  <2>2. \A p \in OrderIds : orders'[p] \in {orders[p], "cancelled"}  BY <2>1, <1>a
  <2>3. (\A c \in Callers : Orderly(c))'
    BY <2>1, <2>2, <1>a DEF Orderly, Calls
  <2>4. Named'  BY <2>1, <2>2 DEF Booking, Named, Alive
  <2> QED  BY <2>3, <2>4 DEF Booking
<1>21. CASE DayEnds \/ UNCHANGED vars
  BY <1>21 DEF DayEnds, vars, Booking, Named, Alive, Orderly
<1> QED  BY <1>1, <1>2, <1>3, <1>4, <1>5, <1>6, <1>7, <1>8, <1>9, <1>10, <1>11, <1>12, <1>13,
            <1>14, <1>15, <1>16, <1>17, <1>18, <1>19, <1>20, <1>21 DEF Next

LEMMA NothingBookedYet == Init => Sending /\ Booking
<1> SUFFICES ASSUME Init PROVE Sending /\ Booking
  OBVIOUS
<1>1. \A c \in Callers : call[c] = Idle /\ Carrying(c)  BY DEF Init, Carrying, Idle
<1>2. Accounted  BY DEF Init, Accounted
<1>3. Untouched  BY <1>1 DEF Init, Untouched, Idle
<1>4. \A c \in Callers : Orderly(c)  BY <1>1 DEF Orderly, Idle
<1>5. Named  BY DEF Init, Named, Alive
<1> QED  BY <1>1, <1>2, <1>3, <1>4, <1>5 DEF Sending, Booking

\* As long as calls take turns and none is cut short, an order that is open or
\* filled is named by its decision, or will be by the call that created it,
\* however the automation is set up (automation.py, create_order and
\* update_decision).
THEOREM OrderIsRecordedHolds ==
    ASSUME AutomationOrderAssumption, OneCaller, Limit["crashes"] = 0
    PROVE  Spec => []OrderIsRecorded
<1>1. Init => Sending /\ Booking  BY NothingBookedYet
<1>2. Typed /\ Typed' /\ Sending /\ Booking /\ [Next]_vars => Sending' /\ Booking'
  BY StepKeepsSending, StepKeepsBooking
<1>3. Booking => OrderIsRecorded  BY DEF Booking, Named, Brings, OrderIsRecorded
<1> QED  BY <1>1, <1>2, <1>3, TypeCorrect, PTL DEF Spec
-----------------------------------------------------------------------------
(***************************************************************************)
(* The limit of a run that orders by itself.  It counts the orders of its   *)
(* proposals, one as soon as it was filled; a proposal that the run has     *)
(* dealt with has an order or is rejected, so that no user orders for it.   *)
(***************************************************************************)
WithOrder == {d \in Decisions : audit[d].proposed /\ \E o \in OrderIds : o.decision = d /\ Alive(o)}
Works(k, d) == k.kind = "run" /\ k.at \in {"submit", "broker", "fill", "update", "write"} /\ d \in k.about
Fills(k) == k.kind = "run" /\ k.at = "fill"
BeingFilled == {d \in Decisions : \E c \in Callers : Fills(call[c]) /\ d \in call[c].about}
Restrained(c) ==
    /\ call[c].kind = "run" =>
          /\ call[c].planned
          /\ call[c].at \in {"submit", "fill"} => made < MaxOrders
          /\ call[c].at \in {"broker", "fill", "update", "write"} => call[c].order # {} \/ call[c].risk = "rejected"
    /\ call[c].at # "add"
    /\ call[c].kind = "user" => \A d \in call[c].about : ~audit[d].proposed
DealtWith == \A d \in Decisions : audit[d].proposed =>
    audit[d].order # {} \/ audit[d].risk = "rejected" \/ \E c \in Callers : Works(call[c], d)
Limiting ==
    /\ IsFiniteSet(WithOrder) /\ made <= MaxOrders /\ Cardinality(WithOrder \ BeingFilled) <= made
    /\ DealtWith /\ \A c \in Callers : Restrained(c)

LEMMA OneMore ==
    ASSUME NEW A, IsFiniteSet(A), NEW n \in Nat, Cardinality(A) <= n
    PROVE  /\ \A B : B \subseteq A => IsFiniteSet(B) /\ Cardinality(B) <= n
           /\ \A B, d : B \subseteq A \cup {d} => IsFiniteSet(B) /\ Cardinality(B) <= n + 1
<1>1. ASSUME NEW B, NEW C, IsFiniteSet(C), NEW m \in Nat, Cardinality(C) <= m, B \subseteq C
      PROVE  IsFiniteSet(B) /\ Cardinality(B) <= m
  <2>1. IsFiniteSet(B) /\ Cardinality(B) <= Cardinality(C)  BY <1>1, FS_Subset
  <2>2. Cardinality(B) \in Nat /\ Cardinality(C) \in Nat  BY <1>1, <2>1, FS_CardinalityType
  <2> QED  BY <1>1, <2>1, <2>2
<1>2. ASSUME NEW d PROVE IsFiniteSet(A \cup {d}) /\ Cardinality(A \cup {d}) <= n + 1
  <2>1. Cardinality(A) \in Nat  BY FS_CardinalityType
  <2>2. IsFiniteSet(A \cup {d}) /\ Cardinality(A \cup {d}) = IF d \in A THEN Cardinality(A) ELSE Cardinality(A) + 1
    BY FS_AddElement
  <2>3. \A x, y \in Nat : x <= y => x <= y + 1 /\ x + 1 <= y + 1  OBVIOUS
  <2> QED  BY <2>1, <2>2, <2>3
<1>3. n + 1 \in Nat  OBVIOUS
<1> QED  BY <1>1, <1>2, <1>3

\* A step that writes no row, counts nothing and opens no order.
LEMMA StaysLimited ==
    ASSUME Typed, Limiting, OneCaller, NEW c \in Callers, UNCHANGED <<audit, made>>, Restrained(c)',
           \A o \in OrderIds : Alive(o)' => Alive(o), ~Fills(call[c]), ~Fills(call'[c]),
           \A d \in Decisions : Works(call[c], d) => Works(call'[c], d)
    PROVE  Limiting'
<1>1. \A k \in Callers : k = c  BY DEF OneCaller
<1>2. (\A k \in Callers : Restrained(k))'  BY <1>1
<1>3. DealtWith'  BY <1>1 DEF Limiting, DealtWith, Works
<1>4. BeingFilled = {} /\ BeingFilled' = {}  BY <1>1 DEF BeingFilled, Fills
<1>5. WithOrder' \subseteq WithOrder  BY DEF WithOrder
<1>6. made \in Nat /\ IsFiniteSet(WithOrder) /\ WithOrder \ BeingFilled = WithOrder /\ Cardinality(WithOrder) <= made
  BY <1>4 DEF Typed, TypeOK, Limiting
<1>7. IsFiniteSet(WithOrder') /\ Cardinality(WithOrder') <= made  BY <1>5, <1>6, OneMore
<1>8. (WithOrder \ BeingFilled)' = WithOrder'  BY <1>4
<1> QED  BY <1>2, <1>3, <1>7, <1>8 DEF Limiting

\* A call that records what became of its order.
LEMMA WritesWhatBecame ==
    ASSUME Typed, Limiting, Sending, OneCaller, NEW c \in Callers, NEW d \in call[c].about, NEW rewritten,
           Add(d, rewritten), Done(c), UNCHANGED <<orders, made>>, call[c].at # "fill",
           rewritten.proposed = audit[d].proposed,
           \/ call[c].kind # "run" /\ (audit[d].proposed => rewritten.order = audit[d].order /\ rewritten.risk = audit[d].risk)
           \/ rewritten.order # {} \/ rewritten.risk = "rejected"
    PROVE  Limiting'
<1>1. \A k \in Callers : k = c  BY DEF OneCaller
<1>2. d \in Decisions /\ \A e \in call[c].about : e = d  BY DEF Sending, Carrying, Typed, Calls
<1>3. audit'[d] = rewritten /\ \A e \in Decisions : e # d => audit'[e] = audit[e]
  BY <1>2 DEF Add, Typed, TypeOK
<1>4. /\ call'[c].about = {} /\ call'[c].kind = call[c].kind /\ call'[c].planned = call[c].planned
      /\ call'[c].at \in {"work", "next"}
  BY AfterDone
<1>5. Restrained(c)'  BY <1>4 DEF Limiting, Restrained
<1>6. (\A k \in Callers : Restrained(k))'  BY <1>1, <1>5
<1>7. DealtWith'
  <2> SUFFICES ASSUME NEW e \in Decisions, audit'[e].proposed
               PROVE  audit'[e].order # {} \/ audit'[e].risk = "rejected"
    BY DEF DealtWith
  <2>1. audit[e].proposed  BY <1>3
  <2>2. audit[e].order # {} \/ audit[e].risk = "rejected" \/ Works(call[c], e)
    BY <1>1, <2>1 DEF Limiting, DealtWith
  <2>3. CASE e = d  BY <1>3, <2>1, <2>2, <2>3 DEF Works
  <2>4. CASE e # d  BY <1>2, <1>3, <2>2, <2>4 DEF Works
  <2> QED  BY <2>3, <2>4
<1>8. BeingFilled = {} /\ BeingFilled' = {}  BY <1>1, <1>4 DEF BeingFilled, Fills
<1>9. WithOrder' = WithOrder  BY <1>3 DEF WithOrder, Alive
<1> QED  BY <1>6, <1>7, <1>8, <1>9 DEF Limiting

LEMMA StepKeepsLimiting ==
    ASSUME AutomationOrderAssumption, Deployed, Mode = "auto", OneCaller, Limit["crashes"] = 0,
           Typed, Typed', Sending, Booking, Limiting, [Next]_vars
    PROVE  Limiting'
<1> USE DEF Env, Spend
<1>a. /\ \A c \in Callers : call[c] \in Calls /\ Carrying(c) /\ Orderly(c) /\ Restrained(c)
      /\ audit \in [Decisions -> Audits] /\ orders \in [OrderIds -> OrderStatuses]
      /\ made \in Nat /\ MaxOrders \in Nat /\ Execution = "paper"
      /\ used \in [requests : Nat, settlements : Nat, crashes : Nat]
  BY DEF Typed, TypeOK, Sending, Booking, Limiting, AutomationOrderAssumption
<1>b. UNCHANGED orders => \A o \in OrderIds : Alive(o)' => Alive(o)  BY DEF Alive
<1>c. \A c, k \in Callers : k = c  BY DEF OneCaller
<1>d. IsFiniteSet(WithOrder) /\ made <= MaxOrders /\ DealtWith  BY DEF Limiting
\* A run that is not at a decision, or a call that is not the run.
<1>e. ASSUME NEW c \in Callers, UNCHANGED <<audit, made>>, \A o \in OrderIds : Alive(o)' => Alive(o),
             call[c].kind = "run" => call[c].at \in {"work", "idle", "next", "settle"},
             call'[c].at # "fill", Restrained(c)'
      PROVE  Limiting'
  BY <1>e, StaysLimited DEF Works, Fills
<1>f. ASSUME NEW c \in Callers, To(c, Idle), UNCHANGED <<audit, made>>,
             \A o \in OrderIds : Alive(o)' => Alive(o), call[c].at \in {"work", "idle", "next", "settle"}
      PROVE  Limiting'
  <2>1. call'[c] = Idle  BY <1>f, MovesAlone
  <2>2. call'[c].at = "idle" /\ Restrained(c)'  BY <2>1 DEF Restrained, Idle
  <2> QED  BY <1>f, <2>2, <1>e
\* What a user may order for is no proposal.
<1>g. ASSUME NEW c \in Callers, NEW d \in Decisions, call[c].at \in Resting, Orderable(audit[d])
      PROVE  ~audit[d].proposed
  BY <1>g, <1>c, <1>d DEF DealtWith, Works, Resting, Orderable, NoOrder
<1>h. ASSUME NEW c \in Callers, NEW d \in Decisions, call[c].at \in Resting, Orderable(audit[d]),
             UNCHANGED <<audit, made, orders>>, call'[c].about = {d}, call'[c].kind = call[c].kind,
             call'[c].at \in {"submit", "update"}
      PROVE  Limiting'
  <2>1. ~audit[d].proposed  BY <1>g, <1>h
  <2>2. call[c].kind # "run"  BY <1>a, <1>h DEF Carrying
  <2>3. Restrained(c)'  BY <1>h, <2>1, <2>2 DEF Restrained
  <2> QED  BY <1>h, <2>2, <2>3, <1>b, <1>e
<1>1. ASSUME NEW c \in Callers, StartRun(c) PROVE Limiting'
  <2>1. call'[c] = [Idle EXCEPT !.at = "work", !.kind = "run", !.planned = Deployed, !.todo = Decisions]
    BY <1>1, MovesAlone DEF StartRun
  <2>2. call'[c].at = "work" /\ call'[c].kind = "run" /\ call'[c].planned = Deployed
    BY <2>1 DEF Idle
  <2>3. Restrained(c)'  BY <2>2 DEF Restrained
  <2>4. UNCHANGED <<audit, made, orders>> /\ call[c].at = "idle"  BY <1>1 DEF StartRun, At
  <2> QED  BY <2>2, <2>3, <2>4, <1>b, <1>e
<1>2. ASSUME NEW c \in Callers, EndRun(c) PROVE Limiting'
  BY <1>2, <1>b, <1>f DEF EndRun, At
<1>3. ASSUME NEW c \in Callers, Refuse(c) PROVE Limiting'
  <2>1. call[c].at = "submit" /\ UNCHANGED <<audit, made, orders>>  BY <1>3 DEF Refuse, At
  <2>2. CASE Done(c) /\ call[c].planned /\ call[c].kind = "user"
    <3>1. call'[c].about = {} /\ call'[c].kind = call[c].kind /\ call'[c].at = "next"
      BY <2>2, AfterDone
    <3>2. Restrained(c)'  BY <2>2, <3>1 DEF Restrained
    <3> QED  BY <2>1, <2>2, <3>1, <3>2, <1>b, <1>e
  <2>3. ASSUME NEW risk, To(c, [Outcome(c, risk, NoOrder) EXCEPT !.at = Known(c)]),
               call[c].planned => risk = "rejected"
        PROVE  Limiting'
    <3>1. call'[c] = [Outcome(c, risk, NoOrder) EXCEPT !.at = Known(c)]  BY <2>3, MovesAlone
    <3>2. /\ call'[c].about = call[c].about /\ call'[c].kind = call[c].kind /\ call'[c].risk = risk
          /\ call'[c].planned = call[c].planned /\ call'[c].at = Known(c)
      BY <3>1, AfterOutcome
    <3>3. Known(c) = "update"  BY DEF Known
    <3>4. Restrained(c)'  BY <2>1, <2>3, <3>2, <3>3, <1>a DEF Restrained
    <3>5. \A e \in Decisions : Works(call[c], e) => Works(call'[c], e)  BY <3>2, <3>3 DEF Works
    <3> QED  BY <2>1, <3>2, <3>3, <3>4, <3>5, <1>b, StaysLimited DEF Fills
  <2> QED  BY <1>3, <2>2, <2>3 DEF Refuse
<1>4. ASSUME NEW c \in Callers, ConfirmRun(c) PROVE Limiting'
  <2>1. PICK todo \in SUBSET Waiting : To(c, [Idle EXCEPT !.at = "next", !.todo = todo])
    BY <1>4 DEF ConfirmRun
  <2>2. call'[c] = [Idle EXCEPT !.at = "next", !.todo = todo]  BY <2>1, MovesAlone
  <2>3. call'[c].about = {} /\ call'[c].kind = "user" /\ call'[c].at = "next"
    BY <2>2 DEF Idle
  <2>4. Restrained(c)'  BY <2>3 DEF Restrained
  <2>5. UNCHANGED <<audit, made, orders>> /\ call[c].at = "idle"  BY <1>4 DEF ConfirmRun, At
  <2> QED  BY <2>3, <2>4, <2>5, <1>b, <1>e
<1>5. ASSUME NEW c \in Callers, NextOfRun(c) PROVE Limiting'
  <2>1. UNCHANGED <<audit, made, orders>> /\ call[c].at = "next"
    BY <1>5 DEF NextOfRun, At
  <2>2. CASE To(c, Idle)  BY <2>1, <2>2, <1>b, <1>f
  <2>3. ASSUME NEW d \in call[c].todo, Orderable(audit[d]), To(c, [Confirmed(c, d) EXCEPT !.todo = @ \ {d}])
        PROVE  Limiting'
    <3>1. Confirmed(c, d).todo = call[c].todo  BY <1>a, ConfirmedFields
    <3>2. call'[c] = [Confirmed(c, d) EXCEPT !.todo = call[c].todo \ {d}]
      BY <2>3, <3>1, MovesAlone
    <3>3. call'[c].about = {d} /\ call'[c].kind = call[c].kind /\ call'[c].at \in {"submit", "update"}
      BY <3>2, <1>a, ConfirmedFields
    <3>4. d \in Decisions  BY <1>a DEF Calls
    <3> QED  BY <2>1, <2>3, <3>3, <3>4, <1>h DEF Resting
  <2>4. ASSUME NEW d \in call[c].todo, ~Orderable(audit[d]), To(c, [call[c] EXCEPT !.todo = @ \ {d}])
        PROVE  Limiting'
    <3>1. call'[c] = [call[c] EXCEPT !.todo = @ \ {d}]  BY <2>4, MovesAlone
    <3>2. /\ call'[c].about = call[c].about /\ call'[c].kind = call[c].kind /\ call'[c].at = "next"
          /\ call'[c].planned = call[c].planned
      BY <2>1, <3>1, <1>a DEF Calls
    <3>3. Restrained(c)'  BY <2>1, <3>2, <1>a DEF Restrained
    <3> QED  BY <2>1, <3>2, <3>3, <1>b, <1>e
  <2> QED  BY <1>5, <2>2, <2>3, <2>4 DEF NextOfRun
<1>6. ASSUME NEW c \in Callers, Settle(c) PROVE Limiting'
  <2>1. call'[c] = [Idle EXCEPT !.at = "settle", !.order = {o \in OrderIds : orders[o] = "pending"}]
    BY <1>6, MovesAlone DEF Settle
  <2>2. call'[c].about = {} /\ call'[c].kind = "user" /\ call'[c].at = "settle"
    BY <2>1 DEF Idle
  <2>3. Restrained(c)'  BY <2>2 DEF Restrained
  <2>4. UNCHANGED <<audit, made, orders>> /\ call[c].at = "idle"  BY <1>6 DEF Settle, At
  <2> QED  BY <2>2, <2>3, <2>4, <1>b, <1>e
<1>7. ASSUME NEW c \in Callers, SettleNext(c) PROVE Limiting'
  <2>1. UNCHANGED <<audit, made>> /\ call[c].at = "settle"
    BY <1>7 DEF SettleNext, At
  <2>2. \A o \in OrderIds : Alive(o)' => Alive(o)
    BY <1>7, <1>a, <1>b DEF SettleNext, Alive, Calls
  <2>3. CASE To(c, Idle)  BY <2>1, <2>2, <2>3, <1>f
  <2>4. ASSUME NEW o \in call[c].order, To(c, [call[c] EXCEPT !.order = @ \ {o}]) PROVE Limiting'
    <3>1. call'[c] = [call[c] EXCEPT !.order = @ \ {o}]  BY <2>4, MovesAlone
    <3>2. /\ call'[c].about = call[c].about /\ call'[c].kind = call[c].kind /\ call'[c].at = "settle"
          /\ call'[c].planned = call[c].planned
      BY <2>1, <3>1, <1>a DEF Calls
    <3>3. Restrained(c)'  BY <2>1, <3>2, <1>a DEF Restrained
    <3> QED  BY <2>1, <2>2, <3>2, <3>3, <1>e
  <2> QED  BY <1>7, <2>3, <2>4 DEF SettleNext
<1>8. ASSUME NEW c \in Callers, Crash(c) PROVE Limiting'
  BY <1>8, <1>a DEF Crash
<1>9. ASSUME NEW c \in Callers, NEW d \in Decisions, NEW approved \in BOOLEAN,
             NEW proposed \in BOOLEAN, Propose(c, d, approved, proposed)
      PROVE  Limiting'
  <2>1. /\ call[c].at = "work" /\ d \in call[c].todo /\ UNCHANGED <<orders, made>> /\ call[c].kind = "run"
    BY <1>9, <1>a DEF Propose, At, Carrying
  <2>2. audit[d].order = {}  BY <2>1, <1>a DEF Orderly
  <2>3. /\ call'[c].kind = "run" /\ call'[c].planned = call[c].planned
        /\ \/ call'[c].about = {} /\ call'[c].at = "work" /\ ~proposed
           \/ call'[c].about = {d} /\ call'[c].at = "submit" /\ WithinLimit
           \/ call'[c].about = {d} /\ call'[c].at = "update" /\ call'[c].risk = "rejected" /\ call'[c].order = {}
    BY <1>9, <2>1, AfterPropose
  <2>4. audit'[d].proposed = proposed /\ \A e \in Decisions : e # d => audit'[e] = audit[e]
    BY <1>9, <1>a DEF Propose, Add
  <2>5. Restrained(c)'  BY <2>1, <2>3, <1>a DEF Restrained, WithinLimit
  <2>6. (\A k \in Callers : Restrained(k))'  BY <2>5, <1>c
  <2>7. DealtWith'
    <3> SUFFICES ASSUME NEW e \in Decisions, audit'[e].proposed
                 PROVE  audit'[e].order # {} \/ audit'[e].risk = "rejected" \/ Works(call'[c], e)
      BY DEF DealtWith, Works
    <3>1. CASE e = d  BY <2>3, <2>4, <3>1 DEF Works
    <3>2. CASE e # d  BY <2>1, <2>4, <3>2, <1>c, <1>d DEF DealtWith, Works
    <3> QED  BY <3>1, <3>2
  <2>8. BeingFilled = {} /\ BeingFilled' = {}  BY <2>1, <2>3, <1>c DEF BeingFilled, Fills
  <2>9. \A o \in OrderIds : o.decision = d => ~Alive(o)
    BY <2>1, <2>2, <1>c DEF Booking, Named, Brings, Carriers
  <2>10. WithOrder' \subseteq WithOrder  BY <2>1, <2>4, <2>9 DEF WithOrder, Alive
  <2>11. WithOrder \ BeingFilled = WithOrder /\ (WithOrder \ BeingFilled)' = WithOrder'  BY <2>8
  <2>12. Cardinality(WithOrder) <= made  BY <2>11 DEF Limiting
  <2>13. IsFiniteSet(WithOrder') /\ Cardinality(WithOrder') <= made  BY <2>10, <2>12, <1>a, <1>d, OneMore
  <2> QED  BY <2>1, <2>6, <2>7, <2>11, <2>13, <1>d DEF Limiting
<1>10. ASSUME NEW c \in Callers, NEW d \in Decisions, Decide(c, d) \/ AddDecision(c, d) PROVE Limiting'
  BY <1>10, <1>a DEF Decide, AddDecision, At, Restrained
<1>11. ASSUME NEW c \in Callers, NEW d \in Decisions, CreateOrder(c, d) PROVE Limiting'
  <2> DEFINE o == IdOf(c, d)
             risk == IF orders[o] \in {"cancelled", "rejected"} THEN "rejected" ELSE "approved"
             phase == IF FillsAtOnce(c) /\ orders[o] \in {"none", "pending"} THEN "fill" ELSE Known(c)
  <2>1. /\ To(c, [Outcome(c, risk, {o}) EXCEPT !.at = phase])
        /\ call[c].at = "submit" /\ d \in call[c].about /\ o \in OrderIds /\ UNCHANGED audit
        /\ orders' = [orders EXCEPT ![o] = IF @ = "none" THEN "pending" ELSE @]
    BY <1>11, <1>a DEF CreateOrder, At
  <2>2. o.decision = d  BY DEF IdOf, FreshId
  <2>3. /\ phase \in {"fill", "update"}
        /\ IF phase = "fill" THEN UNCHANGED made ELSE Count(c)
    BY <1>11, <1>a DEF CreateOrder, Known
  <2> HIDE DEF o, risk, phase
  <2>4. call'[c] = [Outcome(c, risk, {o}) EXCEPT !.at = phase]  BY <2>1, MovesAlone
  <2>5. /\ call'[c].about = call[c].about /\ call'[c].kind = call[c].kind
        /\ call'[c].planned = call[c].planned /\ call'[c].at = phase /\ call'[c].order = {o}
    BY <2>4, AfterOutcome
  <2>6. call[c].kind # "reject" /\ \A e \in call[c].about : e = d
    BY <2>1, <1>a DEF Carrying
  <2>7. WithOrder' \subseteq WithOrder \cup {d} /\ (~audit[d].proposed => WithOrder' \subseteq WithOrder)
    <3>1. \A p \in OrderIds : p # o => orders'[p] = orders[p]  BY <2>1, <1>a
    <3>2. \A p \in OrderIds : p.decision # d => (Alive(p)' <=> Alive(p))  BY <2>2, <3>1 DEF Alive
    <3> QED  BY <2>1, <3>2 DEF WithOrder
  <2>8. DealtWith'
    <3>1. \A e \in Decisions : Works(call[c], e) => Works(call'[c], e)  BY <2>3, <2>5 DEF Works
    <3>2. ASSUME NEW e \in Decisions, audit'[e].proposed
          PROVE  audit'[e].order # {} \/ audit'[e].risk = "rejected" \/ Works(call'[c], e)
      BY <2>1, <3>1, <3>2, <1>c, <1>d DEF DealtWith
    <3> QED  BY <3>2 DEF DealtWith, Works
  <2>9. BeingFilled = {}  BY <2>1, <1>c DEF BeingFilled, Fills
  <2>10. WithOrder \ BeingFilled = WithOrder  BY <2>9
  <2>11. Cardinality(WithOrder) <= made  BY <2>10 DEF Limiting
  <2>12. CASE call[c].kind = "run" /\ phase = "fill"
    <3>1. made < MaxOrders /\ UNCHANGED made  BY <2>1, <2>3, <2>12, <1>a DEF Restrained
    <3>2. Restrained(c)'  BY <2>5, <2>6, <2>12, <3>1, <1>a DEF Restrained
    <3>3. (\A k \in Callers : Restrained(k))'  BY <3>2, <1>c
    <3>4. BeingFilled' = {d}
      BY <2>1, <2>5, <2>6, <2>12, <1>c DEF BeingFilled, Fills, Calls
    <3>5. (WithOrder \ BeingFilled)' \subseteq WithOrder  BY <2>7, <3>4
    <3>6. IsFiniteSet(WithOrder')  BY <2>7, <2>11, <1>a, <1>d, OneMore
    <3>7. Cardinality((WithOrder \ BeingFilled)') <= made  BY <2>11, <3>5, <1>a, <1>d, OneMore
    <3> QED  BY <2>8, <3>1, <3>3, <3>6, <3>7, <1>d DEF Limiting
  <2>13. CASE call[c].kind = "run" /\ phase # "fill"
    <3>1. made < MaxOrders /\ made' = made + 1  BY <2>1, <2>3, <2>13, <1>a DEF Restrained, Count
    <3>2. Restrained(c)'  BY <2>3, <2>5, <2>13, <1>a DEF Restrained
    <3>3. (\A k \in Callers : Restrained(k))'  BY <3>2, <1>c
    <3>4. BeingFilled' = {}  BY <2>5, <2>13, <1>c DEF BeingFilled, Fills
    <3>5. (WithOrder \ BeingFilled)' = WithOrder'  BY <3>4
    <3>6. IsFiniteSet(WithOrder') /\ Cardinality(WithOrder') <= made + 1  BY <2>7, <2>11, <1>a, <1>d, OneMore
    <3>7. made' <= MaxOrders  BY <3>1, <1>a
    <3> QED  BY <2>8, <3>1, <3>3, <3>5, <3>6, <3>7 DEF Limiting
  <2>14. CASE call[c].kind # "run"
    <3>1. call[c].kind = "user"  BY <2>6, <2>14, <1>a DEF Calls, Kinds
    <3>2. UNCHANGED made  BY <2>3, <2>14 DEF Count
    <3>3. ~audit[d].proposed  BY <2>1, <3>1, <1>a DEF Restrained
    <3>4. Restrained(c)'  BY <2>1, <2>3, <2>5, <2>6, <3>1, <3>3 DEF Restrained
    <3>5. (\A k \in Callers : Restrained(k))'  BY <3>4, <1>c
    <3>6. BeingFilled' = {}  BY <2>5, <2>14, <1>c DEF BeingFilled, Fills
    <3>7. (WithOrder \ BeingFilled)' = WithOrder'  BY <3>6
    <3>8. IsFiniteSet(WithOrder') /\ Cardinality(WithOrder') <= made  BY <2>7, <2>11, <3>3, <1>a, <1>d, OneMore
    <3> QED  BY <2>8, <3>2, <3>5, <3>7, <3>8, <1>d DEF Limiting
  <2> QED  BY <2>12, <2>13, <2>14
<1>12. ASSUME NEW c \in Callers, NEW d \in Decisions, SubmitLive(c, d) PROVE Limiting'
  BY <1>12, <1>a DEF SubmitLive
<1>13. ASSUME NEW c \in Callers, NEW d \in Decisions, Update(c, d) PROVE Limiting'
  <2>1. /\ call'[c] = [call[c] EXCEPT !.at = "write", !.row = audit[d]] /\ UNCHANGED <<audit, made, orders>>
        /\ call[c].at = "update"
    BY <1>13, MovesAlone DEF Update, At
  <2>2. /\ call'[c].about = call[c].about /\ call'[c].kind = call[c].kind /\ call'[c].at = "write"
        /\ call'[c].planned = call[c].planned /\ call'[c].order = call[c].order /\ call'[c].risk = call[c].risk
    BY <2>1, <1>a DEF Calls
  <2>3. Restrained(c)'  BY <2>1, <2>2, <1>a DEF Restrained
  <2>4. \A e \in Decisions : Works(call[c], e) => Works(call'[c], e)  BY <2>2 DEF Works
  <2> QED  BY <2>1, <2>2, <2>3, <2>4, <1>b, StaysLimited DEF Fills
<1>14. ASSUME NEW c \in Callers, NEW d \in Decisions, Write(c, d) PROVE Limiting'
  <2>1. /\ d \in call[c].about /\ Add(d, Written(c)) /\ Done(c) /\ UNCHANGED <<orders, made>>
        /\ call[c].at = "write"
    BY <1>14 DEF Write, At
  <2>2. call[c].row \in Audits /\ call[c].row = audit[d] /\ call[c].kind \in Kinds
    BY <2>1, <1>a DEF Calls, Carrying
  <2>3. Written(c).proposed = audit[d].proposed
    BY <2>2 DEF Written, Audits
  <2>4. CASE call[c].kind = "run"
    <3>1. call[c].order # {} \/ call[c].risk = "rejected"  BY <2>1, <2>4, <1>a DEF Restrained
    <3>2. Written(c).risk = call[c].risk  BY <2>2, <2>4 DEF Written, Audits
    <3>3. call[c].order # {} => Written(c).order = call[c].order  BY <2>2, <2>4 DEF Written, Audits, NoOrder
    <3> QED  BY <2>1, <2>3, <3>1, <3>2, <3>3, WritesWhatBecame
  <2>5. CASE call[c].kind = "reject"
    <3>1. Written(c).order = audit[d].order /\ Written(c).risk = audit[d].risk
      BY <2>2, <2>5 DEF Written, Audits
    <3> QED  BY <2>1, <2>3, <2>5, <3>1, WritesWhatBecame
  <2>6. CASE call[c].kind = "user"
    <3>1. ~audit[d].proposed  BY <2>1, <2>6, <1>a DEF Restrained
    <3> QED  BY <2>1, <2>3, <2>6, <3>1, WritesWhatBecame
  <2> QED  BY <2>2, <2>4, <2>5, <2>6 DEF Kinds
<1>15. ASSUME NEW c \in Callers, NEW d \in Decisions, Confirm(c, d) PROVE Limiting'
  <2>1. /\ call[c].at = "idle" /\ call' = [call EXCEPT ![c] = Confirmed(c, d)] /\ Orderable(audit[d])
        /\ UNCHANGED <<audit, made, orders>>
    BY <1>15 DEF Confirm, At
  <2>2. call'[c] = Confirmed(c, d)  BY <2>1 DEF Typed
  <2>3. call'[c].about = {d} /\ call'[c].kind = call[c].kind /\ call'[c].at \in {"submit", "update"}
    BY <2>2, <1>a, ConfirmedFields
  <2> QED  BY <2>1, <2>3, <1>h DEF Resting
<1>16. ASSUME NEW c \in Callers, NEW d \in Decisions, Reject(c, d) PROVE Limiting'
  <2>1. call'[c] = [Idle EXCEPT !.at = "update", !.kind = "reject", !.about = {d}]
    BY <1>16, MovesAlone DEF Reject
  <2>2. call'[c].kind = "reject" /\ call'[c].at = "update"  BY <2>1 DEF Idle
  <2>3. Restrained(c)'  BY <2>2 DEF Restrained
  <2>4. UNCHANGED <<audit, made, orders>> /\ call[c].at = "idle"  BY <1>16 DEF Reject, At
  <2> QED  BY <2>2, <2>3, <2>4, <1>b, <1>e
<1>17. ASSUME NEW c \in Callers, NEW o \in OrderIds, SubmitToBroker(c, o) PROVE Limiting'
  <2>1. PICK next \in {[call[c] EXCEPT !.at = Known(c)], [call[c] EXCEPT !.at = Known(c), !.risk = "rejected"]} :
            To(c, next)
    BY <1>17 DEF SubmitToBroker, Goes
  <2>2. call'[c] = next  BY <2>1, MovesAlone
  <2>3. /\ call'[c].about = call[c].about /\ call'[c].kind = call[c].kind /\ call'[c].order = call[c].order
        /\ call'[c].planned = call[c].planned /\ call'[c].at = "update" /\ call'[c].risk \in {call[c].risk, "rejected"}
    BY <2>2, <1>a DEF Calls, Known
  <2>4. \A p \in OrderIds : Alive(p)' => Alive(p)
    BY <1>17, <1>a DEF SubmitToBroker, Alive
  <2>5. UNCHANGED <<audit, made>> /\ call[c].at = "broker"  BY <1>17 DEF SubmitToBroker, At
  <2>6. Restrained(c)'  BY <2>3, <2>5, <1>a DEF Restrained
  <2>7. \A e \in Decisions : Works(call[c], e) => Works(call'[c], e)  BY <2>3 DEF Works
  <2> QED  BY <2>3, <2>4, <2>5, <2>6, <2>7, StaysLimited DEF Fills
\* What a run filled, or could not fill, is counted or no order.
<1>i. ASSUME NEW c \in Callers, call[c].at = "fill", call'[c].at = "update", call'[c].kind = call[c].kind,
             call'[c].about = call[c].about, Restrained(c)', UNCHANGED audit, \A o \in OrderIds : Alive(o)' => Alive(o),
             \/ Count(c)
             \/ UNCHANGED made /\ \A d \in call[c].about : d \notin WithOrder
      PROVE  Limiting'
  <2>1. (\A k \in Callers : Restrained(k))'  BY <1>i, <1>c
  <2>2. \A e \in Decisions : Works(call[c], e) => Works(call'[c], e)  BY <1>i DEF Works
  <2>3. DealtWith'
    <3>1. ASSUME NEW e \in Decisions, audit'[e].proposed
          PROVE  audit'[e].order # {} \/ audit'[e].risk = "rejected" \/ Works(call'[c], e)
      BY <2>2, <3>1, <1>c, <1>d, <1>i DEF DealtWith
    <3> QED  BY <3>1 DEF DealtWith, Works
  <2>4. WithOrder' \subseteq WithOrder  BY <1>i DEF WithOrder
  <2>5. BeingFilled' = {}  BY <1>i, <1>c DEF BeingFilled, Fills
  <2>6. (WithOrder \ BeingFilled)' = WithOrder'  BY <2>5
  <2>7. IsFiniteSet(WithOrder \ BeingFilled) /\ Cardinality(WithOrder \ BeingFilled) <= made
    <3>1. Cardinality(WithOrder) \in Nat  BY <1>d, FS_CardinalityType
    <3>2. IsFiniteSet(WithOrder \ BeingFilled)  BY <1>d, FS_Subset
    <3> QED  BY <3>2 DEF Limiting
  <2>8. IsFiniteSet(WithOrder')  BY <2>4, <1>d, FS_Subset
  <2>9. made' \in Nat /\ made' <= MaxOrders /\ made' >= made
    BY <1>i, <1>a, <1>d DEF Restrained, Count
  <2>10. Cardinality(WithOrder') <= made'
    <3>1. CASE call[c].about \cap WithOrder = {} \/ call[c].kind # "run"
      <4>1. WithOrder \ BeingFilled = WithOrder  BY <3>1, <1>c DEF BeingFilled, Fills
      <4>2. Cardinality(WithOrder') <= made  BY <2>4, <2>7, <4>1, <1>a, OneMore
      <4>3. Cardinality(WithOrder') \in Nat  BY <2>8, FS_CardinalityType
      <4> QED  BY <2>9, <4>2, <4>3, <1>a
    <3>2. CASE call[c].about \cap WithOrder # {} /\ call[c].kind = "run"
      <4>1. PICK d \in call[c].about : d \in WithOrder  BY <3>2
      <4>2. made' = made + 1  BY <1>i, <3>2, <4>1 DEF Count
      <4>3. \A e \in call[c].about : e = d  BY <1>a DEF Carrying
      <4>4. WithOrder' \subseteq (WithOrder \ BeingFilled) \cup {d}
        BY <2>4, <4>3, <1>c DEF BeingFilled
      <4> QED  BY <2>7, <4>2, <4>4, <1>a, OneMore
    <3> QED  BY <3>1, <3>2
  <2> QED  BY <2>1, <2>3, <2>6, <2>8, <2>9, <2>10 DEF Limiting
<1>18. ASSUME NEW c \in Callers, NEW o \in OrderIds, Fill(c, o) PROVE Limiting'
  <2>1. PICK s \in {"filled", "rejected"} :
            To(c, [call[c] EXCEPT !.at = Known(c), !.risk = IF s = "filled" THEN @ ELSE s])
    BY <1>18 DEF Fill
  <2>2. call'[c] = [call[c] EXCEPT !.at = Known(c), !.risk = IF s = "filled" THEN @ ELSE s]
    BY <2>1, MovesAlone
  <2>3. /\ call'[c].about = call[c].about /\ call'[c].kind = call[c].kind /\ call'[c].order = call[c].order
        /\ call'[c].planned = call[c].planned /\ call'[c].at = "update" /\ call'[c].risk \in {call[c].risk, "rejected"}
    BY <2>2, <1>a DEF Calls, Known
  <2>4. \A p \in OrderIds : Alive(p)' => Alive(p)  BY <1>18, <1>a DEF Fill, Alive
  <2>5. UNCHANGED audit /\ call[c].at = "fill" /\ Count(c)  BY <1>18 DEF Fill, At
  <2>6. Restrained(c)'  BY <2>3, <2>5, <1>a DEF Restrained
  <2> QED  BY <2>3, <2>4, <2>5, <2>6, <1>i
<1>19. ASSUME NEW c \in Callers, NEW o \in OrderIds, FillRaises(c, o) PROVE Limiting'
  <2>1. /\ call[c].at = "fill" /\ o \in call[c].order /\ orders[o] # "pending"
        /\ UNCHANGED <<audit, made, orders>>
    BY <1>19 DEF FillRaises, At
  <2>2. ASSUME NEW d \in call[c].about, call[c].kind = "run" PROVE d \notin WithOrder
    <3>1. \A p \in OrderIds : p.decision = d /\ Alive(p) => Brings(call[c], p)
      BY <2>2, <1>a, <1>c DEF Booking, Named, Orderly
    <3>2. \A p \in OrderIds : Brings(call[c], p) => ~Alive(p)
      BY <2>1, <1>a DEF Orderly, Brings, Alive
    <3> QED  BY <3>1, <3>2 DEF WithOrder
  <2>3. CASE Done(c) /\ call[c].kind # "run"
    <3>1. call'[c].about = {} /\ call'[c].kind = call[c].kind /\ call'[c].at = "next"
      BY <2>3, AfterDone
    <3>2. Restrained(c)'  BY <2>3, <3>1 DEF Restrained
    <3> QED  BY <2>1, <2>3, <3>1, <3>2, <1>b, <1>e
  <2>4. CASE To(c, [Outcome(c, "rejected", NoOrder) EXCEPT !.at = "update"]) /\ call[c].kind = "run"
    <3>1. call'[c] = [Outcome(c, "rejected", NoOrder) EXCEPT !.at = "update"]  BY <2>4, MovesAlone
    <3>2. /\ call'[c].about = call[c].about /\ call'[c].kind = call[c].kind /\ call'[c].at = "update"
          /\ call'[c].planned = call[c].planned /\ call'[c].risk = "rejected"
      BY <3>1, AfterOutcome
    <3>3. Restrained(c)'  BY <2>4, <3>2, <1>a DEF Restrained
    <3> QED  BY <2>1, <2>2, <2>4, <3>2, <3>3, <1>b, <1>i
  <2> QED  BY <1>19, <2>3, <2>4 DEF FillRaises
<1>j. ASSUME UNCHANGED <<audit, made, call>>, \A o \in OrderIds : Alive(o)' => Alive(o) PROVE Limiting'
  <2>1. (\A c \in Callers : Restrained(c))' /\ DealtWith'  BY <1>j DEF Limiting, Restrained, DealtWith
  <2>2. UNCHANGED BeingFilled /\ WithOrder' \subseteq WithOrder  BY <1>j DEF BeingFilled, WithOrder
  <2>3. IsFiniteSet(WithOrder') /\ IsFiniteSet(WithOrder \ BeingFilled)  BY <2>2, <1>d, FS_Subset
  <2>4. (WithOrder \ BeingFilled)' \subseteq WithOrder \ BeingFilled  BY <2>2
  <2>5. Cardinality(WithOrder \ BeingFilled) <= made  BY DEF Limiting
  <2>6. Cardinality((WithOrder \ BeingFilled)') <= made  BY <2>3, <2>4, <2>5, <1>a, OneMore
  <2> QED  BY <1>j, <2>1, <2>3, <2>6, <1>d DEF Limiting
<1>20. ASSUME NEW o \in OrderIds, CancelOrder(o) PROVE Limiting'
  <2>1. \A p \in OrderIds : Alive(p)' => Alive(p)  BY <1>20, <1>a DEF CancelOrder, Alive
  <2> QED  BY <1>20, <2>1, <1>j DEF CancelOrder
<1>21. CASE DayEnds \/ UNCHANGED vars
  BY <1>21, <1>b, <1>j DEF DayEnds, vars
<1> QED  BY <1>1, <1>2, <1>3, <1>4, <1>5, <1>6, <1>7, <1>8, <1>9, <1>10, <1>11, <1>12, <1>13,
            <1>14, <1>15, <1>16, <1>17, <1>18, <1>19, <1>20, <1>21 DEF Next

\* As long as calls take turns and none is cut short, a run of a deployed
\* strategy that orders by itself leaves max_orders_per_run orders at most,
\* whatever a user confirms, rejects or cancels afterwards (automation.py).
THEOREM WithinOrderLimitHolds ==
    ASSUME AutomationOrderAssumption, OneCaller, Limit["crashes"] = 0
    PROVE  Spec => []WithinOrderLimit
<1>1. Init => Sending /\ Booking  BY NothingBookedYet
<1>2. Init => Limiting
  <2> SUFFICES ASSUME Init PROVE Limiting
    OBVIOUS
  <2>1. \A c \in Callers : call[c] = Idle /\ Restrained(c)  BY DEF Init, Restrained, Idle
  <2>2. \A d \in Decisions : ~audit[d].proposed  BY DEF Init, NoAudit
  <2>3. DealtWith /\ WithOrder = {}  BY <2>2 DEF DealtWith, WithOrder
  <2>4. WithOrder \ BeingFilled = {}  BY <2>3
  <2>5. IsFiniteSet({}) /\ Cardinality({}) = 0  BY FS_EmptySet
  <2>6. made = 0 /\ MaxOrders \in Nat  BY DEF Init, AutomationOrderAssumption
  <2> QED  BY <2>1, <2>3, <2>4, <2>5, <2>6 DEF Limiting
<1>3. /\ Typed /\ Typed' /\ Sending /\ Booking /\ [Next]_vars => Sending' /\ Booking'
      /\ Deployed /\ Mode = "auto" /\ Typed /\ Typed' /\ Sending /\ Booking /\ Limiting /\ [Next]_vars => Limiting'
  BY StepKeepsSending, StepKeepsBooking, StepKeepsLimiting
<1>4. Typed /\ Sending /\ Limiting => WithinOrderLimit
  <2> SUFFICES ASSUME Typed, Sending, Limiting PROVE Cardinality(WithOrder) <= MaxOrders
    BY DEF WithinOrderLimit, WithOrder
  <2>1. IsFiniteSet(WithOrder) /\ made <= MaxOrders /\ made \in Nat /\ MaxOrders \in Nat
    BY DEF Limiting, Typed, TypeOK, AutomationOrderAssumption
  <2>2. IsFiniteSet(WithOrder \ BeingFilled) /\ Cardinality(WithOrder \ BeingFilled) <= made
    BY <2>1, FS_Subset DEF Limiting
  <2>3. CASE BeingFilled = {}
    <3>1. WithOrder \ BeingFilled = WithOrder  BY <2>3
    <3>2. Cardinality(WithOrder) \in Nat  BY <2>1, FS_CardinalityType
    <3> QED  BY <2>1, <2>2, <3>1, <3>2
  <2>4. CASE BeingFilled # {}
    <3>1. PICK d \in Decisions, c \in Callers : Fills(call[c]) /\ d \in call[c].about
      BY <2>4 DEF BeingFilled
    <3>2. WithOrder \subseteq (WithOrder \ BeingFilled) \cup {d}
      BY <3>1 DEF BeingFilled, OneCaller, Sending, Carrying
    <3>3. made < MaxOrders  BY <3>1 DEF Limiting, Restrained, Fills
    <3>4. Cardinality(WithOrder) <= made + 1  BY <2>1, <2>2, <3>2, OneMore
    <3>5. Cardinality(WithOrder) \in Nat  BY <2>1, FS_CardinalityType
    <3> QED  BY <2>1, <3>3, <3>4, <3>5
  <2> QED  BY <2>3, <2>4
<1>5. CASE Deployed /\ Mode = "auto"
  BY <1>1, <1>2, <1>3, <1>4, <1>5, TypeCorrect, PTL DEF Spec
<1>6. CASE ~(Deployed /\ Mode = "auto")
  <2>1. WithinOrderLimit  BY <1>6 DEF WithinOrderLimit
  <2> QED  BY <2>1, PTL
<1> QED  BY <1>5, <1>6

-----------------------------------------------------------------------------
Automations == [bound : SUBSET Deployments, enabled : BOOLEAN]
Subjects == {{}} \cup {{d} : d \in Deployments}
Changes == [at : Deploying!Phases, about : Subjects, create : BOOLEAN, status : Deploying!Statuses,
          review : SUBSET {"approved", "rejected", "deployed"}, task : Automations]
RowStatuses == Deploying!Statuses \cup {"none"}
Accounts == [there : BOOLEAN, traded : BOOLEAN, status : Deploying!Statuses]

\* Every variable but the counters has its type; and a call saves no review that
\* takes a candidate back.
DeploymentTypes ==
    /\ account \in Accounts
    /\ listed \in [Deployments -> RowStatuses]
    /\ config \in Automations
    /\ candidate \in [Sandbox -> Deploying!Reviews]
    /\ change \in [Users -> Changes]

LEMMA ChangesAreClosed ==
    /\ Deploying!Idle \in Changes
    /\ \A k \in Changes, phase \in Deploying!Phases : [k EXCEPT !.at = phase] \in Changes
    /\ \A k \in Changes, t \in Automations : [k EXCEPT !.at = "config", !.task = t] \in Changes
    /\ \A d \in Deployments, phase \in Deploying!Phases :
          /\ \A verdict \in {"approved", "rejected", "deployed"} :
                [Deploying!Idle EXCEPT !.at = phase, !.about = {d}, !.review = {verdict}] \in Changes
          /\ \A create \in BOOLEAN, status \in Deploying!Statuses :
                [Deploying!Idle EXCEPT !.at = phase, !.about = {d}, !.create = create, !.status = status] \in Changes
          /\ \A status \in Deploying!Statuses :
                [Deploying!Idle EXCEPT !.at = phase, !.about = {d}, !.status = status] \in Changes
<1>1. Deploying!Idle \in Changes  BY DEF Deploying!Idle, Changes, Subjects, Deploying!Phases,
                                         Deploying!Statuses, Automations
<1>2. \A k \in Changes, t \in Automations : [k EXCEPT !.at = "config", !.task = t] \in Changes
  BY DEF Changes, Deploying!Phases
<1> QED  BY <1>1, <1>2 DEF Changes, Subjects

LEMMA ChangesMove ==
    ASSUME change \in [Users -> Changes], NEW c \in Users, NEW next \in Changes, Deploying!To(c, next)
    PROVE  change' \in [Users -> Changes]
BY DEF Deploying!To

\* Every variable keeps its type (deployments.py, strategy_candidates.py).
THEOREM DeploymentTypeCorrect ==
    ASSUME Sandbox \subseteq Deployments
    PROVE  Deploying!Spec => []DeploymentTypes
<1>1. Deploying!Init => DeploymentTypes
  <2> SUFFICES ASSUME Deploying!Init PROVE DeploymentTypes
    OBVIOUS
  <2>1. account \in Accounts /\ config \in Automations
    BY DEF Deploying!Init, Accounts, Automations, Deploying!Statuses
  <2>2. listed \in [Deployments -> RowStatuses] /\ candidate \in [Sandbox -> Deploying!Reviews]
    BY DEF Deploying!Init, RowStatuses, Deploying!Reviews
  <2>3. change \in [Users -> Changes]
    BY ChangesAreClosed DEF Deploying!Init
  <2> QED  BY <2>1, <2>2, <2>3 DEF DeploymentTypes
<1>2. DeploymentTypes /\ [Deploying!Next]_Deploying!vars => DeploymentTypes'
  <2> SUFFICES ASSUME DeploymentTypes, [Deploying!Next]_Deploying!vars PROVE DeploymentTypes'
    OBVIOUS
  <2> USE DEF DeploymentTypes
  <2>1. CASE UNCHANGED Deploying!vars
    BY <2>1 DEF Deploying!vars
  <2>2. ASSUME NEW c \in Users,
               Deploying!CreateAccount(c) \/ Deploying!CheckEmpty(c) \/ Deploying!CheckVacant(c)
               \/ Deploying!Bind(c) \/ Deploying!ReadTask(c)
               \/ Deploying!WriteTask(c) \/ Deploying!Follow(c) \/ Deploying!OpenAccount(c)
               \/ Deploying!Trade(c) \/ Deploying!Crash(c)
        PROVE  DeploymentTypes'
    <3>1. change[c] \in Changes /\ change[c].status \in Deploying!Statuses /\ change[c].task \in Automations
          /\ change[c].about \subseteq Deployments
      BY DEF Changes, Subjects
    <3>2. account' \in Accounts
      BY <2>2, <3>1 DEF Deploying!CreateAccount, Deploying!CheckEmpty, Deploying!CheckVacant, Deploying!Bind,
                        Deploying!ReadTask, Deploying!WriteTask, Deploying!Follow,
                        Deploying!OpenAccount, Deploying!Trade, Deploying!Crash, Accounts
    <3>5. config' \in Automations
      <4>1. Deploying!Switched(c) \in Automations  BY <3>1 DEF Deploying!Switched, Automations
      <4>2. [bound |-> change[c].about, enabled |-> change[c].status = "active"] \in Automations
        BY <3>1 DEF Automations
      <4> QED  BY <2>2, <4>1, <4>2 DEF Deploying!CreateAccount, Deploying!CheckEmpty, Deploying!CheckVacant,
                                       Deploying!Bind, Deploying!ReadTask, Deploying!WriteTask, Deploying!Follow,
                                       Deploying!OpenAccount, Deploying!Trade, Deploying!Crash
    <3>6. UNCHANGED <<listed, candidate>>
      BY <2>2 DEF Deploying!CreateAccount, Deploying!CheckEmpty, Deploying!CheckVacant, Deploying!Bind,
                  Deploying!ReadTask, Deploying!WriteTask, Deploying!Follow,
                  Deploying!OpenAccount, Deploying!Trade, Deploying!Crash
    <3>3. /\ [change[c] EXCEPT !.at = "insert"] \in Changes /\ [change[c] EXCEPT !.at = "vacant"] \in Changes
          /\ [change[c] EXCEPT !.at = "save"] \in Changes /\ [change[c] EXCEPT !.at = "follow"] \in Changes
          /\ [change[c] EXCEPT !.at = "config", !.task = config] \in Changes
      BY <3>1, ChangesAreClosed DEF Deploying!Phases
    <3>4. change' \in [Users -> Changes]
      BY <2>2, <3>3, ChangesAreClosed, ChangesMove
      DEF Deploying!CreateAccount, Deploying!CheckEmpty, Deploying!CheckVacant, Deploying!Bind,
          Deploying!ReadTask, Deploying!WriteTask, Deploying!Follow, Deploying!OpenAccount, Deploying!Trade,
          Deploying!Crash,
          Deploying!Deployed, Deploying!Goes, Deploying!Ends
    <3> QED  BY <3>2, <3>4, <3>5, <3>6
  <2>3. ASSUME NEW c \in Users, NEW d \in Sandbox, Deploying!Review(c, d) \/ Deploying!DeployCandidate(c, d)
        PROVE  DeploymentTypes'
    <3>1. /\ [Deploying!Idle EXCEPT !.at = "save", !.about = {d}, !.review = {"approved"}] \in Changes
          /\ [Deploying!Idle EXCEPT !.at = "save", !.about = {d}, !.review = {"rejected"}] \in Changes
          /\ [Deploying!Idle EXCEPT !.at = "look", !.about = {d}, !.review = {"deployed"}] \in Changes
      BY ChangesAreClosed DEF Deploying!Phases
    <3> QED  BY <2>3, <3>1, ChangesMove DEF Deploying!Review, Deploying!DeployCandidate
  <2>4. ASSUME NEW c \in Users, NEW d \in Sandbox, Deploying!SaveCandidate(c, d)
        PROVE  DeploymentTypes'
    <3>1. change[c].review \subseteq Deploying!Reviews  BY DEF Changes, Deploying!Reviews
    <3>2. candidate' \in [Sandbox -> Deploying!Reviews]  BY <2>4, <3>1 DEF Deploying!SaveCandidate
    <3>3. change' \in [Users -> Changes]  BY <2>4, ChangesAreClosed, ChangesMove DEF Deploying!SaveCandidate,
        Deploying!Ends
    <3> QED  BY <2>4, <3>2, <3>3 DEF Deploying!SaveCandidate
  <2>5. ASSUME NEW c \in Users, NEW d \in Deployments \ Sandbox, Deploying!DeployExperiment(c, d)
        PROVE  DeploymentTypes'
    <3>1. \A create \in BOOLEAN, status \in {"active", "paused"} :
            [Deploying!Idle EXCEPT !.at = "look", !.about = {d}, !.create = create, !.status = status] \in Changes
      BY ChangesAreClosed DEF Deploying!Phases, Deploying!Statuses
    <3> QED  BY <2>5, <3>1, ChangesMove DEF Deploying!DeployExperiment
  <2>6. ASSUME NEW c \in Users, NEW d \in Deployments, Deploying!Look(c, d)
        PROVE  DeploymentTypes'
    <3>1. /\ [change[c] EXCEPT !.at = "save"] \in Changes /\ [change[c] EXCEPT !.at = "account"] \in Changes
          /\ [change[c] EXCEPT !.at = "empty"] \in Changes
      BY ChangesAreClosed DEF Deploying!Phases
    <3>2. change' \in [Users -> Changes]
      BY <2>6, <3>1, ChangesAreClosed, ChangesMove DEF Deploying!Look, Deploying!Deployed, Deploying!Goes,
                                                       Deploying!Ends
    <3> QED  BY <2>6, <3>2 DEF Deploying!Look
  <2>7. ASSUME NEW c \in Users, NEW d \in Deployments, Deploying!SetStatus(c, d)
        PROVE  DeploymentTypes'
    <3>1. \A s \in Deploying!Statuses : [Deploying!Idle EXCEPT !.at = "status", !.about = {d}, !.status = s] \in Changes
      BY ChangesAreClosed DEF Deploying!Phases
    <3> QED  BY <2>7, <3>1, ChangesMove DEF Deploying!SetStatus
  <2>8. ASSUME NEW c \in Users, NEW d \in Deployments, Deploying!InsertRow(c, d) \/ Deploying!WriteStatus(c, d)
        PROVE  DeploymentTypes'
    <3>1. change[c] \in Changes /\ change[c].status \in Deploying!Statuses
      BY DEF Changes
    <3>2. [change[c] EXCEPT !.at = "bind"] \in Changes /\ [change[c] EXCEPT !.at = "task"] \in Changes
      BY <3>1, ChangesAreClosed DEF Deploying!Phases
    <3>3. change' \in [Users -> Changes]
      BY <2>8, <3>2, ChangesAreClosed, ChangesMove DEF Deploying!InsertRow, Deploying!WriteStatus,
                                                       Deploying!Goes, Deploying!Ends
    <3> QED  BY <2>8, <3>1, <3>3 DEF Deploying!InsertRow, Deploying!WriteStatus, RowStatuses
  <2> QED
    BY <2>1, <2>2, <2>3, <2>4, <2>5, <2>6, <2>7, <2>8 DEF Deploying!Next
<1> QED  BY <1>1, <1>2, PTL DEF Deploying!Spec

-----------------------------------------------------------------------------
\* Between the look at a candidate and the writing of its row, no candidate
\* becomes new again: who is past the look has seen an approval.
Unreviewed == {"draft", "validated"}
Writing == {"account", "empty", "vacant", "insert", "status"}
Approved == \A c \in Users : \A d \in change[c].about \cap Sandbox :
                change[c].at \in Writing => candidate[d] \notin Unreviewed

\* Whatever reviews and deployments meet and processes die, nothing is deployed
\* that no person approved first (deployments.py:143, strategy_candidates.py:249).
THEOREM NothingUnreviewedHolds ==
    ASSUME Sandbox \subseteq Deployments
    PROVE  Deploying!Spec => []Deploying!NothingUnreviewed
<1> DEFINE Inv == Deploying!NothingUnreviewed /\ Approved
<1>1. Deploying!Init => Inv
  BY DEF Deploying!Init, Deploying!NothingUnreviewed, Approved, Deploying!Idle
<1>2. DeploymentTypes /\ Inv /\ [Deploying!Next]_Deploying!vars => Inv'
  <2> SUFFICES ASSUME DeploymentTypes, Inv, [Deploying!Next]_Deploying!vars PROVE Inv'
    OBVIOUS
  <2> USE DEF DeploymentTypes, Deploying!To, Deploying!Goes, Deploying!Ends, Deploying!At, Deploying!Begins,
              Deploying!Spend, Changes, Writing, Unreviewed
  <2>1. CASE UNCHANGED Deploying!vars
    BY <2>1 DEF Deploying!vars, Deploying!NothingUnreviewed, Approved
  <2>2. ASSUME NEW c \in Users, Deploying!CreateAccount(c) \/ Deploying!CheckEmpty(c) \/ Deploying!CheckVacant(c)
        PROVE  Inv'
    BY <2>2 DEF Deploying!CreateAccount, Deploying!CheckEmpty, Deploying!CheckVacant,
                Deploying!NothingUnreviewed, Approved, Deploying!Idle
  <2>3. ASSUME NEW c \in Users, Deploying!Bind(c) \/ Deploying!ReadTask(c) \/ Deploying!WriteTask(c)
                                \/ Deploying!Follow(c) \/ Deploying!Crash(c)
        PROVE  Inv'
    <3>1. \A x \in Users : \/ change'[x] = change[x]
                           \/ change'[x].at \in {"idle", "save", "config", "follow"}
      <4>1. \/ change' = [change EXCEPT ![c] = Deploying!Idle]
            \/ \E phase \in {"save", "follow"} : change' = [change EXCEPT ![c] = [change[c] EXCEPT !.at = phase]]
            \/ change' = [change EXCEPT ![c] = [change[c] EXCEPT !.at = "config", !.task = config]]
        BY <2>3 DEF Deploying!Bind, Deploying!ReadTask, Deploying!WriteTask, Deploying!Follow,
                    Deploying!Crash, Deploying!Deployed
      <4>2. Deploying!Idle.at = "idle"  BY DEF Deploying!Idle
      <4> QED  BY ZenonT(60), <4>1, <4>2
    <3>2. UNCHANGED <<listed, candidate>>
      BY <2>3 DEF Deploying!Bind, Deploying!ReadTask, Deploying!WriteTask, Deploying!Follow, Deploying!Crash
    <3> QED  BY <3>1, <3>2 DEF Deploying!NothingUnreviewed, Approved
  <2>4. ASSUME NEW c \in Users, Deploying!OpenAccount(c) \/ Deploying!Trade(c)
        PROVE  Inv'
    BY <2>4 DEF Deploying!OpenAccount, Deploying!Trade, Deploying!NothingUnreviewed, Approved
  <2>5. ASSUME NEW c \in Users, NEW d \in Sandbox, Deploying!Review(c, d) \/ Deploying!DeployCandidate(c, d)
        PROVE  Inv'
    <3>1. \A x \in Users : change'[x] = change[x] \/ change'[x].at \in {"save", "look"}
      <4>1. \E k \in {"save", "look"}, s \in {"approved", "rejected", "deployed"} :
              change' = [change EXCEPT ![c] = [Deploying!Idle EXCEPT !.at = k, !.about = {d}, !.review = {s}]]
        BY <2>5 DEF Deploying!Review, Deploying!DeployCandidate
      <4>2. \A k, s : [Deploying!Idle EXCEPT !.at = k, !.about = {d}, !.review = {s}].at = k  BY DEF Deploying!Idle
      <4> QED  BY <4>1, <4>2
    <3>2. UNCHANGED <<listed, candidate>>
      BY <2>5 DEF Deploying!Review, Deploying!DeployCandidate
    <3> QED  BY <3>1, <3>2 DEF Deploying!NothingUnreviewed, Approved
  <2>6. ASSUME NEW c \in Users, NEW d \in Sandbox, Deploying!SaveCandidate(c, d)
        PROVE  Inv'
    <3>1. \A x \in Sandbox : candidate[x] \notin Unreviewed => candidate'[x] \notin Unreviewed
      BY <2>6 DEF Deploying!SaveCandidate
    <3> QED  BY <2>6, <3>1 DEF Deploying!SaveCandidate, Deploying!NothingUnreviewed, Approved, Deploying!Idle
  <2>7. ASSUME NEW c \in Users, NEW d \in Deployments \ Sandbox, Deploying!DeployExperiment(c, d)
        PROVE  Inv'
    BY <2>7 DEF Deploying!DeployExperiment, Deploying!NothingUnreviewed, Approved, Deploying!Idle
  <2>8. ASSUME NEW c \in Users, NEW d \in Deployments, Deploying!Look(c, d)
        PROVE  Inv'
    <3>1. \A x \in Users : \/ change'[x] = change[x]
                           \/ change'[x].at \in {"idle", "save"}
                           \/ change'[x].about = change[c].about /\ (d \in Sandbox => Deploying!Deployable(d))
      BY <2>8 DEF Deploying!Look, Deploying!Deployed, Deploying!Idle
    <3>2. UNCHANGED <<listed, candidate>>
      BY <2>8 DEF Deploying!Look
    <3>3. change[c].about = {d}  BY <2>8 DEF Deploying!Look, Subjects
    <3> QED  BY <3>1, <3>2, <3>3 DEF Deploying!Deployable, Deploying!NothingUnreviewed, Approved
  <2>9. ASSUME NEW c \in Users, NEW d \in Deployments, Deploying!InsertRow(c, d) \/ Deploying!WriteStatus(c, d)
        PROVE  Inv'
    BY <2>9 DEF Deploying!InsertRow, Deploying!WriteStatus, Deploying!NothingUnreviewed, Approved, Deploying!Idle
  <2>10. ASSUME NEW c \in Users, NEW d \in Deployments, Deploying!SetStatus(c, d)
         PROVE  Inv'
    BY <2>10 DEF Deploying!SetStatus, Deploying!NothingUnreviewed, Approved, Deploying!Idle
  <2> QED
    BY <2>1, <2>2, <2>3, <2>4, <2>5, <2>6, <2>7, <2>8, <2>9, <2>10 DEF Deploying!Next
<1>3. Inv => Deploying!NothingUnreviewed  OBVIOUS
<1> HIDE DEF Inv
<1> QED  BY <1>1, <1>2, <1>3, DeploymentTypeCorrect, PTL DEF Deploying!Spec

-----------------------------------------------------------------------------
\* Rows come with the account; a call that will write a row, or make one active,
\* knows the others not to be.
RowsNeedTheAccount == \A d \in Deployments : listed[d] # "none" => account.there
KnowsTheOthers == \A c \in Users :
    /\ change[c].at \in {"vacant", "insert"} => account.there
    /\ change[c].at = "insert" => Deploying!Active = {}
    /\ change[c].at = "status" => account.there
    /\ change[c].at = "status" /\ change[c].status = "active" => Deploying!Active \subseteq change[c].about
AtMostOne == \A d, e \in Deploying!Active : d = e

\* As long as calls take turns, an account has one active deployment at most, at
\* whichever statement a process dies (deployments.py:269).
THEOREM OneActiveHolds ==
    ASSUME Sandbox \subseteq Deployments, \A c, e \in Users : c = e
    PROVE  Deploying!Spec => []Deploying!OneActive
<1> DEFINE Inv == RowsNeedTheAccount /\ KnowsTheOthers /\ AtMostOne
<1>1. Deploying!Init => Inv
  BY DEF Deploying!Init, RowsNeedTheAccount, KnowsTheOthers, AtMostOne, Deploying!Active, Deploying!Idle
<1>2. DeploymentTypes /\ Inv /\ [Deploying!Next]_Deploying!vars => Inv'
  <2> SUFFICES ASSUME DeploymentTypes, Inv, [Deploying!Next]_Deploying!vars PROVE Inv'
    OBVIOUS
  <2> USE DEF DeploymentTypes, Deploying!To, Deploying!Goes, Deploying!Ends, Deploying!At, Deploying!Begins,
              Deploying!Spend, Changes, Accounts
  <2>1. CASE UNCHANGED Deploying!vars
    BY <2>1 DEF Deploying!vars, RowsNeedTheAccount, KnowsTheOthers, AtMostOne, Deploying!Active
  \* What leaves the rows alone, and takes no call to where it has to know them.
  <2>2. ASSUME UNCHANGED listed, account.there => account'.there,
               \A c \in Users : change'[c] = change[c] \/ change'[c].at \notin {"vacant", "insert", "status"}
        PROVE  Inv'
    BY <2>2 DEF RowsNeedTheAccount, KnowsTheOthers, AtMostOne, Deploying!Active
  <2>3. ASSUME NEW c \in Users, Deploying!Bind(c) \/ Deploying!ReadTask(c) \/ Deploying!WriteTask(c)
                                \/ Deploying!Follow(c) \/ Deploying!Crash(c)
        PROVE  Inv'
    <3>1. \/ change' = [change EXCEPT ![c] = Deploying!Idle]
          \/ \E phase \in {"save", "follow"} : change' = [change EXCEPT ![c] = [change[c] EXCEPT !.at = phase]]
          \/ change' = [change EXCEPT ![c] = [change[c] EXCEPT !.at = "config", !.task = config]]
      BY <2>3 DEF Deploying!Bind, Deploying!ReadTask, Deploying!WriteTask, Deploying!Follow, Deploying!Crash,
                  Deploying!Deployed
    <3>2. Deploying!Idle.at = "idle"  BY DEF Deploying!Idle
    <3>3. \A x \in Users : change'[x] = change[x] \/ change'[x].at \in {"idle", "save", "follow", "config"}
      <4>1. CASE change' = [change EXCEPT ![c] = Deploying!Idle]  BY <3>2, <4>1
      <4>2. CASE \E phase \in {"save", "follow"} : change' = [change EXCEPT ![c] = [change[c] EXCEPT !.at = phase]]
        BY <4>2
      <4>3. CASE change' = [change EXCEPT ![c] = [change[c] EXCEPT !.at = "config", !.task = config]]
        BY <4>3
      <4> QED  BY <3>1, <4>1, <4>2, <4>3
    <3>4. UNCHANGED listed /\ account'.there = account.there
      BY <2>3 DEF Deploying!Bind, Deploying!ReadTask, Deploying!WriteTask, Deploying!Follow, Deploying!Crash
    <3> QED  BY <2>2, <3>3, <3>4
  <2>4. ASSUME NEW c \in Users, Deploying!OpenAccount(c) \/ Deploying!Trade(c)
        PROVE  Inv'
    BY <2>2, <2>4 DEF Deploying!OpenAccount, Deploying!Trade
  <2>5. ASSUME NEW c \in Users, NEW d \in Sandbox,
               Deploying!Review(c, d) \/ Deploying!DeployCandidate(c, d) \/ Deploying!SaveCandidate(c, d)
        PROVE  Inv'
    <3>1. \/ change' = [change EXCEPT ![c] = Deploying!Idle]
          \/ \E k \in {"save", "look"}, s \in {"approved", "rejected", "deployed"} :
               change' = [change EXCEPT ![c] = [Deploying!Idle EXCEPT !.at = k, !.about = {d}, !.review = {s}]]
      BY <2>5 DEF Deploying!Review, Deploying!DeployCandidate, Deploying!SaveCandidate
    <3>2. Deploying!Idle.at = "idle" /\ \A k, s : [Deploying!Idle EXCEPT !.at = k, !.about = {d}, !.review = {s}].at = k
      BY DEF Deploying!Idle
    <3>3. \A x \in Users : change'[x] = change[x] \/ change'[x].at \in {"idle", "save", "look"}
      <4>1. CASE change' = [change EXCEPT ![c] = Deploying!Idle]  BY <3>2, <4>1
      <4>2. CASE \E k \in {"save", "look"}, s \in {"approved", "rejected", "deployed"} :
               change' = [change EXCEPT ![c] = [Deploying!Idle EXCEPT !.at = k, !.about = {d}, !.review = {s}]]
        BY <3>2, <4>2
      <4> QED  BY <3>1, <4>1, <4>2
    <3>4. UNCHANGED <<listed, account>>  BY <2>5 DEF Deploying!Review, Deploying!DeployCandidate,
                                                     Deploying!SaveCandidate
    <3> QED  BY <2>2, <3>3, <3>4
  <2>6. ASSUME NEW c \in Users, NEW d \in Deployments \ Sandbox, Deploying!DeployExperiment(c, d)
        PROVE  Inv'
    BY <2>2, <2>6 DEF Deploying!DeployExperiment, Deploying!Idle
  <2>7. ASSUME NEW c \in Users, NEW d \in Deployments, Deploying!Look(c, d)
        PROVE  Inv'
    <3>1. \/ change' = [change EXCEPT ![c] = Deploying!Idle]
          \/ \E phase \in {"save", "account", "empty"} : change' = [change EXCEPT ![c] = [change[c] EXCEPT !.at = phase]]
      BY <2>7 DEF Deploying!Look, Deploying!Deployed
    <3>2. Deploying!Idle.at = "idle"  BY DEF Deploying!Idle
    <3>3. \A x \in Users : change'[x] = change[x] \/ change'[x].at \in {"idle", "save", "account", "empty"}
      BY <3>1, <3>2
    <3> QED  BY <2>2, <2>7, <3>3 DEF Deploying!Look
  \* The calls that look at the account and at the other rows.
  <2>8. ASSUME NEW c \in Users, Deploying!CreateAccount(c) \/ Deploying!CheckEmpty(c) \/ Deploying!CheckVacant(c)
        PROVE  Inv'
    <3>1. Users = {c}  OBVIOUS
    <3>2. CASE change' = [change EXCEPT ![c] = Deploying!Idle] /\ UNCHANGED account
      BY <2>2, <2>8, <3>2 DEF Deploying!CreateAccount, Deploying!CheckEmpty, Deploying!CheckVacant, Deploying!Idle
    <3>3. CASE /\ change' = [change EXCEPT ![c] = [change[c] EXCEPT !.at = "insert"]]
               /\ UNCHANGED listed /\ account'.there /\ Deploying!Active = {}
      BY <3>1, <3>3 DEF RowsNeedTheAccount, KnowsTheOthers, AtMostOne, Deploying!Active
    <3>4. CASE /\ change' = [change EXCEPT ![c] = [change[c] EXCEPT !.at = "vacant"]]
               /\ UNCHANGED listed /\ account'.there
      BY <3>1, <3>4 DEF RowsNeedTheAccount, KnowsTheOthers, AtMostOne, Deploying!Active
    <3>5. ~account.there => Deploying!Active = {}  BY DEF RowsNeedTheAccount, Deploying!Active
    <3>6. CASE Deploying!CreateAccount(c)
      BY <3>2, <3>3, <3>5, <3>6 DEF Deploying!CreateAccount
    <3>7. CASE Deploying!CheckEmpty(c)
      BY <3>2, <3>4, <3>7 DEF Deploying!CheckEmpty
    <3>8. CASE Deploying!CheckVacant(c)
      BY <3>2, <3>3, <3>8 DEF Deploying!CheckVacant, Deploying!Vacant, KnowsTheOthers
    <3> QED  BY <2>8, <3>6, <3>7, <3>8
  <2>9. ASSUME NEW c \in Users, NEW d \in Deployments, Deploying!SetStatus(c, d)
        PROVE  Inv'
    <3>1. Users = {c}  OBVIOUS
    <3>2. PICK s \in Deploying!Statuses :
            Deploying!MayTake(d, s) /\ change' = [change EXCEPT ![c] = [Deploying!Idle EXCEPT !.at = "status", !.about = {d}, !.status = s]]
      BY <2>9 DEF Deploying!SetStatus
    <3>3. change'[c].at = "status" /\ change'[c].about = {d} /\ change'[c].status = s
      BY <3>2 DEF Deploying!Idle
    <3>4. UNCHANGED <<listed, account>>  BY <2>9 DEF Deploying!SetStatus
    <3>5. RowsNeedTheAccount' /\ AtMostOne'
      BY <3>4 DEF RowsNeedTheAccount, AtMostOne, Deploying!Active
    <3>6. account.there  BY <2>9 DEF Deploying!SetStatus, RowsNeedTheAccount
    <3>7. s = "active" => Deploying!Active \subseteq {d}  BY <3>2 DEF Deploying!MayTake
    <3>8. UNCHANGED Deploying!Active  BY <3>4 DEF Deploying!Active
    <3>9. KnowsTheOthers'  BY <3>1, <3>3, <3>4, <3>6, <3>7, <3>8 DEF KnowsTheOthers
    <3> QED  BY <3>5, <3>9
  <2>10. ASSUME NEW c \in Users, NEW d \in Deployments, Deploying!InsertRow(c, d)
         PROVE  Inv'
    <3>1. Users = {c}  OBVIOUS
    <3>2. Deploying!Active = {} /\ account.there  BY <2>10 DEF Deploying!InsertRow, KnowsTheOthers
    <3>3. change'[c].at \in {"idle", "bind"}  BY <2>10 DEF Deploying!InsertRow, Deploying!Idle
    <3>4. \A e \in Deployments \ {d} : listed'[e] = listed[e]  BY <2>10 DEF Deploying!InsertRow
    <3>5. Deploying!Active' \subseteq {d}  BY <3>2, <3>4 DEF Deploying!Active
    <3> QED  BY <2>10, <3>1, <3>2, <3>3, <3>5 DEF Deploying!InsertRow, RowsNeedTheAccount, KnowsTheOthers, AtMostOne
  <2>11. ASSUME NEW c \in Users, NEW d \in Deployments, Deploying!WriteStatus(c, d)
         PROVE  Inv'
    <3>1. Users = {c}  OBVIOUS
    <3>2. change[c].about = {d}  BY <2>11 DEF Deploying!WriteStatus, Subjects
    <3>3. change'[c].at = "task"  BY <2>11 DEF Deploying!WriteStatus
    <3>4. /\ \A e \in Deployments \ {d} : listed'[e] = listed[e]
          /\ listed'[d] = change[c].status /\ UNCHANGED account
      BY <2>11 DEF Deploying!WriteStatus
    <3>5. AtMostOne'
      <4>1. CASE change[c].status = "active"
        <5>1. Deploying!Active \subseteq {d}  BY <2>11, <3>2, <4>1 DEF Deploying!WriteStatus, KnowsTheOthers
        <5> QED  BY <3>4, <5>1 DEF AtMostOne, Deploying!Active
      <4>2. CASE change[c].status # "active"
        BY <3>4, <4>2 DEF AtMostOne, Deploying!Active
      <4> QED  BY <4>1, <4>2
    <3>6. account.there  BY <2>11 DEF Deploying!WriteStatus, KnowsTheOthers
    <3> QED  BY <3>1, <3>3, <3>4, <3>5, <3>6 DEF RowsNeedTheAccount, KnowsTheOthers
  <2> QED
    BY <2>1, <2>3, <2>4, <2>5, <2>6, <2>7, <2>8, <2>9, <2>10, <2>11 DEF Deploying!Next
<1>3. Inv => Deploying!OneActive
  <2> SUFFICES ASSUME AtMostOne PROVE Cardinality(Deploying!Active) <= 1
    BY DEF Deploying!OneActive, Deploying!Cardinality, Cardinality
  <2>1. Deploying!Active = {} \/ \E d : Deploying!Active = {d}
    <3>1. CASE Deploying!Active # {}
      <4>1. PICK d : d \in Deploying!Active  BY <3>1
      <4>2. Deploying!Active = {d}  BY <4>1 DEF AtMostOne
      <4> QED  BY <4>2
    <3> QED  BY <3>1
  <2>2. CASE Deploying!Active = {}
    <3>1. Cardinality({}) = 0  BY FS_EmptySet
    <3> QED  BY <2>2, <3>1
  <2>3. ASSUME NEW d, Deploying!Active = {d} PROVE Cardinality(Deploying!Active) <= 1
    <3>1. Cardinality({d}) = 1  BY FS_Singleton
    <3> QED  BY <2>3, <3>1
  <2> QED  BY <2>1, <2>2, <2>3
<1> HIDE DEF Inv
<1> QED  BY <1>1, <1>2, <1>3, DeploymentTypeCorrect, PTL DEF Deploying!Spec

-----------------------------------------------------------------------------
\* Between the statement that writes the row and the one that writes the
\* automation the two may differ; then the call knows what it will write.
Switching == {"bind", "task", "config"}
Spendings == [calls : Nat, crashes : Nat]
Settled == (\A c \in Users : change[c].at \notin Switching) /\ config.enabled => Deploying!Active # {}
KnowsWhatItSwitches == \A c \in Users :
    change[c].at \in Switching /\ change[c].status = "active" => Deploying!Active # {}

\* As long as calls take turns and none is cut short, an automation that is on
\* has an active deployment (deployments.py:280).
THEOREM SwitchedTogetherHolds ==
    ASSUME Sandbox \subseteq Deployments, \A c, e \in Users : c = e
    PROVE  Deploying!Spec => []Deploying!SwitchedTogether
<1> DEFINE Together == spent.crashes = 0 => Settled /\ KnowsWhatItSwitches
           Inv == spent \in Spendings /\ Together
<1>1. Deploying!Init => Inv
  BY DEF Deploying!Init, Spendings, Settled, KnowsWhatItSwitches, Deploying!Idle, Switching
<1>2. DeploymentTypes /\ Inv /\ [Deploying!Next]_Deploying!vars => Inv'
  <2> SUFFICES ASSUME DeploymentTypes, Inv, [Deploying!Next]_Deploying!vars PROVE Inv'
    OBVIOUS
  <2>1. spent' \in Spendings /\ (spent'.crashes = 0 => spent.crashes = 0)
    <3> DEFINE Counted == \/ UNCHANGED spent
                          \/ spent' = [spent EXCEPT !.calls = @ + 1] \/ spent' = [spent EXCEPT !.crashes = @ + 1]
    <3>1. Counted
      <4> USE DEF Deploying!At, Deploying!Begins, Deploying!Spend
      <4>1. ASSUME NEW c \in Users,
                   \/ Deploying!CreateAccount(c) \/ Deploying!CheckEmpty(c) \/ Deploying!CheckVacant(c)
                   \/ Deploying!Bind(c) \/ Deploying!ReadTask(c)
                   \/ Deploying!WriteTask(c) \/ Deploying!Follow(c) \/ Deploying!OpenAccount(c)
                   \/ Deploying!Trade(c) \/ Deploying!Crash(c)
            PROVE  Counted
        BY <4>1 DEF Deploying!CreateAccount, Deploying!CheckEmpty, Deploying!CheckVacant, Deploying!Bind,
                    Deploying!ReadTask, Deploying!WriteTask, Deploying!Follow,
                    Deploying!OpenAccount, Deploying!Trade, Deploying!Crash
      <4>2. ASSUME NEW c \in Users, NEW d,
                   \/ Deploying!Review(c, d) \/ Deploying!SaveCandidate(c, d)
                   \/ Deploying!DeployCandidate(c, d) \/ Deploying!DeployExperiment(c, d)
                   \/ Deploying!Look(c, d) \/ Deploying!InsertRow(c, d) \/ Deploying!SetStatus(c, d)
                   \/ Deploying!WriteStatus(c, d)
            PROVE  Counted
        BY <4>2 DEF Deploying!Review, Deploying!SaveCandidate, Deploying!DeployCandidate,
                    Deploying!DeployExperiment, Deploying!Look, Deploying!InsertRow, Deploying!SetStatus,
                    Deploying!WriteStatus
      <4>3. CASE UNCHANGED Deploying!vars  BY <4>3 DEF Deploying!vars
      <4> QED  BY <4>1, <4>2, <4>3 DEF Deploying!Next
    <3> QED  BY <3>1 DEF Spendings
  <2> SUFFICES ASSUME spent.crashes = 0, spent'.crashes = 0, Settled, KnowsWhatItSwitches
               PROVE  Settled' /\ KnowsWhatItSwitches'
    BY <2>1
  <2> HIDE DEF Inv
  <2> USE DEF DeploymentTypes, Deploying!To, Deploying!Goes, Deploying!Ends, Deploying!At, Deploying!Begins,
              Deploying!Spend, Changes, Settled, KnowsWhatItSwitches, Switching
  <2>2. CASE UNCHANGED Deploying!vars
    BY <2>2 DEF Deploying!vars, Deploying!Active
  \* What leaves the rows and the automation alone, and stays outside.
  <2>3. ASSUME UNCHANGED <<listed, config>>, NEW c \in Users, change[c].at \notin Switching,
               change'[c].at \notin Switching
        PROVE  Settled' /\ KnowsWhatItSwitches'
    BY <2>3 DEF Deploying!Active
  <2>4. ASSUME NEW c \in Users,
               \/ Deploying!CreateAccount(c) \/ Deploying!CheckEmpty(c) \/ Deploying!CheckVacant(c)
               \/ Deploying!Follow(c)
               \/ Deploying!OpenAccount(c) \/ Deploying!Trade(c)
        PROVE  Settled' /\ KnowsWhatItSwitches'
    BY <2>3, <2>4 DEF Deploying!CreateAccount, Deploying!CheckEmpty, Deploying!CheckVacant, Deploying!Follow,
                      Deploying!OpenAccount, Deploying!Trade, Deploying!Idle
  <2>5. ASSUME NEW c \in Users, NEW d \in Deployments,
               \/ Deploying!Review(c, d) \/ Deploying!SaveCandidate(c, d) \/ Deploying!DeployCandidate(c, d)
               \/ Deploying!DeployExperiment(c, d) \/ Deploying!SetStatus(c, d)
        PROVE  Settled' /\ KnowsWhatItSwitches'
    <3>1. change[c].at \notin Switching /\ UNCHANGED <<listed, config>>
      BY <2>5 DEF Deploying!Review, Deploying!SaveCandidate, Deploying!DeployCandidate,
                  Deploying!DeployExperiment, Deploying!SetStatus
    <3>5. /\ Deploying!Idle.at = "idle" /\ \A k, v : [Deploying!Idle EXCEPT !.at = k, !.about = {d}, !.review = v].at = k
          /\ \A k, b, v : [Deploying!Idle EXCEPT !.at = k, !.about = {d}, !.create = b, !.status = v].at = k
      BY DEF Deploying!Idle
    <3>2. CASE Deploying!Review(c, d) \/ Deploying!SaveCandidate(c, d)
      <4>1. change'[c].at \in {"idle", "save"}
        <5>1. CASE Deploying!Review(c, d)  BY <3>5, <5>1 DEF Deploying!Review
        <5>2. CASE Deploying!SaveCandidate(c, d)  BY <3>5, <5>2 DEF Deploying!SaveCandidate
        <5> QED  BY <3>2, <5>1, <5>2
      <4> QED  BY <2>3, <3>1, <4>1
    <3>3. CASE Deploying!DeployCandidate(c, d) \/ Deploying!DeployExperiment(c, d)
      <4>1. change'[c].at = "look"
        <5>1. CASE Deploying!DeployCandidate(c, d)  BY <3>5, <5>1 DEF Deploying!DeployCandidate
        <5>2. CASE Deploying!DeployExperiment(c, d)  BY <3>5, <5>2 DEF Deploying!DeployExperiment
        <5> QED  BY <3>3, <5>1, <5>2
      <4> QED  BY <2>3, <3>1, <4>1
    <3>4. CASE Deploying!SetStatus(c, d)
      BY <2>3, <3>1, <3>4 DEF Deploying!SetStatus, Deploying!Idle
    <3> QED  BY <2>5, <3>2, <3>3, <3>4
  <2>6. ASSUME NEW c \in Users, NEW d \in Deployments, Deploying!Look(c, d)
        PROVE  Settled' /\ KnowsWhatItSwitches'
    BY <2>3, <2>6 DEF Deploying!Look, Deploying!Deployed, Deploying!Idle
  <2>7. ASSUME NEW c \in Users, Deploying!Crash(c) PROVE FALSE
    <3>1. spent.crashes \in Nat /\ spent'.crashes = spent.crashes + 1
      BY <2>1, <2>7 DEF Deploying!Crash, Spendings, Inv
    <3> QED  BY <3>1
  \* From the row to the automation.
  <2>8. ASSUME NEW c \in Users, NEW d \in Deployments, Deploying!InsertRow(c, d)
        PROVE  Settled' /\ KnowsWhatItSwitches'
    <3>1. CASE listed[d] = "none"
      <4>1. change'[c].at = "bind" /\ change'[c].status = change[c].status
        BY <2>8, <3>1 DEF Deploying!InsertRow
      <4>2. listed'[d] = change[c].status  BY <2>8, <3>1 DEF Deploying!InsertRow
      <4> QED  BY <4>1, <4>2 DEF Deploying!Active
    <3>2. CASE listed[d] # "none"
      BY <2>3, <2>8, <3>2 DEF Deploying!InsertRow, Deploying!Idle
    <3> QED  BY <3>1, <3>2
  <2>9. ASSUME NEW c \in Users, NEW d \in Deployments, Deploying!WriteStatus(c, d)
        PROVE  Settled' /\ KnowsWhatItSwitches'
    <3>1. change'[c].at = "task" /\ change'[c].status = change[c].status /\ listed'[d] = change[c].status
      BY <2>9 DEF Deploying!WriteStatus
    <3> QED  BY <3>1 DEF Deploying!Active
  <2>10. ASSUME NEW c \in Users, Deploying!ReadTask(c)
         PROVE  Settled' /\ KnowsWhatItSwitches'
    <3>1. change[c].at = "task" /\ change'[c].at = "config" /\ change'[c].status = change[c].status /\ UNCHANGED listed
      BY <2>10 DEF Deploying!ReadTask
    <3> QED  BY <3>1 DEF Deploying!Active
  <2>11. ASSUME NEW c \in Users, Deploying!Bind(c) \/ Deploying!WriteTask(c)
         PROVE  Settled' /\ KnowsWhatItSwitches'
    <3>1. change[c].at \in Switching /\ UNCHANGED listed
      BY <2>11 DEF Deploying!Bind, Deploying!WriteTask
    <3>2. config'.enabled = (change[c].status = "active")
      BY <2>11 DEF Deploying!Bind, Deploying!WriteTask, Deploying!Switched, Automations
    <3>3. change'[c].at \in {"idle", "save", "follow"}
      BY <2>11 DEF Deploying!Bind, Deploying!WriteTask, Deploying!Deployed, Deploying!Idle
    <3>4. change[c].status = "active" => Deploying!Active # {}  BY <3>1
    <3> QED  BY <3>1, <3>2, <3>3, <3>4 DEF Deploying!Active
  <2> QED
    BY <2>2, <2>4, <2>5, <2>6, <2>7, <2>8, <2>9, <2>10, <2>11 DEF Deploying!Next
<1>3. Inv => Deploying!SwitchedTogether
  BY DEF Deploying!SwitchedTogether, Settled, Switching
<1> HIDE DEF Inv
<1> QED  BY <1>1, <1>2, <1>3, DeploymentTypeCorrect, PTL DEF Deploying!Spec
=============================================================================
