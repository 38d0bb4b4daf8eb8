----------------------------- MODULE MCAutomation -----------------------------
(* AutomationRun, AutomationOrder and Deployment in one run of TLC: a         *)
(* behaviour is of one of them, the others stay as they begin.                *)
EXTENDS AutomationRun, TLC

CONSTANTS
    n1, n2, s1, s2, hand,   \* the nodes, their schedulers and a caller
    d1, d2, u1, u2,         \* decisions and users
    x, y, z                 \* deployments; the strategy of z was generated

VARIABLES
    part,                                                       \* what the behaviour is of
    audit, orders, sent, made, today, started, request, spent,  \* AutomationOrder
    account, row, config, candidate, change, budget             \* Deployment

TwoNodes == (s1 :> n1) @@ (s2 :> n2) @@ (hand :> n1)
Trouble == [manual |-> 1, edits |-> 1, failures |-> 1, crashes |-> 1]

-----------------------------------------------------------------------------
\* Two users confirm and reject at once and a process dies; or calls take
\* turns, on a deployed strategy that orders by itself, on a live account, and
\* with the broker of files.
Once == [requests |-> 3, settlements |-> 0, crashes |-> 1]
Turns == [requests |-> 3, settlements |-> 1, crashes |-> 0]
Confirming == INSTANCE AutomationOrder WITH
    Decisions <- {d1, d2}, Callers <- {u1, u2}, Deployed <- TRUE, Execution <- "paper",
    Mode <- "confirm", FillTime <- "same_close", MaxOrders <- 1, MaxAttempts <- 2,
    Limit <- Once, call <- request, used <- spent
Automatic == INSTANCE AutomationOrder WITH
    Decisions <- {d1, d2}, Callers <- {u1}, Deployed <- TRUE, Execution <- "paper",
    Mode <- "auto", FillTime <- "next_open", MaxOrders <- 1, MaxAttempts <- 2,
    Limit <- Turns, call <- request, used <- spent
Live == INSTANCE AutomationOrder WITH
    Decisions <- {d1, d2}, Callers <- {u1}, Deployed <- FALSE, Execution <- "live",
    Mode <- "confirm", FillTime <- "next_open", MaxOrders <- 1, MaxAttempts <- 2,
    Limit <- Turns, call <- request, used <- spent
External == INSTANCE AutomationOrder WITH
    Decisions <- {d1, d2}, Callers <- {u1}, Deployed <- FALSE, Execution <- "external",
    Mode <- "auto", FillTime <- "next_open", MaxOrders <- 1, MaxAttempts <- 2,
    Limit <- Turns, call <- request, used <- spent
ASSUME OrderingsAreSound ==
    /\ Confirming!AutomationOrderAssumption /\ Automatic!AutomationOrderAssumption
    /\ Live!AutomationOrderAssumption /\ External!AutomationOrderAssumption
OrderVars == <<audit, orders, sent, made, today, started, request, spent>>

\* One caller after the other, and a crash; or two callers at once.
Deploying == INSTANCE Deployment WITH
    Deployments <- {x, y, z}, Sandbox <- {z}, Users <- {u1}, Limit <- [calls |-> 7, crashes |-> 1],
    task <- config, call <- change, used <- budget
Reviewing == INSTANCE Deployment WITH
    Deployments <- {x, y, z}, Sandbox <- {z}, Users <- {u1, u2}, Limit <- [calls |-> 4, crashes |-> 0],
    task <- config, call <- change, used <- budget
DeployVars == <<account, row, config, candidate, change, budget>>

-----------------------------------------------------------------------------
PartsInit ==
    /\ Init
    /\ part \in {"run", "confirm", "auto", "live", "external", "deploy", "review"}
    /\ CASE part = "confirm" -> Confirming!Init
         [] part = "live" -> Live!Init
         [] part = "external" -> External!Init
         [] OTHER -> Automatic!Init
    /\ CASE part = "review" -> Reviewing!Init
         [] part = "deploy" -> Deploying!Init
         [] OTHER -> Deploying!Init /\ candidate[z] = "draft"
PartsNext ==
    /\ UNCHANGED part
    /\ \/ part = "run" /\ Next /\ UNCHANGED <<OrderVars, DeployVars>>
       \/ part = "confirm" /\ Confirming!Next /\ UNCHANGED <<vars, DeployVars>>
       \/ part = "auto" /\ Automatic!Next /\ UNCHANGED <<vars, DeployVars>>
       \/ part = "live" /\ Live!Next /\ UNCHANGED <<vars, DeployVars>>
       \/ part = "external" /\ External!Next /\ UNCHANGED <<vars, DeployVars>>
       \/ part = "deploy" /\ Deploying!Next /\ UNCHANGED <<vars, OrderVars>>
       \/ part = "review" /\ Reviewing!Next /\ UNCHANGED <<vars, OrderVars>>
PartsSpec == PartsInit /\ [][PartsNext]_<<part, vars, OrderVars, DeployVars>>
Symmetry == Permutations({d1, d2}) \cup Permutations({x, y})

-----------------------------------------------------------------------------
\* The types, those of AutomationRun included.
PartsTypeOK == TypeOK /\ (part = "confirm" => Confirming!TypeOK)
\* A decision gives rise to one order, and to one request to the live broker.
OrderedOnce ==
    /\ part = "confirm" => Confirming!OneOrder
    /\ part = "live" => Live!SentOnce
\* A run keeps within its orders, and every order belongs to a decision.
OrdersAreAccounted ==
    /\ part = "auto" => Automatic!WithinOrderLimit
    /\ part = "external" => External!OrderIsRecorded

\* No candidate is deployed that no person approved.
NothingUnreviewed == Reviewing!NothingUnreviewed
\* An account has one active deployment, and its automation is on for one only.
DeploymentsAgree == part = "deploy" => Deploying!OneActive /\ Deploying!SwitchedTogether
=============================================================================
