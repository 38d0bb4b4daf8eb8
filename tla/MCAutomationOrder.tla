--------------------------- MODULE MCAutomationOrder ---------------------------
(* An instance of AutomationOrder for TLC: users at once, no crash. *)
EXTENDS AutomationOrder, TLC

AtOnce == [requests |-> 3, settlements |-> 1, crashes |-> 0]
=============================================================================
