------------------------- MODULE MCSimulationAccount -------------------------
(* Calls of two callers at once on one account, for TLC. *)
EXTENDS SimulationAccount

Racing == [calls |-> 5, resets |-> 0, crashes |-> 0]
=============================================================================
