----------------------------- MODULE MCChatStream -----------------------------
(* An instance of ChatStream for TLC in which nothing but the two writers acts. *)
EXTENDS ChatStream

Quiet == [cancels |-> 0, answers |-> 0, crashes |-> 0, drops |-> 0]
=============================================================================
