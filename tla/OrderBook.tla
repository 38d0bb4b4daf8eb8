------------------------------ MODULE OrderBook ------------------------------
(***************************************************************************)
(* What a simulated account promises about its orders: an order is opened   *)
(* once and decided once, and nothing but a reset of the account takes a    *)
(* decision back.                                                           *)
(***************************************************************************)
CONSTANT Orders

Fates == {"none", "pending", "filled", "cancelled", "rejected"}

VARIABLE fate

Init == fate = [o \in Orders |-> "none"]

Open(o) == fate[o] = "none" /\ fate' = [fate EXCEPT ![o] = "pending"]

Decide(o) ==
    /\ fate[o] = "pending"
    /\ \E f \in {"filled", "cancelled", "rejected"} : fate' = [fate EXCEPT ![o] = f]

\* A reset voids the account first and the open orders after it.
Reset ==
    \E K \in {{"filled"}, Fates} :
        fate' = [o \in Orders |-> IF fate[o] \in K THEN "none" ELSE fate[o]]

Next == Reset \/ \E o \in Orders : Open(o) \/ Decide(o)

Spec == Init /\ [][Next]_fate
=============================================================================
