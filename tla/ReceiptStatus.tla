----------------------------- MODULE ReceiptStatus -----------------------------
(***************************************************************************)
(* What receipts promise: the status of a message only moves forward, from *)
(* sent to delivered to read, and a message may skip delivered.            *)
(***************************************************************************)

CONSTANT Messages
VARIABLE status     \* status[m]: "none" until the message exists

Init == status = [m \in Messages |-> "none"]

\* Messages S, all of them in one of the states From, reach the state to.
Advance(S, From, to) ==
    /\ \A m \in S : status[m] \in From
    /\ status' = [m \in Messages |-> IF m \in S THEN to ELSE status[m]]

Send(m) == Advance({m}, {"none"}, "sent")
Deliver(S) == Advance(S, {"sent"}, "delivered")
ReadThrough(S) == Advance(S, {"sent", "delivered"}, "read")

Next ==
    \/ \E m \in Messages : Send(m)
    \/ \E S \in SUBSET Messages : Deliver(S) \/ ReadThrough(S)

Spec == Init /\ [][Next]_status
=============================================================================
