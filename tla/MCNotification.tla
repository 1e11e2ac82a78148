--------------------------- MODULE MCNotification ---------------------------
(* A small instance of Notification: each ticket has a thread that waits. *)
EXTENDS Notification

CONSTANTS w1, w2

TwoThreads == {w1, w2}
OwnTicket == [w \in TwoThreads |-> IF w = w1 THEN 1 ELSE 2]
=============================================================================
