------------------------------ MODULE MCOutbox ------------------------------
(* A small instance of NotificationOutbox: one reminder that a heat is next, *)
(* sent by email.                                                            *)
EXTENDS NotificationOutbox, TLC

CONSTANTS n1, p1, k1, k2, a1, a2, nowhere

ByEmail == [n \in Notes |-> "EMAIL"]
=============================================================================
