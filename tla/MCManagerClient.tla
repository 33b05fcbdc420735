-------------------------- MODULE MCManagerClient --------------------------
(* Calls with one and two transactions, the second one queued behind. *)
EXTENDS ManagerClient

CONSTANTS c1, c2

MCCalls == {c1, c2}
MCCount == [c \in MCCalls |-> IF c = c1 THEN 1 ELSE 2]
=============================================================================
