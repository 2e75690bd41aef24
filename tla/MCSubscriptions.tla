-------------------------- MODULE MCSubscriptions --------------------------
(***************************************************************************)
(* An instance of Subscriptions for TLC: a receiver registers two services *)
(* while the publisher of both joins and another peer may leave.           *)
(***************************************************************************)
EXTENDS Subscriptions

CONSTANTS p1, p2, p3, t1, t2

MCPublisher == [t \in Topic |-> p2]

MCReceives == [p \in Participant |-> IF p = p1 THEN Topic ELSE {}]
=============================================================================
