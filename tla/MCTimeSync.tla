----------------------------- MODULE MCTimeSync -----------------------------
(***************************************************************************)
(* Instances of TimeSync for TLC: up to three participants, step sizes of  *)
(* one to three time units.                                                *)
(***************************************************************************)
EXTENDS TimeSync

CONSTANTS p1, p2, p3

MCEqualSteps == [p \in Participant |-> 1]

MCMixedSteps == [p \in Participant |-> IF p = p1 THEN 2 ELSE 1]

MCLongerSteps == [p \in Participant |-> IF p = p1 THEN 2 ELSE 3]
=============================================================================
