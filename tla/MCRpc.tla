------------------------------- MODULE MCRpc -------------------------------
(***************************************************************************)
(* Instances of Rpc for TLC: a client that hosts a server itself, and a    *)
(* second participant with a server; two calls, one of them with a         *)
(* timeout.                                                                *)
(***************************************************************************)
EXTENDS Rpc

CONSTANTS p1, p2, k1, k2

MCCaller == [k \in Call |-> p1]

MCTimeout == [k \in Call |-> IF k = k1 THEN 1 ELSE 0]
=============================================================================
