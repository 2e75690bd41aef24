---------------------------- MODULE MCConnecting ----------------------------
(***************************************************************************)
(* An instance of Connecting for TLC: two participants that join, leave or *)
(* crash at any time, one of which has a second process of its name.       *)
(***************************************************************************)
EXTENDS Connecting

CONSTANTS p1, p2
=============================================================================
