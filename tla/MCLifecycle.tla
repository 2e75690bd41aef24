----------------------------- MODULE MCLifecycle -----------------------------
(***************************************************************************)
(* Instances of Lifecycle for TLC: two or three participants and the calls *)
(* their users make, each at most once.                                    *)
(***************************************************************************)
EXTENDS Lifecycle

CONSTANTS p1, p2, p3

MCStopAndPause == {<<p1, "Stop">>, <<p2, "Pause">>, <<p2, "Continue">>}
MCStopPauseAbort == {<<p1, "Stop">>, <<p1, "Abort">>, <<p2, "Pause">>}
=============================================================================
