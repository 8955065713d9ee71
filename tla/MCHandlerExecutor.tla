-------------------------- MODULE MCHandlerExecutor --------------------------
(* Instances of HandlerExecutor for TLC. *)
EXTENDS HandlerExecutor

CONSTANTS r1, r2, r3, c1, c2

TwoRuns     == {r1, r2}
ThreeRuns   == {r1, r2, r3}
OneChild    == {c1}
TwoChildren == {c1, c2}
=============================================================================
