---------------------------- MODULE MCRouteCache ----------------------------
(* Instances of RouteCache for TLC. *)
EXTENDS RouteCache

CONSTANTS t1, t2, t3

TwoTasks   == {t1, t2}
ThreeTasks == {t1, t2, t3}
=============================================================================
