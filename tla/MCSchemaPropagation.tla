------------------------ MODULE MCSchemaPropagation ------------------------
(* Instances of SchemaPropagation for TLC. *)
EXTENDS SchemaPropagation, TLC

CONSTANTS a1, a2, b1, nA, nB

Three    == {a1, a2, b1}
TwoNodes == {nA, nB}
TwoOnA   == a1 :> nA @@ a2 :> nA @@ b1 :> nB

\* One instance on each node and two changes; or two that share a node beside
\* the other, and one change.
Clusters == {a1, b1} :> 2 @@ Three :> 1
=============================================================================
