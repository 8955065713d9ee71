---------------------------- MODULE MCSchemaSync ----------------------------
(* Instances of SchemaSync for TLC. *)
EXTENDS SchemaSync, TLC

CONSTANTS s1, s2, s3

TwoSyncs   == {s1, s2}
ThreeSyncs == {s1, s2, s3}

NoFault    == {}
StepFault  == {"step"}
NoStep     == {"redis", "crash", "expiry"}
HasBackup  == {TRUE}
AnyBackup  == BOOLEAN

\* Calls are interchangeable (used by the run of invariants only).
Symmetry == Permutations(Syncs)
=============================================================================
