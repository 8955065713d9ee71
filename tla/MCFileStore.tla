----------------------------- MODULE MCFileStore -----------------------------
(* Instances of FileStore for TLC. *)
EXTENDS FileStore, TLC

CONSTANTS r1, r2, r3

ThreeRequests == {r1, r2, r3}
Interchangeable == Permutations(ThreeRequests)
=============================================================================
