----------------------------- MODULE MCImageCache -----------------------------
(* Instances of ImageCache for TLC. *)
EXTENDS ImageCache, TLC

CONSTANTS p1, p2, i1, i2, small, large

TwoReaders  == {p1, p2}
TwoCleaners == {i1, i2}
TwoVariants == {small, large}
Bytes       == small :> 1 @@ large :> 2

Interchangeable == Permutations(TwoReaders) \cup Permutations(TwoCleaners)
=============================================================================
