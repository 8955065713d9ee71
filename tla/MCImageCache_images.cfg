SPECIFICATION Spec
CONSTANTS
  p1 = p1
  p2 = p2
  i1 = i1
  i2 = i2
  small = small
  large = large
  None = None
  Readers <- TwoReaders
  Cleaners <- TwoCleaners
  Variants <- TwoVariants
  Size <- Bytes
  MinHits = 2
  Threshold = 3
  Target = 2
  MaxStamp = 1
  MaxRequests = 4
SYMMETRY Interchangeable
INVARIANTS HitIsCurrent CachedIsAccounted
PROPERTY CleanupReachesTarget
CHECK_DEADLOCK FALSE
