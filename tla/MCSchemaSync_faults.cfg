SPECIFICATION FairSpec
CONSTANTS
  s1 = s1
  s2 = s2
  s3 = s3
  NoSync = NoSync
  Syncs <- TwoSyncs
  MaxAttempts = 2
  Faults <- NoStep
  Backups <- HasBackup
INVARIANTS TypeOK LockOwned ExclusiveRun
PROPERTIES ImplementsLease EveryCallEnds LockIsFreed
CHECK_DEADLOCK FALSE
