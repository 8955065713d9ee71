SPECIFICATION Spec
CONSTANTS
  s1 = s1
  s2 = s2
  s3 = s3
  NoSync = NoSync
  Syncs <- ThreeSyncs
  MaxAttempts = 2
  Faults <- StepFault
  Backups <- AnyBackup
SYMMETRY Symmetry
INVARIANTS ExclusiveMigration LockAccounted LatestCoversAll CompletedIsMigrated
CHECK_DEADLOCK FALSE
