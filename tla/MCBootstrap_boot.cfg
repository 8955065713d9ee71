SPECIFICATION FairSpec
CONSTANTS
  n1 = n1
  n2 = n2
  id = id
  note = note
  setting = setting
  method = method
  handler = handler
  Instances <- TwoInstances
  Snapshot <- SystemColumns
  Custom <- CustomColumns
  Defaults <- InOrder
  Setting <- setting
  UniqueRecords <- WithUnique
  Needs <- References
  MaxFaults = 1
INVARIANTS DuplicatesOnlyRaced ServesComplete SettledIsSynced
PROPERTY BootRecovers
CHECK_DEADLOCK FALSE
