CONSTANTS
  Device = {d1, d2}
  MaxWrites = 3
  MaxSyncs = 2
  MaxTime = 3
SPECIFICATION Spec
SYMMETRY Devices
CHECK_DEADLOCK FALSE
INVARIANTS
  RecordedAgrees
  SyncedIsCurrent
PROPERTIES
  LaterWriteWins
