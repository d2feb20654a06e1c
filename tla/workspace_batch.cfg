CONSTANTS
  File = {f1, f2}
  Bytes = {b1, b2}
  None = None
  Foreign = Foreign
  MaxBatches = 2
  MaxFaults = 2
  MaxEdits = 1
SPECIFICATION WorkspaceFairSpec
INVARIANTS BatchIsWhole
PROPERTIES EditKept ImplementsChange RecoveryEnds
CHECK_DEADLOCK FALSE
