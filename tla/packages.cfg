CONSTANTS
  Name = {p1, p2}
  Digest = {d1, d2}
  None = None
  Foreign = Foreign
  MaxTransactions = 2
  MaxFaults = 2
  MaxEdits = 1
SPECIFICATION FairSpec
INVARIANTS Undoable
PROPERTIES ForeignKept ImplementsChange RecoveryEnds
CHECK_DEADLOCK FALSE
