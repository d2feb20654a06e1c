CONSTANTS
  MaxOutput = 2
  MaxRevision = 2
  MaxRequest = 4
  MaxMessage = 1
SPECIFICATION FairSpec
INVARIANTS CallIsWhole GoalIsKept
PROPERTIES CallsEnd
CHECK_DEADLOCK FALSE
