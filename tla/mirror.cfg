CONSTANTS
  Version = {v1, v2, v3}
  Launched = v1
  None = none
  Limit = 2
  MaxWrites = 3
  MaxMessages = 2
  MaxOther = 2
SPECIFICATION FairSpec
INVARIANTS StagingIsSound
PROPERTIES EditsGetVerdict
CHECK_DEADLOCK FALSE
