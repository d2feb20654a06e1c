CONSTANTS
  Request = {r1, r2}
  MaxCores = 3
  MaxFailures = 1
  MaxStops = 1
SPECIFICATION FairSpec
INVARIANTS NoReplay EvidenceKept
PROPERTIES Delivered
CHECK_DEADLOCK FALSE
