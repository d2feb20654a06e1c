CONSTANTS
  Worker = {w}
  Unborn = {w}
  MaxJobs <- Jobs
  MaxControls = 1
  MaxApprovals = 2
SPECIFICATION JobsSpec
PROPERTIES WorkerIsSound ImplementsBoard
CHECK_DEADLOCK FALSE
