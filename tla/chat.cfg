CONSTANTS
  Worker = {"turn", "command"}
  Unborn = {"command"}
  MaxJobs <- Jobs
  MaxControls = 1
  MaxApprovals = 1
  MaxInputs = 3
SPECIFICATION FairSpec
INVARIANTS ScreenIsTrue MessagesKept
PROPERTIES ChatMoves
CHECK_DEADLOCK FALSE
