SPECIFICATION FairSpec
CONSTANTS
    Release = {r1, r2}
    Initial = r1
    MaxLaunches = 3
    MaxRequests = 2
    MaxEmergencies = 1
    MaxCrashes = 1
    MaxSpent = 4
    MenuDuringStartup = FALSE
    RecoveringStart = FALSE
INVARIANTS TypeOK CaptureIsComplete ReleaseIsTested SingleOwner RecoveryIsUsable
PROPERTIES TransitionsEnd
CHECK_DEADLOCK FALSE
