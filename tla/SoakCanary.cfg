SPECIFICATION Spec
CONSTANTS
    MaxInt = 1000
    MaxSample = 100
    ApprovedTests <- MCApproved
    ApprovedScale <- MCScale
    RegularRepeat = 2
    HardWall = 5
    PlannedNodes = 2
    Requests <- MCRequests
    LastInstant = 6
    MaxStarts = 2
    MaxFaults = 1
    MaxHeartbeats = 1
    Minute = 2
INVARIANTS
    TypeOK
    LaunchedOnce
    ReloadsItsOwn
    PromotedIsBacked
    PlanIsHonoured
    AcceptedIsBuilt
    PlanCoversWorstCase
PROPERTIES
    CompletionIsEarned
CHECK_DEADLOCK FALSE
