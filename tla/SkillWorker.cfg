SPECIFICATION FairSpec
CONSTANTS
    r1 = r1
    r2 = r2
    b1 = b1
    None = None
    Run = {r1, r2}
    Robot = {b1}
    RobotOf <- MCRobotOf
    Key = {1, 2}
    Needs <- MCNeeds
    MaxProgress = 1
    MaxCrashes = 1
    MayClose = TRUE
INVARIANTS
    TypeOK
    ResourceSafety
PROPERTIES
    EventsOnlyAppend
    CancelledNeverCompletes
    KeepsLifecycle
    QueuedRunsSettle
CHECK_DEADLOCK FALSE
