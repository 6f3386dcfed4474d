SPECIFICATION FairSpec
CONSTANTS
    MaxTasks = 1
    MaxRuns = 2
    MaxTurns = 2
    MaxSkills = 2
    MaxCrashes = 0
PROPERTIES
    WakeUpsEnd
CHECK_DEADLOCK FALSE
