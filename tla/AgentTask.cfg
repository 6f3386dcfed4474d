SPECIFICATION Spec
CONSTANTS
    MaxTasks = 2
    MaxRuns = 2
    MaxTurns = 2
    MaxSkills = 2
    MaxCrashes = 1
INVARIANTS
    TypeOK
    OneOpenTaskOneRun
    CompletedMeansDone
PROPERTIES
    OutcomesSettleOnce
    RestartWaitsForUser
CHECK_DEADLOCK FALSE
