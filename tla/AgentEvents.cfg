SPECIFICATION FairSpec
CONSTANTS
    MaxTasks = 1
    MaxRuns = 2
    MaxTurns = 2
    MaxSkills = 2
    MaxCrashes = 0
PROPERTIES
    TerminalEventsUpdateSteps
CHECK_DEADLOCK FALSE
