SPECIFICATION Spec
CONSTANTS
    MaxEvents = 2
    MaxCrashes = 1
INVARIANT TornTailsAreRead
CHECK_DEADLOCK FALSE
