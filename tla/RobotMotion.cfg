CONSTANTS
    Calls = {c1, c2, c3}
    Closer = closer
    None = none
    PoolSize = 2
    MaxFaults = 1
    Requests <- MCRequests
SPECIFICATION Safety
SYMMETRY Interchangeable
INVARIANTS TypeOK DrivingIsWatched CurrentIsAdmitted
PROPERTIES WatchdogSparesNewer
CHECK_DEADLOCK FALSE
