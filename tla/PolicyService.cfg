SPECIFICATION Spec
CONSTANTS
    Callers = {k1, k2}
    NoCaller = none
    MaxLoads = 2
    MaxCalls = 2
    MaxCancels = 1
INVARIANT OneExecution
CHECK_DEADLOCK FALSE
