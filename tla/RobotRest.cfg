SPECIFICATION Spec
CONSTANTS
    Calls = {c1, c2}
    Closer = closer
    None = none
PROPERTIES
    BaseComesToRest
    StopsAreCarriedOut
    MicReopens
    CancelledWorkEnds
CHECK_DEADLOCK FALSE
