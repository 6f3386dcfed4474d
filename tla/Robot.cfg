SPECIFICATION RobotSpec
CONSTANTS
    None = None
    Owner = {o1, o2, o3}
    Key = {1, 2}
    MaxDepth = 2
    Arms = {left, right}
    Wheels = {"w1"}
    MaxAngle = 1
    MaxFaults = 1
    Room = 1
    Objects = {"o1", "o2"}
    NoObject = none
    LastFault = 1
    MaxScans = 1
    Deployments <- MCDeployments
    SimActions = {"a1", "a2", "a3"}
    NoAction = none
    MaxTrials = 2
    TrialFrames = 2
    MaxRpcs = 4
SYMMETRY ArmSymmetry
INVARIANTS
    TypeOK
    Exclusive
    NoLostWakeUp
    HeldIsKept
PROPERTIES
    MeasuredNow
    SimulationStops
    NoStepRepeated
CHECK_DEADLOCK FALSE
