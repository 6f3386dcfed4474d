SPECIFICATION Spec
CONSTANTS
    Msgs = {"prompt", "control", "bind"}
    Kind <- MCKind
    Sender <- MCSender
    WithMedia = {"prompt"}
    User = "user"
    Account = "account"
    NoOne = none
    MaxSeen = 1
    MaxDeliveries <- MCDeliveries
    MaxCrashes = 1
    MaxAnswers = 1
    MaxAttempts = 2
    Attachments = 1
    MaxReplies = 2
    Pages = {"p1", "p2"}
    ReplyParts = 2
    MaxConnects = 2
    Speech = {"s1", "s2"}
    Clarify = "clarify"
    MaxErrors = 2
    MaxUtterances = 2
    MaxQueue = 2
    MaxChunks = 5
    Pieces = 2
    MaxQuiet = 1
    MaxHeard = 3
    TextChunks = 2
    MaxReports = 2
    MaxTurns = 2
    Recent = 1
    Runs = {"r1"}
    MaxStops = 2
    MaxEventQueue = 1
    RobotCrashes = 1
    MaxEvents = 2
    StoreCrashes = 2
    Putters = {"m1", "m2"}
    MaxKept = 2
    MaxMade = 4
    MaxBroken = 1
    Services = {"s1", "s2"}
    DeploymentCancels = 2
    Session = {"s1", "s2"}
    NoSession = none
    MaxLost = 0
    MaxStream = 1
    FollowCrashes = 1
    Skills = {"s1"}
    ObservationLoop = "loop"
    MaxFrames = 2
    MaxItems = 1
    Lifetime = 1
    PolicyRuns = {"k1", "k2"}
    NoCaller = none
    MaxLoads = 1
    MaxCalls = 2
    MaxCancels = 1
    MaxSteps = 2
    MaxChunk = 2
    PlannerRuns = {"n1", "n2"}
    NoRun = none
    Replans = 2
    MaxPlans = 3
    Requests = {"r1", "r2"}
    NoRequest = none
    AskedActions = {"stop_motion", "move_base"}
INVARIANTS
    TypesOK
    RoutedOnce
    TextsArriveWhole
    NothingCutOff
    OneDrive
    NoProcessIsLeft
    SeenSinceAsked
    NoForeignAction
    PlansFromOwnSight
PROPERTIES
    RecordsAreKept
    BusKeepsItsWord
CHECK_DEADLOCK FALSE
