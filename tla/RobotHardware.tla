---------------------------- MODULE RobotHardware ----------------------------
(***************************************************************************)
(* The robots, side by side: the servo bus and the docking of the arm, the *)
(* mock robot, the driver of the simulation, and the trials of the         *)
(* RoboCasa evaluation. They share no variable, so a step of one leaves    *)
(* the others alone.                                                       *)
(***************************************************************************)
EXTENDS Integers

CONSTANTS
    \* ServoBus
    Arms, Wheels, MaxAngle, MaxFaults,
    \* DockArm
    Room,
    \* MockRobot
    Objects, NoObject, LastFault, MaxScans, Deployments,
    \* SimDriver
    SimActions, NoAction,
    \* CasaTrial
    MaxTrials, TrialFrames, MaxRpcs

VARIABLES
    bus, group, angle, wheelMode, ready, recall, servoBase, call,   \* ServoBus
    dockBase, dockHand, dockActive, gripped, docked, skill, dockAt, target,
    outcome,   \* DockArm
    settings, mockState, attempts, mockBattery, opening, rolling, mockHeld,
    objects, scans,   \* MockRobot
    kind, progress, simulationLine, activeStop, stopEvent, stepper, latched,
    moving, driverState,   \* SimDriver
    trial, begun, frame, over, trialHeld, rpcs, acted, trialDriver, bench   \* CasaTrial

Bs == INSTANCE ServoBus WITH
    base <- servoBase
Dk == INSTANCE DockArm WITH
    base <- dockBase, hand <- dockHand, active <- dockActive, at <- dockAt
Mk == INSTANCE MockRobot WITH
    state <- mockState, battery <- mockBattery, held <- mockHeld
Sd == INSTANCE SimDriver WITH
    Actions <- SimActions, line <- simulationLine
Ct == INSTANCE CasaTrial WITH
    MaxFrames <- TrialFrames,
    held <- trialHeld, driver <- trialDriver

(* The settings of a mock robot are settings; no action is none; angles,   *)
(* faults, cells, attempts, trials and requests are counted, and a trial   *)
(* has a frame to act on.                                                  *)
ASSUME RobotHardwareAssumption ==
    /\ Deployments \subseteq Mk!Settings /\ NoAction \notin SimActions
    /\ MaxAngle \in Nat /\ MaxFaults \in Nat /\ Room \in Nat
    /\ LastFault \in Nat /\ MaxScans \in Nat
    /\ MaxTrials \in Nat /\ TrialFrames \in Nat \ {0} /\ MaxRpcs \in Nat

servoVars == <<bus, group, angle, wheelMode, ready, recall, servoBase, call>>
dockVars ==
    <<dockBase, dockHand, dockActive, gripped, docked, skill, dockAt, target,
      outcome>>
mockVars ==
    <<settings, mockState, attempts, mockBattery, opening, rolling, mockHeld,
      objects, scans>>
simulationVars ==
    <<kind, progress, simulationLine, activeStop, stopEvent, stepper, latched,
      moving, driverState>>
trialVars ==
    <<trial, begun, frame, over, trialHeld, rpcs, acted, trialDriver, bench>>
robotVars == <<servoVars, dockVars, mockVars, simulationVars, trialVars>>

RobotHardwareInit == Bs!Init /\ Dk!Init /\ Mk!Init /\ Sd!Init /\ Ct!Init

ServoStep ==
    Bs!Next /\ UNCHANGED <<dockVars, mockVars, simulationVars, trialVars>>
DockStep ==
    Dk!Next /\ UNCHANGED <<servoVars, mockVars, simulationVars, trialVars>>
MockStep ==
    Mk!Next /\ UNCHANGED <<servoVars, dockVars, simulationVars, trialVars>>
SimulationStep ==
    Sd!Next /\ UNCHANGED <<servoVars, dockVars, mockVars, trialVars>>
TrialStep ==
    Ct!Next /\ UNCHANGED <<servoVars, dockVars, mockVars, simulationVars>>

RobotHardwareNext ==
    ServoStep \/ DockStep \/ MockStep \/ SimulationStep \/ TrialStep

RobotHardwareSpec == RobotHardwareInit /\ [][RobotHardwareNext]_robotVars

-----------------------------------------------------------------------------
(* Each part of the robots keeps its types.                                *)
HardwareTypes == Bs!TypeOK /\ Dk!TypeOK /\ Mk!TypeOK /\ Sd!TypeOK /\ Ct!TypeOK

(* An answer is where the joint is now, and a relative motion of a joint   *)
(* that answered starts where it was while the call, or a telemetry call   *)
(* it overlapped, was under way.                                           *)
MeasuredNow == Bs!MeasuredNow

(* What the gripper holds stays with it: the simulated wand and the mock   *)
(* robot's objects.                                                        *)
HeldIsKept == Dk!WandIsKept /\ Mk!HeldIsOutOfSight

(* After an emergency stop of the simulated robot nothing moves it, and a  *)
(* thread that steps it has the lock or has been told to stop.             *)
SimulationStops == Sd!EmergencyHolds /\ []Sd!NoStrayWriter

(* No action is executed on a frame of a trial after one that went through.*)
NoStepRepeated == Ct!NoStepRepeated
=============================================================================
