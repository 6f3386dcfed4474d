------------------------------- MODULE RunPath -------------------------------
(***************************************************************************)
(* What a run passes through, side by side: the drive of the agent, the    *)
(* skill bus, the run store, the media store, the deployment that starts   *)
(* the processes and the follow service. They share no variable, so a step *)
(* of one leaves the others alone.                                         *)
(***************************************************************************)
EXTENDS Naturals

CONSTANTS
    \* AgentDrive
    MaxTurns, Recent,
    \* SkillBus
    Runs, MaxStops, MaxEventQueue, RobotCrashes,
    \* RunStore
    MaxEvents, StoreCrashes,
    \* MediaStore
    Putters, MaxKept, MaxMade, MaxBroken,
    \* Deployment
    Services, DeploymentCancels,
    \* HumanFollow
    Session, NoSession, MaxLost, MaxStream, FollowCrashes

(* The media store keeps at least one object, a queue holds one event, the *)
(* model is asked once.                                                    *)
ASSUME RunPathAssumption ==
    /\ MaxTurns \in Nat \ {0} /\ Recent \in Nat
    /\ MaxEventQueue \in Nat \ {0} /\ RobotCrashes \in Nat /\ StoreCrashes \in Nat
    /\ MaxKept \in Nat \ {0} /\ MaxMade \in Nat /\ MaxBroken \in Nat
    /\ DeploymentCancels \in Nat /\ MaxLost \in Nat /\ FollowCrashes \in Nat

VARIABLES
    caller, drive, current, driveTalk,   \* AgentDrive
    linked, busServer, relay, busCommands, busCancels, busControls, events,
    busResults, busPhase, backlog, busHand, covered, carried, busAsked,
    dropped, stop, busLatest, queue, busCrashes,   \* SkillBus
    command, lines, storeEnded, result, pinned, trace, owner, write,
    storeCrashes,   \* RunStore
    made, there, born, mtime, clock, mediaPut, refs, left, broken,   \* MediaStore
    deploymentRun, proc, task, credentials, deploymentCancels, hit,   \* Deployment
    followRun, followCommands, status, stream, followUp, followActive,
    followPhase, stopSet, lost, opened, wheels, closed, followCrashes   \* HumanFollow

Ad == INSTANCE AgentDrive WITH
    talk <- driveTalk
Sb == INSTANCE SkillBus WITH
    MaxQueue <- MaxEventQueue, MaxCrashes <- RobotCrashes,
    server <- busServer, commands <- busCommands, cancels <- busCancels,
    controls <- busControls, results <- busResults, phase <- busPhase,
    hand <- busHand, asked <- busAsked, latest <- busLatest,
    crashes <- busCrashes
Rs == INSTANCE RunStore WITH
    MaxCrashes <- StoreCrashes,
    ended <- storeEnded, crashes <- storeCrashes
Md == INSTANCE MediaStore WITH
    written <- mtime, put <- mediaPut
Dp == INSTANCE Deployment WITH
    MaxCancels <- DeploymentCancels,
    run <- deploymentRun, cancels <- deploymentCancels
Hf == INSTANCE HumanFollow WITH
    None <- NoSession, MaxCrashes <- FollowCrashes,
    run <- followRun, commands <- followCommands, up <- followUp,
    active <- followActive, phase <- followPhase, crashes <- followCrashes

driveVars == <<caller, drive, current, driveTalk>>
busVars ==
    <<linked, busServer, relay, busCommands, busCancels, busControls, events,
      busResults, busPhase, backlog, busHand, covered, carried, busAsked,
      dropped, stop, busLatest, queue, busCrashes>>
storeVars ==
    <<command, lines, storeEnded, result, pinned, trace, owner, write,
      storeCrashes>>
mediaVars == <<made, there, born, mtime, clock, mediaPut, refs, left, broken>>
deploymentVars ==
    <<deploymentRun, proc, task, credentials, deploymentCancels, hit>>
followVars ==
    <<followRun, followCommands, status, stream, followUp, followActive,
      followPhase, stopSet, lost, opened, wheels, closed, followCrashes>>
runPathVars ==
    <<driveVars, busVars, storeVars, mediaVars, deploymentVars, followVars>>

RunPathInit == Ad!Init /\ Sb!Init /\ Rs!Init /\ Md!Init /\ Dp!Init /\ Hf!Init

DriveStep ==
    Ad!Next /\ UNCHANGED <<busVars, storeVars, mediaVars, deploymentVars, followVars>>
BusStep ==
    Sb!Next /\ UNCHANGED <<driveVars, storeVars, mediaVars, deploymentVars, followVars>>
StoreStep ==
    Rs!Next /\ UNCHANGED <<driveVars, busVars, mediaVars, deploymentVars, followVars>>
MediaStep ==
    Md!Next /\ UNCHANGED <<driveVars, busVars, storeVars, deploymentVars, followVars>>
DeploymentStep ==
    Dp!Next /\ UNCHANGED <<driveVars, busVars, storeVars, mediaVars, followVars>>
FollowStep ==
    Hf!Next /\ UNCHANGED <<driveVars, busVars, storeVars, mediaVars, deploymentVars>>

RunPathNext ==
    DriveStep \/ BusStep \/ StoreStep \/ MediaStep \/ DeploymentStep \/ FollowStep

RunPathSpec == RunPathInit /\ [][RunPathNext]_runPathVars

-----------------------------------------------------------------------------
(* Each component on the way of a run keeps its types.                     *)
RunPathTypes ==
    Ad!TypeOK /\ Sb!TypeOK /\ Rs!TypeOK /\ Md!TypeOK /\ Dp!TypeOK /\ Hf!TypeOK

(* At most one drive of the agent is under way for a conversation.         *)
OneDrive == Ad!OneDrive

(* The bus keeps its word: an emergency stop that returns was carried out  *)
(* for that very call, and a run is carried out at most once.              *)
BusKeepsItsWord ==
    /\ Sb!KeepsLifecycle
    /\ [](\A i \in Sb!Stops : stop[i] = "confirmed" => Sb!StopWasCarriedOut(i))

(* What was written is kept. An event whose append has returned stays in   *)
(* its place, and nothing is appended behind a damaged line of a run's     *)
(* events; an object goes only when max_items newer ones were put, and     *)
(* when every put has ended no more remain.                                *)
RecordsAreKept ==
    /\ Rs!RecordedStays
    /\ [](Rs!OnlyTheTailIsDamaged /\ Md!NewestAreKept /\ Md!LimitIsKept)

(* A deployment that has ended leaves no process behind.                   *)
NoProcessIsLeft == Dp!NoProcessIsLeft
=============================================================================
