---------------------------- MODULE ModelServices ----------------------------
(***************************************************************************)
(* The services that see and decide, side by side: perception, the policy  *)
(* service, the VLA and VLN options, the planner of a navigation run, and  *)
(* the admission of actions. They share no variable, so a step of one      *)
(* leaves the others alone.                                                *)
(***************************************************************************)
EXTENDS Naturals, FiniteSets

CONSTANTS
    \* Perception
    Skills, ObservationLoop, MaxFrames, MaxItems, Lifetime,
    \* PolicyService
    PolicyRuns, NoCaller, MaxLoads, MaxCalls, MaxCancels,
    \* ModelOptions
    MaxSteps, MaxChunk,
    \* VlnPlanner
    PlannerRuns, NoRun, Replans, MaxPlans,
    \* ActionAdmission
    Requests, NoRequest, AskedActions

(* Frames, steps, loads and calls are counted; a VLA or VLN option may     *)
(* take a step and an answer hold an action; there are finitely many       *)
(* skills; no session and no run are none; what is asked for is an action. *)
ASSUME ModelAssumption ==
    /\ MaxFrames \in Nat /\ MaxLoads \in Nat /\ MaxCalls \in Nat /\ MaxCancels \in Nat
    /\ MaxSteps \in Nat \ {0} /\ MaxChunk \in Nat \ {0} /\ Replans \in Nat /\ MaxPlans \in Nat
    /\ IsFiniteSet(Skills) /\ NoCaller \notin PolicyRuns
    /\ AskedActions \subseteq {"stop_motion", "move_base", "set_arm_pose", "set_gripper",
                              "reset_posture"}

VARIABLES
    camera, perceptionDriver, perceptionLine, holder, taken, perceptionLatest,
    asker, perceptionStored, entities, evidence,   \* Perception
    policyServer, rpc, calls, busy, awaited, work, model, runtime, loads,
    health, toPolicy, fromPolicy, cancelEvent, policySession, canceller,
    policyCancels, actions, overlapped, unanswered,   \* PolicyService
    option, optionAt, newer, spent, askedTwice, steps, moved, chunk,
    modelDone, cancelAsked, optionEnded,   \* ModelOptions
    planning, plans, stopPlan, plannerSession, plannerHistory, waypoint,
    lastLook, basis,   \* VlnPlanner
    boot, flagged, registered, admissionState, admissionBattery, arms, admissionBase,
    request, lock   \* ActionAdmission

Pc == INSTANCE Perception WITH
    Loop <- ObservationLoop,
    driver <- perceptionDriver, line <- perceptionLine,
    latest <- perceptionLatest, stored <- perceptionStored
Ps == INSTANCE PolicyService WITH
    Callers <- PolicyRuns,
    server <- policyServer, cancels <- policyCancels
Mo == INSTANCE ModelOptions WITH
    at <- optionAt, ended <- optionEnded
Vp == INSTANCE VlnPlanner WITH
    Runs <- PlannerRuns,
    session <- plannerSession, history <- plannerHistory
Aa == INSTANCE ActionAdmission WITH
    Asked <- AskedActions,
    state <- admissionState, battery <- admissionBattery,
    base <- admissionBase

perceptionVars ==
    <<camera, perceptionDriver, perceptionLine, holder, taken,
      perceptionLatest, asker, perceptionStored, entities, evidence>>
policyVars ==
    <<policyServer, rpc, calls, busy, awaited, work, model, runtime, loads,
      health, toPolicy, fromPolicy, cancelEvent, policySession, canceller,
      policyCancels, actions, overlapped, unanswered>>
optionVars ==
    <<option, optionAt, newer, spent, askedTwice, steps, moved, chunk,
      modelDone, cancelAsked, optionEnded>>
plannerVars ==
    <<planning, plans, stopPlan, plannerSession, plannerHistory, waypoint,
      lastLook, basis>>
admissionVars ==
    <<boot, flagged, registered, admissionState, admissionBattery, arms, admissionBase,
      request, lock>>
modelVars ==
    <<perceptionVars, policyVars, optionVars, plannerVars, admissionVars>>

ModelServicesInit == Pc!Init /\ Ps!Init /\ Mo!Init /\ Vp!Init /\ Aa!Init

PerceptionStep ==
    Pc!Next /\ UNCHANGED <<policyVars, optionVars, plannerVars, admissionVars>>
PolicyStep ==
    Ps!Next /\ UNCHANGED <<perceptionVars, optionVars, plannerVars, admissionVars>>
OptionStep ==
    Mo!Next /\ UNCHANGED <<perceptionVars, policyVars, plannerVars, admissionVars>>
PlannerStep ==
    Vp!Next /\ UNCHANGED <<perceptionVars, policyVars, optionVars, admissionVars>>
AdmissionStep ==
    Aa!Next /\ UNCHANGED <<perceptionVars, policyVars, optionVars, plannerVars>>

ModelServicesNext ==
    PerceptionStep \/ PolicyStep \/ OptionStep \/ PlannerStep \/ AdmissionStep

ModelServicesSpec == ModelServicesInit /\ [][ModelServicesNext]_modelVars

-----------------------------------------------------------------------------
(* Each service keeps its types.                                           *)
ModelTypes == Pc!TypeOK /\ Ps!TypeOK /\ Mo!TypeOK /\ Vp!TypeOK /\ Aa!TypeOK

(* A picture handed out is not older than the camera's when it was asked   *)
(* for, or than the one of the observation that was then under way.        *)
SeenSinceAsked == Pc!SeenSinceAsked

(* The policy's answer goes to the run it was computed for.                *)
NoForeignAction == Ps!NoForeignAction

(* A plan is made from what its own run has seen, and no frame is put to   *)
(* the model twice.                                                        *)
PlansFromOwnSight == Vp!PlansFromOwnSight /\ Mo!FreshEyes
=============================================================================
