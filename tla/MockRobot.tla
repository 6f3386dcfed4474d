------------------------------ MODULE MockRobot ------------------------------
(***************************************************************************)
(* The mock XLeRobot every test and demonstration runs on: MockRobotDriver *)
(* with its small world of objects.  apply_action() sleeps and then does   *)
(* everything in one go, so each action is one step.  Its settings are     *)
(* drawn once: resources that are missing or fail until some attempt,      *)
(* objects that are seen only after some scans.  An injected failure may   *)
(* hit any action.  Coordinates, pictures and the configured emergency     *)
(* stop are left out; every object can be grasped.                         *)
(***************************************************************************)
EXTENDS Naturals, SkillGate

CONSTANTS
    Objects, NoObject,
    LastFault,      \* no readiness fault lasts longer than this many attempts
    MaxScans,       \* nor does an object hide for more scans
    Deployments     \* the settings a robot may be given

VARIABLES
    settings,   \* what the deployment's file says of this robot
    state,
    attempts,   \* action_attempts, up to LastFault + 1
    battery,
    opening,    \* gripper_opening_pct: above 60, at most 5, or between
    rolling,    \* base_velocity is not zero
    held,       \* object_held
    objects,    \* world["objects"]
    scans       \* scan_counts, up to MaxScans + 1

mockVars == <<settings, state, attempts, battery, opening, rolling, held, objects, scans>>

Parts == {"base", "arm", "gripper"}
Places == {"workspace", "table", "gripper"}
Openings == {"open", "half", "closed"}

Settings ==
    [present : SUBSET Parts, until : [Parts -> 0..LastFault],
     level : {"normal", "unknown"}, reveal : [Objects -> 0..MaxScans],
     missed : [Objects -> 0..MaxScans], seen : [Objects -> BOOLEAN]]

TypeOK ==
    /\ settings \in Settings \cap Deployments
    /\ state \in {"created", "idle", "degraded", "skill_completed", "failed", "closed"}
    /\ attempts \in 0..(LastFault + 1) /\ battery \in Levels
    /\ opening \in Openings /\ rolling \in BOOLEAN
    /\ held \in Objects \cup {NoObject}
    /\ objects \in [Objects -> [held : BOOLEAN, visible : BOOLEAN, place : Places]]
    /\ scans \in [Objects -> 0..(MaxScans + 1)]

Init ==
    /\ settings \in Deployments
    /\ state = "created" /\ attempts = 0 /\ battery = settings.level
    /\ opening = "open" /\ rolling = FALSE /\ held = NoObject
    /\ objects = [o \in Objects |->
                    [held |-> FALSE, visible |-> settings.seen[o], place |-> "table"]]
    /\ scans = [o \in Objects |-> 0]

world == <<opening, rolling, held, objects>>

-----------------------------------------------------------------------------
(* start(): the diagnosis looks at the settings only.                      *)
Start ==
    /\ state = "created"
    /\ state' = IF Parts \subseteq settings.present THEN "idle" ELSE "degraded"
    /\ UNCHANGED <<settings, attempts, battery, world, scans>>

Close ==
    /\ state' = "closed"
    /\ UNCHANGED <<settings, attempts, battery, world, scans>>

(* reset(): a new world, the old settings.                                 *)
Reset ==
    /\ state' = "idle" /\ attempts' = 0 /\ battery' = settings.level
    /\ opening' = "open" /\ rolling' = FALSE /\ held' = NoObject
    /\ objects' = [o \in Objects |->
                    [held |-> FALSE, visible |-> settings.seen[o], place |-> "table"]]
    /\ scans' = [o \in Objects |-> 0]
    /\ UNCHANGED settings

-----------------------------------------------------------------------------
\* mutant: what is in the gripper is seen like anything else
SeesItsHand(o) ==
    objects[o].visible /\ (settings.missed[o] > 0 => scans[o] > settings.missed[o])

(* _object_visible(): the first scans of an object may miss it.            *)
InSight(o) ==
    /\ ~objects[o].held /\ objects[o].visible
    /\ settings.missed[o] > 0 => scans[o] > settings.missed[o]

Capped(n, top) == IF n < top THEN n + 1 ELSE top

(* _reveal_after_scan()                                                    *)
Reveals(o, looks) == settings.reveal[o] > 0 /\ looks >= settings.reveal[o]

(* before_perception_request(): the runtime announces a look for o.        *)
Scan(o) ==
    /\ scans' = [scans EXCEPT ![o] = Capped(@, MaxScans + 1)]
    /\ objects' = IF Reveals(o, scans'[o]) THEN [objects EXCEPT ![o].visible = TRUE]
                  ELSE objects
    /\ UNCHANGED <<settings, state, attempts, battery, opening, rolling, held>>

-----------------------------------------------------------------------------
Attempt == attempts + 1

Fault(part) == settings.until[part] > 0 /\ Attempt <= settings.until[part]

Ready == {part \in settings.present : ~Fault(part)}

Counted == attempts' = Capped(attempts, LastFault + 1)

(* A resource that is not ready yet leaves the robot idle, anything else   *)
(* that goes wrong leaves it failed.                                       *)
Unsuccessful(notReady) ==
    /\ state' = IF notReady /\ \E part \in Parts : Fault(part) THEN "idle" ELSE "failed"
    /\ Counted /\ UNCHANGED <<settings, battery, world, scans>>

(* The deployments of the mock register every skill.                       *)
Allowed(action, complete) == Admits(action, complete, Actions, state, Ready, battery)

Refuse(action, complete) ==
    /\ ~Allowed(action, complete)
    /\ Unsuccessful(~Incomplete(action, complete, Actions)
                    /\ Unready(action, Actions, Ready, battery))

(* The failure_mode a scripted failure names: it may be that of readiness. *)
ScriptedModes == BOOLEAN

Injected(action) ==
    /\ Allowed(action, TRUE)
    /\ \E notReady \in ScriptedModes : Unsuccessful(notReady)

(* A joint beyond its limit; an unknown joint or pose comes to the same.   *)
BeyondLimit ==
    /\ Allowed("set_arm_pose", TRUE)
    /\ Unsuccessful(FALSE)

(* A percentage that sinks crosses its levels one by one.                  *)
Below(level) ==
    CASE level = "normal" -> "low"
      [] level = "low" -> "critical"
      [] OTHER -> level

Drained(level) == {level, Below(level)}

(* Even an emergency stop leaves "skill_completed".                        *)
Succeed(action) ==
    /\ Allowed(action, TRUE)
    /\ state' = "skill_completed" /\ battery' \in Drained(battery)
    /\ Counted /\ UNCHANGED <<settings, scans>>

-----------------------------------------------------------------------------
StopMotion ==
    /\ Succeed("stop_motion") /\ rolling' = FALSE
    /\ UNCHANGED <<opening, held, objects>>

(* move_base, turn_base; base_velocity_step, which leaves its velocity set *)
(* when it is done.                                                        *)
MoveBase ==
    /\ Succeed("move_base") /\ rolling' \in {rolling, TRUE}
    /\ UNCHANGED <<opening, held, objects>>

(* set_arm_pose, move_arm_joints: the gripper is one of the joints, and an *)
(* object stays held when they open it.                                    *)
MoveArm ==
    /\ Succeed("set_arm_pose") /\ opening' \in Openings
    /\ UNCHANGED <<rolling, held, objects>>

ResetPosture ==
    /\ Succeed("reset_posture") /\ rolling' = FALSE /\ opening' = "open"
    /\ UNCHANGED <<held, objects>>

(* _release_held_object()                                                  *)
LetGo(o) ==
    [objects EXCEPT ![o] = [held |-> FALSE, visible |-> TRUE, place |-> "workspace"]]

(* set_gripper                                                             *)
Open ==
    /\ Succeed("set_gripper") /\ opening' = "open" /\ held' = NoObject
    /\ objects' = IF held = NoObject THEN objects ELSE LetGo(held)
    /\ UNCHANGED rolling

HalfOpen ==
    /\ Succeed("set_gripper") /\ opening' = "half"
    /\ UNCHANGED <<rolling, held, objects>>

(* The object is named or the nearest in sight; a named one need not be    *)
(* near.  Closing again while something is held forgets it: that object    *)
(* stays held for good.                                                    *)
Grasp(o) ==
    /\ Succeed("set_gripper") /\ InSight(o)
    /\ opening' = "closed" /\ held' = o
    /\ objects' = [objects EXCEPT ![o] =
                     [held |-> TRUE, visible |-> FALSE, place |-> "gripper"]]
    /\ UNCHANGED rolling

(* The object that is named is not in sight, or there is none.             *)
CloseOnNothing ==
    /\ Succeed("set_gripper") /\ opening' = "closed"
    /\ UNCHANGED <<rolling, held, objects>>

-----------------------------------------------------------------------------
Next ==
    \/ Start \/ Close \/ Reset
    \/ \E o \in Objects : Scan(o) \/ Grasp(o)
    \/ \E action \in Actions :
          Injected(action) \/ \E complete \in BOOLEAN : Refuse(action, complete)
    \/ BeyondLimit \/ StopMotion \/ MoveBase \/ MoveArm \/ ResetPosture
    \/ Open \/ HalfOpen \/ CloseOnNothing

Spec == Init /\ [][Next]_mockVars

-----------------------------------------------------------------------------
(* Whatever is scanned, grasped and dropped meanwhile, what the gripper    *)
(* holds is in the gripper and no observation shows it in the scene.       *)
HeldIsOutOfSight ==
    /\ \A o \in Objects : objects[o].place = "gripper" => ~InSight(o)
    /\ held # NoObject => objects[held].place = "gripper"
=============================================================================
