------------------------------ MODULE DockArm ------------------------------
(***************************************************************************)
(* The wand of the home scene: it is welded to its dock or to the gripper. *)
(* The skills pick_wand_from_dock and place_wand_to_dock call a sequence   *)
(* of primitives; the simulation serves the arm's, and a gripper command   *)
(* once the dock kernel is active; other gripper commands move both        *)
(* gripper joints and know of no weld. The base moves, the driver resets   *)
(* and reconnects between any two calls. A pose is a cell of a grid and a  *)
(* quarter turn; joint angles are the point of the hand before the base.   *)
(***************************************************************************)
EXTENDS Integers, Sequences

CONSTANTS Room   \* the base stays in -Room..Room on both axes

VARIABLES
    base,      \* x, y and yaw of the base
    hand,      \* where the hand is, before the base; NoPoint: anywhere else
    active,    \* DockManipulation.active
    gripped,   \* grip_weld
    docked,    \* dock_weld
    skill,     \* the skill that runs: none, pick, place
    at,        \* its next call
    target,    \* the point that the skill works on, before the base
    outcome    \* of the last skill: none, picked, placed, failed

dockVars == <<base, hand, active, gripped, docked, skill, at, target, outcome>>

NoPoint == <<>>
Home == [x |-> 0, y |-> 0, yaw |-> 0]
DockAt == <<1, 0>>
Cells == (-2 * Room - 1)..(2 * Room + 1)
Above(p) == <<p[1], p[2], 1>>
On(p) == <<p[1], p[2], 0>>

TypeOK ==
    /\ base \in [x : -Room..Room, y : -Room..Room, yaw : 0..3]
    /\ hand \in {NoPoint} \cup (Cells \X Cells \X {0, 1})
    /\ active \in BOOLEAN /\ gripped \in BOOLEAN /\ docked \in BOOLEAN
    /\ skill \in {"none", "pick", "place"} /\ at \in 0..10
    /\ target \in {NoPoint} \cup (Cells \X Cells)
    /\ outcome \in {"none", "picked", "placed", "failed"}

Init ==
    /\ base = Home /\ hand = NoPoint /\ active = FALSE
    /\ gripped = FALSE /\ docked = TRUE
    /\ skill = "none" /\ at = 0 /\ target = NoPoint /\ outcome = "none"

body == <<base, hand>>
wand == <<active, gripped, docked>>

-----------------------------------------------------------------------------
(* Quarter turns, and the two frames.                                      *)
Turned(v, yaw) == CASE yaw = 0 -> v
                    [] yaw = 1 -> <<-v[2], v[1]>>
                    [] yaw = 2 -> <<-v[1], -v[2]>>
                    [] yaw = 3 -> <<v[2], -v[1]>>

ToWorld(p) == LET v == Turned(<<p[1], p[2]>>, base.yaw) IN <<base.x + v[1], base.y + v[2]>>
ToBase(w) == Turned(<<w[1] - base.x, w[2] - base.y>>, (4 - base.yaw) % 4)

(* A wand in the gripper goes where the hand goes.                         *)
InReach == \/ gripped
           \/ hand # NoPoint /\ hand[3] = 0 /\ ToWorld(hand) = DockAt

Solvable(p) == p[1] \in -1..1 /\ p[2] \in -1..1

-----------------------------------------------------------------------------
(* The base, by other skills. Direction and sign of the velocities: the    *)
(* kernel drives along its own x with vy and along its own y with vx.      *)
Velocity(direction) ==
    CASE direction = "forward"  -> [vx |-> 0, vy |-> 1]
      [] direction = "backward" -> [vx |-> 0, vy |-> -1]
      [] direction = "left"     -> [vx |-> 1, vy |-> 0]
      [] direction = "right"    -> [vx |-> -1, vy |-> 0]

MoveBase(direction) ==
    LET v == Turned(<<Velocity(direction).vy, Velocity(direction).vx>>, base.yaw)
    IN /\ base' = [base EXCEPT !.x = @ + v[1], !.y = @ + v[2]]
       /\ base'.x \in -Room..Room /\ base'.y \in -Room..Room
       /\ UNCHANGED <<hand, wand, skill, at, target, outcome>>

TurnBase(quarter) ==
    /\ base' = [base EXCEPT !.yaw = (@ + quarter) % 4]
    /\ UNCHANGED <<hand, wand, skill, at, target, outcome>>

-----------------------------------------------------------------------------
(* The simulation starts over. A reset keeps the dock component, a close   *)
(* and a new connection replace it.                                        *)
Fresh == base' = Home /\ hand' = NoPoint /\ gripped' = FALSE /\ docked' = TRUE

Reset == Fresh /\ UNCHANGED <<active, skill, at, target, outcome>>

Reconnect == Fresh /\ active' = FALSE /\ UNCHANGED <<skill, at, target, outcome>>

-----------------------------------------------------------------------------
(* Primitives.                                                             *)
\* mutant: opening the gripper leaves the dock weld alone
OnlyLetsGo == /\ gripped' = FALSE /\ active' = FALSE
              /\ UNCHANGED <<body, docked>>

(* Opening activates the welds whose first body is the dock, and no other. *)
Released == /\ gripped' = FALSE /\ docked' = TRUE /\ active' = FALSE
            /\ UNCHANGED body

OpenGripper == IF active THEN Released ELSE UNCHANGED <<body, wand>>

CloseGripper ==
    /\ IF active /\ InReach THEN gripped' = TRUE /\ docked' = FALSE
       ELSE UNCHANGED <<gripped, docked>>
    /\ UNCHANGED <<body, active>>

SolveIk == active' = TRUE /\ UNCHANGED <<body, gripped, docked>>

MoveArm(p) == active' = TRUE /\ hand' = p /\ UNCHANGED <<base, gripped, docked>>

(* Both arms are driven for a tenth of a second.                           *)
ResetPosture == hand' \in {hand, NoPoint} /\ UNCHANGED <<base, wand>>

(* The primitives of other skills, when neither skill holds arm and gripper.*)
OtherSkill ==
    /\ skill = "none"
    /\ OpenGripper \/ CloseGripper \/ ResetPosture
    /\ UNCHANGED <<skill, at, target, outcome>>

-----------------------------------------------------------------------------
(* The two skills.                                                         *)
Plan == [pick  |-> <<"open", "locate", "ik", "ik", "above", "on", "close", "above",
                     "posture", "look">>,
         place |-> <<"look", "ik", "ik", "above", "on", "open", "above", "posture",
                     "look">>]

StartSkill(s) ==
    /\ skill = "none"
    /\ skill' = s /\ at' = 1 /\ target' = NoPoint /\ outcome' = "none"
    /\ UNCHANGED <<body, wand>>

Calls(name) == skill # "none" /\ Plan[skill][at] = name
LastCall == at = Len(Plan[skill])

Continue == at' = at + 1 /\ UNCHANGED <<skill, outcome>>
EndSkill(o) == skill' = "none" /\ at' = 0 /\ target' = NoPoint /\ outcome' = o

CallOpen == Calls("open") /\ OpenGripper /\ Continue /\ UNCHANGED target
CallClose == Calls("close") /\ CloseGripper /\ Continue /\ UNCHANGED target
CallPosture == Calls("posture") /\ ResetPosture /\ Continue /\ UNCHANGED target

Locate ==
    /\ Calls("locate")
    /\ target' = ToBase(DockAt)
    /\ Continue /\ UNCHANGED <<body, wand>>

CallIk ==
    /\ Calls("ik") /\ Solvable(target) /\ SolveIk
    /\ Continue /\ UNCHANGED target

CallAbove == Calls("above") /\ MoveArm(Above(target)) /\ Continue /\ UNCHANGED target
CallOn == Calls("on") /\ MoveArm(On(target)) /\ Continue /\ UNCHANGED target

(* Of the two welds on the wand, the list keeps the one that comes last.   *)
Held == gripped

(* What the skill sees decides how it goes on, and how it ends.            *)
LookForTarget ==
    /\ Calls("look") /\ ~LastCall /\ Held
    /\ target' = ToBase(DockAt)
    /\ Continue /\ UNCHANGED <<body, wand>>

LookAtResult ==
    /\ Calls("look") /\ LastCall
    /\ EndSkill(IF Held = (skill = "place") THEN "failed"
                ELSE IF skill = "pick" THEN "picked" ELSE "placed")
    /\ UNCHANGED <<body, wand>>

(* A primitive is refused or fails, a point has no solution, the wand is   *)
(* not held, or the run is cancelled or times out: no call undoes another. *)
FailSkill ==
    /\ skill # "none" /\ EndSkill("failed")
    /\ \/ UNCHANGED wand
       \/ Calls("ik") /\ active' = TRUE /\ UNCHANGED <<gripped, docked>>
    /\ UNCHANGED body

-----------------------------------------------------------------------------
Next ==
    \/ \E direction \in {"forward", "backward", "left", "right"} : MoveBase(direction)
    \/ \E quarter \in {1, 3} : TurnBase(quarter)
    \/ Reset \/ Reconnect \/ OtherSkill
    \/ \E s \in {"pick", "place"} : StartSkill(s)
    \/ CallOpen \/ CallClose \/ CallPosture \/ Locate \/ CallIk \/ CallAbove \/ CallOn
    \/ LookForTarget \/ LookAtResult \/ FailSkill

Spec == Init /\ [][Next]_dockVars

-----------------------------------------------------------------------------
(* Wherever a skill is given up, the wand is in its dock or in the gripper,*)
(* never in both or in neither, and while it is in the gripper a command   *)
(* to open goes to the kernel that lets it go.                             *)
WandIsKept == docked # gripped /\ (gripped => active)
=============================================================================
