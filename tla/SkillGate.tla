------------------------------ MODULE SkillGate ------------------------------
(***************************************************************************)
(* SkillAdmissionGate: may a driver carry out an action, by its contract,  *)
(* the resources that are ready and the battery as the driver last saw it. *)
(* A contract is what robot_action_specs_from_config makes of a skill of   *)
(* the registry; which skills are in it is up to the configuration.        *)
(***************************************************************************)

Actions == {"stop_motion", "move_base", "set_arm_pose", "set_gripper", "reset_posture"}
Levels == {"normal", "low", "critical", "unknown"}

(* The resources a registered skill names.                                 *)
Resources(action) ==
    CASE action = "stop_motion" -> {"arm"}
      [] action = "move_base" -> {"base"}
      [] action = "set_arm_pose" -> {"arm"}
      [] action = "set_gripper" -> {"gripper"}
      [] action = "reset_posture" -> {"arm", "gripper"}

(* The skills whose schema requires an argument.                           *)
NeedsArguments == {"move_base", "set_arm_pose"}

(* resolve(): a gate without contracts knows every name.                   *)
Unknown(action, known) == known # {} /\ action \notin known

(* missing_required_arguments(): a gate without contracts requires none.   *)
Incomplete(action, complete, known) ==
    known # {} /\ action \in NeedsArguments /\ ~complete

(* What counts as motion is a skill that asks for "robot_control".         *)
IsMotion(action) == "robot_control" \in Resources(action) /\ action # "stop_motion"

Exempt(action) == action = "stop_motion"

(* readiness_block(): ready is the set of resources that are ready; a gate *)
(* without contracts asks for the robot as a whole, which is not looked at.*)
Unready(action, known, ready, battery) ==
    /\ ~Exempt(action)
    /\ \/ known # {} /\ Resources(action) \ ready # {}
       \/ battery = "critical"
       \/ battery = "low" /\ IsMotion(action)

(* precondition_block().                                                   *)
Halted(action, state, battery) ==
    /\ IsMotion(action) /\ ~Exempt(action)
    /\ \/ state \in {"failed", "degraded", "interrupted", "emergency", "estop"}
       \/ battery \in {"low", "critical"}

Admits(action, complete, known, state, ready, battery) ==
    /\ ~Unknown(action, known) /\ ~Incomplete(action, complete, known)
    /\ ~Unready(action, known, ready, battery) /\ ~Halted(action, state, battery)
=============================================================================
