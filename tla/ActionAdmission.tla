--------------------------- MODULE ActionAdmission ---------------------------
(***************************************************************************)
(* How an action reaches the real robot: RobotRuntime asks its safety      *)
(* supervisor, the control plane queues the action behind the one that     *)
(* runs, and XLeRobotDriver asks the gate again before its thread moves    *)
(* anything.  Between the two checks the action waits, and the driver's    *)
(* view of the robot, refreshed by its observations, may change.  An       *)
(* emergency stop takes neither the supervisor nor the queue.  A reading   *)
(* of the battery or of the arms may say anything.  A safety flag in the   *)
(* configuration bars every action the supervisor sees, and a skill that   *)
(* is not registered no gate lets pass: not even a stop.  Skill actions    *)
(* carry no values for the supervisor to measure.  RobotMotion.tla has the *)
(* threads and preemption; perception never comes here.                    *)
(***************************************************************************)
EXTENDS Naturals, SkillGate

CONSTANTS
    Requests,   \* the requests made, each once
    NoRequest,
    Asked       \* the actions of SkillGate they ask for

VARIABLES
    boot,       \* RobotRuntime.start, RobotRuntime.close
    flagged,    \* the safety settings of the deployment hold a raised flag
    registered,      \* the actions its skill modules register
    state,      \* XLeRobotDriver.state
    battery,    \* last_battery
    arms,       \* last_arm_status
    base,       \* the startup diagnostics of the base; "none" before them
    request,    \* [action, complete, at, outcome] of each request
    lock        \* the request that holds the control plane

admissionVars == <<boot, flagged, registered, state, battery, arms, base, request, lock>>
site == <<flagged, registered>>

States == {"created", "idle", "degraded", "skill_completed", "failed", "closed"}
Outcomes == {"none", "offline", "blocked", "refused", "ok", "failed", "cancelled"}

TypeOK ==
    /\ boot \in {"off", "on", "closed"} /\ state \in States
    /\ flagged \in BOOLEAN /\ registered \in SUBSET Actions
    /\ battery \in Levels /\ arms \in BOOLEAN /\ base \in {"none", "ok", "bad"}
    /\ request \in [Requests -> [action : Actions, complete : BOOLEAN,
                          outcome : Outcomes, at : {"new", "waiting", "moving", "adrift", "over"}]]
    /\ lock \in Requests \cup {NoRequest}

Init ==
    /\ flagged \in BOOLEAN /\ registered \in {{}, Actions, Actions \ {"stop_motion"}}
    /\ boot = "off" /\ state = "created"
    /\ battery = "unknown" /\ arms = FALSE /\ base = "none"
    /\ request = [r \in Requests |-> [action |-> "stop_motion", complete |-> TRUE,
                                     at |-> "new", outcome |-> "none"]]
    /\ lock = NoRequest

view == <<battery, arms, base>>

-----------------------------------------------------------------------------
(* What answered when the bus was opened has to answer the diagnosis too.  *)
Diagnosed(part, opened, now) == part \in opened \cap now

(* start(): connect, diagnose, and begin with what the diagnosis says; the *)
(* arms are as ready as they are now.                                      *)
Start(b, opened, now, eyesUp) ==
    /\ boot = "off" /\ boot' = "on"
    /\ battery' = b /\ arms' = ("arm" \in now)
    /\ base' = IF Diagnosed("base", opened, now) THEN "ok" ELSE "bad"
    /\ state' = IF eyesUp /\ \A part \in {"base", "arm"} : Diagnosed(part, opened, now)
                THEN "idle" ELSE "degraded"
    /\ UNCHANGED <<site, request, lock>>

(* observe(), when the telemetry is due; the base is not looked at again.  *)
Telemetry(b, armsUp) ==
    /\ boot = "on" /\ battery' = b /\ arms' = armsUp
    /\ UNCHANGED <<boot, site, state, base, request, lock>>

Close ==
    /\ boot = "on" /\ boot' = "closed" /\ state' = "closed"
    /\ UNCHANGED <<site, view, request, lock>>

(* readiness(): the gripper is as ready as the arm.                        *)
ReadyNow ==
    (IF base = "ok" \/ (base = "none" /\ state # "closed") THEN {"base"} ELSE {})
    \cup (IF arms THEN {"arm", "gripper"} ELSE {})

-----------------------------------------------------------------------------
(* evaluate_action(): only a stop passes with a critical battery, and no   *)
(* action with a raised flag.                                              *)
Blocks(action) == flagged \/ (battery = "critical" /\ action # "stop_motion")

Allowed(action, complete) == Admits(action, complete, registered, state, ReadyNow, battery)

Moved(r, at, outcome) ==
    request' = [request EXCEPT ![r].at = at, ![r].outcome = outcome]

(* RobotRuntime.apply_action(), up to the lock of the control plane.       *)
Submit(r, action, complete) ==
    /\ request[r].at = "new"
    /\ LET outcome == IF state = "closed" THEN "offline"
                      ELSE IF Blocks(action) THEN "blocked" ELSE "none"
       IN  request' = [request EXCEPT ![r] =
               [action |-> action, complete |-> complete, outcome |-> outcome,
                at |-> IF outcome = "none" THEN "waiting" ELSE "over"]]
    /\ UNCHANGED <<boot, site, state, view, lock>>

(* XLeRobotDriver.apply_action(), up to its thread.                        *)
Admit(r) ==
    /\ request[r].at = "waiting" /\ lock = NoRequest
    /\ Allowed(request[r].action, request[r].complete)
    /\ Moved(r, "moving", "none") /\ lock' = r
    /\ UNCHANGED <<boot, site, state, view>>

Refuse(r) ==
    /\ request[r].at = "waiting" /\ lock = NoRequest
    /\ ~Allowed(request[r].action, request[r].complete)
    /\ Moved(r, "over", "refused") /\ state' = "failed"
    /\ UNCHANGED <<boot, site, view, lock>>

(* emergency_stop(): the driver is asked at once.                          *)
EmergencyStop(r) ==
    /\ request[r].at = "new"
    /\ LET goes == Allowed("stop_motion", TRUE)
       IN  /\ request' = [request EXCEPT ![r] =
                  [action |-> "stop_motion", complete |-> TRUE,
                   at |-> IF goes THEN "moving" ELSE "over",
                   outcome |-> IF goes THEN "none" ELSE "refused"]]
           /\ state' = IF goes THEN state ELSE "failed"
    /\ UNCHANGED <<boot, site, view, lock>>

Released(r) == lock' = IF lock = r THEN NoRequest ELSE lock

(* The thread is done: its result decides the driver's state.              *)
Finish(r, ok) ==
    /\ request[r].at = "moving" /\ Moved(r, "over", IF ok THEN "ok" ELSE "failed")
    /\ state' = IF ok THEN "skill_completed" ELSE "failed"
    /\ Released(r) /\ UNCHANGED <<boot, site, view>>

(* A cancelled action leaves its thread behind, and the state as it is.    *)
Cancel(r) ==
    /\ request[r].at \in {"waiting", "moving"}
    /\ Moved(r, IF request[r].at = "moving" THEN "adrift" ELSE "over", "cancelled")
    /\ Released(r) /\ UNCHANGED <<boot, site, state, view>>

Land(r) ==
    /\ request[r].at = "adrift" /\ Moved(r, "over", "cancelled")
    /\ UNCHANGED <<boot, site, state, view, lock>>

-----------------------------------------------------------------------------
Next ==
    \/ \E b \in Levels :
          \/ \E opened, now \in SUBSET {"base", "arm"}, eyesUp \in BOOLEAN :
                Start(b, opened, now, eyesUp)
          \/ \E armsUp \in BOOLEAN : Telemetry(b, armsUp)
    \/ Close
    \/ \E r \in Requests :
          \/ \E k \in Asked, complete \in BOOLEAN : Submit(r, k, complete)
          \/ Admit(r) \/ Refuse(r) \/ EmergencyStop(r) \/ Cancel(r) \/ Land(r)
          \/ \E ok \in BOOLEAN : Finish(r, ok)

Spec == Init /\ [][Next]_admissionVars

=============================================================================
