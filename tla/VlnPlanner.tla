----------------------------- MODULE VlnPlanner -----------------------------
(***************************************************************************)
(* The InternVLA-N1 DualVLN planner behind the VLN model service: System 2 *)
(* turns an observation into actions or a waypoint, System 1 turns the     *)
(* waypoint into short action chunks for some further calls. The model     *)
(* keeps the history of one policy session. Planning is serialized by a    *)
(* lock, but the threads of abandoned calls still plan, so the calls of    *)
(* two runs interleave. What a plan looks at is kept as whose it is.       *)
(***************************************************************************)
EXTENDS Naturals

CONSTANTS
    Runs,      \* navigation runs; each is a policy session
    NoRun,
    Replans,   \* system1_replans_per_waypoint
    MaxPlans   \* bound: calls of one run

VARIABLES
    planning,   \* each run's executor thread: "none", "called", "planning";
                \* "over": the run has failed
    plans,      \* calls of each run so far
    stopPlan,   \* the executor's _cancelled event
    session,    \* _current_policy_session_id
    history,    \* runs whose observations the model has in its history
    waypoint,   \* [of, calls], of = NoRun: none
    lastLook,   \* the run's last answer asked for a look down
    basis       \* runs whose observations each run's last plan rests on

plannerVars == <<planning, plans, stopPlan, session, history, waypoint, lastLook, basis>>

NoWaypoint == [of |-> NoRun, calls |-> 0]

TypeOK ==
    /\ planning \in [Runs -> {"none", "called", "planning", "over"}]
    /\ plans \in [Runs -> 0..MaxPlans]
    /\ stopPlan \in BOOLEAN
    /\ session \in Runs \cup {NoRun}
    /\ history \subseteq Runs
    /\ waypoint \in [of : Runs \cup {NoRun}, calls : 0..Replans \cup {1}]
    /\ lastLook \in [Runs -> BOOLEAN]
    /\ basis \in [Runs -> SUBSET Runs]

Init ==
    /\ planning = [r \in Runs |-> "none"] /\ plans = [r \in Runs |-> 0]
    /\ stopPlan = FALSE /\ session = NoRun /\ history = {} /\ waypoint = NoWaypoint
    /\ lastLook = [r \in Runs |-> FALSE] /\ basis = [r \in Runs |-> {}]

Call(r) ==
    /\ planning[r] = "none" /\ plans[r] < MaxPlans
    /\ planning' = [planning EXCEPT ![r] = "called"]
    /\ plans' = [plans EXCEPT ![r] = @ + 1]
    /\ UNCHANGED <<stopPlan, session, history, waypoint, lastLook, basis>>

(* execute() begins by forgetting a cancellation, be it its own.           *)
Execute(r) ==
    /\ planning[r] = "called"
    /\ planning' = [planning EXCEPT ![r] = "planning"]
    /\ stopPlan' = FALSE
    /\ UNCHANGED <<plans, session, history, waypoint, lastLook, basis>>

Cancel ==
    /\ stopPlan' = TRUE
    /\ UNCHANGED <<planning, plans, session, history, waypoint, lastLook, basis>>

\* mutant: only the first call of a run, with reset_policy, resets the policy
ResetsFirst(r) == plans[r] = 1

(* The first call of a run resets the policy, and so does a call of        *)
(* another run than the last.                                              *)
Resets(r) == plans[r] = 1 \/ session # r

OldWaypoint(r) == IF Resets(r) THEN NoWaypoint ELSE waypoint
OldHistory(r) == IF Resets(r) THEN {} ELSE history

Planned(r, seen) ==
    /\ planning[r] = "planning"
    /\ planning' = [planning EXCEPT ![r] = "none"]
    /\ session' = r
    /\ basis' = [basis EXCEPT ![r] = seen]
    /\ UNCHANGED <<plans, stopPlan>>

Continues(r) == /\ OldWaypoint(r).of # NoRun /\ ~lastLook[r]
                /\ OldWaypoint(r).calls < Replans

(* System 1 goes on with the waypoint; from its second call on it adds to  *)
(* the history.                                                            *)
System1(r) ==
    /\ Continues(r)
    /\ Planned(r, {OldWaypoint(r).of})
    /\ waypoint' = [OldWaypoint(r) EXCEPT !.calls = @ + 1]
    /\ history' = OldHistory(r) \cup {r}
    /\ lastLook' = [lastLook EXCEPT ![r] = FALSE]

(* System 2 plans when there is no waypoint to go on with, or System 1     *)
(* makes nothing of it. A waypoint without a latent plan raises and leaves *)
(* the one of before a look down in place.                                 *)
System2(r) ==
    /\ Planned(r, OldHistory(r) \cup {r})
    /\ history' = OldHistory(r) \cup {r}
    /\ \/ /\ waypoint' = [of |-> r, calls |-> 1]
          /\ lastLook' = [lastLook EXCEPT ![r] = FALSE]
       \/ /\ waypoint' = NoWaypoint
          /\ lastLook' \in {[lastLook EXCEPT ![r] = look] : look \in BOOLEAN}
       \/ /\ waypoint' = IF lastLook[r] THEN OldWaypoint(r) ELSE NoWaypoint
          /\ lastLook' = [lastLook EXCEPT ![r] = FALSE]

(* The input cannot be built from the payload: the run is over.            *)
PlanFails(r) ==
    /\ planning[r] = "planning"
    /\ planning' = [planning EXCEPT ![r] = "over"]
    /\ UNCHANGED <<plans, stopPlan, session, history, waypoint, lastLook, basis>>

Next ==
    \/ \E r \in Runs : \/ Call(r) \/ Execute(r)
                       \/ System1(r) \/ System2(r) \/ PlanFails(r)
    \/ Cancel

Spec == Init /\ [][Next]_plannerVars

-----------------------------------------------------------------------------
(* A run is led by what it has seen itself, never by the waypoint or the   *)
(* history of another run whose late call came in between.                 *)
PlansFromOwnSight == \A r \in Runs : basis[r] \subseteq {r}
=============================================================================
