---------------------------- MODULE ModelOptions ----------------------------
(***************************************************************************)
(* The two bounded options through which a skill lets a model move the     *)
(* robot: the VLA option (manipulation) and the VLN option (navigation).   *)
(* Both observe, ask the model for a chunk of actions, execute the chunk   *)
(* and observe again; they differ in when they look, what ends them and    *)
(* how they count. The robot's frames go on by themselves, and the run can *)
(* be cancelled at any time: its worker marks it and cancels its task. How *)
(* soon that reaches the handler, through whatever it awaits, is left open.*)
(***************************************************************************)
EXTENDS Naturals, Sequences

CONSTANTS
    MaxSteps,  \* max_steps of the request
    MaxChunk   \* actions in one answer of the model

VARIABLES
    option,     \* "vla" or "vln": which of the two runs
    at,         \* where the handler is
    newer,      \* the robot has a newer frame than the one the option holds
    spent,      \* the model was asked about the frame the option holds
    askedTwice, \* the model was asked about a frame for the second time
    steps,      \* step_index (VLA), planning_steps (VLN)
    moved,      \* actions executed; executed_steps (VLN)
    chunk,      \* what is left of the model's answer: "move", "stop"
    modelDone,  \* the model's answer says done
    cancelAsked,\* the runner has marked the run
    ended       \* why the option ended

optionVars == <<option, at, newer, spent, askedTwice, steps, moved, chunk, modelDone,
                cancelAsked, ended>>
data == <<spent, askedTwice, steps, moved, chunk, modelDone>>

Reasons == {"unavailable", "observation_stale", "model_failed", "environment_done",
            "model_done", "no_action", "max_steps", "action_failed",
            "secondary_observation_required", "no_valid_goal", "plan_only",
            "cancelled"}
Chunks == UNION {[1..n -> {"move"}] : n \in 0..MaxChunk}

TypeOK ==
    /\ option \in {"vla", "vln"}
    /\ at \in {"idle", "first", "loop", "infer", "act", "sending", "moving",
               "progress", "observe", "ended"}
    /\ newer \in BOOLEAN /\ spent \in BOOLEAN /\ askedTwice \in BOOLEAN
    /\ steps \in 0..MaxSteps
    /\ moved \in 0..(MaxSteps * MaxChunk)
    /\ chunk \in Seq({"move", "stop"})
    /\ modelDone \in BOOLEAN /\ cancelAsked \in BOOLEAN
    /\ ended \in Reasons \cup {"no"}

Init ==
    /\ option \in {"vla", "vln"} /\ at = "idle" /\ newer = TRUE
    /\ spent = FALSE /\ askedTwice = FALSE /\ steps = 0 /\ moved = 0
    /\ chunk = <<>> /\ modelDone = FALSE /\ cancelAsked = FALSE
    /\ ended = "no"

End(reason) == /\ at' = "ended" /\ ended' = reason
               /\ UNCHANGED <<option, newer, cancelAsked, data>>

Go(from, to) == at = from /\ at' = to /\ UNCHANGED <<option, cancelAsked, ended>>
Move(from, to) == Go(from, to) /\ UNCHANGED newer

-----------------------------------------------------------------------------
(* The router and the robot client are there, or the option fails.         *)
Start == at = "idle" /\ (End("unavailable") \/ (Move("idle", "first") /\ UNCHANGED data))

FirstObservation ==
    \/ Go("first", "loop") /\ newer' = FALSE /\ UNCHANGED data
    \/ at = "first" /\ End("observation_stale")

Asking == /\ spent' = TRUE /\ askedTwice' = (askedTwice \/ spent)
          /\ UNCHANGED <<moved, chunk, modelDone>>

(* The VLA option counts a step when it ends, the VLN option an inference  *)
(* when it is asked for: one that moves nothing is counted, too.           *)
CountPlanning == option = "vln" /\ steps' = steps + 1

Ask ==
    /\ ~cancelAsked
    /\ option = "vln" => moved < MaxSteps /\ steps < MaxSteps
    /\ Move("loop", "infer")
    /\ Asking
    /\ CountPlanning \/ (option = "vla" /\ UNCHANGED steps)

BudgetSpent ==
    /\ at = "loop" /\ option = "vln"
    /\ moved >= MaxSteps \/ steps >= MaxSteps
    /\ End("max_steps")

(* raise_if_cancelled, before and after an inference, and before an action *)
(* of the VLA option.                                                      *)
Cancelled ==
    /\ cancelAsked
    /\ at \in {"loop", "infer"} \/ (at = "act" /\ option = "vla" /\ chunk # <<>>)
    /\ End("cancelled")

ModelFails == at = "infer" /\ ~cancelAsked /\ End("model_failed")
(* A plan the VLN option cannot or need not execute.                       *)
NoCommands == /\ at = "infer" /\ option = "vln" /\ ~cancelAsked
              /\ \E reason \in {"no_valid_goal", "plan_only"} : End(reason)

EnvironmentDone ==
    /\ at = "moving" \/ (at = "infer" /\ ~cancelAsked)
    /\ End("environment_done")

(* An answer of the model, with what it wants done and whether it says     *)
(* that it is done.                                                        *)
VlaAnswer(actions, done) ==
    /\ option = "vla" /\ ~cancelAsked
    /\ IF actions = <<>>
       THEN at = "infer" /\ End(IF done THEN "model_done" ELSE "no_action")
       ELSE /\ Move("infer", "act")
            /\ chunk' = actions /\ modelDone' = done
            /\ UNCHANGED <<spent, askedTwice, steps, moved>>

VlnAnswer(actions, stop) ==
    /\ option = "vln" /\ ~cancelAsked
    /\ actions # <<>> \/ stop
    /\ Move("infer", "act")
    /\ chunk' = IF stop THEN Append(actions, "stop") ELSE actions
    /\ UNCHANGED <<spent, askedTwice, steps, moved, modelDone>>

(* The planner asks for a look down before it plans.                       *)
LookDown ==
    /\ at = "infer" /\ option = "vln" /\ ~cancelAsked
    /\ IF steps >= MaxSteps
       THEN End("secondary_observation_required")
       ELSE /\ Move("infer", "observe")
            /\ chunk' = <<>>
            /\ UNCHANGED <<spent, askedTwice, steps, moved, modelDone>>

-----------------------------------------------------------------------------
(* Only the VLA option looks again whether it is cancelled.                *)
MayAct == option = "vla" => ~cancelAsked

(* robot.execute asks the robot for its health and waits for its control   *)
(* plane before the action starts.                                         *)
Send == chunk # <<>> /\ MayAct /\ Move("act", "sending") /\ UNCHANGED data

Act == Move("sending", "moving") /\ UNCHANGED data

(* The robot refuses the action, or fails to carry it out.                 *)
ActionFails == at \in {"sending", "moving"} /\ End("action_failed")

(* The VLA option goes through its chunk and observes then; the VLN option *)
(* observes after each move.                                               *)
ActionDone ==
    /\ Move("moving", IF option = "vla" /\ Len(chunk) > 1 THEN "act" ELSE "progress")
    /\ chunk' = IF option = "vla" THEN Tail(chunk) ELSE chunk
    /\ moved' = IF Head(chunk) = "move" THEN moved + 1 ELSE moved
    /\ UNCHANGED <<spent, askedTwice, steps, modelDone>>

VlaProgress ==
    /\ option = "vla" /\ at = "progress"
    /\ IF modelDone THEN End("model_done")
       ELSE IF steps + 1 >= MaxSteps THEN End("max_steps")
       ELSE /\ Move("progress", "observe")
            /\ UNCHANGED data

(* A stop ends the option; the budget drops the rest of the chunk, a stop  *)
(* at its end included.                                                    *)
VlnProgress ==
    /\ option = "vln" /\ at = "progress"
    /\ IF Head(chunk) = "stop" THEN End("model_done")
       ELSE /\ Move("progress", IF moved >= MaxSteps THEN "loop" ELSE "observe")
            /\ chunk' = IF moved >= MaxSteps THEN <<>> ELSE Tail(chunk)
            /\ UNCHANGED <<spent, askedTwice, steps, moved, modelDone>>

\* mutant: the next observation may be the one already held
AnyFrame == TRUE

NewerFrame == newer

Observe ==
    /\ NewerFrame
    /\ Go("observe", IF chunk = <<>> THEN "loop" ELSE "act")
    /\ spent' = (spent /\ ~newer) /\ newer' = FALSE
    /\ steps' = IF option = "vla" THEN steps + 1 ELSE steps
    /\ UNCHANGED <<askedTwice, moved, chunk, modelDone>>

NoNewFrame == at = "observe" /\ End("observation_stale")

-----------------------------------------------------------------------------
(* The world: the robot publishes a frame; somebody cancels the run; the   *)
(* cancellation meets the handler at whatever it awaits.                   *)
NewFrame ==
    /\ at \notin {"idle", "ended"} /\ ~newer /\ newer' = TRUE
    /\ UNCHANGED <<option, at, data, cancelAsked, ended>>

AskCancel ==
    /\ at \notin {"idle", "ended"} /\ ~cancelAsked /\ cancelAsked' = TRUE
    /\ UNCHANGED <<option, at, newer, data, ended>>

Interrupt ==
    /\ cancelAsked /\ at \in {"first", "infer", "sending", "moving", "progress",
                              "observe"}
    /\ End("cancelled")

Handler ==
    \/ Start \/ FirstObservation \/ Ask \/ BudgetSpent \/ Cancelled
    \/ ModelFails \/ NoCommands \/ EnvironmentDone
    \/ \E actions \in Chunks, flag \in BOOLEAN :
           VlaAnswer(actions, flag) \/ VlnAnswer(actions, flag)
    \/ LookDown \/ Send \/ Act \/ ActionFails \/ ActionDone \/ VlaProgress \/ VlnProgress
    \/ Observe \/ NoNewFrame

Next == Handler \/ NewFrame \/ AskCancel \/ Interrupt

Spec == Init /\ [][Next]_optionVars

-----------------------------------------------------------------------------
(* The model is never asked twice about one frame: what it has set in      *)
(* motion is seen before it is asked again.                                *)
FreshEyes == ~askedTwice
=============================================================================
