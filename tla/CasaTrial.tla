------------------------------ MODULE CasaTrial ------------------------------
(***************************************************************************)
(* One RoboCasa backend and its two clients. The backend owns one trial at *)
(* a time; its service runs one request at a time under an asyncio lock,   *)
(* but begin, step and end work in a thread that goes on when the client's *)
(* deadline cancels the handler. The robot driver observes and steps; the  *)
(* benchmark (and the driver's reset) begins and ends trials. Pictures,    *)
(* rewards, credentials and result files are left out.                     *)
(***************************************************************************)
EXTENDS Naturals, FiniteSets

CONSTANTS
    MaxTrials,   \* trials that are created
    MaxFrames,   \* frames of a trial; the last one ends it
    MaxRpcs      \* requests of both clients

VARIABLES
    trial,      \* _active: the trial's number, or 0
    begun,      \* the trials created so far
    frame,      \* the active trial's frame_id
    over,       \* the active trial is done
    held,       \* _resource_lock, always the service's own
    rpcs,       \* the requests, in the order they are sent
    acted,      \* (history) per trial and frame: the actions that were executed on it,
                \* and whether one of them went through
    driver,     \* the robot driver's episode, frame_id, done, seen, state, resetting
    bench       \* the benchmark: "ready", "trial", "judged", "over"

casaVars == <<trial, begun, frame, over, held, rpcs, acted, driver, bench>>

Trials == 1..MaxTrials
Frames == 0..MaxFrames
Rpcs == 1..MaxRpcs
Ops == {"observe", "step", "begin", "end", "truth"}
NoReply == [trial |-> 0, frame |-> 0, over |-> FALSE, ok |-> FALSE]
Unsent == [op |-> "none", by |-> "none", expects |-> 0, at |-> "unsent", reply |-> NoReply]

TypeOK ==
    /\ trial \in 0..MaxTrials /\ begun \in 0..MaxTrials
    /\ frame \in Frames /\ over \in BOOLEAN /\ held \in BOOLEAN
    /\ rpcs \in [Rpcs -> [op: Ops \cup {"none"}, by: {"driver", "bench", "none"},
                          expects: Frames,
                          at: {"unsent", "sent", "locked", "late", "lost", "answered",
                               "closed"},
                          reply: [trial: 0..MaxTrials, frame: Frames, over: BOOLEAN,
                                  ok: BOOLEAN]]]
    /\ acted \in [Trials -> [Frames -> [tries: Nat, through: BOOLEAN]]]
    /\ driver \in [episode: 0..MaxTrials, frame: Frames, done: BOOLEAN, seen: BOOLEAN,
                   state: {"created", "idle", "executing", "completed", "error"},
                   resetting: {"no", "end", "begin"}]
    /\ bench \in {"ready", "trial", "judged", "over"}

Init ==
    /\ trial = 0 /\ begun = 0 /\ frame = 0 /\ over = FALSE /\ held = FALSE
    /\ rpcs = [i \in Rpcs |-> Unsent]
    /\ acted = [t \in Trials |-> [f \in Frames |-> [tries |-> 0, through |-> FALSE]]]
    /\ driver = [episode |-> 0, frame |-> 0, done |-> FALSE, seen |-> FALSE,
                 state |-> "created", resetting |-> "no"]
    /\ bench = "ready"

environment == <<trial, begun, frame, over, held, acted>>

-----------------------------------------------------------------------------
(* Sending, and giving up on, a request.                                   *)
Outstanding(by, ops) == \E i \in Rpcs :
    rpcs[i].by = by /\ rpcs[i].op \in ops /\ rpcs[i].at \in {"sent", "locked", "answered"}

Sent(by, op, expects) == \E i \in Rpcs :
    /\ rpcs[i].at = "unsent" /\ \A j \in 1..(i-1) : rpcs[j].at # "unsent"
    /\ rpcs' = [rpcs EXCEPT ![i] =
            [op |-> op, by |-> by, expects |-> expects, at |-> "sent", reply |-> NoReply]]

Close(i) == rpcs' = [rpcs EXCEPT ![i].at = "closed", ![i].reply = NoReply]

(* The deadline cancels the handler: the service's lock is free again, a   *)
(* thread that works goes on, and the resource stays as it is.             *)
Expire(i) ==
    /\ rpcs[i].at \in {"sent", "locked", "answered"}
    /\ IF rpcs[i].at = "locked" THEN rpcs' = [rpcs EXCEPT ![i].at = "late"] ELSE Close(i)

-----------------------------------------------------------------------------
(* The service: what each handler does before and after its thread.        *)
Locked == \E i \in Rpcs : rpcs[i].at = "locked"

View == [trial |-> trial, frame |-> frame, over |-> over, ok |-> TRUE]
Answer(i, r) == rpcs' = [rpcs EXCEPT ![i].at = "answered", ![i].reply = r]
Refused(i) == Answer(i, NoReply)

Observe(i) ==
    /\ rpcs[i].at = "sent" /\ rpcs[i].op \in {"observe", "truth"} /\ ~Locked
    /\ IF trial = 0 THEN Refused(i) ELSE Answer(i, View)
    /\ UNCHANGED <<environment, driver, bench>>

Work(i) == rpcs' = [rpcs EXCEPT ![i].at = "locked"]

BeginTrial(i) ==
    /\ rpcs[i].at = "sent" /\ rpcs[i].op = "begin" /\ ~Locked
    /\ IF trial # 0 \/ held
       THEN Refused(i) /\ UNCHANGED held
       ELSE Work(i) /\ held' = TRUE
    /\ UNCHANGED <<trial, begun, frame, over, acted, driver, bench>>

Step(i) ==
    /\ rpcs[i].at = "sent" /\ rpcs[i].op = "step" /\ ~Locked
    /\ Work(i)
    /\ UNCHANGED <<environment, driver, bench>>

EndTrial(i) ==
    /\ rpcs[i].at = "sent" /\ rpcs[i].op = "end" /\ ~Locked
    /\ IF trial = 0 THEN Refused(i) ELSE Work(i)
    /\ UNCHANGED <<environment, driver, bench>>

(* The thread's part, under the manager's lock. An abandoned thread has    *)
(* nobody to answer and nobody to release the resource.                    *)
Handled(i) == rpcs[i].at = "locked"
EndWork(i, r) == IF Handled(i) THEN Answer(i, r)
                 ELSE rpcs' = [rpcs EXCEPT ![i].at = "lost"]

Created(i) ==
    /\ rpcs[i].op = "begin" /\ rpcs[i].at \in {"locked", "late"}
    /\ trial = 0 /\ begun < MaxTrials
    /\ trial' = begun + 1 /\ begun' = begun + 1 /\ frame' = 0 /\ over' = FALSE
    /\ EndWork(i, [trial |-> trial', frame |-> 0, over |-> FALSE, ok |-> TRUE])
    /\ UNCHANGED <<held, acted, driver, bench>>

(* The environment cannot be made, or another late thread has made one.    *)
CreationFails(i) ==
    /\ rpcs[i].op = "begin" /\ rpcs[i].at \in {"locked", "late"}
    /\ EndWork(i, NoReply)
    /\ IF Handled(i) THEN held' = FALSE /\ trial' = 0 ELSE UNCHANGED <<held, trial>>
    /\ UNCHANGED <<begun, frame, over, acted, driver, bench>>

\* mutant: a step is executed whatever frame it was chosen on
AnyStep(i) == trial # 0 /\ ~over

(* The trial accepts an action that was chosen on its current frame.       *)
Accepts(i) == trial # 0 /\ ~over /\ rpcs[i].expects = frame

Executes(i, through) ==
    acted' = [acted EXCEPT ![trial][rpcs[i].expects] =
                  [tries |-> @.tries + 1, through |-> @.through \/ through]]

Stepped(i) ==
    /\ rpcs[i].op = "step" /\ rpcs[i].at \in {"locked", "late"} /\ Accepts(i)
    /\ frame' = frame + 1 /\ over' \in {frame + 1 = MaxFrames, TRUE}
    /\ Executes(i, TRUE)
    /\ EndWork(i, [trial |-> trial, frame |-> frame', over |-> over', ok |-> TRUE])
    /\ UNCHANGED <<trial, begun, held, driver, bench>>

(* The environment carries the action out, wholly or in part, and raises,  *)
(* or what it observes is not valid: the frame stays the current one, the  *)
(* client is told of an error, and may choose another action on it.        *)
StepBreaks(i) ==
    /\ rpcs[i].op = "step" /\ rpcs[i].at \in {"locked", "late"} /\ Accepts(i)
    /\ Executes(i, FALSE)
    /\ EndWork(i, NoReply)
    /\ UNCHANGED <<trial, begun, frame, over, held, driver, bench>>

(* Another frame, or an action that the environment does not know.         *)
StepRefused(i) ==
    /\ rpcs[i].op = "step" /\ rpcs[i].at \in {"locked", "late"}
    /\ EndWork(i, NoReply)
    /\ UNCHANGED <<environment, driver, bench>>

Ended(i) ==
    /\ rpcs[i].op = "end" /\ rpcs[i].at \in {"locked", "late"}
    /\ trial' = 0 /\ held' = (held /\ ~Handled(i))
    /\ EndWork(i, [View EXCEPT !.ok = TRUE])
    /\ UNCHANGED <<begun, frame, over, acted, driver, bench>>

-----------------------------------------------------------------------------
(* The robot driver. Its start asks whether the backend has its assets.    *)
DriverStart ==
    /\ driver.state = "created"
    /\ \E state \in {"idle", "error"} : driver' = [driver EXCEPT !.state = state]
    /\ UNCHANGED <<environment, rpcs, bench>>

DriverObserve ==
    /\ driver.state # "created" /\ ~Outstanding("driver", {"observe"})
    /\ Sent("driver", "observe", 0)
    /\ UNCHANGED <<environment, driver, bench>>

(* An observation is accepted when it is of the known episode and not old. *)
Fits(r) == /\ r.ok /\ driver.episode \in {0, r.trial}
           /\ driver.seen => r.frame >= driver.frame
Accepted(r) == [driver EXCEPT !.episode = r.trial, !.frame = r.frame,
                              !.done = r.over, !.seen = TRUE]

Observed(i) ==
    /\ rpcs[i].by = "driver" /\ rpcs[i].op = "observe" /\ rpcs[i].at = "answered"
    /\ driver' = IF Fits(rpcs[i].reply) THEN Accepted(rpcs[i].reply) ELSE driver
    /\ Close(i) /\ UNCHANGED <<environment, bench>>

(* A robot action, chosen on the driver's frame or, stale, on another one. *)
ApplyAction(chosenOn) ==
    /\ driver.state # "created" /\ driver.resetting = "no"
    /\ ~Outstanding("driver", {"step"})
    /\ IF driver.done \/ driver.episode = 0 \/ chosenOn # driver.frame
       THEN driver' = [driver EXCEPT !.state = "error"] /\ UNCHANGED rpcs
       ELSE /\ driver' = [driver EXCEPT !.state = "executing"]
            /\ Sent("driver", "step", driver.frame)
    /\ UNCHANGED <<environment, bench>>

Applied(i) ==
    /\ rpcs[i].by = "driver" /\ rpcs[i].op = "step" /\ rpcs[i].at = "answered"
    /\ LET r == rpcs[i].reply
       IN driver' = IF Fits(r)
                    THEN [Accepted(r) EXCEPT !.state = IF r.over THEN "completed" ELSE "idle"]
                    ELSE [driver EXCEPT !.state = "error", !.done = IF r.ok THEN r.over ELSE @]
    /\ Close(i) /\ UNCHANGED <<environment, bench>>

(* A reset ends the driver's episode and begins another.                   *)
Reset ==
    /\ driver.state # "created" /\ driver.resetting = "no"
    /\ ~Outstanding("driver", {"step"})
    /\ IF driver.episode = 0
       THEN Sent("driver", "begin", 0) /\ driver' = [driver EXCEPT !.resetting = "begin"]
       ELSE Sent("driver", "end", 0) /\ driver' = [driver EXCEPT !.resetting = "end"]
    /\ UNCHANGED <<environment, bench>>

ResetEnded(i) ==
    /\ rpcs[i].by = "driver" /\ rpcs[i].op = "end" /\ rpcs[i].at = "answered"
    /\ \E j \in Rpcs :
         /\ rpcs[j].at = "unsent" /\ \A k \in 1..(j-1) : rpcs[k].at # "unsent"
         /\ rpcs' = [rpcs EXCEPT ![i].at = "closed", ![i].reply = NoReply,
               ![j] = [Unsent EXCEPT !.op = "begin", !.by = "driver", !.at = "sent"]]
    /\ driver' = [driver EXCEPT !.episode = 0, !.seen = FALSE, !.resetting = "begin"]
    /\ UNCHANGED <<environment, bench>>

ResetBegun(i) ==
    /\ rpcs[i].by = "driver" /\ rpcs[i].op = "begin" /\ rpcs[i].at = "answered"
    /\ LET r == rpcs[i].reply
       IN driver' = IF Fits(r)
                    THEN [Accepted(r) EXCEPT !.state = "idle", !.done = FALSE,
                                             !.resetting = "no"]
                    ELSE [driver EXCEPT !.state = "error", !.resetting = "no"]
    /\ Close(i) /\ UNCHANGED <<environment, bench>>

(* A driver's request misses its deadline.                                 *)
DriverGivesUp(i) ==
    /\ rpcs[i].by = "driver" /\ Expire(i)
    /\ driver' = IF rpcs[i].op = "observe" THEN driver
                 ELSE [driver EXCEPT !.state = "error", !.resetting = "no"]
    /\ UNCHANGED <<environment, bench>>

-----------------------------------------------------------------------------
(* The benchmark: begin, watch, judge, end; whatever fails goes to the end.*)
Waiting == Outstanding("bench", Ops)

BenchSends(op) ==
    /\ ~Waiting
    /\ \/ op = "begin" /\ bench = "ready"
       \/ op \in {"observe", "truth"} /\ bench = "trial"
       \/ op = "end" /\ bench = "judged"
    /\ Sent("bench", op, 0)
    /\ UNCHANGED <<environment, driver, bench>>

BenchAfter(op, ok) ==
    CASE op = "begin" -> IF ok THEN "trial" ELSE "over"
      [] op = "observe" -> IF ok THEN "trial" ELSE "judged"
      [] op = "truth" -> "judged"
      [] op = "end" -> "over"

BenchReceives(i) ==
    /\ rpcs[i].by = "bench" /\ rpcs[i].at = "answered"
    /\ bench' = BenchAfter(rpcs[i].op, rpcs[i].reply.ok)
    /\ Close(i) /\ UNCHANGED <<environment, driver>>

BenchGivesUp(i) ==
    /\ rpcs[i].by = "bench" /\ Expire(i)
    /\ bench' = BenchAfter(rpcs[i].op, FALSE)
    /\ UNCHANGED <<environment, driver>>

-----------------------------------------------------------------------------
Serve(i) == Observe(i) \/ BeginTrial(i) \/ Step(i) \/ EndTrial(i)
Thread(i) == Created(i) \/ CreationFails(i) \/ Stepped(i) \/ StepBreaks(i) \/ StepRefused(i)
             \/ Ended(i)
Receive(i) == Observed(i) \/ Applied(i) \/ ResetEnded(i) \/ ResetBegun(i)
              \/ DriverGivesUp(i) \/ BenchReceives(i) \/ BenchGivesUp(i)

Next ==
    \/ \E i \in Rpcs : Serve(i) \/ Thread(i) \/ Receive(i)
    \/ DriverStart \/ DriverObserve \/ Reset
    \/ \E f \in Frames : ApplyAction(f)
    \/ \E op \in Ops : BenchSends(op)

Spec == Init /\ [][Next]_casaVars

-----------------------------------------------------------------------------
(* A step that went through is not executed again on the frame that it was *)
(* chosen on, though its answer was lost or late, and however often the    *)
(* driver observes and tries again. (One that broke off is: the frame is   *)
(* still the current one, whatever the simulator has done.)                *)
NoStepRepeated ==
    [][\A t \in Trials : \A f \in Frames :
         acted[t][f].through => acted'[t][f] = acted[t][f]]_casaVars
=============================================================================
