------------------------------ MODULE AgentTask ------------------------------
(***************************************************************************)
(* The agent of one session: AutonomousAgentService, Agent,                *)
(* AgentToolExecutor and TaskCoordinator over the durable AgentTaskStore   *)
(* (src/hey_robot/cognition), against the skill worker as the agent sees   *)
(* it through SkillClient (SkillWorker.tla has the worker in full).  One   *)
(* asyncio step between two suspension points is one action; the bus       *)
(* delivers one turn and one control command at a time.  Data is reduced   *)
(* to what decides: pending and running steps are "open", whatever ends    *)
(* without success is "failed" (a step) or "closed" (a task).              *)
(***************************************************************************)
EXTENDS Integers, Sequences, FiniteSets

CONSTANTS
    MaxTasks,    \* bound: tasks the session creates
    MaxRuns,     \* bound: runs they submit
    MaxTurns,    \* MAX_MODEL_TURNS_PER_WAKEUP
    MaxSkills,   \* agent_runtime.hard_max_skills
    MaxCrashes   \* bound: process deaths

ASSUME AgentAssumption ==
    /\ MaxTasks \in Nat /\ MaxRuns \in Nat /\ MaxCrashes \in Nat
    /\ MaxTurns \in Nat \ {0} /\ MaxSkills \in Nat \ {0}

\* Ids are drawn in order: a task's latest step is the one with the greatest run.
Task == 1..MaxTasks
Run  == 1..MaxRuns
None == 0

VARIABLES
    \* durable: AgentTaskStore
    tasks,      \* [status, wake]: sustained_tasks.status, and resume_required
    steps,      \* of each run its task_steps row: [task, status, last]
    \* durable: the worker's run store
    submitted,  \* runs whose command it has recorded
    latest,     \* last event of each run
    \* volatile: the worker
    live,       \* runs the worker answers for
    flagged,    \* live runs with a cancellation requested
    queue,      \* events in the subscriber queue of events()
    \* volatile: the agent service
    consumer,   \* _consume_skill_events: "starting", "off", "idle", "waiting", "dead"
    drive,      \* Agent._run_task: [pc, turns, task]
    turn,       \* the _on_turn handler
    control,    \* the _on_control handler: [pc, action, task]
    \* history
    mandate,    \* what the user asked last: "none", "given" or "stopped"
    crashes     \* process deaths so far

store   == <<tasks, steps>>
skills  == <<submitted, latest, live, flagged, queue>>
history == <<mandate, crashes>>
vars == <<tasks, steps, submitted, latest, live, flagged, queue, consumer, drive,
          turn, control, mandate, crashes>>

-----------------------------------------------------------------------------
\* The accepted and running events of a run, emitted in one step, are one event
\* here; "declared" is a success that ends the environment's episode.
Terminals == {"completed", "declared", "failed"}
Event(n, phase) == [sequence |-> n, phase |-> phase]
NoEvent == Event(0, "none")

\* A "declared" task is one completed on the word of the environment.
Closed    == {"completed", "declared", "closed"}
StepEnds  == {"completed", "failed"}
NoStep    == [task |-> None, status |-> "none", last |-> 0]
NoDrive   == [pc |-> "none", turns |-> 0, task |-> None]
NoControl == [pc |-> "idle", action |-> "none", task |-> None]

\* active_task() and current_task() of the session; None when there is none.
TaskIn(ts, S) ==
    IF \E t \in Task : ts.status[t] \in S
    THEN CHOOSE t \in Task : ts.status[t] \in S ELSE None
ActiveTask  == TaskIn(tasks, {"active"})
CurrentTask == TaskIn(tasks, {"active", "paused"})

StepsOf(t)    == {r \in Run : steps[r].task = t}
ActiveRuns(t) == {r \in StepsOf(t) : steps[r].status = "open"}

-----------------------------------------------------------------------------
\* Updates of a task row; all but resume_task touch an active task only.
SetStatus(ts, t, from, to, wake) ==
    IF t # None /\ ts.status[t] = from
    THEN [status |-> [ts.status EXCEPT ![t] = to],
          wake   |-> IF wake THEN ts.wake \cup {t} ELSE ts.wake \ {t}]
    ELSE ts
Finish(ts, t, status) == SetStatus(ts, t, "active", status, FALSE)
Pause(ts, t)          == SetStatus(ts, t, "active", "paused", FALSE)
Resume(ts, t)         == SetStatus(ts, t, "paused", "active", TRUE)
Woken(ts, t)          == SetStatus(ts, t, "active", "active", TRUE)

\* close_task(): the status of the latest step decides.
CloseStatus(t) ==
    IF \E r \in StepsOf(t) : /\ steps[r].status = "failed"
                             /\ \A s \in StepsOf(t) : s <= r
    THEN "closed" ELSE "completed"

StepStatus(phase) ==
    CASE phase = "running" -> "open"
      [] phase = "failed" -> "failed"
      [] OTHER -> "completed"

\* TaskCoordinator.apply_result(): an event newer than the step's last one updates
\* the step, a terminal one marks its task for resumption, and one the environment
\* ended the episode with completes the task.
Applies(r, e) == steps[r].task # None /\ steps[r].last < e.sequence
AppliedSteps(r, e) ==
    [steps EXCEPT ![r].status = StepStatus(e.phase), ![r].last = e.sequence]
AppliedTasks(r, e) ==
    LET t == steps[r].task
    IN  IF e.phase = "declared" THEN Finish(tasks, t, "declared")
        ELSE IF e.phase \in Terminals THEN Woken(tasks, t)
        ELSE tasks

-----------------------------------------------------------------------------
Init ==
    /\ tasks = [status |-> [t \in Task |-> "new"], wake |-> {}]
    /\ steps = [r \in Run |-> NoStep]
    /\ submitted = {}
    /\ latest = [r \in Run |-> NoEvent]
    /\ live = {}
    /\ flagged = {}
    /\ queue = <<>>
    /\ consumer = "starting"
    /\ drive = NoDrive
    /\ turn = "idle"
    /\ control = NoControl
    /\ mandate = "none"
    /\ crashes = 0

-----------------------------------------------------------------------------
\* The skill worker, as far as SkillClient shows it: a live run reports that it
\* runs, then its outcome, which is no success once the run was cancelled.  A
\* request that is rejected fails at once.
Phases(r) ==
    IF latest[r].sequence = 0 THEN {"running", "failed"}
    ELSE IF r \in flagged THEN {"failed"} ELSE Terminals

WorkerEvent(r) ==
    /\ r \in live
    /\ \E phase \in Phases(r) :
          LET e == Event(latest[r].sequence + 1, phase)
              over == IF phase \in Terminals THEN {r} ELSE {}
          IN  /\ latest' = [latest EXCEPT ![r] = e]
              /\ live' = live \ over
              /\ flagged' = flagged \ over
              /\ queue' = IF consumer \in {"idle", "waiting"}
                          THEN Append(queue, <<r, e>>) ELSE queue
    /\ UNCHANGED <<store, submitted, consumer, drive, turn, control, history>>

\* mutant: runs the worker executes are declared lost too
KnownWithoutOwner(r) ==
    IF latest[r].phase \in Terminals THEN latest[r]
    ELSE Event(latest[r].sequence + 1, "failed")

\* SkillWorker.status(): a run nobody executes any more is declared lost.
Known(r) ==
    IF r \in live \/ latest[r].phase \in Terminals THEN latest[r]
    ELSE Event(latest[r].sequence + 1, "failed")

-----------------------------------------------------------------------------
\* mutant: a turn that awaits the previous drive is never released
TurnAfterForgotten(outcome) ==
    CASE turn = "driving" -> "idle"
      [] turn = "aborting" -> "launch"
      [] OTHER -> turn

\* What the turn handler does when the drive it awaits is over: a turn that waited
\* for its end goes on unless it ended with an exception.
TurnAfter(outcome) ==
    CASE turn = "driving" -> "idle"
      [] turn \in {"previous", "aborting"} ->
            IF outcome = "raised" THEN "idle" ELSE "launch"
      [] OTHER -> turn

\* The end of Agent._drive, as everything that awaits it sees it: "done" is a
\* result, "raised" an exception, "aborted" the CancelledError of abort_inference().
\* The event consumer catches neither of the last two.
EndDrive(outcome) ==
    /\ drive' = NoDrive
    /\ consumer' = IF consumer # "waiting" THEN consumer
                   ELSE IF outcome = "done" THEN "idle" ELSE "dead"
    /\ turn' = TurnAfter(outcome)
    /\ control' = IF control.pc = "driving" THEN NoControl ELSE control

\* mutant: one model turn too many
ExhaustedLate(n) == n > MaxTurns

Exhausted(n) == n >= MaxTurns

\* The head of the loop in _drive, after n decisions, with ts the task rows: the
\* task's deadline may have passed, the turn limit may be reached, or the model is
\* asked.
LoopHead(n, ts) ==
    LET t == TaskIn(ts, {"active"})
    IN  \/ /\ t # None
           /\ tasks' = Finish(ts, t, "closed")
           /\ EndDrive("done")
        \/ /\ Exhausted(n)
           /\ tasks' = Pause(ts, t)
           /\ EndDrive("done")
        \/ /\ ~Exhausted(n)
           /\ tasks' = ts
           /\ drive' = [pc |-> "model", turns |-> n, task |-> None]
           /\ UNCHANGED <<consumer, turn, control>>

DriveBegin ==
    /\ drive.pc = "created"
    /\ LoopHead(0, tasks)
    /\ UNCHANGED <<steps, skills, history>>

\* The decision is an error of the model or of its protocol.
DecideFailure ==
    /\ drive.pc = "model"
    /\ EndDrive("done")
    /\ UNCHANGED <<store, skills, history>>

\* Plain text, or a harness tool whose result goes back to the model.
DecideContinue ==
    /\ drive.pc = "model"
    /\ LoopHead(drive.turns + 1, tasks)
    /\ UNCHANGED <<steps, skills, history>>

\* mutant: a paused task is no obstacle
CanCreateBesidePaused == ActiveTask = None

\* create_task(): refused while the session has an open task, a paused one too.
CanCreate == CurrentTask = None
NewTask == CHOOSE t \in Task : /\ tasks.status[t] = "new"
                               /\ \A x \in Task : tasks.status[x] = "new" => t <= x
Created(ts) == [ts EXCEPT !.status[NewTask] = "active"]
MoreTasks == \E t \in Task : tasks.status[t] = "new"

\* respond(task_state = "none")
RespondNone ==
    /\ drive.pc = "model"
    /\ IF ActiveTask # None THEN LoopHead(drive.turns + 1, tasks)
       ELSE EndDrive("done") /\ UNCHANGED tasks
    /\ UNCHANGED <<steps, skills, history>>

\* respond(task_state = "wait")
RespondWait ==
    /\ drive.pc = "model"
    /\ \/ /\ ActiveTask # None
          /\ EndDrive("done")
          /\ UNCHANGED tasks
       \/ /\ ActiveTask = None /\ CanCreate /\ MoreTasks
          /\ tasks' = Created(tasks)
          /\ EndDrive("done")
       \/ /\ ActiveTask = None /\ ~CanCreate
          /\ EndDrive("raised")
          /\ UNCHANGED tasks
    /\ UNCHANGED <<steps, skills, history>>

\* mutant: the active run is not looked at
MayCompleteWhileRunning(t) ==
    /\ t # None
    /\ \E r \in StepsOf(t) : steps[r].status = "completed"

\* respond(task_state = "complete"): not while a run is active, and not without a
\* step that succeeded.
MayComplete(t) ==
    /\ t # None
    /\ ActiveRuns(t) = {}
    /\ \E r \in StepsOf(t) : steps[r].status = "completed"

RespondComplete ==
    /\ drive.pc = "model"
    /\ tasks' = IF MayComplete(ActiveTask)
                THEN Finish(tasks, ActiveTask, CloseStatus(ActiveTask)) ELSE tasks
    /\ EndDrive("done")
    /\ UNCHANGED <<steps, skills, history>>

\* _apply_control(): what an action makes of its task once every call it awaits
\* has returned.
ControlResult(action, t) ==
    IF action = "pause" THEN Pause(tasks, t) ELSE Finish(tasks, t, "closed")

\* respond(task_state = "cancel"): active runs are cancelled first.
RespondCancel ==
    /\ drive.pc = "model"
    /\ IF ActiveTask # None /\ ActiveRuns(ActiveTask) # {}
       THEN /\ drive' = [drive EXCEPT !.pc = "cancel", !.task = ActiveTask]
            /\ flagged' = flagged \cup (ActiveRuns(ActiveTask) \cap live)
            /\ UNCHANGED <<tasks, consumer, turn, control>>
       ELSE /\ tasks' = ControlResult("cancel", ActiveTask)
            /\ EndDrive("done")
            /\ UNCHANGED flagged
    /\ UNCHANGED <<steps, submitted, latest, live, queue, history>>

RespondCancelReturns ==
    /\ drive.pc = "cancel"
    /\ tasks' = ControlResult("cancel", drive.task)
    /\ EndDrive("done")
    /\ UNCHANGED <<steps, skills, history>>

-----------------------------------------------------------------------------
\* A physical action.  TaskCoordinator.submit() refuses a second active run, and
\* stores the pending step before it hands the command to the worker.
FreshRun == CHOOSE r \in Run : /\ steps[r].task = None
                               /\ \A x \in Run : steps[x].task = None => r <= x
MoreRuns == \E r \in Run : steps[r].task = None

Step(t, status, n) == [steps EXCEPT ![FreshRun] =
                          [task |-> t, status |-> status, last |-> n]]
Unwoken(ts, t) == [ts EXCEPT !.wake = @ \ {t}]

Act(t, ts) ==
    \/ /\ ActiveRuns(t) # {}
       /\ tasks' = ts
       /\ EndDrive("raised")
       /\ UNCHANGED <<steps, submitted, live>>
    \/ /\ ActiveRuns(t) = {} /\ MoreRuns
       /\ steps' = Step(t, "open", 0)
       /\ tasks' = Unwoken(ts, t)
       /\ submitted' = submitted \cup {FreshRun}
       /\ live' = live \cup {FreshRun}
       /\ EndDrive("done")
    \/ /\ ActiveRuns(t) = {} /\ MoreRuns        \* the worker or its store refuses
       /\ steps' = Step(t, "failed", 1)
       /\ LoopHead(drive.turns + 1, Woken(ts, t))
       /\ UNCHANGED <<submitted, live>>

ActForActive ==
    /\ drive.pc = "model"
    /\ ActiveTask # None
    /\ IF Cardinality(StepsOf(ActiveTask)) >= MaxSkills
       THEN /\ tasks' = Finish(tasks, ActiveTask, "closed")
            /\ EndDrive("done")
            /\ UNCHANGED <<steps, submitted, live>>
       ELSE Act(ActiveTask, tasks)
    /\ UNCHANGED <<latest, flagged, queue, history>>

ActForNew ==
    /\ drive.pc = "model"
    /\ ActiveTask = None
    /\ IF ~CanCreate
       THEN /\ EndDrive("raised")
            /\ UNCHANGED <<tasks, steps, submitted, live>>
       ELSE MoreTasks /\ Act(NewTask, Created(tasks))
    /\ UNCHANGED <<latest, flagged, queue, history>>

-----------------------------------------------------------------------------
\* _launch_drive(): a drive that is not done is joined.
LaunchDrive ==
    drive' = IF drive.pc = "none" THEN [NoDrive EXCEPT !.pc = "created"] ELSE drive

\* _handle_skill_event(): a terminal event of an active task resumes the agent, and
\* the consumer awaits that drive.
HandleEvent ==
    /\ consumer = "idle"
    /\ queue # <<>>
    /\ queue' = Tail(queue)
    /\ LET r == Head(queue)[1]
           e == Head(queue)[2]
       IN  IF Applies(r, e)
           THEN /\ steps' = AppliedSteps(r, e)
                /\ tasks' = AppliedTasks(r, e)
                /\ IF e.phase \in Terminals
                      /\ AppliedTasks(r, e).status[steps[r].task] = "active"
                   THEN LaunchDrive /\ consumer' = "waiting"
                   ELSE UNCHANGED <<drive, consumer>>
           ELSE UNCHANGED <<store, drive, consumer>>
    /\ UNCHANGED <<submitted, latest, live, flagged, turn, control, history>>

\* _on_turn(): steer() when the user corrects or a run is active, prompt() otherwise.
\* steer() only takes a note while a run is active; else it aborts the inference.
\* prompt() awaits a drive that is under way.
Turn(kind) ==
    /\ turn = "idle"
    /\ mandate' = "given"
    /\ LET steering == \/ kind = "steer"
                       \/ ActiveTask # None /\ ActiveRuns(ActiveTask) # {}
           noted == CurrentTask # None /\ ActiveRuns(CurrentTask) # {}
       IN  \/ /\ steering /\ noted
              /\ UNCHANGED <<drive, turn>>
           \/ /\ steering /\ ~noted /\ drive.pc # "none"
              /\ drive' = [drive EXCEPT !.pc = "aborting"]
              /\ turn' = "aborting"
           \/ /\ ~steering /\ drive.pc # "none"
              /\ turn' = "previous"
              /\ UNCHANGED drive
           \/ /\ ~(steering /\ noted) /\ drive.pc = "none"
              /\ LaunchDrive
              /\ turn' = "driving"
    /\ UNCHANGED <<store, skills, consumer, control, crashes>>

\* The cancellation of abort_inference() reaches the drive.
AbortDelivered ==
    /\ drive.pc = "aborting"
    /\ EndDrive("aborted")
    /\ UNCHANGED <<store, skills, history>>

\* _launch() goes on once the previous drive is over.
LaunchTurn ==
    /\ turn = "launch"
    /\ LaunchDrive
    /\ turn' = "driving"
    /\ UNCHANGED <<store, skills, consumer, control, history>>

-----------------------------------------------------------------------------
\* _on_control(): pause and cancel (or block) cancel the task's active runs and await
\* each; the task row follows when they have returned.
ControlTask(action) ==
    /\ control.pc = "idle"
    /\ CurrentTask # None
    /\ LET runs == ActiveRuns(CurrentTask) \cap live
       IN  IF runs = {}
           THEN /\ tasks' = ControlResult(action, CurrentTask)
                /\ UNCHANGED <<flagged, control>>
           ELSE /\ flagged' = flagged \cup runs
                /\ control' = [pc |-> "awaiting", action |-> action,
                               task |-> CurrentTask]
                /\ UNCHANGED tasks
    /\ UNCHANGED <<steps, submitted, latest, live, queue, consumer, drive, turn,
                   history>>

\* An emergency stop stops the robot and cancels its runs, task or no task.
EmergencyStop ==
    /\ control.pc = "idle"
    /\ flagged' = flagged \cup live
    /\ control' = [pc |-> "awaiting", action |-> "emergency_stop",
                   task |-> CurrentTask]
    /\ UNCHANGED <<store, submitted, latest, live, queue, consumer, drive, turn,
                   history>>

ControlReturns ==
    /\ control.pc = "awaiting"
    /\ tasks' = ControlResult(control.action, control.task)
    /\ control' = NoControl
    /\ mandate' = IF control.action = "emergency_stop" THEN "stopped" ELSE mandate
    /\ UNCHANGED <<steps, skills, consumer, drive, turn, crashes>>

\* The robot's control plane does not confirm the stop.
EmergencyStopFails ==
    /\ control.pc = "awaiting"
    /\ control.action = "emergency_stop"
    /\ control' = NoControl
    /\ UNCHANGED <<store, skills, consumer, drive, turn, history>>

\* Resume of a paused task whose last run has ended: the agent goes on if there is a
\* step to go on from.
ControlResume ==
    /\ control.pc = "idle"
    /\ LET t == CurrentTask
       IN  /\ t # None
           /\ tasks.status[t] = "paused"
           /\ ActiveRuns(t) = {}
           /\ tasks' = Resume(tasks, t)
           /\ IF StepsOf(t) = {} THEN UNCHANGED <<drive, control>>
              ELSE LaunchDrive /\ control' = [NoControl EXCEPT !.pc = "driving"]
    /\ mandate' = "given"
    /\ UNCHANGED <<steps, skills, consumer, turn, crashes>>

\* The web API reports that the environment ended the task (GatewayService).
EnvironmentCompletes(t) ==
    /\ tasks.status[t] = "active"
    /\ tasks' = Finish(tasks, t, "declared")
    /\ UNCHANGED <<steps, skills, consumer, drive, turn, control, history>>

-----------------------------------------------------------------------------
\* Death of the process, graceful or not, and its restart up to the bus
\* subscriptions of start().
Restart ==
    /\ crashes < MaxCrashes
    /\ crashes' = crashes + 1
    /\ live' = {}
    /\ flagged' = {}
    /\ queue' = <<>>
    /\ consumer' = "starting"
    /\ drive' = NoDrive
    /\ turn' = "idle"
    /\ control' = NoControl
    /\ mandate' = "none"
    /\ UNCHANGED <<submitted, latest>>

Crash == Restart /\ UNCHANGED store

\* It dies when the pending step is stored and the command is not.
CrashInSubmit ==
    /\ drive.pc = "model"
    /\ ActiveTask # None
    /\ Cardinality(StepsOf(ActiveTask)) < MaxSkills
    /\ ActiveRuns(ActiveTask) = {} /\ MoreRuns
    /\ steps' = Step(ActiveTask, "open", 0)
    /\ tasks' = Unwoken(tasks, ActiveTask)
    /\ Restart

\* _recover_tasks(): the active run of an active task is brought up to date from
\* the worker's status(), and a task left to be resumed is paused instead.
Paused(ts) ==
    LET t == TaskIn(ts, {"active"}) IN IF t \in ts.wake THEN Pause(ts, t) ELSE ts

Recover ==
    /\ consumer = "starting"
    /\ consumer' = "off"
    /\ LET known == {r \in submitted : /\ ActiveTask # None
                                       /\ r \in ActiveRuns(ActiveTask)
                                       /\ Known(r).sequence > 0}
       IN  \/ /\ known = {}
              /\ tasks' = Paused(tasks)
              /\ UNCHANGED <<steps, latest>>
           \/ \E r \in known :
                 /\ latest' = [latest EXCEPT ![r] = Known(r)]
                 /\ IF Applies(r, Known(r))
                    THEN /\ steps' = AppliedSteps(r, Known(r))
                         /\ tasks' = Paused(AppliedTasks(r, Known(r)))
                    ELSE UNCHANGED steps /\ tasks' = Paused(tasks)
    /\ UNCHANGED <<submitted, live, flagged, queue, drive, turn, control, history>>

\* mutant: the service resumes its active task by itself
SubscribeAndResume ==
    /\ consumer = "off"
    /\ consumer' = "idle"
    /\ IF ActiveTask # None THEN LaunchDrive ELSE UNCHANGED drive
    /\ UNCHANGED <<store, skills, turn, control, history>>

\* The events() generator registers its queue when the consumer first runs.
Subscribe ==
    /\ consumer = "off"
    /\ consumer' = "idle"
    /\ UNCHANGED <<store, skills, drive, turn, control, history>>

-----------------------------------------------------------------------------
Decide ==
    \/ DecideFailure \/ DecideContinue
    \/ RespondNone \/ RespondWait \/ RespondComplete \/ RespondCancel
    \/ ActForActive \/ ActForNew

Next ==
    \/ DriveBegin \/ Decide \/ RespondCancelReturns \/ AbortDelivered \/ LaunchTurn
    \/ HandleEvent \/ Recover \/ Subscribe
    \/ \E kind \in {"prompt", "steer"} : Turn(kind)
    \/ \E action \in {"pause", "cancel"} : ControlTask(action)
    \/ EmergencyStop \/ EmergencyStopFails \/ ControlReturns \/ ControlResume
    \/ \E r \in Run : WorkerEvent(r)
    \/ \E t \in Task : EnvironmentCompletes(t)
    \/ Crash \/ CrashInSubmit

\* The event loop runs what is ready, and every await here is bounded: a decision by
\* its deadline, a cancellation and an emergency stop by their RPC timeouts, a run by
\* the worker's wait_for.
Fairness ==
    /\ WF_vars(DriveBegin) /\ WF_vars(Decide) /\ WF_vars(RespondCancelReturns)
    /\ WF_vars(AbortDelivered) /\ WF_vars(LaunchTurn)
    /\ WF_vars(HandleEvent) /\ WF_vars(Recover) /\ WF_vars(Subscribe)
    /\ WF_vars(ControlReturns)
    /\ \A r \in Run : WF_vars(WorkerEvent(r))

Spec == Init /\ [][Next]_vars
FairSpec == Spec /\ Fairness

-----------------------------------------------------------------------------
TaskStates == {"new", "active", "paused"} \cup Closed

TypeOK ==
    /\ tasks \in [status : [Task -> TaskStates], wake : SUBSET Task]
    /\ steps \in [Run -> [task : Task \cup {None},
                          status : {"none", "open"} \cup StepEnds,
                          last : Nat]]
    /\ submitted \in SUBSET Run
    /\ latest \in [Run -> [sequence : Nat,
                           phase : {"none", "running"} \cup Terminals]]
    /\ live \in SUBSET submitted
    /\ flagged \in SUBSET live
    /\ consumer \in {"starting", "off", "idle", "waiting", "dead"}
    /\ drive \in [pc : {"none", "created", "model", "cancel", "aborting"},
                  turns : 0..(MaxTurns - 1), task : Task \cup {None}]
    /\ turn \in {"idle", "previous", "aborting", "launch", "driving"}
    /\ control \in [pc : {"idle", "awaiting", "driving"},
                    action : {"none", "pause", "cancel", "emergency_stop"},
                    task : Task \cup {None}]
    /\ mandate \in {"none", "given", "stopped"}
    /\ crashes \in Nat

\* README.md:101-104: one session has at most one non-terminal task, and however
\* turns, resumptions and restarts interleave a task never has two runs at a time; a
\* wake-up mark is left on active tasks only.
OneOpenTaskOneRun ==
    /\ \A t, x \in Task : {tasks.status[t], tasks.status[x]} \subseteq {"active", "paused"}
                          => t = x
    /\ \A t \in Task : Cardinality(ActiveRuns(t)) <= 1
    /\ \A t \in tasks.wake : tasks.status[t] = "active"

\* The budget of physical actions holds over refused submissions, pauses, resumptions
\* and restarts: step_count never passes agent_runtime.hard_max_skills.
StepsWithinBudget == \A t \in Task : Cardinality(StepsOf(t)) <= MaxSkills

\* A task the agent completed rests on evidence: a step of it succeeded, and no run
\* of it is still moving the robot (respond "complete", close_task).  The
\* environment's verdict, which is recorded apart, is exempt.
CompletedMeansDone ==
    \A t \in Task : tasks.status[t] = "completed" =>
        /\ \E r \in StepsOf(t) : steps[r].status = "completed"
        /\ StepsOf(t) \cap live = {}

\* A step's result is written once: whatever status(), the event queue and a restart
\* report of its run, a settled step is not reopened or given another outcome.  A task
\* that is closed stays closed, and keeps its verdict.
ResultsStay ==
    [][/\ \A r \in Run : steps[r].status \in StepEnds => steps'[r] = steps[r]
       /\ \A t \in Task : tasks.status[t] \in Closed => tasks'.status[t] = tasks.status[t]]_store

\* The worker, as the agent reconciles with it over its own restarts, keeps the promise
\* of RunLifecycle that SkillWorker keeps: a run starts at most once, one that was cut
\* off is not started again, and status() ends it for good.
Stage(r) ==
    IF latest[r].phase \in Terminals THEN "ended"
    ELSE IF latest[r].sequence > 0 THEN IF r \in live THEN "executing" ELSE "abandoned"
    ELSE IF r \in submitted THEN "submitted" ELSE "new"
Lifecycle == INSTANCE RunLifecycle WITH
    Needs <- [r \in Run |-> {}], stage <- [r \in Run |-> Stage(r)]
KeepsLifecycle == Lifecycle!Spec

\* Runs, steps and tasks reach one outcome each, and keep it.
OutcomesSettleOnce == ResultsStay /\ KeepsLifecycle

\* README.md:106: nothing of unknown outcome is repeated by itself.  Between a
\* (re)start and the user's next message no run is dispatched.
RestartWaitsForUser ==
    [][submitted' # submitted => mandate # "none"]_submitted

\* Every wake-up ends: the turn limit and the bounded awaits give an answer to the
\* turn, the control or the event that waits for it (architecture 5.2).
WakeUpsEnd ==
    /\ drive.pc # "none" ~> drive.pc = "none"
    /\ turn # "idle" ~> turn = "idle"

\* README.md:105: terminal Skill events update task steps and wake the Agent.
TerminalEventsUpdateSteps ==
    \A r \in Run : latest[r].phase \in Terminals ~> steps[r].status \in StepEnds
=============================================================================
