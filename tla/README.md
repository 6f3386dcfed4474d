# Hey Robot in TLA+

Hey Robot (`src/src/hey_robot`) turns a user's messages into physical actions of
a robot: a language model decides, a skill worker executes, a control plane
drives the hardware. Channels, model services, backends and evaluation
processes surround this core. Nearly all of it is asyncio code with a few
threads and child processes, whose correctness depends on what happens between
two `await`s, on which messages arrive, and on what is left on disk when a
process dies. This directory specifies that part.

Paths in this file are relative to `src/src/hey_robot/` unless they start with
`docs/`, `evaluation/` or `README.md`, which belong to the root of the repository.

1. [The system](#1-the-system)
2. [The modules](#2-the-modules)
3. [What is checked](#3-what-is-checked)
4. [What is proved](#4-what-is-proved)
5. [What the models found](#5-what-the-models-found)
6. [Plan](#6-plan)
7. [Not modelled, and why](#7-not-modelled-and-why)

## 1. The system

| Part | State | Operations | Interacts with |
|---|---|---|---|
| Gateway (`gateway/`) | receipts (sqlite), identity bindings (json), episodes, the channel's memory of messages | turn in, control, binding, result and reply out | publishes `agent.turn`, `agent.control`; receives results; channels |
| Channels (`channels/`, `audio/`) | websockets and replies; post attempts; microphone, session, echo guards, sound device | send, poll, stream; capture, speak | gateway, browsers, Feishu, devices |
| Agent service (`cognition/autonomous_agent_service.py`) | one `Agent` per session, the event consumer task | `_on_turn`, `_on_control`, `_consume_skill_events`, `_recover_tasks` | bus, agent, worker's `events()` |
| Agent (`cognition/runtime/agent.py`) | the drive (one asyncio task), the turn count, the conversation | `prompt`, `steer`, `resume_task`, `abort_inference`, `_drive` | model client, tool executor |
| Tool executor and coordinator (`cognition/tools/executor.py`, `cognition/runtime/task_coordinator.py`) | none of their own | `respond`, physical action, pause / cancel / emergency stop, `submit`, `apply_result` | task store, skill client |
| Task store (`cognition/runtime/agent_task_store.py`) | SQLite: tasks, steps, routes | create / pause / resume / finish, add and resolve steps | durable |
| Skill bus (`skills/transport.py`) | pending stops, relay, latest events | submit, cancel, stop, status, events over NATS | agent's and robot's processes |
| Skill worker and runner (`skills/worker.py`, `skills/runner.py`) | command queue, `_tasks`, `_pending`, cancellation flags, sequences | `submit`, `cancel`, `cancel_robot`, `emergency_stop`, `status`, `events`, `close` | run store, resources, handlers |
| Resource manager (`skills/resources.py`) | an `asyncio.Lock` and an owner dictionary per key | `acquire` | runner, nested skills |
| Run store (`persistence/run_store.py`, `robot_media/store.py`) | per run: `command.json`, `events.jsonl`, `result.json`, pictures, trace | record, append, read with repair, pin, evict | durable |
| Robot runtime (`robot_runtime/`) | control lock, current action, admission gate, safety supervisor | admission, preemption, deadline, stop, observation | backends |
| Perception (`robot_runtime/observations/`, `robot_hardware/camera.py`) | camera thread, last snapshot, pictures, scene entities | refresh, observe, inspect | skills, agent |
| XLeRobot (`robot_backends/xlerobot/`, `robot_hardware/`) | base lock, watchdog, servo port, torque, wheel mode | motions, stop, reset, close | servos |
| Simulations (`robot_backends/simulation/`, `robot_backends/mock/`) | lock, stepping thread, emergency latch, wand; objects and faults | the robot's actions | MuJoCo |
| RoboCasa (`robocasa_backend/`, `robot_backends/robocasa_remote/`, `evaluation/robocasa365/`) | trial, frame, resource lock; episode of the driver; state of the benchmark | begin, observe, step, end | gRPC |
| Model services (`foundation/`) | busy flag, executor, policy process and its pipe; planner session | execute, cancel, plan | options |
| Options (`skills/vla/`, `skills/vln/`) | chunk, budget, last frame | observe, infer, act | services, runtime |
| Human following (`human_follow/`) | session, stream of velocities, watchdog | start, loop, stop | robot service |
| Composition (`app/`) | started services, child processes, credentials | start, gate, supervise, stop | everything |

What is hard about it:

* **Interleaving.** Every handler suspends, and other handlers run in between:
  a decision is carried out after a pause, a cancellation or an emergency stop
  changed the task it was made for; a cancellation finds a run queued, waiting
  for a lock, in its handler, or already unwinding from a timeout.
* **Cancellation as an exception.** `task.cancel()` may be thrown at any await,
  before the first step of a task, into a clean-up, or into whoever awaits the
  cancelled task. A thread or a child process a cancelled coroutine was waiting
  for goes on.
* **Crashes.** Physical actions have unknown outcomes after a crash and must not
  be repeated; task rows, step rows, run files and receipts are written by
  different statements, and a line may be torn.
* **Messages.** Upstreams redeliver, topics are not ordered among each other,
  and a message for a process that is not subscribed is gone.
* **Late answers.** A reply that comes after its deadline stays in a pipe, a
  port or a service and meets the next request.

What makes each part correct is stated by its properties, which section 3 lists.
`PROJECT.json` names the hazards, each at its line, with the properties that
would catch it.

## 2. The modules

The core, each with runs of its own:

| Module | Models | Source |
|---|---|---|
| `RunLifecycle` | abstract: what the skill layer promises of a run | `skills/` |
| `SkillWorker` | worker, runner, un-nested resources, the stored submission and last event of each run | `skills/worker.py`, `runner.py`, `resources.py`, `persistence/run_store.py` |
| `ResourceManager` | nested `acquire()` with the owner dictionaries as they are | `skills/resources.py` |
| `AgentTask` | agent service, agent, executor, coordinator and task store of one session, against the worker's interface | `cognition/` |
| `RobotMotion` | control plane, thread pool, base lock, velocity watchdog, base and `close()` of an XLeRobot | `robot_runtime/`, `robot_backends/xlerobot/`, `robot_hardware/mobile_base.py` |
| `PolicyService` | servicer, executor, pipe, policy process and callers | `foundation/transport/grpc/`, `foundation/backends/lerobot/executor.py` |

Around it, run together in `MCServices` and `MCRobot` (safety) and `MCRest` (liveness):

| Module | Models | Source |
|---|---|---|
| `Gateway` | receipts, identities, bindings, episodes, turns, controls, results, replies over redeliveries and crashes | `gateway/`, `channels/feishu/channel.py` |
| `FeishuReply` | a reply with attachments, posted with retries | `channels/feishu/` |
| `WebChat` | sockets, the stream of a reply, polling, the page that joins the frames | `channels/web.py`, `src/frontend/shared/js/ws.js` |
| `VoiceLoop` | capture, routing, sessions, speech and echo guards, playback that never returns | `audio/voice_loop.py`, `audio/session.py`, `channels/voice.py` |
| `PcmPlayer` | the bounded queue between event loop and sound device | `audio/io.py`, `audio/tts.py` |
| `SpeechRecognition` | a capture streamed to the recognition service, its answers and the waits for them | `audio/asr.py` |
| `SpeechSynthesis` | the text of a reply sent in chunks, the audio and reports that come back | `audio/tts.py` |
| `AgentDrive` | who launches, joins, awaits and aborts the drive, and the messages a request holds | `cognition/runtime/agent.py`, `agent_context.py`, `conversation_store.py` |
| `SkillBus` | client, server and relay over NATS, with crashes of the robot's process | `skills/transport.py`, `bus/client.py` |
| `RunStore` | the files of a run over crashes between and inside writes, and lines no reader gets past | `persistence/run_store.py`, `robot_media/store.py` |
| `MediaStore` | one kind of media objects: puts of several processes that write, list and evict | `robot_media/store.py` |
| `Deployment` | start, health gate, supervision, cancellation and stop | `app/runner.py`, `app/sidecars.py` |
| `HumanFollow` | client, service, loop, robot-side stream and watchdog | `human_follow/`, `robot_transport/service.py` |
| `Perception` | camera thread, coalesced refreshes, pictures, entities, evidence | `robot_runtime/observations/`, `robot_hardware/camera.py` |
| `ModelOptions` | the loops of the VLA and the VLN option | `skills/vla/option.py`, `skills/vln/option.py` |
| `VlnPlanner` | sessions, history and waypoints of the planner | `foundation/backends/vln/` |
| `SkillGate`, `ActionAdmission` | the contract of an action and its required arguments; supervisor with its safety flags, queue, driver's gate, emergency stop | `robot_runtime/skill_gate.py`, `safety.py`, `robot_backends/xlerobot/driver.py` |
| `ServoBus` | the port, its exchanges and group reads, torque, wheel mode, arms and the angles they remember | `robot_hardware/servo_bus.py`, `sms_sts.py`, `arm.py` |
| `DockArm` | the wand, the gripper and the dock skills on a grid | `robot_backends/simulation/`, `skills/builtins/dock.py` |
| `MockRobot` | the mock's world, faults and states | `robot_backends/mock/` |
| `SimDriver` | lock, stepping thread, stops and emergency latch | `robot_backends/simulation/xlerobot_sim_driver.py` |
| `CasaTrial` | trials and frames between driver, benchmark and backend | `robocasa_backend/`, `robot_backends/robocasa_remote/`, `evaluation/robocasa365/` |

Four modules put these side by side, without a shared variable: `Channels` (gateway,
replies, voice and speech), `RunPath` (drive, bus, files, media, deployment,
following), `ModelServices` (perception, policy, options, planner, admission) and
`RobotHardware` (servo bus, dock, mock, simulation, trials). They name the
properties. `MCServices` is made of the first three, `MCRobot` of the last and of
`ResourceManager`.

Theorems are in `SkillWorkerProofs`, `ResourceManagerProofs`, `AgentTaskProofs`,
`RobotMotionProofs`, `ChannelsProofs`, `RunPathProofs`, `BackendProofs` (about
`ModelServices` and `RobotHardware`) and `MCServicesProofs`. `MCSkillWorker`,
`MCRobotMotion`, `MCRobot`, `MCServices` and `MCRest` are the instances TLC checks.

An action is what one coroutine does between two suspension points. Python's
event loop runs such a stretch without interruption, so this granularity is
exact; calls that only await a lock nobody else can hold, or a coroutine that
does not suspend, do not end an action. Threads (`RobotMotion`, `ServoBus`,
`SimDriver`, `PcmPlayer`, `PolicyService`, `CasaTrial`) interleave at the points
where they take a lock, test a flag or hand something over; between them they
hold a lock or touch nothing another thread reads. `PROJECT.json` maps every
definition to its lines.

How the modules meet. They overlap at interfaces, each of which one module
details and the others reduce: `SkillWorker` details what `AgentTask` knows as
`live` runs and what `SkillBus` carries; `AgentDrive` details the one drive of
`AgentTask`; `Gateway` ends where `AgentTask` has its turn and control;
`RobotMotion` executes what `ActionAdmission` has admitted; `ServoBus` is below
its base, `HumanFollow` above its velocity stream.

### SkillWorker

`pc[r]` is where the task of run `r` is: `created` (its coroutine has not run
yet), `waiting` (in `lock.acquire()`), `handler`, `unwind_cancel` and
`unwind_timeout` (a `CancelledError` was thrown into the handler, whose `finally`
blocks may still await), `dead` (cancelled before its first step: the coroutine
never ran, so neither the terminal event nor the `finally` that clears `_tasks`
and `_pending` happened) or `none`. `interrupt` holds the tasks with a requested
cancellation that has not been delivered. `asyncio.Lock` is modelled with its
queue: `ahead[r]` is who was waiting when `r` joined, a lock is granted at once
only if all its waiters have been cancelled, and a released lock resumes its
first live waiter. `Crash` and `CrashInBegin` keep `submitted` and `latest` only.
`Finish` is the tail every outcome shares: resources are left, the terminal
event is emitted, and the entries of the run are cleared, with no suspension in
between. A handler's result keeps the failure mode it came with, or none: the runner
sets one only for outcomes of its own (`runner.py:168`).

### ResourceManager

`acquire()` looks up `_owners[key]` before it awaits the lock and stores its
count in that dictionary afterwards; the release it waited for has dropped the
dictionary from `_owners` by then. `stale` holds the owners this has happened
to. Exclusion survives it, because the lock itself is still held
(`Exclusive`); re-entrance does not (`NestedBlocksReenter`).

### AgentTask

One session. `drive` is `Agent._run_task`: `created`, awaiting the `model`,
awaiting the cancellation of a run (`cancel`), or `aborting` after
`abort_inference()`. Its turn, control and event handlers wait for it in the
ways the code does, and `EndDrive` says what each of them sees: a result, an
exception, or the `CancelledError`. A decision of the model is any outcome
`AgentRunner` can return (`Decide`). The worker is reduced to its interface:
live runs report progress and an outcome, cancelled ones no success, and
`status()` declares runs lost that nobody executes. This reduction assumes that
a live run ends; section 5 has the case where it does not. The bus delivers one
turn and one control command at a time, as the subscription loops do.

### RobotMotion

A call is one request to the runtime; `co[c]` is where its coroutine is
(`preempting`, `queued` or `granted` at `_action_lock`, `applying` while it
awaits its thread) and `th[c]` where the thread of `asyncio.to_thread` is:
`queued` in the pool, at the base `lock`, at the test of `_initialized`
(`check`), before the speed writes (`write`), sleeping in `_pulse_velocity`
(`pulse`), before the stop (`stopping`), commanding the `arm`, `ended`.
Requests with `plane` go through `RobotControlPlane.apply_action`; an emergency
stop, a velocity stream and the turns of `look_around` go to the driver directly.
`Cancel` shows what Python does: it releases the control lock at once, withdraws
a job no thread has begun, and leaves a begun one to itself. A `threading.Timer`
is `set`, then `elapsed`: from there `cancel()` comes too late and only the
generation tells `stop_if_stale()` that it is stale. `executor.close()` waits for
the base lock on the event loop, so no coroutine runs meanwhile (`LoopRuns`).
`wheels` is the call whose velocity the wheels have; `stopOk` is the base's own
record of its last stop. An exchange with the servos may fail, which the code sees
as a returned `False`, or raise (`WriteRaises`, `StopRaises`, `ExchangeRaises`). The
exception leaves the base lock, skips the stop of a motion and the watchdog of a
velocity, and leaves the port in use (`portInUse`), so that every later write is
refused. Left out: deadlines that pass after admission (no caller
in the source gives a robot action one) and the records of the action buffer.

### The components of MCServices, MCRobot and MCRest

Each module begins with what it models, what it leaves out and what its constants
bound. The components share no variable. `part`, chosen at the start, says which
one moves; the others keep their initial states, which satisfy every invariant
stated about them, so the graph that is explored is the disjoint sum of the
components' graphs and a property of one component is checked on exactly its own
behaviours. The same module reaches TLC as stands here, through
`INSTANCE ... WITH`. In `MCRest` each component brings its own fairness;
a component that does not move has no enabled fair action, so the fairness of one
asks nothing of another.

## 3. What is checked

| Run | Instance | Shows |
|---|---|---|
| `skill_worker` | 2 runs sharing key 2, the first needs key 1 too; 1 progress event, 1 crash, close; 45,240 states | `TypeOK`, `ResourceSafety`, `EventsOnlyAppend`, `CancelledNeverCompletes`, `KeepsLifecycle` (refinement of `RunLifecycle`), `QueuedRunsSettle` (liveness) |
| `skill_worker_settles` | same, no crash, no close | violates `SubmittedRunsSettle` |
| `robot` | `MCRobot`; 717,072 states | safety, below |
| `resource_nesting` | 2 owners, 2 keys, 2 nested blocks | violates `NestedBlocksReenter` |
| `agent_task` | 2 tasks, 2 runs, 1 crash; 1,361,926 states | `TypeOK`, `OneOpenTaskOneRun`, `CompletedMeansDone`, `OutcomesSettleOnce`, `RestartWaitsForUser` |
| `agent_wakeups` | 1 task, 2 runs, no crash; 45,692 states | `WakeUpsEnd` (liveness) |
| `agent_events` | same | violates `TerminalEventsUpdateSteps` |
| `robot_motion` | 3 calls (emergency stop, stream velocity, motion, preempting arm action), 2 threads, 1 write that fails or raises; 5,375,434 states up to symmetry | `TypeOK`, `DrivingIsWatched`, `CurrentIsAdmitted`, `WatchdogSparesNewer` |
| `robot_rest` | `MCRest`; 267,929 states | liveness, below |
| `services` | `MCServices`; 767,531 states | safety, below |
| `run_store` | 2 events before the outcome, 1 crash | violates `TornTailsAreRead` |
| `policy_service` | 2 callers, 2 loads, 2 calls, 1 cancellation | violates `OneExecution` |

`services` and `robot`, by component:

| Component | Instance | Property |
|---|---|---|
| all of `services` | `HumanFollow` with 2 sessions, 1 crash; `ActionAdmission` and `SkillGate` with a stop and a motion | `TypesOK` |
| `Gateway` | a prompt with media delivered twice, a control, a binding that changes the prompt's identity; channel memory 1, 1 crash, 1 answer each | `RoutedOnce` |
| `FeishuReply`, `WebChat` | 2 replies, 2 attempts, 1 attachment; 2 pages, 2 parts, 2 connects of each page | `TextsArriveWhole` |
| `SpeechRecognition` | 2 pieces, 3 answers, 1 wait without an answer | `TextsArriveWhole` |
| `SpeechSynthesis`, `PcmPlayer` | 2 chunks of text, 2 reports; queue 2, 5 chunks | `NothingCutOff` |
| `AgentDrive` | 2 turns, context of 1 | `OneDrive` |
| `SkillBus` | 1 run, 2 stops, queue 1, 1 crash | `BusKeepsItsWord` |
| `RunStore` | 2 events before the outcome, 2 crashes | `RecordsAreKept` |
| `MediaStore` | 2 processes, `max_items` 2, 4 objects, 1 broken put | `RecordsAreKept` |
| `Deployment` | 2 services, 2 processes, 2 cancellations | `NoProcessIsLeft` |
| `Perception` | a skill and the loop, 2 frames, 1 picture | `SeenSinceAsked` |
| `PolicyService` | 2 callers, 1 load, 2 calls, 1 cancellation | `NoForeignAction` |
| `VlnPlanner`, `ModelOptions` | 2 runs, 3 plans; 2 steps, chunks of 2 | `PlansFromOwnSight` |
| `ResourceManager` | 3 owners, 2 keys, 2 nested blocks | `TypeOK`, `Exclusive`, `NoLostWakeUp` |
| `ServoBus` | 2 arms of one joint, 1 wheel, 1 fault | `MeasuredNow` |
| `DockArm`, `MockRobot` | a room of 1 cell each way; 2 objects, three deployments | `HeldIsKept` |
| `SimDriver` | 3 actions | `SimulationStops` |
| `CasaTrial` | 2 trials of 2 frames, 4 requests | `NoStepRepeated` |

`robot_rest`: `BaseComesToRest` and `StopsAreCarriedOut` (`RobotMotion`, 2 calls of
five kinds, 1 thread, 1 write that fails or raises), `MicReopens` (`VoiceLoop`, 2
calls of `speak()`, which may hang, and a clarification), `CancelledWorkEnds` (`HumanFollow`, 2 sessions, 1 crash of the
service; `Deployment`, 2 cancellations).

Every property has a mutant in `PROJECT.json`: a plausible slip in one definition
under which TLC reports that property violated.

Why the bounds suffice. Two runs that share a key and one that needs another
besides are the smallest instance in which a run waits while it holds something,
is overtaken, is handed a lock while it is being cancelled, or is collected by an
emergency stop with another. Three owners are needed for a queue with somebody
behind a cancelled waiter. Two tasks and two runs are needed for a task
that is created beside another, for a run of an earlier task that ends late, and
for a second run of one task. One crash reaches every state that crashes leave
behind, because the durable state after it is the initial state of the restart;
what a second crash would add is a crash during recovery, which is one step there
(`RunStore` has two, because there recovery itself writes).
Three calls and two threads are the least in which a cancelled motion holds the
base lock, another waits for it, and a stop arrives; with one thread a stop also
waits for the pool. The calls are interchangeable, and `robot_motion` has safety
properties only, so its symmetry is sound. In `services` a prompt that comes
twice, with the binding of its sender and a crash in between, reaches every order
of claim, binding, routing and redelivery; two stops are the least in which one
caller can take the other's result; two callers of the policy are the least in
which a late answer has somebody else to go to; three actions let a queued motion
follow a stop while another is stepped; two trials let a step outlive its own;
five chunks overfill a queue of two; four objects
of two processes, of which two are kept, are the least in which a listing that is
still being carried out meets objects it has not seen. The theorems of section 4 cover all sizes
for the components they are about.

`CHECK_DEADLOCK FALSE` is set everywhere because every bounded instance comes to
rest: all runs have ended, all deliveries were made, the deployment is over.

Fairness. The event loop runs every coroutine that is ready: weak fairness of
each step that is not a decision of the outside world. A handler is bounded by
`asyncio.wait_for` (`Timeout`), a decision by its deadline, cancellations and
emergency stops by their RPC timeouts. Nothing is assumed of users, of handlers'
progress, or of crashes. Strong fairness is used twice: for `Unwind` of
`SkillWorker` (a clean-up awaits finitely often, but each repeated cancellation
aborts one of its awaits, so that the step is enabled and disabled by turns) and for
`PulseOver` of `RobotMotion` (the loop of a motion tests its time again and again).
`threading.Lock` is not fair; `StopsAreCarriedOut` needs no more than weak fairness
because the calls are finitely many, and says nothing of a stop that competes with
an endless stream. In `VoiceLoop` timers go off and the lock is handed on
(`asyncio.Lock` is first come, first served), while the event loop runs. That
playback ends is not assumed, because the code does not guarantee it: `join()` and
`put()` block when the writer has died, and synthesis has no timeout. `MicReopens`
therefore says that the microphone opens again if no call of `speak()` plays, or
hangs, for ever. In `Deployment` a killed process is gone and the
health gate times out; in `HumanFollow` delivered messages are handled, the loop
sees its stop event, and the robot's watchdog elapses.

## 4. What is proved

For every value of the constants, from the assumptions the modules name
(`WorkerAssumption`, `ResourceAssumption`, `AgentAssumption`, `MotionAssumption`,
`ChannelsAssumption`, `RunPathAssumption`, `ModelAssumption`,
`RobotHardwareAssumption`): bounds are natural numbers, sizes the code cannot do
without (a pool, a store, a nesting of blocks, the attempts of a post, the errors a
voice loop bears, the pieces of what is said, the steps and turns of a drive) are not
0, and "none" is none of the things it stands beside.

| Module | Theorem | Property |
|---|---|---|
| `SkillWorkerProofs` | `TypeCorrect` | `[]TypeOK` |
| | `ResourcesExclude` | `[]ResourceSafety` |
| | `EventsAppend` | `EventsOnlyAppend` |
| | `CancelledStaysCancelled` | `CancelledNeverCompletes` |
| | `ImplementsLifecycle` | `KeepsLifecycle`, the refinement of `RunLifecycle` |
| `ResourceManagerProofs` | `TypeCorrect`, `OwnersExclude` | `[]TypeOK`, `[]Exclusive` |
| | `WakeUpsAreKept` | `[]NoLostWakeUp` |
| `AgentTaskProofs` | `TypeCorrect`, `OneTaskAtATime`, `CompletionIsEarned` | `[]TypeOK`, `[]OneOpenTaskOneRun`, `[]CompletedMeansDone` |
| | `ResultsAreFinal`, `RestartIsQuiet` | `OutcomesSettleOnce`, `RestartWaitsForUser` |
| | `BudgetIsKept` | `[]StepsWithinBudget` of `AgentTask` (proved only) |
| | `WorkerKeepsLifecycle` | `KeepsLifecycle` of `AgentTask`, a part of `OutcomesSettleOnce`: the worker, as the agent knows it, refines `RunLifecycle` |
| `RobotMotionProofs` | `TypeCorrect`, `DrivingStaysWatched`, `CurrentWasAdmitted` | `[]TypeOK`, `[]DrivingIsWatched`, `[]CurrentIsAdmitted` |
| | `WatchdogIsSparing` | `WatchdogSparesNewer` |
| `ChannelsProofs` | `RoutesOnce` | `[]RoutedOnce` |
| | `ReceiptsAreHonest`, `EpisodesAreWhole` | `[]CompletedIsAnswered`, `[]EpisodeHasTheTurn` of `Gateway` (proved only) |
| | `SpeechIsNotCutOff` | `[]NothingCutOff` |
| | `TextsStayWhole` | `[]TextsArriveWhole` |
| | `ChannelTypesAreKept` | `[]ChannelTypes` |
| `RunPathProofs` | `DrivesExclude` | `[]OneDrive` |
| | `RequestsStayWhole` | `[]RequestsAreWhole` of `AgentDrive` (proved only) |
| | `StopsAreConfirmed` | `BusKeepsItsWord`: `KeepsLifecycle` of `SkillBus`, and `StopWasCarriedOut` for every confirmed stop |
| | `RecordsStayKept` | `RecordsAreKept` |
| | `ChildrenAreStopped` | `[]NoProcessIsLeft` |
| | `RunPathTypesAreKept` | `[]RunPathTypes` |
| `BackendProofs` | `PicturesAreRecent` | `[]SeenSinceAsked` |
| | `ActionsAreOwn` | `[]NoForeignAction` |
| | `PlansRestOnOwnSight` | `[]PlansFromOwnSight` |
| | `ModelTypesAreKept` | `[]ModelTypes` |
| | `ReadingsAreOfNow` | `MeasuredNow` |
| | `HeldObjectsAreKept` | `[]HeldIsKept` |
| | `SimulationIsStopped` | `SimulationStops` |
| | `StepsAreNotRepeated` | `NoStepRepeated` |
| | `HardwareTypesAreKept` | `[]HardwareTypes` (proved only) |
| `MCServicesProofs` | `TypesAreKept` | `[]TypesOK`, and the types of the first three groups at once |

`ChannelsProofs`, `RunPathProofs` and `BackendProofs` prove about `Channels`,
`RunPath`, `ModelServices` and `RobotHardware`, which run their components side by
side: a step of one stutters for the others (`ChannelSteps`, `RunPathSteps`,
`ModelSteps`, `HardwareSteps`), so each component has an invariant of its own.
`MCServices` and `MCRobot` let one component move at a time, so each of their
behaviours is a behaviour of the specifications they are made of; for `MCServices`
`ChannelsMove`, `RunPathMoves` and `ModelsMove` say so.

* **SkillWorker.** `ResourceSafety` is inductive with the types: the keys
  `acquire()` takes are free and lie before the one it then waits for
  (`ObtainedFree`), and all a waiting run holds lies before the least key it
  misses. `EventsOnlyAppend` needs `EventInv`, which ties the worker's memory to
  the store: a run the worker does not know has no event, one it executes or has
  queued has as many as the runner has counted and none of them terminal, a queued
  run is queued once and is pending. `CancelledNeverCompletes` rests on
  `CancelInv`: a cancelled run inside its handler has its cancellation still to be
  delivered. `KeepsLifecycle` needs all of these and `OnceInv`.
* **ResourceManager.** The counts cannot be trusted, so `Counted` says what they
  are worth: a count is the number of blocks that hold the key, or 0 while exactly
  one block holds it. That is enough for a release to free the lock exactly when
  the last block is left. The module keeps of a lock's queue only who was ahead of
  whom; `QueueInv` says that these sets come from one sequence, which joining, a
  wake-up and a cancellation in the middle keep, and which therefore has a first
  waiter whenever it has one.
* **AgentTask.** `Rows`: one task is open. `Runs`: a run reports that it runs in
  its first event only and nothing after its outcome, and a settled step belongs to
  no live run; so no event reopens a step, and no task gets a second run. `Quiet`:
  until the user speaks nothing exists that could start a drive, neither a live run
  nor an event of one. `BudgetInv`: a new task has no
  steps, so that the first is within the budget, and a step is added to an active task
  only in the stretch that has counted its steps. For `KeepsLifecycle` every step moves
  one run at a time (`OneRunMoves`), but for the death of the process, which abandons
  all that execute; reconciliation ends an abandoned run and starts none.
* **RobotMotion.** `Plane`: whoever holds the control lock has just been handed it
  or is applying, and who waits for it has no job in a thread; this alone gives
  `CurrentIsAdmitted`. `Pool`: a job waits for a thread once, and only while it is
  queued. `Base`: a thread is between its test and its stop exactly while it
  holds the base lock, and whoever gives the lock back after the wheels changed
  hands has changed the generation, so a timer that is still current watches the
  velocity it was started for. `Closing` says what `close()` has already done. Wheels
  that turn with no watchdog are accounted for: a stop was refused and that is on
  record, or an exchange has raised, after which nothing reaches the servos any more.
* **Gateway.** While an interaction has no receipt nobody is about to publish it;
  once it has one, a single delivery is, before the count leaves 0 (`Claiming`).
  Everything on its way - turn, control, result, reply - is of an interaction
  whose turn is in the episode (`GatewayFlow`).
* **Replies and speech.** Each invariant relates what was sent, what is on its way
  and what has arrived. `WebInv`: whatever is on a wire is a part or the whole
  text. `FeishuInv`: what was acknowledged lies behind the part being sent, what is
  shown not ahead of it. `SynthesisInv`: the messages on their way count the audio
  on, from what the player has got to what the service has sent, and only the whole
  speech is followed by the end. `RecognitionInv`: the last answer on its way that
  brings a text brings the last one the service gave, and nothing follows the
  answer marked last. `PlayerInv`: while the writer lives, what `join()` still counts
  is queued or in its hand, and what was put was written or is counted.
* **AgentDrive.** Nothing runs beside the drive `_run_task` names, and that drive
  has a caller who waits for it. For `RequestsAreWhole` the messages of a drive are
  whole whenever the model is asked (`GrowsWhole`), and the bounded context cuts at
  turns only (`ContextsAreWhole`).
* **SkillBus.** A run a stop covered must not become active later: a command still
  on its topic is of a run the worker has never seen (`CommandsAreNew`). For the same
  reason a command that arrives executes a run for the first time, which is the step
  of `RunLifecycle` that matters here.
* **RunStore, MediaStore.** Between the repair of a file and the line it makes room
  for the file is clean (`StoreInv`); an append is the only write that can damage a
  line, and it comes after the repair. So the damage is in the last line, where a
  corrupt line is repaired and one that no reader gets past ends all appends; a line
  that was recorded stays. In the media store listings and unlinks of
  several processes come in any order, so `NewestInv` says of every object that is
  gone, or that some listing has doomed, that `max_items` newer ones were written,
  which stays true; a listing dooms only such objects because a file is never older
  than its creation (`Times`). `LimitInv` counts the files that no put is still to
  list and no broken put has left: what the last listing did not doom is at most
  `max_items` (`FewAreNew`, by the oldest of them), and later steps only take away.
* **Deployment.** Children exist only between `start()` and the end of `stop()`.
* **Perception.** A picture carries a floor, the camera's frame when it was asked
  for; `SightInv` says that whatever is held, waiting or handed over is above the
  floor of everyone it can still reach.
* **PolicyService.** `PolicyInv` says what the pipe of a session holds: nothing but
  its own request or reply, and at most one late message before it, which the reset
  takes or the inference refuses. This is where the proof corrected the property: with
  two unanswered requests the reset and the inference of a third run take the
  two replies of a second, although no threads overlap. `NoForeignAction`
  therefore asks for one unanswered request at most, and section 5 names the rest.
* **Options, planner, admission.** The loop of an option is entered with a frame its
  model was not asked about (`OptionInv`); what the planner keeps between two calls is
  of the session it was last called in, and a call in another one begins with a reset
  (`PlannerInv`). Of admission the types are proved.
* **ServoBus.** Between two exchanges nothing a servo ever answered is left in the
  group (`ReadingInv`), so what a read returns was asked for in that very exchange.
  Where a relative motion starts is another matter, for the angle passes through
  `_current_angles`, which telemetry and commanded angles write too: `AimInv` follows
  it, for a joint that answered, from the exchange to the command.
* **DockArm, MockRobot.** The wand is on exactly one of dock and gripper
  (`WandInv`); what the mock holds is out of the scene (`GripperInv`).
* **SimDriver.** The line before the lock has nobody twice, whoever works or unwinds
  is its head (`LineInv`), and a thread that steps belongs to the one that works or
  has been told to stop (`ThreadInv`).
* **CasaTrial.** What a step that went through has acted on lies behind: in a trial
  that was begun and, in the active one, before its current frame.
* **Types.** The types of a component alone are not inductive: that a count stays
  within its bound or a message within its range depends on where everybody else is.
  So the theorems carry its invariant above and a predicate for what that leaves open.
  `PlayerRest` counts: `unfinished` is what is queued and in the writer's hand, also
  after the writer's death. A voice loop that runs has fewer errors than `MaxErrors`;
  no more audio is rendered than text was asked for; a client of the recognition that
  still sends has pieces left; the talk kept between drives has at most `Recent`
  messages.

Only model-checked:

* Liveness (`QueuedRunsSettle`, `WakeUpsEnd`, and all of `robot_rest`): the provers
  do not reason about fairness and `ENABLED`.

Every safety invariant and action property of a passing run is stated by a theorem.

## 5. What the models found

Disagreements that a run shows:

* **A run cancelled before its first step never ends** (`skill_worker_settles`,
  `skills/worker.py:229`). `task.cancel()` on a task that has not started means
  `_run_command` is never entered: no terminal event, and the run stays in
  `_tasks` and `_pending`, so `status()` reports it as active until the process
  ends. `AgentTask` leaves this case out so that its own properties can be seen.
* **Nested ownership is not re-entrant after a wait** (`resource_nesting`,
  `skills/resources.py:28`).
* **A user correction ends the consumer of skill events** (`agent_events`,
  `cognition/autonomous_agent_service.py:216`). The consumer awaits the drive it
  started; `abort_inference()` cancels that drive, and the `CancelledError`
  leaves the consumer's loop. An exception of the drive does the same.
* **A record torn inside a character makes the events of a run unreadable**
  (`run_store`, `persistence/run_store.py:138`). Records are written with
  `ensure_ascii=False` and the file is decoded as a whole, outside the `try` that
  tolerates a torn tail: every later read and append of the run raises
  `UnicodeDecodeError`.
* **A service that gave up a request executes it beside the next**
  (`policy_service`, `foundation/transport/grpc/server.py:111`).

What the models do, and a reader of the code should know. These are behaviours the
modules have; no run is spent on them, mostly because no document promises
otherwise.

* Emergency stop: the inference that is awaited meanwhile is not withdrawn; when it
  returns a physical action, that becomes a new task with a new run
  (`cognition/tools/executor.py:321`).
* Admission: a stop is refused like any other action by a raised safety flag
  (`safety.py:34`) and by a gate whose contracts do not name it (`skill_gate.py:52`);
  a skill counts as motion when its resources name `robot_control`
  (`skills/loader.py:27`), which the classic base, arm and gripper skills do not
  do. `SkillAdmissionGate` therefore never blocks them on a low battery or a failed
  start; tests build their specs with `motion=True`. A battery that becomes
  "unknown" after "critical" admits again, readiness of the base comes from the
  diagnosis at start only, and the check precedes the wait for the control lock.
* Gateway: the receipt's key holds the user the sender resolves to
  (`gateway/receipts.py:10`), so a message that is redelivered after a binding is
  another interaction and is routed again. A receipt that was claimed before a
  crash is never routed. Commands that bind an identity have no receipt, and
  `bindings.json` is written in place.
* Feishu, web: a post whose answer was lost is shown twice; a reply that could
  not be delivered is not reported; a reply that was both polled and sent may be
  shown twice; `web.py:362` iterates over a set that connections change.
* Skill bus: commands and stops are different topics, so a command published
  before a stop may be accepted after it was confirmed; a cancellation that
  overtakes its command is forgotten; both queues drop their oldest event
  (`worker.py:239`, `transport.py:110`), which may be a terminal one; runs a crash
  has lost get no terminal event.
* Drives: who joins a drive loses its own messages, and one reply is recorded once
  per caller that joined.
* Tasks: start-up reconciles the runs of active tasks only, so a task paused
  with its run in flight keeps an open step after a restart and refuses every
  resume; an emergency stop updates no row of a paused task.
* Run store: a line that lost only its newline is joined by the next append, both are
  dropped; a text with U+2028, U+2029 or U+0085 makes of its record two lines for
  `splitlines()`, which no reader gets past either; a crash after the terminal event
  leaves `result.json` missing.
* Motion: a motion whose thread waits for the base lock may drive after a stop;
  cancelling a skill leaves its thread driving to the end of the motion, and
  `close()` waits for it with the event loop blocked; the deadline of a command is
  evaluated before the wait for the control lock (`control_plane.py:51`); a servo write
  that raises (`robot_backends/xlerobot/executor.py:111`) leaves the wheels turning
  with no watchdog and the port in use, so that no stop reaches them.
* Servo bus: every `stop_motion` takes the torque of the arms and only `connect`
  gives it back; an exception inside an exchange leaves the port "in use", and later
  stops are refused (`sms_sts.py:129`); a relative motion of a joint that does not
  answer starts from the angle last read or commanded, however old, and from its rest
  angle if there is none (`arm.py:104`).
* Simulation: a second cancellation leaves the stepping thread to itself; a plain
  `stop_motion` takes back the emergency latch; a motion queued behind a stop runs
  in full; dock primitives occupy the event loop. The mock's gripper, closed while it
  holds something, forgets it.
* Policy service: a run whose reset and inference follow two requests that were given
  up receives the replies of those, and acts on another run's inference, though no
  threads overlap (`NoForeignAction` holds for one such request). `CancelSkill` does
  not look at its skill id; a cancellation left set ends the next run's first
  inference; loading blocks cancellations.
* Options: the VLN option has no test for cancellation inside a chunk
  (`skills/vln/option.py:181`), and its budget drops the planner's final stop; in the
  VLA option a cancellation may come after its test, in one of the awaits of
  `robot.execute()`, and then it is up to the cancelled task whether the action starts.
* Perception: cached scene entities expire by frame ids (`runtime.py:304`), and a
  fallback id may go back; a refresh may be answered with a picture captured before
  it was asked for, when an observation was under way (`SeenSinceAsked` says how old
  it can be).
* RoboCasa: a handler whose client gave up never releases the resource lock
  (`runtime_server.py:104`); a step that breaks off after the simulator has moved
  (`episode_manager.py:148`) leaves the frame as it is, and another action may be
  executed on it.
* Human following: at the end of a stream the robot's service forgets it before it
  stops the base, and does not look at the outcome (`robot_transport/service.py:191`):
  a stop the servos refuse is not repeated by anyone.
* Deployment: a failure while the first process is created leaves the credentials
  file; a cancellation that hits `stop()` skips the sidecars.
* Audio: when the writer thread dies with chunks queued, `put()` and `join()` block
  the event loop for good (`audio/io.py:173`); five errors switch the loop off.
* Worker: `start()` awaits the projection before it sets its consumer
  (`worker.py:76`), and the effective timeout of a run is computed before it waits
  for resources (`runner.py:124`). `SkillWorker` abstracts from both.

## 6. Plan

Done: the core, its environment, and a theorem for every safety invariant and action
property of the passing runs. `SkillWorker`, `SkillBus` and `AgentTask` each refine
`RunLifecycle`. What would come next, most useful first:

1. Compositions of the levels of section 2: `AgentDrive` as an implementation of the
   drive of `AgentTask`, `SkillBus` carrying the commands and events of `SkillWorker`
   with what it may lose, `ServoBus` below `RobotMotion`.
2. Several sessions that share one robot: the event fan-out of the agent service
   and `cancel_robot()` across sessions.
3. Liveness of the policy service and of the options under the deadlines of their
   callers.

## 7. Not modelled, and why

* The text of messages, prompts, summaries and of the conversation, pictures,
  audio and kinematics: no property here depends on them; where a decision does,
  it is a nondeterministic choice.
* The bus itself (`bus/`, except its client): one topic keeps its order, two do
  not; that is how `SkillBus`, `HumanFollow` and `Gateway` use it.
* Configuration, CLI, logging, health reports, events, templates: parsing,
  wiring and reports without a protocol of their own. `app/` beyond the runner
  and the RoboCasa deployment builds objects.
* Other model backends, registries, remaining drivers: numeric and I/O code. Of the two
  clients for synthesis only the one that streams is modelled.
* Frontend except the chat's socket, protobuf, generated code.
* Of the modelled parts: nested skills inside `SkillWorker` (`ResourceManager` has
  them), the projection queue, routes and evidence ids of the task store, the
  operator's dashboard and read-only commands of the gateway, several sessions.
* Simplifications of the environment: `MediaStore` lists a directory in one step, has
  one kind of objects, whose times all differ, and can unlink what it finds;
  `Perception` takes a picture of every frame (`image_save_every_n` = 1; with more, an
  observation may carry the picture of an earlier one); the waits of a synthesis have
  no timeout in the code, so a service that says nothing is waited for; in
  `HumanFollow` the servo bus carries out the stops it is given (`RobotMotion` has the
  refusals).
