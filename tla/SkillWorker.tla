----------------------------- MODULE SkillWorker -----------------------------
(***************************************************************************)
(* The in-process skill worker (skills/worker.py), the runner it drives    *)
(* (skills/runner.py) and the exclusive resources a run takes before its   *)
(* handler starts (skills/resources.py, used without nesting), over the    *)
(* durable run store, of which only the submission and the latest event of *)
(* each run are read back.  One asyncio step between two suspension points *)
(* is one action.                                                          *)
(***************************************************************************)
EXTENDS Integers, Sequences, FiniteSets

CONSTANTS
    Run,          \* run ids; a run id names one command for ever
    Robot,        \* robot ids
    RobotOf,      \* the robot a run's command addresses
    Key,          \* resource keys (robot, resource), numbered in sort order
    Needs,        \* the keys the run's skill declares in Skill.resources
    None,         \* no run
    MaxProgress,  \* bound: progress events a handler reports
    MaxCrashes,   \* bound: process deaths
    MayClose      \* whether the composition root closes the worker

ASSUME WorkerAssumption ==
    /\ None \notin Run
    /\ RobotOf \in [Run -> Robot]
    /\ Key \subseteq Nat
    /\ Needs \in [Run -> SUBSET Key]
    /\ MaxProgress \in Nat
    /\ MaxCrashes \in Nat
    /\ MayClose \in BOOLEAN

VARIABLES
    \* durable: FileRunStore
    submitted,    \* runs whose command.json exists
    latest,       \* last event of each run
    \* volatile: SkillWorker and SkillRunner
    worker,       \* "stopped", "running", "closing", "draining" or "closed"
    commands,     \* _commands, the queue the consumer task reads
    pending,      \* _pending
    pc,           \* where the run's task is; "none" when _tasks has no entry
    interrupt,    \* tasks with a cancellation not yet thrown into them
    cancelled,    \* _runner._cancelled
    cancelling,   \* _cancelling: cancel() calls awaiting cancel_model
    stopping,     \* runs an emergency stop has collected and not yet cancelled
    sequences,    \* _runner._sequences
    holder,       \* the run that holds each resource lock
    ahead,        \* for a waiting run, the runs before it in the lock's waiters
    \* history
    handled,      \* how often the handler of a run was entered, over restarts
    crashes       \* process deaths so far

durable == <<submitted, latest>>
control == <<cancelling, stopping>>
locks   == <<holder, ahead>>
history == <<handled, crashes>>
vars == <<submitted, latest, worker, commands, pending, pc, interrupt, cancelled,
          cancelling, stopping, sequences, holder, ahead, handled, crashes>>

-----------------------------------------------------------------------------
Terminals == {"completed", "failed", "cancelled"}
Phases    == {"none", "accepted", "running", "progress"} \cup Terminals
\* the SkillResult an event carries, told apart by its field success
Results   == {"none", "success", "failure"}
Event(n, phase, result) == [sequence |-> n, phase |-> phase, result |-> result]
NoEvent == Event(0, "none", "none")

Terminal(e) == e.phase \in Terminals

TaskStates == {"none", "created", "waiting", "handler", "unwind_cancel",
               "unwind_timeout", "dead"}
InHandler  == {"handler", "unwind_cancel", "unwind_timeout"}
\* mutant: task.cancel() is forgotten for a task inside its handler
SuspendedOutsideHandler == {"created", "waiting"}
Suspended  == {"created", "waiting"} \cup InHandler   \* tasks task.cancel() reaches

\* mutant: only _tasks is consulted
ActiveByTask(r) == pc[r] # "none"
\* The worker still answers for the run (status()).
Active(r) == r \in pending \/ pc[r] # "none"

Held(r)      == {k \in Key : holder[k] = r}
Remaining(r) == Needs[r] \ Held(r)
\* keys are taken in sorted order, so a waiting run waits for its least missing key
WaitsFor(r, k) == /\ pc[r] = "waiting"
                  /\ k \in Remaining(r)
                  /\ \A j \in Remaining(r) : k <= j

-----------------------------------------------------------------------------
\* A new SkillWorker over whatever the store holds.
FreshWorker ==
    /\ worker' = "stopped"
    /\ commands' = <<>>
    /\ pending' = {}
    /\ pc' = [r \in Run |-> "none"]
    /\ interrupt' = {}
    /\ cancelled' = {}
    /\ cancelling' = {}
    /\ stopping' = {}
    /\ sequences' = [r \in Run |-> 0]
    /\ holder' = [k \in Key |-> None]
    /\ ahead' = [r \in Run |-> {}]

Init ==
    /\ submitted = {}
    /\ latest = [r \in Run |-> NoEvent]
    /\ worker = "stopped"
    /\ commands = <<>>
    /\ pending = {}
    /\ pc = [r \in Run |-> "none"]
    /\ interrupt = {}
    /\ cancelled = {}
    /\ cancelling = {}
    /\ stopping = {}
    /\ sequences = [r \in Run |-> 0]
    /\ holder = [k \in Key |-> None]
    /\ ahead = [r \in Run |-> {}]
    /\ handled = [r \in Run |-> 0]
    /\ crashes = 0

-----------------------------------------------------------------------------
\* start(): the consumer task exists from here on.
Start ==
    /\ worker = "stopped"
    /\ worker' = "running"
    /\ UNCHANGED <<durable, commands, pending, pc, interrupt, cancelled, control,
                   sequences, locks, history>>

\* mutant: the persisted submission is not consulted
SubmitInMemory(r) ==
    /\ worker = "running"
    /\ r \notin pending
    /\ submitted' = submitted \cup {r}
    /\ pending' = pending \cup {r}
    /\ commands' = Append(commands, r)
    /\ UNCHANGED <<latest, worker, pc, interrupt, cancelled, control, sequences,
                   locks, history>>

\* submit(): a command already pending or already persisted is returned as is;
\* a new one is persisted before it is queued.
Submit(r) ==
    /\ worker = "running"
    /\ r \notin pending
    /\ r \notin submitted
    /\ submitted' = submitted \cup {r}
    /\ pending' = pending \cup {r}
    /\ commands' = Append(commands, r)
    /\ UNCHANGED <<latest, worker, pc, interrupt, cancelled, control, sequences,
                   locks, history>>

\* _consume(): one command becomes one task.
Consume ==
    /\ worker = "running"
    /\ commands # <<>>
    /\ commands' = Tail(commands)
    /\ pc' = IF pc[Head(commands)] = "none"
             THEN [pc EXCEPT ![Head(commands)] = "created"]
             ELSE pc
    /\ UNCHANGED <<durable, worker, pending, interrupt, cancelled, control,
                   sequences, locks, history>>

-----------------------------------------------------------------------------
\* The runner's events of one step: n of them, the last one with this phase.
Emit(r, n, phase, result) ==
    latest' = [latest EXCEPT ![r] = Event(sequences[r] + n, phase, result)]

\* The end of a run's task: leaving the resources, the terminal event,
\* _clear_run_state and the finally of _run_command, with no suspension between.
Finish(r, n, phase, result) ==
    /\ Emit(r, n, phase, result)
    /\ holder' = [k \in Key |-> IF holder[k] = r THEN None ELSE holder[k]]
    /\ ahead' = [x \in Run |-> IF x = r THEN {} ELSE ahead[x] \ {r}]
    /\ pc' = [pc EXCEPT ![r] = "none"]
    /\ pending' = pending \ {r}
    /\ interrupt' = interrupt \ {r}
    /\ cancelled' = cancelled \ {r}
    /\ sequences' = [sequences EXCEPT ![r] = 0]
    /\ UNCHANGED handled

\* asyncio.Lock.acquire() returns at once when the lock is free and every waiter
\* in its queue has been cancelled.
Free(k, r) ==
    /\ holder[k] = None
    /\ \A x \in Run \ {r} : WaitsFor(x, k) => x \in interrupt

\* mutant: the locks are not waited for
ObtainedRegardless(r, S, granted) == S

\* The keys of S that are taken before the run has to wait, granted being the key
\* its wake-up hands over.
Obtained(r, S, granted) ==
    {k \in S : \A j \in S : j <= k => j \in granted \/ Free(j, r)}

\* acquire() from the keys still missing on, after n events of this step: the run
\* suspends on the first key it cannot have, or reaches its handler, unless it was
\* cancelled meanwhile (raise_if_cancelled).
Proceed(r, n, granted) ==
    LET S    == Remaining(r)
        got  == Obtained(r, S, granted)
        rest == S \ got
        now  == [k \in Key |-> IF k \in got THEN r ELSE holder[k]]
        queue(k) == {x \in Run \ {r} : WaitsFor(x, k)}
        Progressed(state) ==
            /\ holder' = now
            /\ pc' = [pc EXCEPT ![r] = state]
            /\ sequences' = [sequences EXCEPT ![r] = @ + n]
            /\ IF n = 0 THEN UNCHANGED latest ELSE Emit(r, n, "running", "none")
            /\ UNCHANGED <<pending, interrupt, cancelled>>
    IN  \/ \E k \in rest :
              /\ \A j \in rest : k <= j
              /\ Progressed("waiting")
              /\ ahead' = [ahead EXCEPT ![r] = queue(k)]
              /\ UNCHANGED handled
        \/ /\ rest = {}
           /\ r \notin cancelled
           /\ Progressed("handler")
           /\ ahead' = [x \in Run |-> IF x = r THEN {} ELSE ahead[x] \ {r}]
           /\ handled' = [handled EXCEPT ![r] = @ + 1]
        \/ /\ rest = {}
           /\ r \in cancelled
           /\ Finish(r, n + 1, "cancelled", "failure")

\* First step of the task on a valid request: accepted, running, resources.
Begin(r) ==
    /\ pc[r] = "created"
    /\ r \notin interrupt
    /\ Proceed(r, 2, {})
    /\ UNCHANGED <<submitted, worker, commands, control, crashes>>

\* First step of the task on an unknown skill or invalid arguments.
Reject(r) ==
    /\ pc[r] = "created"
    /\ r \notin interrupt
    /\ Finish(r, 2, "failed", "failure")
    /\ UNCHANGED <<submitted, worker, commands, control, crashes>>

\* A task cancelled before its first step never enters _run_command: its finally
\* does not run, and _tasks and _pending keep their entries.
DieUnstarted(r) ==
    /\ pc[r] = "created"
    /\ r \in interrupt
    /\ pc' = [pc EXCEPT ![r] = "dead"]
    /\ interrupt' = interrupt \ {r}
    /\ UNCHANGED <<durable, worker, commands, pending, cancelled, control,
                   sequences, locks, history>>

\* A released lock goes to its first live waiter.
Wake(r) ==
    /\ pc[r] = "waiting"
    /\ r \notin interrupt
    /\ \E k \in Key :
          /\ WaitsFor(r, k)
          /\ holder[k] = None
          /\ ahead[r] \subseteq interrupt
          /\ Proceed(r, 0, {k})
    /\ UNCHANGED <<submitted, worker, commands, control, crashes>>

\* CancelledError at lock.acquire(): what was acquired so far is released.
AbortWait(r) ==
    /\ pc[r] = "waiting"
    /\ r \in interrupt
    /\ Finish(r, 1, "cancelled", "failure")
    /\ UNCHANGED <<submitted, worker, commands, control, crashes>>

-----------------------------------------------------------------------------
\* context.progress() from the handler.
Progress(r) ==
    /\ pc[r] = "handler"
    /\ r \notin interrupt
    /\ sequences[r] < 2 + MaxProgress
    /\ Emit(r, 1, "progress", "none")
    /\ sequences' = [sequences EXCEPT ![r] = @ + 1]
    /\ UNCHANGED <<submitted, worker, commands, pending, pc, interrupt, cancelled,
                   control, locks, history>>

\* mutant: the handler's status is taken as it is
NormalPhaseAsGiven(success, status) == status

\* _normalize_result(): success and status are made to agree.
NormalPhase(success, status) ==
    IF success THEN "completed"
    ELSE IF status = "completed" THEN "failed" ELSE status

\* The handler returns a result of its own, whose success and status may disagree;
\* its failure mode is passed on as it is.
Return(r) ==
    /\ pc[r] = "handler"
    /\ r \notin interrupt
    /\ \E success \in BOOLEAN, status \in Terminals :
          Finish(r, 1, NormalPhase(success, status),
                 IF success THEN "success" ELSE "failure")
    /\ UNCHANGED <<submitted, worker, commands, control, crashes>>

\* The handler raises, or sees its cancellation flag through raise_if_cancelled().
Raise(r) ==
    /\ pc[r] \in InHandler
    /\ r \notin interrupt
    /\ \/ Finish(r, 1, "failed", "failure")
       \/ r \in cancelled /\ Finish(r, 1, "cancelled", "failure")
    /\ UNCHANGED <<submitted, worker, commands, control, crashes>>

\* mutant: the handler is awaited without wait_for
TimeoutOmitted(r) == FALSE /\ UNCHANGED vars

\* asyncio.wait_for expires: CancelledError goes into the handler, whose finally
\* blocks may still await before TimeoutError comes out.
Timeout(r) ==
    /\ pc[r] = "handler"
    /\ r \notin interrupt
    /\ pc' = [pc EXCEPT ![r] = "unwind_timeout"]
    /\ UNCHANGED <<durable, worker, commands, pending, interrupt, cancelled,
                   control, sequences, locks, history>>

\* A requested cancellation is thrown into the handler, or into its clean-up.
Interrupt(r) ==
    /\ pc[r] \in InHandler
    /\ r \in interrupt
    /\ pc' = [pc EXCEPT ![r] = "unwind_cancel"]
    /\ interrupt' = interrupt \ {r}
    /\ UNCHANGED <<durable, worker, commands, pending, cancelled, control,
                   sequences, locks, history>>

\* The handler's clean-up is over and its exception reaches the runner.
Unwind(r) ==
    /\ r \notin interrupt
    /\ \/ /\ pc[r] = "unwind_timeout"
          /\ Finish(r, 1, "failed", "failure")
       \/ /\ pc[r] = "unwind_cancel"
          /\ Finish(r, 1, "cancelled", "failure")
    /\ UNCHANGED <<submitted, worker, commands, control, crashes>>

-----------------------------------------------------------------------------
\* What cancel() does before it awaits cancel_model.
CancelRuns(R) ==
    /\ cancelled' = cancelled \cup R
    /\ interrupt' = interrupt \cup {r \in R : pc[r] \in Suspended}

Cancellable(r) == r \notin cancelling /\ Active(r)

\* cancel(): flag, task.cancel() when there is a task, then await cancel_model.
Cancel(r) ==
    /\ Cancellable(r)
    /\ CancelRuns({r})
    /\ cancelling' = cancelling \cup {r}
    /\ UNCHANGED <<durable, worker, commands, pending, pc, stopping, sequences,
                   locks, history>>

\* cancel_model returned or failed.
CancelReturns(r) ==
    /\ r \in cancelling
    /\ cancelling' = cancelling \ {r}
    /\ UNCHANGED <<durable, worker, commands, pending, pc, interrupt, cancelled,
                   stopping, sequences, locks, history>>

\* cancel_robot() from emergency_stop(): the robot's pending runs are collected at
\* once, and each is cancelled in a task of its own.
CollectForStop(b) ==
    /\ worker = "running"
    /\ {r \in pending : RobotOf[r] = b} \ stopping # {}
    /\ stopping' = stopping \cup {r \in pending : RobotOf[r] = b}
    /\ UNCHANGED <<durable, worker, commands, pending, pc, interrupt, cancelled,
                   cancelling, sequences, locks, history>>

CancelForStop(r) ==
    /\ r \in stopping
    /\ stopping' = stopping \ {r}
    /\ IF Cancellable(r)
       THEN CancelRuns({r}) /\ cancelling' = cancelling \cup {r}
       ELSE UNCHANGED <<cancelled, interrupt, cancelling>>
    /\ UNCHANGED <<durable, worker, commands, pending, pc, sequences, locks, history>>

-----------------------------------------------------------------------------
\* status(): a persisted run without a terminal event that nothing here executes
\* is declared lost.
Status(r) ==
    /\ ~Active(r)
    /\ ~Terminal(latest[r])
    /\ r \in submitted
    /\ latest' = [latest EXCEPT ![r] =
                     Event(@.sequence + 1, "failed", "failure")]
    /\ UNCHANGED <<submitted, worker, commands, pending, pc, interrupt, cancelled,
                   control, sequences, locks, history>>

\* close() stops the consumer ...
CloseBegin ==
    /\ MayClose
    /\ worker \in {"stopped", "running"}
    /\ worker' = "closing"
    /\ UNCHANGED <<durable, commands, pending, pc, interrupt, cancelled, control,
                   sequences, locks, history>>

\* ... then cancels every task ...
CloseTasks ==
    /\ worker = "closing"
    /\ worker' = "draining"
    /\ CancelRuns({r \in Run : pc[r] # "none"})
    /\ UNCHANGED <<durable, commands, pending, pc, control, sequences, locks, history>>

\* ... and forgets what is left once they are all done.
CloseEnd ==
    /\ worker = "draining"
    /\ \A r \in Run : pc[r] \in {"none", "dead"}
    /\ worker' = "closed"
    /\ pc' = [r \in Run |-> "none"]
    /\ pending' = {}
    /\ cancelling' = {}
    /\ UNCHANGED <<durable, commands, interrupt, cancelled, stopping, sequences,
                   locks, history>>

\* The process dies and is started again over the same runtime directory.
Crash ==
    /\ crashes < MaxCrashes
    /\ crashes' = crashes + 1
    /\ FreshWorker
    /\ UNCHANGED <<durable, handled>>

\* It dies between the two appends of a task's first step.
CrashInBegin(r) ==
    /\ crashes < MaxCrashes
    /\ pc[r] = "created"
    /\ r \notin interrupt
    /\ Emit(r, 1, "accepted", "none")
    /\ crashes' = crashes + 1
    /\ FreshWorker
    /\ UNCHANGED <<submitted, handled>>

-----------------------------------------------------------------------------
TaskStep(r) ==
    \/ Begin(r) \/ Reject(r) \/ DieUnstarted(r) \/ Wake(r) \/ AbortWait(r)
    \/ Progress(r) \/ Return(r) \/ Raise(r) \/ Timeout(r) \/ Interrupt(r)
    \/ Unwind(r)

Next ==
    \/ Start \/ Consume
    \/ \E r \in Run : Submit(r) \/ TaskStep(r) \/ Cancel(r) \/ CancelReturns(r)
                      \/ CancelForStop(r) \/ Status(r) \/ CrashInBegin(r)
    \/ \E b \in Robot : CollectForStop(b)
    \/ CloseBegin \/ CloseTasks \/ CloseEnd \/ Crash

\* The event loop runs every ready task, wait_for bounds every handler, and a
\* handler's clean-up awaits finitely often: repeated cancellations, each of which
\* aborts one of its awaits, do not keep it going for ever (hence the SF).
Fairness ==
    /\ WF_vars(Start) /\ WF_vars(Consume)
    /\ WF_vars(CloseTasks) /\ WF_vars(CloseEnd)
    /\ \A r \in Run :
          /\ WF_vars(Begin(r) \/ Reject(r)) /\ WF_vars(DieUnstarted(r))
          /\ WF_vars(Wake(r)) /\ WF_vars(AbortWait(r))
          /\ WF_vars(Timeout(r)) /\ WF_vars(Interrupt(r)) /\ SF_vars(Unwind(r))

Spec == Init /\ [][Next]_vars
FairSpec == Spec /\ Fairness
-----------------------------------------------------------------------------
\* Types, and the agreement of a persisted event with its result: the phase is
\* completed exactly when the result is a success, whatever status the handler gave
\* it (_normalize_result), and only a terminal event carries a result.
EventOK(e) ==
    /\ e \in [sequence : Nat, phase : Phases, result : Results]
    /\ e.result = "success" <=> e.phase = "completed"
    /\ e.result = "none" <=> ~Terminal(e)

TypeOK ==
    /\ submitted \in SUBSET Run
    /\ latest \in [Run -> [sequence : Nat, phase : Phases, result : Results]]
    /\ \A r \in Run : EventOK(latest[r])
    /\ worker \in {"stopped", "running", "closing", "draining", "closed"}
    /\ commands \in Seq(Run)
    /\ pending \in SUBSET Run
    /\ pc \in [Run -> TaskStates]
    /\ interrupt \in SUBSET Run
    /\ cancelled \in SUBSET Run
    /\ cancelling \in SUBSET Run
    /\ stopping \in SUBSET Run
    /\ sequences \in [Run -> Nat]
    /\ holder \in [Key -> Run \cup {None}]
    /\ ahead \in [Run -> SUBSET Run]
    /\ handled \in [Run -> Nat]
    /\ crashes \in Nat

\* Resource exclusion across suspensions: a run in its handler, or still cleaning up
\* after a cancellation or a timeout, holds every resource of its skill; a lock is
\* held only by a live task that needs it, so none is leaked by a cancelled wait; and
\* a waiting run holds only keys that sort before the one it waits for, so no two
\* runs can wait for each other (ResourceManager.acquire).
ResourceSafety ==
    /\ \A r \in Run : pc[r] \in InHandler => Needs[r] \subseteq Held(r)
    /\ \A k \in Key : holder[k] # None =>
          /\ k \in Needs[holder[k]]
          /\ pc[holder[k]] \in {"waiting"} \cup InHandler
    /\ \A r \in Run : pc[r] = "waiting" =>
          \E k \in Key : WaitsFor(r, k) /\ \A j \in Held(r) : j < k

\* FileRunStore.append_event refuses a sequence that does not increase: over every
\* interleaving of the runner with status(), close() and restarts, no emission is
\* refused, and nothing is appended after a terminal event.
EventsOnlyAppend ==
    [][\A r \in Run : latest'[r] # latest[r] =>
          /\ latest'[r].sequence > latest[r].sequence
          /\ ~Terminal(latest[r])]_latest

\* Once cancel() has flagged a live run, the run does not report completion, wherever
\* the cancellation found it: queued, waiting for a resource or inside its handler.
CancelledNeverCompletes ==
    [][\A r \in Run : r \in cancelled /\ latest'[r] # latest[r] =>
          latest'[r].phase # "completed"]_latest

\* The worker keeps the promise of RunLifecycle: a run's handler is entered once,
\* restarts included (a persisted submission is never queued again), runs that share
\* a resource exclude each other, and terminal runs stay terminal.
Stage(r) ==
    IF Terminal(latest[r]) THEN "ended"
    ELSE IF pc[r] \in InHandler THEN "executing"
    ELSE IF handled[r] > 0 THEN "abandoned"
    ELSE IF r \in submitted THEN "submitted" ELSE "new"
Lifecycle == INSTANCE RunLifecycle WITH stage <- [r \in Run |-> Stage(r)]
KeepsLifecycle == Lifecycle!Spec

\* A queued run reaches a terminal event: waiters are served in order, wait_for ends
\* handlers.  Not so when the worker closes or dies (status() then settles the run),
\* nor when the task is cancelled before its first step (SubmittedRunsSettle).
QueuedRunsSettle ==
    \A r \in Run : r \in pending ~>
        Terminal(latest[r]) \/ pc[r] = "dead" \/ worker # "running"

\* docs/architecture/system-architecture.md:166: SkillRunner persists and publishes a
\* terminal event for each run it is given.
SubmittedRunsSettle ==
    \A r \in Run : r \in submitted ~> Terminal(latest[r])
=============================================================================
