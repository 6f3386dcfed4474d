------------------------------ MODULE RobotMotion ------------------------------
(***************************************************************************)
(* How motion reaches the wheels of an XLeRobot: the control plane          *)
(* (robot_runtime/control_plane.py), which admits one action at a time; the *)
(* driver, which runs each action in a thread of the event loop's pool; the *)
(* backend (robot_backends/xlerobot/executor.py), whose threads and         *)
(* velocity watchdog share `_base_lock`; and the base, whose servo writes   *)
(* may fail or raise.                                                       *)
(*                                                                          *)
(* A coroutine step runs to its next suspension.  A thread step is what     *)
(* happens between two points where another thread can be seen: taking the  *)
(* base lock, the test of `_initialized`, the speed writes, a stop.         *)
(* Action buffer, preemption records and results are left out.              *)
(***************************************************************************)
EXTENDS Integers, Sequences, FiniteSets

CONSTANTS
    Calls,       \* calls of the runtime, each made once
    Requests,    \* the requests a call may make
    Closer,      \* the job of XLeRobotDriver.close() in the thread pool
    None,        \* no call
    PoolSize,    \* threads of asyncio.to_thread's executor
    MaxFaults    \* how many servo writes fail or raise while the bus is open

Jobs == Calls \union {Closer}

(***************************************************************************)
(* What is executed: move is any timed motion of the base, halt is          *)
(* stop_base_only() at the end of a velocity stream.                        *)
(***************************************************************************)
Ops == {"move", "velocity", "stop", "halt", "reset", "arm"}

(***************************************************************************)
(* plane: the request goes through RobotControlPlane.apply_action().  The   *)
(* others call the driver: an emergency stop (stop), a velocity stream      *)
(* (velocity, halt) and the turns of look_around (move).                    *)
(***************************************************************************)
AllRequests ==
    [op : Ops, plane : BOOLEAN, preempt : BOOLEAN]

ASSUME MotionAssumption ==
    /\ Requests \subseteq AllRequests
    /\ Closer \notin Calls
    /\ None \notin Jobs
    /\ PoolSize \in Nat \ {0}
    /\ MaxFaults \in Nat

VARIABLES
    req,         \* call -> its request
    co,          \* call -> where its coroutine is
    holder,      \* _action_lock: the call that holds it
    waiters,     \* _action_lock: the calls that wait for it
    current,     \* current_action_id
    job,         \* job -> what its thread executes
    th,          \* job -> where its thread is
    pool,        \* jobs that wait for a thread
    baseLock,    \* _base_lock: the job whose thread holds it
    generation,  \* _velocity_generation
    watchdog,    \* _velocity_watchdog: the call that started this timer
    timer,       \* call -> the state of the timer it started
    timerGen,    \* call -> the generation its timer remembers
    wheels,      \* the call whose velocity the wheels have
    stopOk,      \* _last_stop_command["success"]
    faults,      \* servo writes that have failed or raised
    portInUse,   \* an exchange that raised has left the port's is_using set
    initialized, \* LeKiwiBase._initialized
    busOpen,     \* ServoBus.connected
    close        \* how far XLeRobotDriver.close() is

callVars == <<req, co, holder, waiters, current>>
poolVars == <<job, th, pool>>
dogVars == <<generation, watchdog, timer, timerGen>>
baseVars == <<wheels, stopOk, faults, portInUse>>
closeVars == <<initialized, busOpen, close>>
vars == <<callVars, poolVars, baseLock, dogVars, baseVars, closeVars>>

NoRequest == [op |-> "arm", plane |-> FALSE, preempt |-> FALSE]

Init ==
    /\ req = [c \in Calls |-> NoRequest]
    /\ co = [c \in Calls |-> "idle"]
    /\ holder = None
    /\ waiters = <<>>
    /\ current = None
    /\ job = [j \in Jobs |-> "arm"]
    /\ th = [j \in Jobs |-> "none"]
    /\ pool = <<>>
    /\ baseLock = None
    /\ generation = 0
    /\ watchdog = None
    /\ timer = [c \in Calls |-> "none"]
    /\ timerGen = [c \in Calls |-> 0]
    /\ wheels = None
    /\ stopOk = TRUE
    /\ faults = 0
    /\ portInUse = FALSE
    /\ initialized = TRUE
    /\ busOpen = TRUE
    /\ close = "open"

-----------------------------------------------------------------------------
(***************************************************************************)
(* Coroutines.  executor.close() takes the base lock on the event loop:     *)
(* until it has it, no coroutine runs.                                      *)
(***************************************************************************)
LoopRuns == close # "waiting"

(* asyncio.to_thread(): the job is queued until a thread of the pool is free. *)
Submit(j, op) ==
    /\ job' = [job EXCEPT ![j] = op]
    /\ th' = [th EXCEPT ![j] = "queued"]
    /\ pool' = Append(pool, j)

(* The holder of the control lock runs apply_fn. *)
Admit(c, op) ==
    /\ holder' = c
    /\ current' = c
    /\ co' = [co EXCEPT ![c] = "applying"]
    /\ Submit(c, op)

(* `async with self._action_lock`. *)
Acquire(c, op) ==
    IF holder = None
    THEN Admit(c, op) /\ UNCHANGED waiters
    ELSE /\ waiters' = Append(waiters, c)
         /\ co' = [co EXCEPT ![c] = "queued"]
         /\ th' = [th EXCEPT ![c] = "none"]
         /\ UNCHANGED <<holder, current, job, pool>>

\* mutant: the clean-up of current_action_id is forgotten
ReleaseOnly(c, outcome) ==
    LET next == IF waiters = <<>> THEN None ELSE Head(waiters) IN
    /\ holder' = next
    /\ waiters' = IF waiters = <<>> THEN waiters ELSE Tail(waiters)
    /\ co' = [d \in Calls |-> CASE d = c -> outcome
                                [] d = next -> "granted"
                                [] OTHER -> co[d]]
    /\ UNCHANGED current

(* Leaving `async with` hands the lock to the first waiter. *)
Release(c, outcome) ==
    LET next == IF waiters = <<>> THEN None ELSE Head(waiters) IN
    /\ holder' = next
    /\ waiters' = IF waiters = <<>> THEN waiters ELSE Tail(waiters)
    /\ current' = IF current = c THEN None ELSE current
    /\ co' = [d \in Calls |-> CASE d = c -> outcome
                                [] d = next -> "granted"
                                [] OTHER -> co[d]]

(***************************************************************************)
(* A call reaches the control plane or, outside it, the driver.  The safety *)
(* supervisor refuses motion for a closed robot; the velocity stream and    *)
(* the emergency stop do not ask it.                                        *)
(***************************************************************************)
Issue(c) ==
    /\ LoopRuns
    /\ co[c] = "idle"
    /\ \E r \in Requests :
        /\ close = "closed" => ~r.plane /\ r.op # "move"
        /\ req' = [req EXCEPT ![c] = r]
        /\ \/ /\ r.plane /\ r.preempt
              /\ co' = [co EXCEPT ![c] = "preempting"]
              /\ Submit(c, "stop")
              /\ UNCHANGED <<holder, waiters, current>>
           \/ /\ r.plane /\ ~r.preempt
              /\ Acquire(c, r.op)
           \/ /\ ~r.plane
              /\ co' = [co EXCEPT ![c] = "applying"]
              /\ Submit(c, r.op)
              /\ UNCHANGED <<holder, waiters, current>>
    /\ UNCHANGED <<baseLock, dogVars, baseVars, closeVars>>

(* evaluate(): an action whose deadline has passed is refused. *)
Reject(c) ==
    /\ LoopRuns
    /\ co[c] = "idle"
    /\ \E r \in Requests :
        /\ r.plane
        /\ req' = [req EXCEPT ![c] = r]
    /\ co' = [co EXCEPT ![c] = "done"]
    /\ UNCHANGED <<holder, waiters, current, poolVars, baseLock, dogVars,
                   baseVars, closeVars>>

(* A waiter that was handed the lock goes on to apply_fn. *)
Resume(c) ==
    /\ LoopRuns
    /\ co[c] = "granted"
    /\ Admit(c, req[c].op)
    /\ UNCHANGED <<req, waiters, baseLock, dogVars, baseVars, closeVars>>

(* The contract check in the driver refuses an admitted action: no thread. *)
Refuse(c) ==
    /\ LoopRuns
    /\ co[c] = "granted"
    /\ Release(c, "done")
    /\ UNCHANGED <<req, poolVars, baseLock, dogVars, baseVars, closeVars>>

(* The thread of a call has ended and its coroutine goes on. *)
Return(c) ==
    /\ LoopRuns
    /\ th[c] = "ended"
    /\ \/ /\ co[c] = "preempting"
          /\ Acquire(c, req[c].op)
       \/ /\ co[c] = "applying"
          /\ IF req[c].plane
             THEN Release(c, "done")
             ELSE /\ co' = [co EXCEPT ![c] = "done"]
                  /\ UNCHANGED <<holder, waiters, current>>
          /\ th' = [th EXCEPT ![c] = "none"]
          /\ UNCHANGED <<job, pool>>
    /\ UNCHANGED <<req, baseLock, dogVars, baseVars, closeVars>>

(* deque.remove() of what is in the queue once, if at all. *)
Without(queue, x) ==
    LET at == CHOOSE i \in DOMAIN queue : queue[i] = x IN
    IF \A i \in DOMAIN queue : queue[i] # x
    THEN queue
    ELSE [i \in 1 .. (Len(queue) - 1) |-> IF i < at THEN queue[i] ELSE queue[i + 1]]

(***************************************************************************)
(* The skill's task is cancelled.  A job that no thread has begun is        *)
(* withdrawn; one that has begun goes on, and nobody waits for it.          *)
(***************************************************************************)
Cancel(c) ==
    /\ LoopRuns
    /\ \/ /\ co[c] = "queued"
          /\ waiters' = Without(waiters, c)
          /\ co' = [co EXCEPT ![c] = "cancelled"]
          /\ UNCHANGED <<holder, current>>
       \/ /\ co[c] \in {"granted", "applying"}
          /\ holder = c
          /\ Release(c, "cancelled")
       \/ /\ co[c] \in {"preempting", "applying"}
          /\ holder # c
          /\ co' = [co EXCEPT ![c] = "cancelled"]
          /\ UNCHANGED <<holder, waiters, current>>
    /\ pool' = Without(pool, c)
    /\ th' = [th EXCEPT ![c] = IF @ \in {"queued", "ended"} THEN "none" ELSE @]
    /\ UNCHANGED <<req, job, baseLock, dogVars, baseVars, closeVars>>

-----------------------------------------------------------------------------
(***************************************************************************)
(* The base: every write may fail.  It may also raise (the serial port): no *)
(* later exchange then finds the port free, and every later write fails, as *)
(* it does once the bus is closed.                                          *)
(***************************************************************************)
Reachable == busOpen /\ ~portInUse

WriteOk == Reachable /\ UNCHANGED <<faults, portInUse>>

Fault == Reachable /\ faults < MaxFaults /\ faults' = faults + 1

WriteFails ==
    \/ ~Reachable /\ UNCHANGED <<faults, portInUse>>
    \/ Fault /\ UNCHANGED portInUse

Raises == Fault /\ portInUse' = TRUE

(* LeKiwiBase.stop(): a failed write may leave a wheel turning ... *)
StopReturns ==
    \/ WriteOk /\ wheels' = None /\ stopOk' = TRUE
    \/ WriteFails /\ stopOk' = FALSE /\ UNCHANGED wheels

(* ... and so does one that raises, which is not recorded as a failed stop. *)
StopRaises == Raises /\ wheels' \in {wheels, None} /\ UNCHANGED stopOk

StopWheels == StopReturns \/ StopRaises

(* A set timer is stopped; one that has elapsed already waits for the lock. *)
CancelWatchdog ==
    /\ generation' = generation + 1
    /\ watchdog' = None
    /\ timer' = [c \in Calls |-> IF c = watchdog /\ timer[c] = "set"
                                 THEN "none" ELSE timer[c]]
    /\ UNCHANGED timerGen

\* mutant: the generation is read before the old timer is cancelled
ScheduleWatchdogEarly(c) ==
    /\ generation' = generation + 1
    /\ watchdog' = c
    /\ timer' = [timer EXCEPT ![c] = "set"]
    /\ timerGen' = [timerGen EXCEPT ![c] = generation]

(* _schedule_velocity_stop(): cancels the old timer and starts a new one. *)
ScheduleWatchdog(c) ==
    /\ generation' = generation + 1
    /\ watchdog' = c
    /\ timer' = [d \in Calls |-> CASE d = c -> "set"
                                   [] d = watchdog /\ d # c /\ timer[d] = "set" -> "none"
                                   [] OTHER -> timer[d]]
    /\ timerGen' = [timerGen EXCEPT ![c] = generation + 1]

Running == {j \in Jobs : th[j] \notin {"none", "queued", "ended"}}

\* mutant: every job first waits for the base lock
StartThreadLocked ==
    /\ pool # <<>>
    /\ Cardinality(Running) < PoolSize
    /\ th' = [th EXCEPT ![Head(pool)] = "lock"]
    /\ pool' = Tail(pool)
    /\ UNCHANGED <<callVars, job, baseLock, dogVars, baseVars, closeVars>>

(* A thread of the pool begins the next job. *)
StartThread ==
    /\ pool # <<>>
    /\ Cardinality(Running) < PoolSize
    /\ LET j == Head(pool) IN
        th' = [th EXCEPT ![j] = CASE j = Closer -> "close_base"
                                  [] j # Closer /\ job[j] = "arm" -> "arm"
                                  [] OTHER -> "lock"]
    /\ pool' = Tail(pool)
    /\ UNCHANGED <<callVars, job, baseLock, dogVars, baseVars, closeVars>>

(* `with self._base_lock`: all but a velocity step cancel the watchdog first. *)
TakeLock(c) ==
    /\ th[c] = "lock"
    /\ baseLock = None
    /\ baseLock' = c
    /\ \/ /\ job[c] = "velocity"
          /\ th' = [th EXCEPT ![c] = "check"]
          /\ UNCHANGED dogVars
       \/ /\ job[c] = "move"
          /\ th' = [th EXCEPT ![c] = "check"]
          /\ CancelWatchdog
       \/ /\ job[c] \in {"stop", "halt", "reset"}
          /\ th' = [th EXCEPT ![c] = "stopping"]
          /\ CancelWatchdog
    /\ UNCHANGED <<callVars, job, pool, baseVars, closeVars>>

(* set_velocity() tests _initialized ... *)
CheckInitialized(c) ==
    /\ th[c] = "check"
    /\ th' = [th EXCEPT ![c] = IF initialized THEN "write" ELSE "stopping"]
    /\ UNCHANGED <<callVars, job, pool, baseLock, dogVars, baseVars, closeVars>>

(* ... and writes the speeds: a motion goes on, a step leaves a watchdog. *)
WriteVelocity(c) ==
    /\ th[c] = "write"
    /\ WriteOk
    /\ wheels' = c
    /\ UNCHANGED stopOk
    /\ \/ /\ job[c] = "move"
          /\ th' = [th EXCEPT ![c] = "pulse"]
          /\ UNCHANGED <<baseLock, dogVars>>
       \/ /\ job[c] = "velocity"
          /\ th' = [th EXCEPT ![c] = "ended"]
          /\ baseLock' = None
          /\ ScheduleWatchdog(c)
    /\ UNCHANGED <<callVars, job, pool, closeVars>>

(***************************************************************************)
(* A wheel refuses its speed: set_velocity() stops the base, some of whose  *)
(* wheels may have it already.  One fault may take this stop with it.       *)
(***************************************************************************)
WriteRefused(c) ==
    /\ th[c] = "write"
    /\ WriteFails
    /\ \E w \in {wheels, c}, ok \in BOOLEAN :
        /\ ok => Reachable
        /\ wheels' = IF ok THEN None ELSE IF Reachable THEN w ELSE wheels
        /\ stopOk' = ok
    /\ th' = [th EXCEPT ![c] = "stopping"]
    /\ UNCHANGED <<callVars, job, pool, baseLock, dogVars, closeVars>>

(***************************************************************************)
(* A speed write, or the stop after a refused one, raises: the exception    *)
(* leaves the base lock.  A motion is not stopped, and a step neither       *)
(* starts a watchdog nor cancels the one before it.                         *)
(***************************************************************************)
WriteRaises(c) ==
    /\ th[c] = "write"
    /\ Raises
    /\ wheels' \in {wheels, c, None}
    /\ th' = [th EXCEPT ![c] = "ended"]
    /\ baseLock' = None
    /\ UNCHANGED <<callVars, job, pool, stopOk, dogVars, closeVars>>

\* mutant: a motion whose time is over does not stop the base
PulseOverRolling(c) ==
    /\ th[c] = "pulse"
    /\ th' = [th EXCEPT ![c] = "ended"]
    /\ baseLock' = None
    /\ UNCHANGED <<callVars, job, pool, dogVars, baseVars, closeVars>>

(* A motion writes its velocity again until its time is over. *)
PulseAgain(c) ==
    /\ th[c] = "pulse"
    /\ th' = [th EXCEPT ![c] = "check"]
    /\ UNCHANGED <<callVars, job, pool, baseLock, dogVars, baseVars, closeVars>>

PulseOver(c) ==
    /\ th[c] = "pulse"
    /\ th' = [th EXCEPT ![c] = "stopping"]
    /\ UNCHANGED <<callVars, job, pool, baseLock, dogVars, baseVars, closeVars>>

\* mutant: the lock is kept when the base does not stop
StopBaseInsisting(c) ==
    /\ th[c] = "stopping"
    /\ StopWheels
    /\ IF job[c] = "velocity" THEN CancelWatchdog ELSE UNCHANGED dogVars
    /\ baseLock' = IF stopOk' THEN None ELSE c
    /\ th' = [th EXCEPT ![c] = IF job[c] \in {"stop", "reset"} THEN "arm"
                               ELSE "ended"]
    /\ UNCHANGED <<callVars, job, pool, closeVars>>

(* The base is stopped and its lock released; stop and reset go on to the   *)
(* arm, unless the stop of the base raises.                                 *)
StopBase(c) ==
    /\ th[c] = "stopping"
    /\ IF job[c] = "velocity" THEN CancelWatchdog ELSE UNCHANGED dogVars
    /\ baseLock' = None
    /\ \/ /\ StopReturns
          /\ th' = [th EXCEPT ![c] = IF job[c] \in {"stop", "reset"} THEN "arm"
                                     ELSE "ended"]
       \/ /\ StopRaises
          /\ th' = [th EXCEPT ![c] = "ended"]
    /\ UNCHANGED <<callVars, job, pool, closeVars>>

(* The arm takes no lock. *)
CommandArm(c) ==
    /\ th[c] = "arm"
    /\ th' = [th EXCEPT ![c] = "ended"]
    /\ UNCHANGED <<callVars, job, pool, baseLock, dogVars, baseVars, closeVars>>

(* An exchange of an arm, or of telemetry, raises. *)
ExchangeRaises ==
    /\ Raises
    /\ UNCHANGED <<callVars, poolVars, baseLock, dogVars, wheels, stopOk, closeVars>>

-----------------------------------------------------------------------------
(* threading.Timer: its interval is over, and cancel() comes too late. *)
TimerElapses(c) ==
    /\ timer[c] = "set"
    /\ timer' = [timer EXCEPT ![c] = "elapsed"]
    /\ UNCHANGED <<callVars, poolVars, baseLock, generation, watchdog, timerGen,
                   baseVars, closeVars>>

\* mutant: the generation is not compared
StopAnyway(c) ==
    /\ timer[c] = "elapsed"
    /\ baseLock = None
    /\ timer' = [timer EXCEPT ![c] = "none"]
    /\ watchdog' = None
    /\ StopWheels
    /\ UNCHANGED <<callVars, poolVars, baseLock, generation, timerGen, closeVars>>

(* stop_if_stale(): under the base lock, unless a later command took over. *)
StopIfStale(c) ==
    /\ timer[c] = "elapsed"
    /\ baseLock = None
    /\ timer' = [timer EXCEPT ![c] = "none"]
    /\ IF timerGen[c] # generation
       THEN UNCHANGED <<watchdog, baseVars>>
       ELSE watchdog' = None /\ StopWheels
    /\ UNCHANGED <<callVars, poolVars, baseLock, generation, timerGen, closeVars>>

-----------------------------------------------------------------------------
(* XLeRobotDriver.close() waits for the base lock on the event loop ... *)
CloseBegin ==
    /\ close = "open"
    /\ close' = "waiting"
    /\ UNCHANGED <<callVars, poolVars, baseLock, dogVars, baseVars, initialized,
                   busOpen>>

(* ... cancels the watchdog, and closes the client in a thread. *)
CloseExecutor ==
    /\ close = "waiting"
    /\ baseLock = None
    /\ CancelWatchdog
    /\ close' = "client"
    /\ Submit(Closer, "halt")
    /\ UNCHANGED <<callVars, baseLock, baseVars, initialized, busOpen>>

(* LeKiwiBase.close(): stops the wheels without the base lock.  If that     *)
(* raises, nothing more is closed.                                          *)
CloseBase ==
    /\ th[Closer] = "close_base"
    /\ \/ /\ StopReturns
          /\ initialized' = FALSE
          /\ th' = [th EXCEPT ![Closer] = "close_bus"]
          /\ close' = "base_closed"
       \/ /\ StopRaises
          /\ th' = [th EXCEPT ![Closer] = "ended"]
          /\ close' = "failed"
          /\ UNCHANGED initialized
    /\ UNCHANGED <<callVars, job, pool, baseLock, dogVars, busOpen>>

(* The arms are closed before the bus: one that raises leaves it open. *)
CloseBus ==
    /\ th[Closer] = "close_bus"
    /\ \/ busOpen' = FALSE /\ UNCHANGED <<faults, portInUse, close>>
       \/ Raises /\ close' = "failed" /\ UNCHANGED busOpen
    /\ th' = [th EXCEPT ![Closer] = "ended"]
    /\ UNCHANGED <<callVars, job, pool, baseLock, dogVars, wheels, stopOk, initialized>>

(* The driver is closed when its client is. *)
CloseReturn ==
    /\ th[Closer] = "ended"
    /\ th' = [th EXCEPT ![Closer] = "none"]
    /\ close' = IF close = "failed" THEN "failed" ELSE "closed"
    /\ UNCHANGED <<callVars, job, pool, baseLock, dogVars, baseVars, initialized,
                   busOpen>>

-----------------------------------------------------------------------------
ThreadStep(c) ==
    \/ TakeLock(c) \/ CheckInitialized(c)
    \/ WriteVelocity(c) \/ WriteRefused(c) \/ WriteRaises(c)
    \/ PulseOver(c) \/ StopBase(c) \/ CommandArm(c)

Next ==
    \/ \E c \in Calls :
        \/ Issue(c) \/ Reject(c) \/ Resume(c) \/ Refuse(c)
        \/ Return(c) \/ Cancel(c)
        \/ ThreadStep(c) \/ PulseAgain(c)
        \/ TimerElapses(c) \/ StopIfStale(c)
    \/ StartThread \/ ExchangeRaises
    \/ CloseBegin \/ CloseExecutor \/ CloseBase \/ CloseBus \/ CloseReturn

(***************************************************************************)
(* Coroutines and threads that can run do; a timer elapses; the loop of a   *)
(* motion tests its time again and again, so it ends (strong fairness: the  *)
(* test is not enabled while a velocity is written).                        *)
(***************************************************************************)
Fairness ==
    /\ \A c \in Calls :
        /\ WF_vars(Resume(c) \/ Refuse(c) \/ Return(c))
        /\ WF_vars(TakeLock(c) \/ CheckInitialized(c) \/ WriteVelocity(c)
                   \/ WriteRefused(c) \/ WriteRaises(c) \/ StopBase(c) \/ CommandArm(c))
        /\ SF_vars(PulseOver(c))
        /\ WF_vars(TimerElapses(c))
        /\ WF_vars(StopIfStale(c))
    /\ WF_vars(StartThread)
    /\ WF_vars(CloseExecutor) /\ WF_vars(CloseBase) /\ WF_vars(CloseBus)
    /\ WF_vars(CloseReturn)

Safety == Init /\ [][Next]_vars
Spec == Safety /\ Fairness
-----------------------------------------------------------------------------
(* The types of the variables. *)
TypeOK ==
    /\ req \in [Calls -> AllRequests]
    /\ co \in [Calls -> {"idle", "preempting", "queued", "granted", "applying",
                         "done", "cancelled"}]
    /\ holder \in Calls \union {None}
    /\ waiters \in Seq(Calls)
    /\ current \in Calls \union {None}
    /\ job \in [Jobs -> Ops]
    /\ th \in [Jobs -> {"none", "queued", "lock", "check", "write", "pulse",
                        "stopping", "arm", "close_base", "close_bus", "ended"}]
    /\ th[Closer] \in {"none", "queued", "close_base", "close_bus", "ended"}
    /\ \A c \in Calls : th[c] \notin {"close_base", "close_bus"}
    /\ pool \in Seq(Jobs)
    /\ baseLock \in Calls \union {None}
    /\ generation \in Nat
    /\ watchdog \in Calls \union {None}
    /\ timer \in [Calls -> {"none", "set", "elapsed"}]
    /\ timerGen \in [Calls -> Nat]
    /\ wheels \in Calls \union {None}
    /\ stopOk \in BOOLEAN
    /\ faults \in 0 .. MaxFaults
    /\ portInUse \in BOOLEAN
    /\ initialized \in BOOLEAN
    /\ busOpen \in BOOLEAN
    /\ close \in {"open", "waiting", "client", "base_closed", "failed", "closed"}

(***************************************************************************)
(* Between commands (the base lock is free) the wheels turn only while a    *)
(* timer is set or elapsed that will find itself current and stop them,     *)
(* while close() is about to stop them, or because the servos refused the   *)
(* last stop (executor.py, _schedule_velocity_stop).  Nothing is claimed    *)
(* once an exchange has raised: the wheels may then turn without a timer,   *)
(* and no stop reaches them any more.                                       *)
(***************************************************************************)
Watched == \E c \in Calls : timer[c] # "none" /\ timerGen[c] = generation

DrivingIsWatched ==
    wheels # None /\ baseLock = None => Watched \/ close = "client" \/ ~stopOk \/ portInUse

(***************************************************************************)
(* A timer that elapsed while newer commands were carried out stops none of *)
(* them: what it stops is the velocity it was started for (executor.py,     *)
(* stop_if_stale).                                                          *)
(***************************************************************************)
WatchdogSparesNewer ==
    [][\A c \in Calls :
        timer[c] = "elapsed" /\ timer'[c] = "none" /\ wheels' # wheels
            => wheels = c]_vars

(***************************************************************************)
(* The action the control plane names as current is the one whose job may   *)
(* be executed for a caller that still waits: two actions of the plane are  *)
(* in threads together only if the caller of one has been cancelled         *)
(* (control_plane.py, apply_action).                                        *)
(***************************************************************************)
Admitted(c) ==
    req[c].plane /\ th[c] # "none" /\ co[c] \notin {"preempting", "cancelled"}

CurrentIsAdmitted == \A c \in Calls : Admitted(c) <=> current = c

(***************************************************************************)
(* Every motion of the base comes to an end, whoever was cancelled or       *)
(* closed in the meantime, unless the servos refuse the stop or an exchange *)
(* has raised.                                                              *)
(***************************************************************************)
BaseComesToRest == (wheels # None) ~> (wheels = None \/ ~stopOk \/ portInUse)

(***************************************************************************)
(* An emergency stop that waits, for a thread of the pool or behind the     *)
(* motion that holds the base lock, is carried out (runtime.py,             *)
(* emergency_stop).                                                         *)
(***************************************************************************)
Stopping(c) == job[c] = "stop" /\ th[c] \in {"queued", "lock"}

StopsAreCarriedOut ==
    \A c \in Calls : Stopping(c) ~> ~Stopping(c)
=============================================================================
