----------------------------- MODULE SimDriver -----------------------------
(***************************************************************************)
(* The MuJoCo driver of the XLeRobot. Actions are served one at a time     *)
(* under an asyncio lock; a base motion or an arm motion steps the         *)
(* simulation in a worker thread that can only be asked to stop. A stop, a *)
(* reset and a close ask the motion in progress to stop before they take   *)
(* their place in the line. The caller of an action may be cancelled, more *)
(* than once. Positions, cameras and the viewer are left out.              *)
(***************************************************************************)
EXTENDS Naturals, Sequences, SequencesExt

CONSTANTS
    Actions,   \* the actions that are sent
    NoAction

VARIABLES
    kind,        \* of each action, "none" before it is sent
    progress,    \* "new", "waiting", "working", "unwinding", "done"
    line,        \* who holds (its head) and who waits for _action_lock
    activeStop,  \* whose stop event is _active_motion_stop
    stopEvent,   \* each action's stop event
    stepper,     \* each action's thread: "none", "check", "write", "ended"
    latched,     \* emergency_stop_active
    moving,      \* the base has a velocity
    driverState  \* "idle", "executing", "failed", "closed"

simVars == <<kind, progress, line, activeStop, stopEvent, stepper, latched, moving,
             driverState>>

Stops == {"stop", "emergency"}
Motions == {"base", "arm"}
Kinds == Stops \cup Motions \cup {"dock", "unknown", "reset", "close"}

TypeOK ==
    /\ kind \in [Actions -> Kinds \cup {"none"}]
    /\ progress \in [Actions -> {"new", "waiting", "working", "unwinding", "done"}]
    /\ line \in Seq(Actions)
    /\ activeStop \in Actions \cup {NoAction}
    /\ stopEvent \in [Actions -> BOOLEAN]
    /\ stepper \in [Actions -> {"none", "check", "write", "ended"}]
    /\ latched \in BOOLEAN /\ moving \in BOOLEAN
    /\ driverState \in {"idle", "executing", "failed", "closed"}

Init ==
    /\ kind = [a \in Actions |-> "none"] /\ progress = [a \in Actions |-> "new"]
    /\ line = <<>> /\ activeStop = NoAction
    /\ stopEvent = [a \in Actions |-> FALSE]
    /\ stepper = [a \in Actions |-> "none"]
    /\ latched = FALSE /\ moving = FALSE /\ driverState = "idle"

SetStop(a) == stopEvent' = IF a = NoAction THEN stopEvent
                           ELSE [stopEvent EXCEPT ![a] = TRUE]

(* A stop is announced to the motion in progress, then waits like the rest.*)
Send(a, k) ==
    /\ progress[a] = "new"
    /\ kind' = [kind EXCEPT ![a] = k]
    /\ progress' = [progress EXCEPT ![a] = "waiting"]
    /\ line' = Append(line, a)
    /\ SetStop(IF k \in Stops \cup {"reset", "close"} THEN activeStop ELSE NoAction)
    /\ UNCHANGED <<activeStop, stepper, latched, moving, driverState>>

-----------------------------------------------------------------------------
(* The action at the head of the line has the lock.                        *)
Turn(a) == progress[a] = "waiting" /\ line # <<>> /\ Head(line) = a

Done(a) == progress' = [progress EXCEPT ![a] = "done"] /\ line' = Tail(line)

\* mutant: the admission gate does not look at the emergency stop
AdmitsAll(a) == TRUE

(* The admission gate: all but a stop is refused after an emergency stop.  *)
Admitted(a) == ~latched \/ kind[a] \in Stops \cup {"reset", "close"}

Refuse(a) ==
    /\ Turn(a) /\ (~Admitted(a) \/ kind[a] = "unknown")
    /\ driverState # "closed"
    /\ Done(a) /\ driverState' = "failed"
    /\ UNCHANGED <<kind, activeStop, stopEvent, stepper, latched, moving>>

(* The model and its data are gone.                                        *)
Broken(a) ==
    /\ Turn(a) /\ driverState = "closed" /\ Done(a)
    /\ UNCHANGED <<kind, activeStop, stopEvent, stepper, latched, moving, driverState>>

Dock(a) ==
    /\ Turn(a) /\ Admitted(a) /\ kind[a] = "dock" /\ driverState # "closed"
    /\ Done(a) /\ driverState' \in {"idle", "failed"}
    /\ UNCHANGED <<kind, activeStop, stopEvent, stepper, latched, moving>>

(* A stop without the emergency flag takes an emergency stop back.         *)
StopMotion(a) ==
    /\ Turn(a) /\ kind[a] \in Stops /\ driverState # "closed"
    /\ moving' = FALSE /\ latched' = (kind[a] = "emergency")
    /\ Done(a) /\ driverState' = "idle"
    /\ UNCHANGED <<kind, activeStop, stopEvent, stepper>>

StartWork(a) ==
    /\ Turn(a) /\ Admitted(a) /\ kind[a] \in Motions /\ driverState # "closed"
    /\ progress' = [progress EXCEPT ![a] = "working"]
    /\ activeStop' = a
    /\ stepper' = [stepper EXCEPT ![a] = "check"]
    /\ moving' = (moving /\ kind[a] = "base")
    /\ latched' = FALSE /\ driverState' = "executing"
    /\ UNCHANGED <<kind, line, stopEvent>>

Reset(a) ==
    /\ Turn(a) /\ kind[a] = "reset" /\ driverState # "closed"
    /\ moving' = FALSE /\ Done(a) /\ driverState' = "idle"
    /\ UNCHANGED <<kind, activeStop, stopEvent, stepper, latched>>

Close(a) ==
    /\ Turn(a) /\ kind[a] = "close" /\ driverState # "closed"
    /\ moving' = FALSE /\ Done(a) /\ driverState' = "closed"
    /\ UNCHANGED <<kind, activeStop, stopEvent, stepper, latched>>

ForgetStop(a) == activeStop' = IF activeStop = a THEN NoAction ELSE activeStop

(* The thread has ended, by itself or because it was stopped.              *)
WorkDone(a) ==
    /\ progress[a] = "working" /\ stepper[a] = "ended"
    /\ moving' = FALSE /\ Done(a) /\ driverState' = "idle" /\ ForgetStop(a)
    /\ UNCHANGED <<kind, stopEvent, stepper, latched>>

-----------------------------------------------------------------------------
(* The caller is cancelled while the thread works: the thread is asked to  *)
(* stop and waited for, so that its writer is quiet when the lock is freed.*)
CancelWork(a) ==
    /\ progress[a] = "working"
    /\ progress' = [progress EXCEPT ![a] = "unwinding"]
    /\ SetStop(a)
    /\ UNCHANGED <<kind, line, activeStop, stepper, latched, moving, driverState>>

Released(a) == /\ Done(a) /\ driverState' = "idle" /\ ForgetStop(a)
               /\ UNCHANGED <<kind, stopEvent, stepper, latched, moving>>

Unwound(a) == progress[a] = "unwinding" /\ stepper[a] = "ended" /\ Released(a)

(* A second cancellation ends the wait: the thread is left to itself.      *)
CancelAgain(a) == progress[a] = "unwinding" /\ stepper[a] # "ended" /\ Released(a)

(* One that waits leaves the line.                                         *)
CancelWait(a) ==
    /\ progress[a] = "waiting" /\ Head(line) # a
    /\ progress' = [progress EXCEPT ![a] = "done"]
    /\ \E i \in 2..Len(line) : line[i] = a /\ line' = RemoveAt(line, i)
    /\ UNCHANGED <<kind, activeStop, stopEvent, stepper, latched, moving, driverState>>

-----------------------------------------------------------------------------
Stopped(a) == stopEvent[a] \/ latched

(* The thread looks at its event and at the emergency stop between steps.  *)
CheckStop(a) ==
    /\ stepper[a] = "check"
    /\ IF Stopped(a)
       THEN /\ stepper' = [stepper EXCEPT ![a] = "ended"]
            /\ moving' = (moving /\ kind[a] # "base")
       ELSE /\ stepper' = [stepper EXCEPT ![a] = "write"]
            /\ UNCHANGED moving
    /\ UNCHANGED <<kind, progress, line, activeStop, stopEvent, latched, driverState>>

WriteStep(a) ==
    /\ stepper[a] = "write"
    /\ \/ stepper' = [stepper EXCEPT ![a] = "check"]
          /\ moving' = (moving \/ kind[a] = "base")
       \/ stepper' = [stepper EXCEPT ![a] = "ended"]
          /\ moving' = (moving /\ kind[a] # "base")
    /\ UNCHANGED <<kind, progress, line, activeStop, stopEvent, latched, driverState>>

-----------------------------------------------------------------------------
Serve(a) == Refuse(a) \/ Broken(a) \/ Dock(a) \/ StopMotion(a) \/ StartWork(a)
            \/ Reset(a) \/ Close(a) \/ WorkDone(a) \/ Unwound(a)

Next == \E a \in Actions :
    \/ \E k \in Kinds : Send(a, k)
    \/ Serve(a)
    \/ CancelWork(a) \/ CancelAgain(a) \/ CancelWait(a)
    \/ CheckStop(a) \/ WriteStep(a)

Spec == Init /\ [][Next]_simVars

-----------------------------------------------------------------------------
(* A thread that steps the simulation has the lock, or has been told to    *)
(* stop: it writes at most one step more beside another action.            *)
NoStrayWriter == \A a \in Actions :
    stepper[a] \in {"check", "write"} =>
        stopEvent[a] \/ (line # <<>> /\ Head(line) = a)

(* Only a plain stop_motion takes an emergency stop back: no motion that   *)
(* was queued before it clears the flag by setting out after it.           *)
EmergencyHolds == [][latched /\ ~latched' =>
    \E a \in Actions : kind[a] = "stop" /\ Head(line) = a /\ a \notin Range(line')]_simVars
=============================================================================
