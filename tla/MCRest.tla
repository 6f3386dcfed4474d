------------------------------- MODULE MCRest -------------------------------
(***************************************************************************)
(* What must come to an end, under the fairness each component is given:   *)
(* the motions of the robot, the following of a person, speech, and a      *)
(* deployment.  They share no variable; `part` says which one moves and    *)
(* the others keep their initial states, of which their fairness asks      *)
(* nothing because no fair action is enabled in them.                      *)
(***************************************************************************)
EXTENDS Naturals, TLC

CONSTANTS Calls, Closer, None

VARIABLES
    part,
    req, co, holder, waiters, current, job, th, pool, baseLock, generation,
    watchdog, timer, timerGen, wheels, stopOk, faults, portInUse, initialized,
    busOpen, close,
    followRun, followCommands, status, stream, up, active, phase, stopSet,
    lost, opened, followWheels, closed, crashes,
    loop, errors, safe, talk, guards, guard, echoTime, session, heard, quit,
    run, proc, task, credentials, cancels, hit

Direct(op) == [op |-> op, plane |-> FALSE, preempt |-> FALSE]
Plane(op) == [op |-> op, plane |-> TRUE, preempt |-> FALSE]

MCRestRequests ==
    {Direct("stop"), Direct("velocity"), Plane("move"), Plane("reset")}

Rm == INSTANCE RobotMotion WITH
    Requests <- MCRestRequests, PoolSize <- 1, MaxFaults <- 1
Hf == INSTANCE HumanFollow WITH
    Session <- {"s1", "s2"}, MaxLost <- 0, MaxStream <- 1, MaxCrashes <- 1,
    run <- followRun, commands <- followCommands, wheels <- followWheels
Vl == INSTANCE VoiceLoop WITH
    Speech <- {"s1", "s2"}, Clarify <- "clarify", MaxErrors <- 2, MaxUtterances <- 2
Dp == INSTANCE Deployment WITH
    Services <- {"s1", "s2"}, MaxCancels <- 2

motion ==
    <<req, co, holder, waiters, current, job, th, pool, baseLock, generation,
      watchdog, timer, timerGen, wheels, stopOk, faults, portInUse, initialized,
      busOpen, close>>
following ==
    <<followRun, followCommands, status, stream, up, active, phase, stopSet,
      lost, opened, followWheels, closed, crashes>>
voice == <<loop, errors, safe, talk, guards, guard, echoTime, session, heard, quit>>
deployment == <<run, proc, task, credentials, cancels, hit>>
vars == <<part, motion, following, voice, deployment>>

Init ==
    /\ part \in {"motion", "following", "voice", "deployment"}
    /\ Rm!Init /\ Hf!Init /\ Vl!Init /\ Dp!Init

Next ==
    /\ \/ part = "motion" /\ Rm!Next /\ UNCHANGED <<following, voice, deployment>>
       \/ part = "following" /\ Hf!Next /\ UNCHANGED <<motion, voice, deployment>>
       \/ part = "voice" /\ Vl!Next /\ UNCHANGED <<motion, following, deployment>>
       \/ part = "deployment" /\ Dp!Next /\ UNCHANGED <<motion, following, voice>>
    /\ UNCHANGED part

Spec ==
    /\ Init /\ [][Next]_vars
    /\ Rm!Fairness /\ Hf!Fairness /\ Vl!Fairness /\ Dp!Fairness

-----------------------------------------------------------------------------
(* The wheels never keep a velocity for good, unless a stop failed on the  *)
(* servo bus or an exchange raised there.                                  *)
BaseComesToRest == Rm!BaseComesToRest

(* An emergency stop that waits is carried out.                            *)
StopsAreCarriedOut == Rm!StopsAreCarriedOut

(* Speech that ends does not leave the microphone closed.                  *)
MicReopens == Vl!MicReopens

(* What is cancelled ends: the base no longer moves for a run of following *)
(* that was cancelled, not even for a frame taken before the stop once the *)
(* robot has closed the session, and a cancelled deployment exits.         *)
CancelledWorkEnds ==
    /\ []Hf!ClosedStaysStill
    /\ <>[](Hf!CancelledStands /\ Dp!CancelledIsOver)
=============================================================================
