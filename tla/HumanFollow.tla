---------------------------- MODULE HumanFollow ----------------------------
(***************************************************************************)
(* Human following across three processes: the client a skill calls        *)
(* (human_follow/client.py), the service that watches the camera and       *)
(* computes velocities (service.py with the loop of perception.py), and    *)
(* the robot service that applies them (_on_base_velocity_stream). They    *)
(* share three topics, each delivered in order, one message at a time:     *)
(* commands, session status and base velocities. In order, a velocity is   *)
(* always newer than the one the robot applied last: the sequence numbers  *)
(* that the robot checks are left out.                                     *)
(***************************************************************************)
EXTENDS Naturals, Sequences, FiniteSets

CONSTANTS
    Session,     \* calls of HumanFollowServiceClient.run on one robot
    None,
    MaxLost,     \* frames without the person that are searched through (60 in the code)
    MaxStream,   \* bound: velocities wait on the topic while it is shorter
    MaxCrashes   \* bound: crashes of the service

VARIABLES
    run,       \* state of each call of run()
    commands,  \* human_follow_command: <<action, session>>
    status,    \* human_follow_status: <<session, kind>>
    stream,    \* base_velocity_stream: [act, sid]
    up,        \* the service is subscribed
    active,    \* the only session in HumanFollowService._sessions
    phase,     \* where the active session's task is
    stopSet,   \* session.stop
    lost,      \* FollowController.target_lost_count
    opened,    \* RobotService._base_streams: the open session, or None
    wheels,    \* the session whose velocity the base follows, or None
    closed,    \* history: sessions whose close the robot has handled
    crashes

clientVars == <<run>>
serviceVars == <<up, active, phase, stopSet, lost, crashes>>
robotVars == <<opened, wheels, closed>>
vars == <<run, commands, status, stream, up, active, phase, stopSet, lost,
          opened, wheels, closed, crashes>>

Kinds == {"busy", "ended"}   \* progress reports change nothing
Message == [act : {"open", "close", "velocity"}, sid : Session]

TypeOK ==
    /\ run \in [Session -> {"idle", "waiting", "returned", "cancelled", "abandoned"}]
    /\ commands \in Seq({"start", "stop"} \X Session)
    /\ status \in Seq(Session \X Kinds)
    /\ stream \in Seq(Message)
    /\ up \in BOOLEAN
    /\ active \in Session \cup {None}
    /\ phase \in {"none", "open", "check", "perceive", "close", "report", "pop"}
    /\ stopSet \in BOOLEAN /\ lost \in 0..(MaxLost + 1)
    /\ opened \in Session \cup {None}
    /\ wheels \in Session \cup {None}
    /\ closed \subseteq Session
    /\ crashes \in 0..MaxCrashes

Init ==
    /\ run = [s \in Session |-> "idle"]
    /\ commands = <<>> /\ status = <<>> /\ stream = <<>>
    /\ up = TRUE /\ active = None /\ phase = "none"
    /\ stopSet = FALSE /\ lost = 0
    /\ opened = None /\ wheels = None /\ closed = {} /\ crashes = 0

ToService(c) == commands' = IF up THEN Append(commands, c) ELSE commands

-----------------------------------------------------------------------------
(* The client.                                                             *)

StartRun(s) ==
    /\ run[s] = "idle"
    /\ ToService(<<"start", s>>)
    /\ run' = [run EXCEPT ![s] = "waiting"]
    /\ UNCHANGED <<status, stream, serviceVars, robotVars>>

(* Cancelled while the start command is being published, before the try    *)
(* block: the command is out and no stop follows it.                       *)
AbandonRun(s) ==
    /\ run[s] = "idle"
    /\ ToService(<<"start", s>>)
    /\ run' = [run EXCEPT ![s] = "abandoned"]
    /\ UNCHANGED <<status, stream, serviceVars, robotVars>>

CancelRun(s) ==
    /\ run[s] = "waiting"
    /\ ToService(<<"stop", s>>)
    /\ run' = [run EXCEPT ![s] = "cancelled"]
    /\ UNCHANGED <<status, stream, serviceVars, robotVars>>

OnStatus ==
    /\ status # <<>>
    /\ status' = Tail(status)
    /\ LET s == Head(status)[1] IN
        run' = IF run[s] = "waiting"
               THEN [run EXCEPT ![s] = "returned"] ELSE run
    /\ UNCHANGED <<commands, stream, serviceVars, robotVars>>

-----------------------------------------------------------------------------
(* The service: commands.                                                  *)

OnStop(s) ==
    /\ stopSet' = (stopSet \/ s = active)
    /\ UNCHANGED <<status, active, phase, lost>>

OnStart(s) ==
    \/ /\ active # None
       /\ status' = Append(status, <<s, "busy">>)
       /\ UNCHANGED <<active, phase, stopSet, lost>>
    \/ /\ active = None
       /\ active' = s /\ phase' = "open"
       /\ stopSet' = FALSE /\ lost' = 0
       /\ UNCHANGED status

OnCommand ==
    /\ up /\ commands # <<>>
    /\ commands' = Tail(commands)
    /\ LET c == Head(commands) IN
        \/ c[1] = "stop" /\ OnStop(c[2])
        \/ c[1] = "start" /\ OnStart(c[2])
    /\ UNCHANGED <<run, stream, up, crashes, robotVars>>

(* The service: the session's task.                                        *)

ToRobot(act) == stream' = Append(stream, [act |-> act, sid |-> active])

TaskStep(from, to) == up /\ phase = from /\ phase' = to

OpenStream ==
    /\ TaskStep("open", "check")
    /\ ToRobot("open")
    /\ UNCHANGED <<run, commands, status, up, active, stopSet, lost, crashes, robotVars>>

(* The top of the loop: stopped, or the duration or the steps are used up. *)
EndLoop ==
    /\ TaskStep("check", "close")
    /\ UNCHANGED <<run, commands, status, stream, up, active, stopSet, lost, crashes, robotVars>>

(* A new frame has come; it is examined in a thread.                       *)
TakeFrame ==
    /\ TaskStep("check", "perceive")
    /\ ~stopSet
    /\ UNCHANGED <<run, commands, status, stream, up, active, stopSet, lost, crashes, robotVars>>

(* TargetTracker: the person is found in the frame again, or is missing    *)
(* once more.                                                              *)
Tracked == lost' \in {0, lost + 1} /\ lost' <= MaxLost

(* The person is in the frame, or is searched for: a velocity goes out,    *)
(* whatever has been asked of the session since the top of the loop.       *)
ApplyVelocity ==
    /\ TaskStep("perceive", "check")
    /\ Tracked
    /\ Len(stream) < MaxStream /\ ToRobot("velocity")
    /\ UNCHANGED <<run, commands, status, up, active, stopSet, crashes, robotVars>>

(* Too many frames without the person: the loop ends without a velocity.   *)
PersonLost ==
    /\ TaskStep("perceive", "close")
    /\ lost = MaxLost /\ lost' = lost + 1
    /\ UNCHANGED <<run, commands, status, stream, up, active, stopSet, crashes, robotVars>>

(* Inside the follow window, or an exception of the detector.              *)
LeaveLoop ==
    /\ TaskStep("perceive", "close")
    /\ UNCHANGED <<run, commands, status, stream, up, active, stopSet, lost, crashes, robotVars>>

(* The finally blocks: close the stream, publish the result, forget the    *)
(* session.                                                                *)
CloseStream ==
    /\ TaskStep("close", "report")
    /\ ToRobot("close")
    /\ UNCHANGED <<run, commands, status, up, active, stopSet, lost, crashes, robotVars>>

Report ==
    /\ TaskStep("report", "pop")
    /\ status' = Append(status, <<active, "ended">>)
    /\ UNCHANGED <<run, commands, stream, up, active, stopSet, lost, crashes, robotVars>>

ForgetSession ==
    /\ TaskStep("pop", "none")
    /\ active' = None
    /\ UNCHANGED <<run, commands, status, stream, up, stopSet, lost, crashes, robotVars>>

(* HumanFollowService.stop(): every session is asked to stop.              *)
StopService ==
    /\ up /\ active # None /\ ~stopSet
    /\ stopSet' = TRUE
    /\ UNCHANGED <<run, commands, status, stream, up, active, phase, lost, crashes, robotVars>>

Crash ==
    /\ up /\ crashes < MaxCrashes
    /\ crashes' = crashes + 1
    /\ up' = FALSE /\ active' = None /\ phase' = "none" /\ stopSet' = FALSE
    /\ lost' = 0 /\ commands' = <<>>
    /\ UNCHANGED <<run, status, stream, robotVars>>

Restart ==
    /\ ~up /\ up' = TRUE
    /\ UNCHANGED <<run, commands, status, stream, active, phase, stopSet, lost, crashes, robotVars>>

-----------------------------------------------------------------------------
(* The robot service.                                                      *)

NextOnStream == stream # <<>> /\ stream' = Tail(stream)

ForStream(m) == opened = m.sid

HandleOpen ==
    /\ NextOnStream /\ Head(stream).act = "open"
    /\ opened' = Head(stream).sid
    /\ UNCHANGED <<run, commands, status, serviceVars, wheels, closed>>

HandleClose ==
    /\ NextOnStream
    /\ LET m == Head(stream) IN
        /\ m.act = "close"
        /\ IF ForStream(m) THEN opened' = None /\ wheels' = None
                           ELSE UNCHANGED <<opened, wheels>>
        /\ closed' = closed \cup {m.sid}
    /\ UNCHANGED <<run, commands, status, serviceVars>>

HandleVelocity ==
    /\ NextOnStream
    /\ LET m == Head(stream) IN
        /\ m.act = "velocity" /\ ForStream(m)
        /\ wheels' = m.sid
    /\ UNCHANGED <<run, commands, status, serviceVars, opened, closed>>

(* Not of the open stream, or past its expiry.                             *)
DropVelocity ==
    /\ NextOnStream /\ Head(stream).act = "velocity"
    /\ UNCHANGED <<run, commands, status, serviceVars, robotVars>>

\* mutant: opening a stream drops the timer of the velocity before it
WatchdogOfStream ==
    /\ wheels # None /\ opened = wheels /\ wheels' = None
    /\ UNCHANGED <<run, commands, status, stream, serviceVars, opened, closed>>

(* No velocity for 400 ms.                                                 *)
Watchdog ==
    /\ wheels # None /\ wheels' = None
    /\ UNCHANGED <<run, commands, status, stream, serviceVars, opened, closed>>

-----------------------------------------------------------------------------
Client == OnStatus \/ \E s \in Session : StartRun(s) \/ AbandonRun(s) \/ CancelRun(s)

Ending == EndLoop \/ PersonLost \/ LeaveLoop \/ CloseStream \/ Report \/ ForgetSession

Service == OnCommand \/ OpenStream \/ TakeFrame \/ ApplyVelocity \/ Ending

Robot == HandleOpen \/ HandleClose \/ HandleVelocity \/ DropVelocity \/ Watchdog

Next ==
    \/ Client \/ Service \/ StopService \/ Crash \/ Restart \/ Robot

(* Threads and event loops run; a loop that has been asked to stop ends at *)
(* its next check.                                                         *)
Fairness ==
    /\ WF_vars(OnCommand \/ OnStatus)
    /\ WF_vars(OpenStream \/ (stopSet /\ EndLoop) \/ CloseStream \/ Report \/ ForgetSession)
    /\ WF_vars(ApplyVelocity \/ PersonLost \/ LeaveLoop)
    /\ WF_vars(HandleOpen \/ HandleClose \/ HandleVelocity \/ DropVelocity)
    /\ WF_vars(Watchdog)

Spec == Init /\ [][Next]_vars /\ Fairness

-----------------------------------------------------------------------------
(* Once the robot has handled the close of a session, no velocity of that  *)
(* session moves the base again: not one computed from a frame taken       *)
(* before the stop, nor one left over from a session that was replaced.    *)
ClosedStaysStill == \A s \in closed : wheels # s

(* The base comes to rest for good after a run has been cancelled, even    *)
(* when the service crashes before it has handled the stop.                *)
CancelledStands == \A s \in Session : run[s] = "cancelled" => wheels # s

CancelledComesToRest == <>[]CancelledStands
=============================================================================
