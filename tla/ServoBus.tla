------------------------------ MODULE ServoBus ------------------------------
(***************************************************************************)
(* The serial servo bus that the arms, the wheels and the battery monitor  *)
(* of an XLeRobot share. Every call takes the bus's lock for one exchange, *)
(* so the calls of several threads interleave between exchanges. An        *)
(* exchange may stay unanswered, or raise (the cable is pulled): the port  *)
(* is then left "in use", and the group read keeps what it had asked for.  *)
(* An arm remembers the last angle that was read or commanded: the next    *)
(* relative motion starts there when its joint does not answer. One joint  *)
(* per arm. What the wheels do is in RobotMotion.                          *)
(***************************************************************************)
EXTENDS Integers

CONSTANTS
    Arms, Wheels,   \* servos, one per joint and wheel
    MaxAngle,       \* joint limits are 0 (the rest position) and MaxAngle
    MaxFaults       \* writes that go unanswered and exchanges that raise

VARIABLES
    bus,      \* open: _connected; using: the port's is_using; hold: whether the servos hold
              \* (torque is switched for all at once); faults: how many of MaxFaults
    group,    \* data_dict of the group read: servo -> {} (asked) or {its answer}
    angle,    \* where a joint is: its servo moves it, or a hand when it does not hold
    wheelMode,\* wheels set to turn without limits
    ready,    \* arms that take commands (_initialized)
    recall,   \* _current_angles of an arm: {}, or the angle last read or commanded
    base,     \* ready; attempt of set_wheel_mode; wheels still to set
    call      \* per thread: the step it is at, the arms it has to do, what it read (or
              \* has to write); had (history): where its joint was since a
              \* call that reads began, until close()

busVars == <<bus, group, angle, wheelMode, ready, recall, base, call>>

Angles == 0..MaxAngle
Readings == {{}} \cup {{p} : p \in Angles}
Threads == {"main", "command", "stop", "telemetry"}
Steps == {"none", "ping base", "limp", "wheel mode", "hold", "ping arm", "arm holds",
          "read", "assign", "delta", "target", "write", "stop arm", "close arm", "close bus", "done", "over"}
Call(step, arms, got, had) == [step |-> step, arms |-> arms, got |-> got, had |-> had]
Idle == Call("none", {}, {}, {})

TypeOK ==
    /\ bus \in [open: BOOLEAN, using: BOOLEAN, hold: BOOLEAN, faults: 0..MaxFaults]
    /\ DOMAIN group \subseteq Arms /\ \A a \in DOMAIN group : group[a] \subseteq Angles
    /\ angle \in [Arms -> Angles] /\ wheelMode \subseteq Wheels
    /\ ready \subseteq Arms /\ recall \in [Arms -> Readings]
    /\ base \in [ready: BOOLEAN, attempt: 0..3, left: SUBSET Wheels]
    /\ call \in [Threads -> [step: Steps, arms: SUBSET Arms, got: Readings, had: SUBSET Angles]]

NothingRead == [a \in {} |-> {}]

Init ==
    /\ bus = [open |-> FALSE, using |-> FALSE, hold |-> FALSE, faults |-> 0]
    /\ group = NothingRead
    /\ angle = [a \in Arms |-> 0] /\ wheelMode = {}
    /\ ready = {} /\ recall = [a \in Arms |-> {}]
    /\ base = [ready |-> FALSE, attempt |-> 0, left |-> Wheels]
    /\ call = [t \in Threads |-> Idle]

body == <<angle, wheelMode>>
owners == <<ready, recall, base>>

-----------------------------------------------------------------------------
(* Exchanges.                                                              *)
Sends == bus.open /\ ~bus.using

(* One more goes unanswered, or raises, which leaves the port in use.      *)
Faulty(using) ==
    /\ Sends /\ bus.faults < MaxFaults
    /\ bus' = [bus EXCEPT !.faults = @ + 1, !.using = using]

\* mutant: the group is cleared only when every servo has answered
ClearsIfComplete(asked) == IF \A a \in DOMAIN asked : asked[a] # {} THEN NothingRead ELSE asked

(* A group read forgets what it asked when it is over.                     *)
Cleared(asked) == NothingRead

AskedWith(a) == [b \in DOMAIN group \cup {a} |-> IF b \in DOMAIN group THEN group[b] ELSE {}]
AnsweredBy(asked, who) == [b \in DOMAIN asked |-> IF b \in who THEN {angle[b]} ELSE asked[b]]

(* SyncReadPos: everyone asked answers, or some do not.                    *)
SyncRead(a, got) ==
    LET asked == AskedWith(a) IN
    \/ ~bus.open /\ got = {} /\ UNCHANGED <<bus, group>>
    \/ /\ bus.open /\ bus.using
       /\ got = asked[a] /\ group' = Cleared(asked) /\ UNCHANGED bus
    \/ \E who \in SUBSET DOMAIN asked :
        /\ Sends /\ UNCHANGED bus
        /\ LET answered == AnsweredBy(asked, who)
           IN got = answered[a] /\ group' = Cleared(answered)

ReadRaises(a) == Faulty(TRUE) /\ group' = AskedWith(a)

(* A write that reaches the servos, or does not.                           *)
Reaches == Sends /\ UNCHANGED bus
Misses == ((bus.using \/ ~bus.open) /\ UNCHANGED bus) \/ Faulty(FALSE)
Switches(on) == (Sends /\ bus' = [bus EXCEPT !.hold = on]) \/ Misses

Moves(t, step) == call' = [call EXCEPT ![t].step = step]
At(t, step) == call[t].step = step
Ends(t) == call' = [call EXCEPT ![t] = Idle]

(* An exchange raises: its call is over, and so is start() or close().     *)
Raises(t) ==
    /\ call[t].step \in {"ping base", "limp", "wheel mode", "hold", "ping arm", "write",
                         "stop arm", "close arm"}
    /\ Faulty(TRUE) /\ IF t = "main" THEN Moves(t, "over") ELSE Ends(t)
    /\ UNCHANGED <<group, body, owners>>

-----------------------------------------------------------------------------
(* connect: the bus, then the base, then each arm.                         *)
Connect ==
    /\ At("main", "none")
    /\ \/ bus' = [bus EXCEPT !.open = TRUE] /\ Moves("main", "ping base")
       \/ UNCHANGED bus /\ Moves("main", "done")
    /\ UNCHANGED <<group, body, owners>>

ToArms == call' = [call EXCEPT !["main"] = Call("ping arm", Arms, {}, {})]

(* A wheel that does not answer leaves the base uninitialized.             *)
PingBase ==
    /\ At("main", "ping base")
    /\ \/ Reaches /\ Moves("main", "limp")
       \/ Misses /\ ToArms
    /\ UNCHANGED <<group, body, owners>>

AllLimp ==
    /\ At("main", "limp") /\ Switches(FALSE) /\ Moves("main", "wheel mode")
    /\ UNCHANGED <<group, body, owners>>

(* Three attempts per wheel; one that fails may have done its work.        *)
SetWheelMode ==
    /\ At("main", "wheel mode")
    /\ \E w \in base.left :
        \/ /\ Reaches /\ wheelMode' = wheelMode \cup {w}
           /\ base' = [base EXCEPT !.left = @ \ {w}, !.attempt = 0]
           /\ Moves("main", IF base.left = {w} THEN "hold" ELSE "wheel mode")
        \/ /\ Misses /\ wheelMode' \in {wheelMode, wheelMode \cup {w}}
           /\ IF base.attempt < 2
              THEN base' = [base EXCEPT !.attempt = @ + 1] /\ UNCHANGED call
              ELSE base' = [base EXCEPT !.attempt = 0] /\ ToArms
    /\ UNCHANGED <<group, angle, ready, recall>>

BaseHolds ==
    /\ At("main", "hold") /\ Switches(TRUE)
    /\ base' = [base EXCEPT !.ready = TRUE] /\ ToArms
    /\ UNCHANGED <<group, body, ready, recall>>

NextArm(t, a, step, end) == call' = [call EXCEPT ![t] =
    Call(IF @.arms = {a} THEN end ELSE step, @.arms \ {a}, {}, {})]

PingArm(a) ==
    /\ At("main", "ping arm") /\ a \in call["main"].arms
    /\ \/ Sends /\ Switches(TRUE) /\ Moves("main", "arm holds")
       \/ Misses /\ NextArm("main", a, "ping arm", "done")
    /\ UNCHANGED <<group, body, owners>>

(* _read_positions: an answer replaces what is known, its absence does not.*)
Remembers(a, got) == recall' = IF got = {} THEN recall ELSE [recall EXCEPT ![a] = got]

(* home(): the rest position is commanded, and taken for where the joint is.*)
GoesHome(a) == bus.open /\ recall' = [recall EXCEPT ![a] = {0}]

(* The first reading of an arm, which may then go home.                    *)
ArmReady(a) ==
    /\ At("main", "arm holds") /\ a \in call["main"].arms
    /\ \E got \in Readings :
          SyncRead(a, got) /\ (Remembers(a, got) \/ GoesHome(a))
    /\ ready' = ready \cup {a}
    /\ NextArm("main", a, "ping arm", "done")
    /\ UNCHANGED <<body, base>>

(* close: the base, each arm (which may go home), the bus.                 *)
Close ==
    /\ At("main", "done")
    /\ base' = [base EXCEPT !.ready = FALSE]
    /\ call' = [t \in Threads |-> IF t = "main" THEN Call("close arm", Arms, {}, {})
                                  ELSE [call[t] EXCEPT !.had = {}]]
    /\ UNCHANGED <<bus, group, body, ready, recall>>

HomeOnClose(a) ==
    /\ At("main", "close arm") /\ a \in call["main"].arms \cap ready
    /\ GoesHome(a)
    /\ UNCHANGED <<bus, group, body, ready, base, call>>

CloseArm(a) ==
    /\ At("main", "close arm") /\ a \in call["main"].arms
    /\ ready' = ready \ {a}
    /\ NextArm("main", a, "close arm", "close bus")
    /\ UNCHANGED <<bus, group, body, recall, base>>

CloseBus ==
    /\ At("main", "close bus")
    /\ bus' = [bus EXCEPT !.open = FALSE] /\ Moves("main", "over")
    /\ UNCHANGED <<group, body, owners>>

-----------------------------------------------------------------------------
(* Arm commands, telemetry, stop. They begin when start() has returned.    *)
Begin(t, a, step, got, had) ==
    /\ At(t, "none") /\ call["main"].step \in {"done", "close arm", "close bus"}
    /\ a \in ready
    /\ call' = [call EXCEPT ![t] = Call(step, {a}, got, IF At("main", "done") THEN had ELSE {})]
    /\ UNCHANGED <<bus, group, body, owners>>

SetJoints(a) == \E p \in Angles : Begin("command", a, "write", {p}, {})
SetJointsDelta(a) == Begin("command", a, "delta", {}, {angle[a]})
Status(a) == Begin("telemetry", a, "read", {}, {angle[a]})

(* The torque of the whole bus is switched, whichever arm is asked.        *)
OnStopMotion ==
    /\ At("stop", "none") /\ call["main"].step \in {"done", "close arm", "close bus"}
    /\ Moves("stop", "stop arm")
    /\ UNCHANGED <<bus, group, body, owners>>

ReadPositions(t, a) ==
    /\ call[t].step \in {"read", "delta"} /\ a \in call[t].arms
    /\ \E got \in Readings :
        /\ SyncRead(a, got)
        /\ call' = [call EXCEPT ![t].step = "assign", ![t].got = got]
    /\ UNCHANGED <<body, owners>>

ReadFails(t, a) ==
    /\ call[t].step \in {"read", "delta"} /\ a \in call[t].arms
    /\ ReadRaises(a) /\ Ends(t)
    /\ UNCHANGED <<body, owners>>

(* Both threads remember what they read, outside the lock of the bus: the  *)
(* telemetry's answer may be remembered long after it was given, over a    *)
(* newer one. A command it overlaps then has to do with the angles of both.*)
AssignStatus(a) ==
    /\ At("telemetry", "assign") /\ call["telemetry"].arms = {a}
    /\ Remembers(a, call["telemetry"].got)
    /\ call' = [call EXCEPT !["telemetry"] = Idle,
                            !["command"].had = IF call["command"].arms = {a} /\ @ # {}
                                               THEN @ \cup call["telemetry"].had ELSE @]
    /\ UNCHANGED <<bus, group, body, ready, base>>

AssignDelta(a) ==
    /\ At("command", "assign") /\ call["command"].arms = {a}
    /\ Remembers(a, call["command"].got)
    /\ Moves("command", "target")
    /\ UNCHANGED <<bus, group, body, ready, base>>

Clamped(p) == IF p < 0 THEN 0 ELSE IF p > MaxAngle THEN MaxAngle ELSE p

(* A relative motion starts where the arm is known to be, or at rest.      *)
Start(a) == IF recall[a] = {} THEN {0} ELSE recall[a]

Target(a) ==
    /\ At("command", "target") /\ call["command"].arms = {a}
    /\ \/ /\ a \in ready
          /\ \E p \in Start(a), d \in {-1, 1} :
                call' = [call EXCEPT !["command"] = Call("write", {a}, {Clamped(p + d)}, {})]
       \/ a \notin ready /\ Ends("command")
    /\ UNCHANGED <<bus, group, body, owners>>

(* A group write is not answered, and keeps nothing for the next one.      *)
GroupWrite == UNCHANGED <<bus, group>>

(* What was commanded is taken for where the joint is, unless the bus is   *)
(* closed.                                                                 *)
WritePositions(a) ==
    /\ At("command", "write") /\ call["command"].arms = {a}
    /\ GroupWrite /\ Ends("command")
    /\ recall' = IF bus.open THEN [recall EXCEPT ![a] = call["command"].got] ELSE recall
    /\ UNCHANGED <<body, ready, base>>

(* Torque is switched off for every servo of the bus.                      *)
ArmStop ==
    /\ At("stop", "stop arm") /\ Switches(FALSE) /\ Ends("stop")
    /\ UNCHANGED <<group, body, owners>>

(* The joint moves, and every call that reads it has seen it there.        *)
Joint(a) ==
    /\ \E p \in Angles :
        /\ angle' = [angle EXCEPT ![a] = p]
        /\ call' = [t \in Threads |-> IF a \in call[t].arms /\ call[t].had # {}
                                      THEN [call[t] EXCEPT !.had = @ \cup {p}] ELSE call[t]]
    /\ UNCHANGED <<bus, group, wheelMode, owners>>

Next ==
    \/ Connect \/ PingBase \/ AllLimp \/ SetWheelMode \/ BaseHolds
    \/ Close \/ CloseBus \/ OnStopMotion \/ ArmStop
    \/ \E t \in Threads : Raises(t)
    \/ \E a \in Arms :
        \/ PingArm(a) \/ ArmReady(a) \/ HomeOnClose(a) \/ CloseArm(a)
        \/ SetJoints(a) \/ SetJointsDelta(a) \/ Status(a)
        \/ AssignStatus(a) \/ AssignDelta(a) \/ Target(a) \/ WritePositions(a) \/ Joint(a)
        \/ \E t \in {"command", "telemetry"} : ReadPositions(t, a) \/ ReadFails(t, a)

Spec == Init /\ [][Next]_busVars

-----------------------------------------------------------------------------
(* An answer is where the joint is now, never the answer to an earlier     *)
(* group read, whatever was left unanswered or raised in between; and a    *)
(* relative motion of a joint that answered starts where the joint was     *)
(* since the call began, or since a telemetry call that it overlapped      *)
(* began: neither the other arm's exchange, nor a reading from before, nor *)
(* a commanded angle comes in between (until close(), which may go home).  *)
(* A joint that does not answer moves from the angle last read or          *)
(* commanded, however old it is: nothing is claimed of it.                 *)
Reads(t, a) ==
    /\ call[t].step \in {"read", "delta"} /\ a \in call[t].arms
    /\ call'[t].step = "assign"

Aims(a) ==
    /\ At("command", "target") /\ a \in call["command"].arms
    /\ call'["command"].step = "write"
    /\ call["command"].got # {} /\ At("main", "done")

MeasuredNow ==
    [][\A a \in Arms :
         /\ \A t \in Threads : Reads(t, a) => call'[t].got \subseteq {angle[a]}
         /\ Aims(a) => Start(a) \subseteq call["command"].had]_busVars
=============================================================================
