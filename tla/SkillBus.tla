------------------------------ MODULE SkillBus ------------------------------
(***************************************************************************)
(* The split deployment: the agent's process holds a BusSkillClient, the   *)
(* robot's a BusSkillServer around the skill worker, and NATS carries one  *)
(* topic for each of commands, cancels, controls, events and control       *)
(* results. A topic keeps its order, two topics have none, and a message   *)
(* for a process that is not subscribed is gone.                           *)
(*                                                                         *)
(* The worker itself is SkillWorker; here a run is accepted, stops and     *)
(* ends, and its events pass two queues that drop their oldest entry when  *)
(* they are full.                                                          *)
(***************************************************************************)
EXTENDS Naturals, Sequences, SequencesExt

CONSTANTS
    Runs,
    MaxStops,       \* bound: emergency stops the agent asks for
    MaxQueue,       \* events a subscriber queue holds (128 in the code)
    MaxCrashes      \* bound: crashes of the robot's process

VARIABLES
    linked,     \* the client is connected and subscribed
    server,     \* "down", or "up" once it has subscribed
    relay,      \* _relay_events: "off" until its subscriber is registered, "on", or "dead"
    commands, cancels, controls, events, results,   \* the topics
    phase,      \* what the worker knows of each run
    backlog,    \* events in the relay's subscriber queue
    hand,       \* the stop _on_control is carrying out, 0 for none
    covered,    \* per stop, the runs the worker had when it began
    carried,    \* stops whose robot stop succeeded
    asked,      \* runs the agent has submitted
    dropped,    \* runs the agent has asked to cancel
    stop,       \* emergency_stop() of the client, per control id
    latest,     \* BusSkillClient._latest
    queue,      \* BusSkillClient._queue
    crashes

topicVars == <<commands, cancels, controls, events, results>>
workerVars == <<phase, backlog, hand, covered, carried>>
clientVars == <<asked, dropped, stop, latest, queue>>
skillBusVars == <<linked, server, relay, topicVars, workerVars, clientVars, crashes>>

Stops == 1..MaxStops
Event == [run : Runs, kind : {"accepted", "terminal"}]

TypeOK ==
    /\ linked \in BOOLEAN /\ server \in {"down", "up"} /\ relay \in {"off", "on", "dead"}
    /\ commands \in Seq(Runs) /\ cancels \in Seq(Runs) /\ controls \in Seq(Stops)
    /\ events \in Seq(Event)
    /\ results \in Seq([id : Stops, ok : BOOLEAN])
    /\ phase \in [Runs -> {"none", "active", "stopping", "ended", "lost"}]
    /\ backlog \in Seq(Event) /\ Len(backlog) <= MaxQueue
    /\ hand \in Stops \cup {0}
    /\ covered \in [Stops -> SUBSET Runs] /\ carried \subseteq Stops
    /\ asked \subseteq Runs /\ dropped \subseteq asked
    /\ stop \in [Stops -> {"none", "waiting", "confirmed", "failed"}]
    /\ latest \in [Runs -> {"none", "accepted", "terminal"}]
    /\ queue \in Seq(Event) /\ Len(queue) <= MaxQueue
    /\ crashes \in 0..MaxCrashes

Init ==
    /\ linked = FALSE /\ server = "down" /\ relay = "off"
    /\ commands = <<>> /\ cancels = <<>> /\ controls = <<>>
    /\ events = <<>> /\ results = <<>>
    /\ phase = [r \in Runs |-> "none"] /\ backlog = <<>>
    /\ hand = 0 /\ covered = [i \in Stops |-> {}] /\ carried = {}
    /\ asked = {} /\ dropped = {} /\ stop = [i \in Stops |-> "none"]
    /\ latest = [r \in Runs |-> "none"] /\ queue = <<>>
    /\ crashes = 0

(* Publication: NATS keeps nothing for a subscriber that is not there.     *)
Published(topic, message) == IF server = "up" THEN Append(topic, message) ELSE topic

(* What the server publishes, for the subscriptions of the client.         *)
Heard(topic, message) == IF linked THEN Append(topic, message) ELSE topic

(* A full subscriber queue loses its oldest event.                         *)
Pushed(q, e) == IF Len(q) >= MaxQueue THEN Append(Tail(q), e) ELSE Append(q, e)

-----------------------------------------------------------------------------
(* The agent's side. events() and every call connect first.                *)
Connect ==
    /\ ~linked /\ linked' = TRUE
    /\ UNCHANGED <<server, relay, topicVars, workerVars, clientVars, crashes>>

Submit(r) ==
    /\ linked /\ r \notin asked
    /\ asked' = asked \cup {r}
    /\ commands' = Published(commands, r)
    /\ UNCHANGED <<linked, server, relay, cancels, controls, events, results, workerVars,
                   dropped, stop, latest, queue, crashes>>

Cancel(r) ==
    /\ r \in asked \ dropped
    /\ dropped' = dropped \cup {r}
    /\ cancels' = Published(cancels, r)
    /\ UNCHANGED <<linked, server, relay, commands, controls, events, results, workerVars,
                   asked, stop, latest, queue, crashes>>

EmergencyStop(i) ==
    /\ linked /\ stop[i] = "none" /\ \A j \in Stops : j < i => stop[j] # "none"
    /\ stop' = [stop EXCEPT ![i] = "waiting"]
    /\ controls' = Published(controls, i)
    /\ UNCHANGED <<linked, server, relay, commands, cancels, events, results, workerVars,
                   asked, dropped, latest, queue, crashes>>

StopTimesOut(i) ==
    /\ stop[i] = "waiting"
    /\ stop' = [stop EXCEPT ![i] = "failed"]
    /\ UNCHANGED <<linked, server, relay, topicVars, workerVars, asked, dropped, latest, queue, crashes>>

\* mutant: a control result ends whichever call is waiting
WhoeverWaits(result) == {i \in Stops : stop[i] = "waiting"}

(* The waiter a control result is meant for, if it still waits.            *)
Waiter(result) == {i \in Stops : stop[i] = "waiting" /\ i = result.id}

OnControlResult ==
    /\ results # <<>> /\ results' = Tail(results)
    /\ stop' = [i \in Stops |->
                   IF i \notin Waiter(Head(results)) THEN stop[i]
                   ELSE IF Head(results).ok THEN "confirmed" ELSE "failed"]
    /\ UNCHANGED <<linked, server, relay, commands, cancels, controls, events, workerVars,
                   asked, dropped, latest, queue, crashes>>

OnEvent ==
    /\ events # <<>> /\ events' = Tail(events)
    /\ latest' = [latest EXCEPT ![Head(events).run] = Head(events).kind]
    /\ queue' = Pushed(queue, Head(events))
    /\ UNCHANGED <<linked, server, relay, commands, cancels, controls, results, workerVars,
                   asked, dropped, stop, crashes>>

TakeEvent ==
    /\ queue # <<>> /\ queue' = Tail(queue)
    /\ UNCHANGED <<linked, server, relay, topicVars, workerVars, asked, dropped, stop, latest, crashes>>

-----------------------------------------------------------------------------
(* The robot's side. Commands are taken as soon as the topics are          *)
(* subscribed, before the relay hears the worker's events.                 *)
Start ==
    /\ server = "down" /\ server' = "up"
    /\ UNCHANGED <<linked, relay, topicVars, workerVars, clientVars, crashes>>

RelayRegisters ==
    /\ server = "up" /\ relay = "off" /\ relay' = "on"
    /\ UNCHANGED <<linked, server, topicVars, workerVars, clientVars, crashes>>

(* SkillWorker._emit, for the relay's queue.                               *)
Emit(e) == backlog' = IF relay = "on" THEN Pushed(backlog, e) ELSE backlog

OnCommand ==
    /\ server = "up" /\ commands # <<>> /\ commands' = Tail(commands)
    /\ LET r == Head(commands) IN
        /\ phase' = [phase EXCEPT ![r] = "active"]
        /\ Emit([run |-> r, kind |-> "accepted"])
    /\ UNCHANGED <<linked, server, relay, cancels, controls, events, results, hand, covered,
                   carried, clientVars, crashes>>

(* A cancel that overtakes its command finds no run and is forgotten.      *)
OnCancel ==
    /\ server = "up" /\ cancels # <<>> /\ cancels' = Tail(cancels)
    /\ phase' = [phase EXCEPT ![Head(cancels)] = IF @ = "active" THEN "stopping" ELSE @]
    /\ UNCHANGED <<linked, server, relay, commands, controls, events, results, backlog, hand,
                   covered, carried, clientVars, crashes>>

RunEnds(r) ==
    /\ server = "up" /\ phase[r] \in {"active", "stopping"}
    /\ phase' = [phase EXCEPT ![r] = "ended"]
    /\ Emit([run |-> r, kind |-> "terminal"])
    /\ UNCHANGED <<linked, server, relay, topicVars, hand, covered, carried, clientVars, crashes>>

(* The runs are cancelled while the robot's own stop is awaited; the       *)
(* handlers of the other topics go on meanwhile.                           *)
OnControl ==
    /\ server = "up" /\ hand = 0 /\ controls # <<>> /\ controls' = Tail(controls)
    /\ hand' = Head(controls)
    /\ covered' = [covered EXCEPT ![hand'] =
                      {r \in Runs : phase[r] \in {"active", "stopping"}}]
    /\ phase' = [r \in Runs |-> IF phase[r] = "active" THEN "stopping" ELSE phase[r]]
    /\ UNCHANGED <<linked, server, relay, commands, cancels, events, results, backlog, carried,
                   clientVars, crashes>>

ReportControl(ok) ==
    /\ hand # 0 /\ hand' = 0
    /\ results' = Heard(results, [id |-> hand, ok |-> ok])
    /\ carried' = IF ok THEN carried \cup {hand} ELSE carried
    /\ UNCHANGED <<linked, server, relay, commands, cancels, controls, events, phase, backlog,
                   covered, clientVars, crashes>>

Relay ==
    /\ relay = "on" /\ backlog # <<>> /\ backlog' = Tail(backlog)
    /\ events' = Heard(events, Head(backlog))
    /\ UNCHANGED <<linked, server, relay, commands, cancels, controls, results, phase, hand,
                   covered, carried, clientVars, crashes>>

(* A publication raises: the relay's task ends and nobody looks at it; its *)
(* queue is discarded, the runs go on.                                     *)
RelayDies ==
    /\ relay = "on" /\ backlog # <<>>
    /\ relay' = "dead" /\ backlog' = <<>>
    /\ UNCHANGED <<linked, server, topicVars, phase, hand, covered, carried, clientVars, crashes>>

(* The robot's process dies with the messages it had not handled.          *)
Crash ==
    /\ server = "up" /\ crashes < MaxCrashes /\ crashes' = crashes + 1
    /\ server' = "down" /\ relay' = "off"
    /\ commands' = <<>> /\ cancels' = <<>> /\ controls' = <<>>
    /\ backlog' = <<>> /\ hand' = 0
    /\ phase' = [r \in Runs |-> IF phase[r] \in {"active", "stopping"} THEN "lost" ELSE phase[r]]
    /\ UNCHANGED <<linked, events, results, covered, carried, clientVars>>

-----------------------------------------------------------------------------
Client ==
    \/ Connect
    \/ \E r \in Runs : Submit(r) \/ Cancel(r)
    \/ \E i \in Stops : EmergencyStop(i) \/ StopTimesOut(i)
    \/ OnControlResult \/ OnEvent \/ TakeEvent

Server ==
    \/ Start \/ RelayRegisters \/ OnCommand \/ OnCancel \/ OnControl
    \/ \E ok \in BOOLEAN : ReportControl(ok)
    \/ \E r \in Runs : RunEnds(r)
    \/ Relay \/ RelayDies \/ Crash

Next == Client \/ Server

Spec == Init /\ [][Next]_skillBusVars

-----------------------------------------------------------------------------
(* An emergency stop that returns normally was carried out for this very   *)
(* call, and no run the worker had when it began goes on uncancelled: a    *)
(* late result of a call that has timed out confirms nothing.              *)
StopWasCarriedOut(i) == i \in carried /\ \A r \in covered[i] : phase[r] # "active"

(* Over the bus, too, the worker keeps the promise of RunLifecycle that    *)
(* SkillWorker keeps: a command that is lost, overtaken or left behind by  *)
(* a crash starts no run twice, and what has ended is over. A run counts   *)
(* as executing from its acceptance.                                       *)
Stage(r) ==
    IF phase[r] \in {"active", "stopping"} THEN "executing"
    ELSE IF phase[r] = "lost" THEN "abandoned"
    ELSE IF phase[r] = "ended" THEN "ended"
    ELSE IF r \in asked THEN "submitted" ELSE "new"
Lifecycle == INSTANCE RunLifecycle WITH
    Run <- Runs, Needs <- [r \in Runs |-> {}], stage <- [r \in Runs |-> Stage(r)]
KeepsLifecycle == Lifecycle!Spec
=============================================================================
