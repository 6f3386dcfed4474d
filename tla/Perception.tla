----------------------------- MODULE Perception -----------------------------
(***************************************************************************)
(* From the camera to an observation. A reader thread keeps the camera's   *)
(* last frame; the driver's observe takes it; PerceptionService lets one   *)
(* observe run at a time and gives its snapshot to those who asked before  *)
(* it ended; the pipeline stores the picture, the store forgets the oldest *)
(* ones; scene entities of an inspected frame join later observations.     *)
(* One robot with one camera. Picture quality, telemetry, artifacts and    *)
(* captions are left out.                                                  *)
(***************************************************************************)
EXTENDS Naturals, Sequences, FiniteSets, SequencesExt, FiniteSetsExt

CONSTANTS
    Skills,      \* runs of skills that use the robot, each through its client
    Loop,        \* the service's observation loop
    MaxFrames,   \* frames the camera delivers; the driver's own count stops there
    MaxItems,    \* pictures the media store keeps
    Lifetime     \* frames for which scene entities are kept (6 in the code)

VARIABLES
    camera,    \* open, stopping, reader, frame (its count), latest (a frame, 0: none)
    driver,    \* state and frame_id
    line,      \* who waits for the refresh lock, in order
    holder,    \* who runs an observe, or nobody
    taken,     \* what that observe got: its frame id and the camera's frame, 0: no picture
    latest,    \* _latest: frame id and picture; picture is NoLook before the first one
    asker,     \* per asker: phase; why it asks; the frame it wants to pass; whether
               \* _refreshed_at >= requested_at; the snapshot it got; and, as history,
               \* the oldest picture that an honest answer can hold
    stored,    \* the pictures in the media store
    entities,  \* _scene_entities_frame_id, 0: none
    evidence   \* per skill: the picture its run's result refers to, and whether pinned

perceptionVars == <<camera, driver, line, holder, taken, latest, asker, stored,
                    entities, evidence>>

Askers == Skills \cup {Loop}
Nobody == "nobody"
NoLook == MaxFrames + 1
Frames == 0..MaxFrames
Look == [frame: Frames, picture: Frames \cup {NoLook}]
Nothing == [frame |-> 0, picture |-> NoLook]
Idle == [phase |-> "idle", why |-> "none", after |-> 0, renewed |-> FALSE,
         got |-> Nothing, floor |-> 0]

TypeOK ==
    /\ camera \in [open: BOOLEAN, stopping: BOOLEAN, reader: BOOLEAN, frame: Frames,
                   latest: Frames]
    /\ driver \in [state: {"created", "idle", "degraded", "closing", "closed"}, frame: Frames]
    /\ line \in BoundedSeq(Askers, Cardinality(Askers)) /\ holder \in Askers \cup {Nobody}
    /\ taken \in Look /\ latest \in Look
    /\ asker \in [Askers -> [phase: {"idle", "asks", "has", "captions"}, after: Frames,
                             why: {"none", "loop", "observe", "evidence", "inspect"},
                             renewed: BOOLEAN, got: Look, floor: Frames]]
    /\ stored \subseteq Frames \ {0} /\ entities \in Frames
    /\ evidence \in [Skills -> [picture: Frames, pinned: BOOLEAN]]

Init ==
    /\ camera = [open |-> FALSE, stopping |-> FALSE, reader |-> FALSE, frame |-> 0,
                 latest |-> 0]
    /\ driver = [state |-> "created", frame |-> 0]
    /\ line = <<>> /\ holder = Nobody /\ taken = Nothing /\ latest = Nothing
    /\ asker = [a \in Askers |-> Idle]
    /\ stored = {} /\ entities = 0
    /\ evidence = [s \in Skills |-> [picture |-> 0, pinned |-> FALSE]]

devices == <<camera, driver>>
requests == <<line, asker>>
refreshes == <<holder, taken, latest, stored>>
scene == <<entities, evidence>>

-----------------------------------------------------------------------------
(* The camera and its reader thread.                                       *)

(* The driver connects: the camera opens or does not; its diagnosis waits  *)
(* for a first frame and decides whether the robot is degraded.            *)
Start ==
    /\ driver.state = "created"
    /\ \E opens \in BOOLEAN : camera' = [camera EXCEPT !.open = opens, !.reader = opens]
    /\ driver' = [driver EXCEPT !.state = "degraded"]
    /\ UNCHANGED <<requests, refreshes, scene>>

Diagnose ==
    /\ driver.state = "degraded" /\ camera.latest # 0 /\ latest = Nothing
    /\ holder = Nobody /\ line = <<>>
    /\ driver' = [driver EXCEPT !.state = "idle"]
    /\ UNCHANGED <<camera, requests, refreshes, scene>>

ReadFrame ==
    /\ camera.reader /\ ~camera.stopping /\ camera.frame < MaxFrames
    /\ camera' = [camera EXCEPT !.frame = @ + 1, !.latest = camera.frame + 1]
    /\ UNCHANGED <<driver, requests, refreshes, scene>>

ReaderEnds ==
    /\ camera.reader /\ camera.stopping
    /\ camera' = [camera EXCEPT !.reader = FALSE]
    /\ UNCHANGED <<driver, requests, refreshes, scene>>

(* Closing asks the reader to stop, waits a second for it, lets go anyway. *)
StopCamera ==
    /\ driver.state \in {"idle", "degraded"}
    /\ driver' = [driver EXCEPT !.state = "closing"]
    /\ camera' = [camera EXCEPT !.stopping = TRUE]
    /\ UNCHANGED <<requests, refreshes, scene>>

CloseCamera ==
    /\ driver.state = "closing"
    /\ driver' = [driver EXCEPT !.state = "closed"]
    /\ camera' = [camera EXCEPT !.open = FALSE, !.latest = 0]
    /\ UNCHANGED <<requests, refreshes, scene>>

-----------------------------------------------------------------------------
(* Asking for a snapshot.                                                  *)
Asks(a, why, after) ==
    /\ asker' = [asker EXCEPT ![a] = [Idle EXCEPT !.phase = "asks", !.why = why,
            !.after = after,
            !.floor = IF taken # Nothing THEN taken.picture ELSE camera.latest]]
    /\ line' = Append(line, a)

Ask(a, why, after) ==
    /\ driver.state # "created" /\ Asks(a, why, after)
    /\ UNCHANGED <<devices, refreshes, scene>>

LoopAsks ==
    /\ asker[Loop].phase = "idle" /\ driver.state \in {"idle", "degraded"}
    /\ Ask(Loop, "loop", 0)

(* A client asks for a frame after the one it knows; for what an action    *)
(* did, which told the driver's frame; to inspect the scene.               *)
ClientObserve(s) == asker[s].phase = "idle" /\ Ask(s, "observe", driver.frame)
ActionEnded(s) == asker[s].phase = "idle" /\ Ask(s, "evidence", driver.frame)
InspectScene(s) == asker[s].phase = "idle" /\ Ask(s, "inspect", 0)

\* mutant: whatever was seen last is handed out
SharesAlways(a) == latest # Nothing

(* A refresh has ended since it was asked for.                             *)
Shares(a) == latest # Nothing /\ asker[a].renewed

TakeShared(a) ==
    /\ holder = Nobody /\ line # <<>> /\ a = Head(line) /\ Shares(a)
    /\ line' = Tail(line)
    /\ asker' = [asker EXCEPT ![a].phase = "has", ![a].got = latest]
    /\ UNCHANGED <<devices, refreshes, scene>>

BeginRefresh(a) ==
    /\ holder = Nobody /\ line # <<>> /\ a = Head(line) /\ ~Shares(a)
    /\ line' = Tail(line) /\ holder' = a /\ taken' = Nothing
    /\ UNCHANGED <<asker, latest, stored, devices, scene>>

LastFrame == IF camera.open THEN camera.latest ELSE 0

(* The driver takes the camera's last frame, or waits in vain: then it     *)
(* counts on by itself.                                                    *)
Capture ==
    /\ holder # Nobody /\ taken = Nothing
    /\ LET picture == LastFrame
           frame == IF picture # 0 THEN picture ELSE Min({driver.frame + 1, MaxFrames})
       IN /\ taken' = [frame |-> frame, picture |-> picture]
          /\ driver' = [driver EXCEPT !.frame = frame]
    /\ UNCHANGED <<camera, holder, latest, stored, requests, scene>>

(* The store keeps the newest pictures. A frame's picture is stored once.  *)
Kept(all) == IF Cardinality(all) > MaxItems THEN all \ {Min(all)} ELSE all
Put(picture) == IF picture \in stored \cup {0} THEN stored ELSE Kept(stored \cup {picture})

EndRefresh ==
    /\ holder # Nobody /\ taken # Nothing
    /\ latest' = taken /\ taken' = Nothing /\ holder' = Nobody
    /\ stored' = IF latest.picture = taken.picture THEN stored ELSE Put(taken.picture)
    /\ asker' = [a \in Askers |->
            IF a = holder THEN [asker[a] EXCEPT !.phase = "has", !.got = taken]
            ELSE [asker[a] EXCEPT !.renewed = (@ \/ a \in Range(line))]]
    /\ UNCHANGED <<line, devices, scene>>

(* The observe raises, or its caller's time is over.                       *)
RefreshFails ==
    /\ holder # Nobody
    /\ asker' = [asker EXCEPT ![holder] = Idle]
    /\ holder' = Nobody /\ taken' = Nothing
    /\ UNCHANGED <<latest, stored, line, devices, scene>>

GiveUp(s) ==
    /\ asker[s].phase = "asks" /\ asker[s].why = "observe" /\ holder # s
    /\ \E i \in 1..Len(line) : line[i] = s /\ line' = RemoveAt(line, i)
    /\ asker' = [asker EXCEPT ![s] = Idle]
    /\ UNCHANGED <<devices, refreshes, scene>>

-----------------------------------------------------------------------------
(* What the askers do with it.                                             *)

(* Entities of an inspected frame join what is observed, for a while.      *)
Expired(frame) == entities # 0 /\ frame > entities + Lifetime
Joined(frame) == IF Expired(frame) THEN 0 ELSE entities

Leave(a) == asker' = [asker EXCEPT ![a] = Idle]

Publish ==
    /\ asker[Loop].phase = "has"
    /\ entities' = Joined(asker[Loop].got.frame)
    /\ Leave(Loop)
    /\ UNCHANGED <<evidence, line, devices, refreshes>>

Observed(s) ==
    /\ asker[s].phase = "has" /\ asker[s].why = "observe" /\ asker[s].got.frame > asker[s].after
    /\ entities' = Joined(asker[s].got.frame)
    /\ Leave(s)
    /\ UNCHANGED <<evidence, line, devices, refreshes>>

LookAgain(s) ==
    /\ asker[s].phase = "has" /\ asker[s].why = "observe" /\ asker[s].got.frame <= asker[s].after
    /\ Ask(s, "observe", asker[s].after)

(* An action's evidence must not be older than the frame it ended with.    *)
KeepEvidence(s) ==
    /\ asker[s].phase = "has" /\ asker[s].why = "evidence"
    /\ entities' = Joined(asker[s].got.frame)
    /\ evidence' = [evidence EXCEPT ![s].picture =
            IF asker[s].got.frame >= asker[s].after THEN asker[s].got.picture ELSE 0, ![s].pinned = FALSE]
    /\ Leave(s)
    /\ UNCHANGED <<line, devices, refreshes>>

(* The run ends: its pictures are copied if the store still has them.      *)
PinEvidence(s) ==
    /\ evidence[s].picture \in stored
    /\ evidence' = [evidence EXCEPT ![s].pinned = TRUE]
    /\ UNCHANGED <<entities, devices, requests, refreshes>>

StartCaption(s) ==
    /\ asker[s].phase = "has" /\ asker[s].why = "inspect" /\ asker[s].got.picture # 0
    /\ asker' = [asker EXCEPT ![s].phase = "captions"]
    /\ UNCHANGED <<line, devices, refreshes, scene>>

NoPicture(s) ==
    /\ asker[s].phase = "has" /\ asker[s].why = "inspect" /\ asker[s].got.picture = 0
    /\ Leave(s)
    /\ UNCHANGED <<line, devices, refreshes, scene>>

(* The captioner answers; only a picture it could open shows entities. To  *)
(* look around is to inspect, turn and inspect again.                      *)
Answered(s) ==
    /\ asker[s].phase = "captions"
    /\ \/ asker[s].got.picture \in stored /\ entities' = asker[s].got.frame
       \/ UNCHANGED entities
    /\ UNCHANGED <<evidence, devices, refreshes>>

Captioned(s) == Answered(s) /\ Leave(s) /\ UNCHANGED line
LookAround(s) == Answered(s) /\ Asks(s, "inspect", 0)

-----------------------------------------------------------------------------
Skill(s) ==
    \/ ClientObserve(s) \/ ActionEnded(s) \/ InspectScene(s) \/ GiveUp(s)
    \/ Observed(s) \/ LookAgain(s) \/ KeepEvidence(s) \/ PinEvidence(s)
    \/ StartCaption(s) \/ NoPicture(s) \/ Captioned(s) \/ LookAround(s)

Next ==
    \/ Start \/ Diagnose \/ ReadFrame \/ ReaderEnds \/ StopCamera \/ CloseCamera
    \/ LoopAsks \/ Publish
    \/ \E a \in Askers : TakeShared(a) \/ BeginRefresh(a)
    \/ Capture \/ EndRefresh \/ RefreshFails
    \/ \E s \in Skills : Skill(s)

Spec == Init /\ [][Next]_perceptionVars

-----------------------------------------------------------------------------
(* A picture handed out is not older than the camera's when it was asked   *)
(* for, or than the one of the observe that was then under way.            *)
SeenSinceAsked == \A a \in Askers :
    asker[a].phase \in {"has", "captions"} /\ asker[a].got.picture # 0
        => asker[a].got.picture >= asker[a].floor
=============================================================================
