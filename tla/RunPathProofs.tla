---------------------------- MODULE RunPathProofs ----------------------------
(***************************************************************************)
(* Theorems about RunPath, for every value of the constants.  Each         *)
(* component has an inductive invariant of its own; a step of another      *)
(* leaves its variables alone (RunPathSteps).                              *)
(*                                                                         *)
(* The media store needs the longest argument. Listings and unlinks of     *)
(* several processes may come in any order, so the invariant says of every *)
(* object that is gone or doomed that max_items newer ones were written    *)
(* (NewestInv), which later steps never undo; and of the files no put is   *)
(* still to list that they keep the limit but for those one listing has    *)
(* doomed (LimitInv).                                                      *)
(*                                                                         *)
(* Types. A component's types are its invariant and a predicate ...Rest    *)
(* that bounds what the invariant leaves open.                             *)
(***************************************************************************)
EXTENDS RunPath, SequenceTheorems, FiniteSetTheorems, WellFoundedInduction,
        TLAPS

(* Whichever component moves, each one steps or stutters.                  *)
LEMMA RunPathSteps ==
    ASSUME [RunPathNext]_runPathVars
    PROVE  /\ [Ad!Next]_(Ad!driveVars) /\ [Sb!Next]_(Sb!skillBusVars)
           /\ [Rs!Next]_(Rs!storeVars) /\ [Dp!Next]_(Dp!deploymentVars)
           /\ [Md!Next]_(Md!mediaVars) /\ [Hf!Next]_(Hf!vars)
BY DEF RunPathNext, runPathVars, DriveStep, BusStep, StoreStep, MediaStep, DeploymentStep,
   FollowStep, driveVars, busVars, storeVars, mediaVars, deploymentVars, followVars,
   Ad!driveVars, Sb!skillBusVars, Sb!topicVars, Sb!workerVars, Sb!clientVars,
   Rs!storeVars, Md!mediaVars, Dp!deploymentVars, Hf!vars

-----------------------------------------------------------------------------
(* The drive of the agent.                                                 *)
Places == Ad!Ended \cup {"model", "tool"}
Records == [at : Places, turns : Nat, cancelled : BOOLEAN, messages : Seq(Ad!Roles)]
CallerRecords ==
    [at : {"idle", "queued", "aborting", "joined"}, on : Ad!Drives \cup {0}]

DriveShape ==
    /\ caller \in [Ad!Callers -> CallerRecords]
    /\ drive \in [Ad!Drives -> Records]
    /\ current \in Ad!Drives \cup {0}
    /\ driveTalk \in Seq({"user", "text"})

NothingBeside == \A d \in Ad!Drives : Ad!Running(d) => d = current

JoinedOn(c, d) == caller[c].at = "joined" /\ caller[c].on = d

CurrentIsAwaited == current # 0 => \E c \in Ad!Callers : JoinedOn(c, current)

\* A request: the policy, and every call with its result behind it.
Whole(m) ==
    /\ m \in Seq(Ad!Roles) /\ Len(m) > 1
    /\ m[1] = "system" /\ m[Len(m)] \in {"user", "result"}
    /\ \A i \in 2..Len(m) : (m[i] = "result") <=> (m[i - 1] = "call")

AllWhole == \A d \in Ad!Drives : drive[d].at \in {"model", "tool"} => Whole(drive[d].messages)

DriveInv == DriveShape /\ NothingBeside /\ CurrentIsAwaited /\ AllWhole

-----------------------------------------------------------------------------
\* Three callers, of whom one waits for the current drive, leave a drive free.
LEMMA FreeIsFree ==
    ASSUME DriveInv
    PROVE  /\ Ad!Free \in Ad!Drives /\ Ad!Free # current /\ ~Ad!Running(Ad!Free)
           /\ \A c \in Ad!Callers : caller[c].on # Ad!Free
<1> DEFINE a == caller["turn"].on
           b == caller["event"].on
           e == caller["control"].on
<1>1. current = 0 \/ current \in {a, b, e}
  BY DEF DriveInv, CurrentIsAwaited, JoinedOn, Ad!Callers
<1>2. PICK d \in Ad!Drives : d # a /\ d # b /\ d # e
  <2>1. 1 \in Ad!Drives /\ 2 \in Ad!Drives /\ 3 \in Ad!Drives /\ 4 \in Ad!Drives
    BY DEF Ad!Drives
  <2> HIDE DEF a, b, e
  <2> QED
    BY <2>1
<1>3. d # current /\ d # 0
  BY <1>1, <1>2 DEF Ad!Drives
<1>4. ~Ad!Running(d)
  BY <1>3 DEF DriveInv, NothingBeside
<1>5. \A c \in Ad!Callers : caller[c].on # d
  BY <1>2 DEF Ad!Callers
<1> QED
  BY <1>3, <1>4, <1>5 DEF Ad!Free

\* The contexts are whole requests.
LEMMA ContextsAreWhole ==
    ASSUME driveTalk \in Seq({"user", "text"})
    PROVE  Whole(Ad!ForCommand) /\ Whole(Ad!ForResume)
<1>1. driveTalk \in Seq(Ad!Roles)
  BY SeqMonotonic DEF Ad!Roles
<1> DEFINE n == Len(driveTalk)
<1>2. n \in Nat /\ \A i \in 1..n : driveTalk[i] \in {"user", "text"}
  OBVIOUS
<1>3. Whole(Ad!ForCommand)
  <2> DEFINE m == Ad!ForCommand
  <2>1. m \in Seq(Ad!Roles) /\ Len(m) = n + 2
    BY <1>1 DEF Ad!ForCommand, Ad!Roles
  <2>2. /\ m[1] = "system" /\ m[n + 2] = "user"
        /\ \A i \in 2..(n + 1) : m[i] = driveTalk[i - 1]
    BY <1>1, <1>2 DEF Ad!ForCommand, Ad!Roles
  <2>3. \A i \in 2..(n + 1) : m[i] \in {"user", "text"}
    BY <1>2, <2>2
  <2> HIDE DEF m
  <2>4. \A i \in 1..(n + 2) : m[i] \notin {"call", "result"}
    BY <1>2, <2>2, <2>3
  <2>5. \A i \in 2..Len(m) : m[i] # "result" /\ m[i - 1] # "call"
    BY <1>2, <2>1, <2>4
  <2>6. Whole(m)
    BY <1>2, <2>1, <2>2, <2>5 DEF Whole
  <2> QED
    BY <2>6 DEF m
<1>4. Whole(Ad!ForResume)
  <2> DEFINE m == Ad!ForResume
  <2>1. m \in Seq(Ad!Roles) /\ Len(m) = n + 3
    BY <1>1 DEF Ad!ForResume, Ad!Roles
  <2>2. /\ m[1] = "system" /\ m[n + 2] = "call" /\ m[n + 3] = "result"
        /\ \A i \in 2..(n + 1) : m[i] = driveTalk[i - 1]
    BY <1>1, <1>2 DEF Ad!ForResume, Ad!Roles
  <2>3. \A i \in 2..(n + 1) : m[i] \in {"user", "text"}
    BY <1>2, <2>2
  <2> HIDE DEF m
  <2>4. \A i \in 1..(n + 1) : m[i] \notin {"call", "result"}
    BY <1>2, <2>2, <2>3
  <2>5. \A i \in 2..Len(m) : (m[i] = "result") <=> (m[i - 1] = "call")
    <3> TAKE i \in 2..Len(m)
    <3>1. CASE i \in 2..(n + 1)
      BY <1>2, <2>1, <2>4, <3>1
    <3>2. CASE i = n + 2
      BY <1>2, <2>1, <2>2, <2>4, <3>2
    <3>3. CASE i = n + 3
      BY <1>2, <2>1, <2>2, <3>3
    <3> QED
      BY <1>2, <2>1, <3>1, <3>2, <3>3
  <2>6. Whole(m)
    BY <1>2, <2>1, <2>2, <2>5 DEF Whole
  <2> QED
    BY <2>6 DEF m
<1> QED
  BY <1>3, <1>4

\* What a drive appends keeps a request whole.
LEMMA GrowsWhole ==
    ASSUME NEW m, Whole(m), NEW more \in {Ad!ToolResult, <<"text", "user">>, <<>>}
    PROVE  Whole(m \o more)
<1> DEFINE n == Len(m)
           g == m \o more
<1>1. /\ m \in Seq(Ad!Roles) /\ n \in Nat /\ n > 1
      /\ m[1] = "system" /\ m[n] \in {"user", "result"}
      /\ \A i \in 2..n : (m[i] = "result") <=> (m[i - 1] = "call")
  BY DEF Whole
<1>2. CASE more = <<>>
  BY <1>1, <1>2, ConcatEmptySeq
<1>3. ASSUME NEW x \in Ad!Roles, NEW y \in {"user", "result"}, more = <<x, y>>,
             x = "call" <=> y = "result", x # "result"
      PROVE  Whole(g)
  <2>1. g \in Seq(Ad!Roles) /\ Len(g) = n + 2
    BY <1>1, <1>3 DEF Ad!Roles
  <2>2. g[n + 1] = x /\ g[n + 2] = y /\ \A i \in 1..n : g[i] = m[i]
    BY <1>1, <1>3 DEF Ad!Roles
  <2> HIDE DEF g
  <2>3. \A i \in 2..Len(g) : (g[i] = "result") <=> (g[i - 1] = "call")
    <3> TAKE i \in 2..Len(g)
    <3>1. CASE i \in 2..n
      BY <1>1, <2>2, <3>1
    <3>2. CASE i = n + 1
      BY <1>1, <1>3, <2>2, <3>2
    <3>3. CASE i = n + 2
      BY <1>1, <1>3, <2>2, <3>3
    <3> QED
      BY <1>1, <2>1, <3>1, <3>2, <3>3
  <2> QED
    BY <1>1, <1>3, <2>1, <2>2, <2>3 DEF Whole
<1> QED
  BY <1>2, <1>3 DEF Ad!ToolResult, Ad!Roles

LEMMA SaidIsTalk ==
    ASSUME driveTalk \in Seq({"user", "text"}), NEW role \in {"user", "text"}
    PROVE  Ad!Said(role) \in Seq({"user", "text"})
<1> DEFINE all == Append(driveTalk, role)
           T == {"user", "text"}
<1>1. all \in Seq(T) /\ Len(all) \in Nat
  OBVIOUS
<1> HIDE DEF all
<1>2. \A i \in 1..Len(all) : all[i] \in T
  BY <1>1
<1>3. SubSeq(all, 1, Len(all)) \in Seq(T)
  BY <1>1, <1>2, SubSeqProperties
<1>4. SubSeq(all, 2, Len(all)) \in Seq(T)
  BY <1>1, <1>2, SubSeqProperties
<1> QED
  BY <1>3, <1>4 DEF Ad!Said, all

-----------------------------------------------------------------------------
LEMMA DriveInit == Ad!Init => DriveInv
BY DEF Ad!Init, DriveInv, DriveShape, NothingBeside, CurrentIsAwaited, AllWhole,
   Ad!Running, Records, CallerRecords, Places, Ad!Ended, Ad!Unused, Ad!Idle, Ad!Drives

\* The caller joins the drive that runs, or a new one.
LEMMA LaunchDriveKeeps ==
    ASSUME DriveInv, NEW c \in Ad!Callers, ~(caller[c].at = "joined"),
           NEW m, Whole(m), Ad!LaunchDrive(c, m), driveTalk' \in Seq({"user", "text"})
    PROVE  DriveInv'
<1>1. CASE Ad!Joins(current)
  <2>1. /\ caller' = [caller EXCEPT ![c] = [at |-> "joined", on |-> current]]
        /\ UNCHANGED <<drive, current>>
    BY <1>1 DEF Ad!LaunchDrive
  <2>2. DriveShape'
    BY <2>1 DEF DriveInv, DriveShape, CallerRecords
  <2>3. CurrentIsAwaited'
    BY <2>1 DEF DriveInv, DriveShape, CurrentIsAwaited, JoinedOn, CallerRecords
  <2>4. NothingBeside' /\ AllWhole'
    BY <2>1 DEF DriveInv, NothingBeside, AllWhole, Ad!Running
  <2> QED
    BY <2>2, <2>3, <2>4 DEF DriveInv
<1>2. CASE ~Ad!Joins(current)
  <2> DEFINE f == Ad!Free
             new == [Ad!Unused EXCEPT !.at = "model", !.messages = m]
  <2>1. /\ caller' = [caller EXCEPT ![c] = [at |-> "joined", on |-> f]]
        /\ drive' = [drive EXCEPT ![f] = new] /\ current' = f
    BY <1>2 DEF Ad!LaunchDrive
  <2>2. f \in Ad!Drives
    BY FreeIsFree
  <2>3. new \in Records /\ new.at = "model" /\ new.messages = m
    BY DEF Records, Places, Ad!Ended, Ad!Unused, Whole
  <2>4. \A d \in Ad!Drives : ~Ad!Running(d)
    BY <1>2 DEF DriveInv, NothingBeside, Ad!Joins
  <2> HIDE DEF f, new
  <2>5. DriveShape'
    BY <2>1, <2>2, <2>3 DEF DriveInv, DriveShape, CallerRecords
  <2>6. \A d \in Ad!Drives \ {f} : drive'[d] = drive[d]
    BY <2>1 DEF DriveInv, DriveShape
  <2>7. NothingBeside'
    BY <2>1, <2>4, <2>6 DEF NothingBeside, Ad!Running
  <2>8. CurrentIsAwaited'
    BY <2>1 DEF DriveInv, DriveShape, CurrentIsAwaited, JoinedOn
  <2>9. drive'[f] = new
    BY <2>1, <2>2 DEF DriveInv, DriveShape
  <2>10. AllWhole'
    BY <2>3, <2>6, <2>9 DEF DriveInv, AllWhole
  <2> QED
    BY <2>5, <2>7, <2>8, <2>10 DEF DriveInv
<1> QED
  BY <1>1, <1>2

\* A caller that does not wait for a drive may go anywhere else.
LEMMA WaitsElsewhere ==
    ASSUME DriveInv, NEW c \in Ad!Callers, ~(caller[c].at = "joined"), NEW r \in CallerRecords,
           caller' = [caller EXCEPT ![c] = r], UNCHANGED <<drive, current>>,
           driveTalk' \in Seq({"user", "text"})
    PROVE  DriveInv'
BY DEF DriveInv, DriveShape, NothingBeside, CurrentIsAwaited, AllWhole, JoinedOn,
   Ad!Running

LEMMA LaunchKeeps ==
    ASSUME DriveInv, NEW c \in Ad!Callers, ~(caller[c].at = "joined"), Ad!Launch(c)
    PROVE  DriveInv'
<1>1. driveTalk \in Seq({"user", "text"})
  BY DEF DriveInv, DriveShape
<1>2. CASE Ad!Running(current)
  BY <1>1, <1>2, WaitsElsewhere DEF Ad!Launch, CallerRecords, DriveInv, DriveShape
<1>3. CASE ~Ad!Running(current)
  BY <1>1, <1>3, SaidIsTalk, ContextsAreWhole, LaunchDriveKeeps DEF Ad!Launch
<1> QED
  BY <1>2, <1>3

\* A step of a running drive: it goes on with a whole request, or ends.
LEMMA DriveToKeeps ==
    ASSUME DriveInv, NEW d \in Ad!Drives, Ad!Running(d), NEW place \in Places, NEW more, NEW turns \in Nat,
           place \in Ad!Ended \/ more \in {Ad!ToolResult, <<"text", "user">>, <<>>},
           Ad!DriveTo(d, place, more, turns)
    PROVE  DriveInv'
<1> DEFINE old == drive[d]
           ends == [Ad!Unused EXCEPT !.at = place]
           goes == [old EXCEPT !.at = place, !.turns = turns, !.messages = old.messages \o more]
           new == IF place \in Ad!Ended THEN ends ELSE goes
<1>1. drive' = [drive EXCEPT ![d] = new] /\ UNCHANGED <<caller, current, driveTalk>>
  <2>1. CASE place \in Ad!Ended
    BY <2>1 DEF Ad!DriveTo
  <2>2. CASE place \notin Ad!Ended
    BY <2>2 DEF Ad!DriveTo
  <2> QED
    BY <2>1, <2>2
<1>2. old \in Records /\ d = current
  BY DEF DriveInv, DriveShape, NothingBeside
<1>3. new \in Records /\ (new.at \in {"model", "tool"} => Whole(new.messages))
  <2>1. CASE place \in Ad!Ended
    <3> HIDE DEF new
    <3>1. ends \in Records /\ ends.at = place
      <4>1. Ad!Unused \in Records
        BY DEF Ad!Unused, Records, Places, Ad!Ended
      <4> QED
        BY <4>1 DEF Records
    <3>2. new = ends /\ place \notin {"model", "tool"}
      BY <2>1 DEF Ad!Ended, new
    <3> QED
      BY <3>1, <3>2
  <2>2. CASE place \notin Ad!Ended
    <3>1. Whole(old.messages)
      BY DEF DriveInv, AllWhole, Ad!Running
    <3>2. Whole(old.messages \o more)
      BY <2>2, <3>1, GrowsWhole
    <3>3. new.messages = old.messages \o more /\ new \in Records
      BY <1>2, <2>2, <3>2 DEF Records, Whole
    <3> QED
      BY <3>2, <3>3
  <2> QED
    BY <2>1, <2>2
<1> HIDE DEF new
<1>4. DriveShape'
  BY <1>1, <1>3 DEF DriveInv, DriveShape
<1>5. \A e \in Ad!Drives \ {d} : drive'[e] = drive[e]
  BY <1>1 DEF DriveInv, DriveShape
<1>6. drive'[d] = new
  BY <1>1 DEF DriveInv, DriveShape
<1>7. NothingBeside' /\ CurrentIsAwaited' /\ AllWhole'
  BY <1>1, <1>2, <1>3, <1>5, <1>6 DEF DriveInv, NothingBeside, CurrentIsAwaited, JoinedOn,
     AllWhole, Ad!Running
<1> QED
  BY <1>4, <1>7 DEF DriveInv

LEMMA DriveKeeps == DriveInv /\ [Ad!Next]_(Ad!driveVars) => DriveInv'
<1> SUFFICES ASSUME DriveInv, [Ad!Next]_(Ad!driveVars) PROVE DriveInv'
  OBVIOUS
<1>1. driveTalk \in Seq({"user", "text"}) /\ caller \in [Ad!Callers -> CallerRecords]
      /\ drive \in [Ad!Drives -> Records] /\ "turn" \in Ad!Callers
  BY DEF DriveInv, DriveShape, Ad!Callers
<1>2. CASE Ad!Prompt \/ Ad!Aborted
  BY <1>1, <1>2, LaunchKeeps DEF Ad!Prompt, Ad!Aborted, Ad!Idle
<1>3. CASE Ad!Note
  BY <1>1, <1>3, SaidIsTalk DEF Ad!Note, DriveInv, DriveShape, NothingBeside,
     CurrentIsAwaited, JoinedOn, AllWhole, Ad!Running
<1>4. CASE Ad!Steer
  <2>1. CASE ~Ad!Running(current)
    BY <1>1, <1>4, <2>1, LaunchKeeps DEF Ad!Steer, Ad!Idle
  <2>2. CASE Ad!Running(current)
    <3> DEFINE old == drive[current]
               new == [old EXCEPT !.cancelled = TRUE]
    <3>1. /\ drive' = [drive EXCEPT ![current] = new] /\ UNCHANGED <<current, driveTalk>>
          /\ caller' = [caller EXCEPT !["turn"] = [at |-> "aborting", on |-> current]]
          /\ caller["turn"].at # "joined"
      BY <1>4, <2>2 DEF Ad!Steer, Ad!Idle
    <3>2. current \in Ad!Drives /\ old \in Records
      BY <2>2 DEF DriveInv, DriveShape, Ad!Running
    <3>3. new \in Records /\ new.at = old.at /\ new.messages = old.messages
      BY <3>2 DEF Records
    <3> HIDE DEF new
    <3>4. \A e \in Ad!Drives : drive'[e].at = drive[e].at /\ drive'[e].messages = drive[e].messages
      BY <1>1, <3>1, <3>2, <3>3
    <3>5. DriveShape'
      BY <3>1, <3>2, <3>3 DEF DriveInv, DriveShape, CallerRecords
    <3>6. NothingBeside' /\ AllWhole'
      BY <3>1, <3>4 DEF DriveInv, NothingBeside, AllWhole, Ad!Running
    <3>7. CurrentIsAwaited'
      BY <1>1, <3>1 DEF DriveInv, CurrentIsAwaited, JoinedOn
    <3> QED
      BY <3>5, <3>6, <3>7 DEF DriveInv
  <2> QED
    BY <2>1, <2>2
<1>5. CASE Ad!Queued
  BY <1>1, <1>5, SaidIsTalk, ContextsAreWhole, LaunchDriveKeeps DEF Ad!Queued
<1>6. ASSUME NEW c \in Ad!Callers, Ad!Resume(c) PROVE DriveInv'
  BY <1>1, <1>6, ContextsAreWhole, LaunchDriveKeeps DEF Ad!Resume, Ad!Idle
<1>7. ASSUME NEW c \in Ad!Callers, Ad!Return(c) PROVE DriveInv'
  <2> DEFINE d == caller[c].on
  <2>1. /\ caller[c].at = "joined" /\ ~Ad!Running(d)
        /\ current' = IF current = d THEN 0 ELSE current
        /\ caller' = [caller EXCEPT ![c] = Ad!Idle]
        /\ drive' = drive \/ drive' = [drive EXCEPT ![d] = Ad!Unused]
    BY <1>7 DEF Ad!Return
  <2>2. driveTalk' \in Seq({"user", "text"})
    BY <1>1, <1>7, SaidIsTalk DEF Ad!Return
  <2>3. Ad!Unused \in Records /\ Ad!Idle \in CallerRecords
    BY DEF Ad!Unused, Ad!Idle, Records, CallerRecords, Places, Ad!Ended, Ad!Drives
  <2>4. DriveShape'
    BY <1>1, <2>1, <2>2, <2>3 DEF DriveInv, DriveShape
  <2>5. \A e \in Ad!Drives : Ad!Running(e)' => Ad!Running(e) /\ e # d /\ drive'[e] = drive[e]
    BY <1>1, <2>1 DEF Ad!Running, Ad!Unused
  <2>6. NothingBeside'
    BY <2>1, <2>5 DEF DriveInv, NothingBeside
  <2>7. CurrentIsAwaited'
    BY <1>1, <2>1 DEF DriveInv, CurrentIsAwaited, JoinedOn
  <2>8. \A e \in Ad!Drives : drive'[e].at \in {"model", "tool"} => drive'[e] = drive[e]
    BY <1>1, <2>1 DEF Ad!Unused
  <2>9. AllWhole'
    BY <2>8 DEF DriveInv, AllWhole
  <2> QED
    BY <2>4, <2>6, <2>7, <2>9 DEF DriveInv
<1>8. ASSUME NEW d \in Ad!Drives,
             Ad!TimesOut(d) \/ Ad!Fails(d) \/ Ad!Proposes(d) \/ Ad!Chats(d) \/ Ad!Acts(d) \/ Ad!Aborts(d)
      PROVE  DriveInv'
  <2>1. Ad!Running(d) /\ drive[d].turns \in Nat /\ drive[d].turns + 1 \in Nat
    <3>1. d # 0 /\ drive[d] \in Records
      BY <1>1 DEF Ad!Drives
    <3>2. drive[d].at \in {"model", "tool"}
      BY <1>8 DEF Ad!TimesOut, Ad!Fails, Ad!Proposes, Ad!Chats, Ad!Acts, Ad!Aborts,
         Ad!Decided, Ad!Deciding, Ad!Running
    <3> QED
      BY <3>1, <3>2 DEF Ad!Running, Records
  <2>2. {"model", "tool", "replied", "waiting", "aborted"} \in SUBSET Places
        /\ {"replied", "waiting", "aborted"} \in SUBSET Ad!Ended
    BY DEF Places, Ad!Ended
  <2>3. CASE Ad!TimesOut(d) \/ Ad!Fails(d) \/ Ad!Aborts(d)
    BY <2>1, <2>2, <2>3, DriveToKeeps DEF Ad!TimesOut, Ad!Fails, Ad!Aborts
  <2>4. CASE Ad!Proposes(d)
    BY <2>1, <2>2, <2>4, DriveToKeeps DEF Ad!Proposes
  <2>5. CASE Ad!Chats(d)
    BY <2>1, <2>2, <2>5, DriveToKeeps DEF Ad!Chats, Ad!GoOn
  <2>6. CASE Ad!Acts(d)
    BY <2>1, <2>2, <2>6, DriveToKeeps DEF Ad!Acts, Ad!GoOn
  <2> QED
    BY <1>8, <2>3, <2>4, <2>5, <2>6
<1>9. CASE UNCHANGED Ad!driveVars
  BY <1>9 DEF Ad!driveVars, DriveInv, DriveShape, NothingBeside, CurrentIsAwaited,
     JoinedOn, AllWhole, Ad!Running
<1> QED
  BY <1>2, <1>3, <1>4, <1>5, <1>6, <1>7, <1>8, <1>9 DEF Ad!Next

LEMMA DriveInvariant == RunPathSpec => []DriveInv
<1>1. RunPathInit => DriveInv
  BY DriveInit DEF RunPathInit
<1>2. DriveInv /\ [RunPathNext]_runPathVars => DriveInv'
  BY DriveKeeps, RunPathSteps
<1> QED
  BY <1>1, <1>2, PTL DEF RunPathSpec

\* However turns, events and controls meet, one drive of the session runs at most, and
\* some caller waits for it (agent.py, _launch_drive and abort_inference).
THEOREM DrivesExclude == RunPathSpec => []OneDrive
<1>1. ASSUME DriveInv PROVE OneDrive
  <2> SUFFICES ASSUME NEW d \in Ad!Drives, Ad!Running(d)
               PROVE  /\ \A e \in Ad!Drives : Ad!Running(e) => e = d
                      /\ \E c \in Ad!Callers : caller[c] = [at |-> "joined", on |-> d]
    BY DEF OneDrive, Ad!OneDrive
  <2>1. d = current
    BY <1>1 DEF DriveInv, NothingBeside
  <2>2. PICK c \in Ad!Callers : JoinedOn(c, d)
    BY <1>1, <2>1 DEF DriveInv, CurrentIsAwaited, Ad!Running
  <2>3. caller[c] \in CallerRecords
    BY <1>1 DEF DriveInv, DriveShape
  <2>4. caller[c] = [at |-> "joined", on |-> d]
    BY <2>2, <2>3 DEF JoinedOn, CallerRecords
  <2> QED
    BY <1>1, <2>1, <2>4 DEF DriveInv, NothingBeside
<1> QED
  BY <1>1, DriveInvariant, PTL

\* Every request to the model begins with the policy and asks for something, and every
\* tool call in it is followed by its result (context_builder.py, agent.py _drive).
THEOREM RequestsStayWhole == RunPathSpec => []Ad!RequestsAreWhole
<1>1. ASSUME DriveInv PROVE Ad!RequestsAreWhole
  <2>1. ASSUME NEW d \in Ad!Drives, drive[d].at = "model"
        PROVE  LET asked == drive[d].messages
               IN  /\ asked[1] = "system" /\ Ad!Last(asked) \in {"user", "result"}
                   /\ \A i \in 2..Len(asked) : (asked[i] = "result") <=> (asked[i - 1] = "call")
    BY <1>1, <2>1 DEF DriveInv, AllWhole, Whole, Ad!Last
  <2> QED
    BY <2>1 DEF Ad!RequestsAreWhole
<1> QED
  BY <1>1, DriveInvariant, PTL

-----------------------------------------------------------------------------
(* The skill bus.                                                          *)
\* What the robot answers to a control.
BusAnswers == [id : Sb!Stops, ok : BOOLEAN]

\* The types of what the argument looks at.
BusShape ==
    /\ busCommands \in Seq(Runs) /\ busAsked \in SUBSET Runs
    /\ busResults \in Seq(BusAnswers)
    /\ busControls \in Seq(Sb!Stops) /\ busHand \in Sb!Stops \cup {0}
    /\ busPhase \in [Runs -> {"none", "active", "stopping", "ended", "lost"}]
    /\ covered \in [Sb!Stops -> SUBSET Runs] /\ carried \in SUBSET Sb!Stops
    /\ stop \in [Sb!Stops -> {"none", "waiting", "confirmed", "failed"}]

\* A command on its way is of a run the worker does not know, and the only one.
CommandsAreNew ==
    \A i \in 1..Len(busCommands) :
        /\ busCommands[i] \in busAsked /\ busPhase[busCommands[i]] = "none"
        /\ \A j \in 1..Len(busCommands) : busCommands[i] = busCommands[j] => i = j

KnownWasAsked == \A r \in Runs : busPhase[r] # "none" => r \in busAsked

CoveredIsOver ==
    \A i \in Sb!Stops : \A r \in covered[i] : busPhase[r] \notin {"none", "active"}

ResultsAreTrue ==
    \A k \in 1..Len(busResults) : busResults[k].ok => busResults[k].id \in carried

ConfirmedIsCarried == \A i \in Sb!Stops : stop[i] = "confirmed" => i \in carried

BusInv == /\ BusShape /\ CommandsAreNew /\ KnownWasAsked /\ CoveredIsOver
        /\ ResultsAreTrue /\ ConfirmedIsCarried

-----------------------------------------------------------------------------
LEMMA BusInit == Sb!Init => BusInv
BY DEF Sb!Init, BusInv, BusShape, CommandsAreNew, KnownWasAsked, CoveredIsOver,
   ResultsAreTrue, ConfirmedIsCarried

\* The steps that touch none of what the invariant is about.
LEMMA BusFrameKeeps ==
    ASSUME BusInv,
           UNCHANGED <<busCommands, busControls, busResults, busPhase, busHand, covered, carried, busAsked, stop>>
    PROVE  BusInv'
BY DEF BusInv, BusShape, CommandsAreNew, KnownWasAsked, CoveredIsOver, ResultsAreTrue,
   ConfirmedIsCarried

\* The client's steps.
LEMMA ClientKeeps == ASSUME BusInv, Sb!Client PROVE BusInv'
<1>1. ASSUME NEW r \in Runs, Sb!Submit(r) PROVE BusInv'
  <2>1. /\ busCommands' \in Seq(Runs) /\ Len(busCommands') \in Nat
        /\ \A i \in 1..Len(busCommands') : busCommands'[i] = r \/
              (i \in 1..Len(busCommands) /\ busCommands'[i] = busCommands[i])
        /\ \A i \in 1..Len(busCommands') : i \in 1..Len(busCommands) \/ i = Len(busCommands')
    BY <1>1 DEF Sb!Submit, Sb!Published, BusInv, BusShape
  <2>2. busPhase[r] = "none" /\ \A i \in 1..Len(busCommands) : busCommands[i] # r
    BY <1>1 DEF Sb!Submit, BusInv, KnownWasAsked, CommandsAreNew
  <2>3. CommandsAreNew'
    <3>1. CASE busCommands' = busCommands
      BY <1>1, <2>2, <3>1 DEF Sb!Submit, Sb!workerVars, BusInv, CommandsAreNew
    <3>2. CASE busCommands' = Append(busCommands, r)
      BY <1>1, <2>2, <3>2 DEF Sb!Submit, Sb!workerVars, BusInv, BusShape, CommandsAreNew
    <3> QED
      BY <1>1, <3>1, <3>2 DEF Sb!Submit, Sb!Published
  <2> QED
    BY <1>1, <2>1, <2>3 DEF Sb!Submit, Sb!workerVars, BusInv, BusShape, KnownWasAsked,
       CoveredIsOver, ResultsAreTrue, ConfirmedIsCarried
<1>2. ASSUME NEW i \in Sb!Stops, Sb!EmergencyStop(i) PROVE BusInv'
  BY <1>2 DEF Sb!EmergencyStop, Sb!Published, Sb!workerVars, BusInv, BusShape,
     CommandsAreNew, KnownWasAsked, CoveredIsOver, ResultsAreTrue, ConfirmedIsCarried
<1>3. ASSUME NEW i \in Sb!Stops, Sb!StopTimesOut(i) PROVE BusInv'
  BY <1>3 DEF Sb!StopTimesOut, Sb!workerVars, Sb!topicVars, BusInv, BusShape,
     CommandsAreNew, KnownWasAsked, CoveredIsOver, ResultsAreTrue, ConfirmedIsCarried
<1>4. CASE Sb!OnControlResult
  <2> DEFINE head == Head(busResults)
  <2>1. head \in BusAnswers /\ (head.ok => head.id \in carried)
    <3>1. 1 \in 1..Len(busResults) /\ head = busResults[1]
      BY <1>4 DEF Sb!OnControlResult, BusInv, BusShape
    <3>2. busResults[1] \in BusAnswers
      BY <3>1 DEF BusInv, BusShape
    <3> QED
      BY <3>1, <3>2 DEF BusInv, ResultsAreTrue, BusAnswers
  <2>2. /\ busResults' \in Seq(BusAnswers)
        /\ \A k \in 1..Len(busResults') : k + 1 \in 1..Len(busResults) /\ busResults'[k] = busResults[k + 1]
    BY <1>4 DEF Sb!OnControlResult, BusInv, BusShape
  <2>3. ResultsAreTrue'
    BY <1>4, <2>2 DEF Sb!OnControlResult, Sb!workerVars, BusInv, ResultsAreTrue
  <2>4. ConfirmedIsCarried' /\ stop' \in [Sb!Stops -> {"none", "waiting", "confirmed", "failed"}]
    BY <1>4, <2>1 DEF Sb!OnControlResult, Sb!workerVars, Sb!Waiter, BusAnswers, BusInv,
       BusShape, ConfirmedIsCarried
  <2> QED
    BY <1>4, <2>2, <2>3, <2>4 DEF Sb!OnControlResult, Sb!workerVars, BusInv, BusShape,
       CommandsAreNew, KnownWasAsked, CoveredIsOver
<1>5. CASE Sb!Connect
  BY <1>5, BusFrameKeeps DEF Sb!Connect, Sb!topicVars, Sb!workerVars, Sb!clientVars
<1>6. ASSUME NEW r \in Runs, Sb!Cancel(r) PROVE BusInv'
  BY <1>6, BusFrameKeeps DEF Sb!Cancel, Sb!workerVars
<1>7. CASE Sb!OnEvent
  BY <1>7, BusFrameKeeps DEF Sb!OnEvent, Sb!workerVars
<1>8. CASE Sb!TakeEvent
  BY <1>8, BusFrameKeeps DEF Sb!TakeEvent, Sb!topicVars, Sb!workerVars
<1> QED
  BY <1>1, <1>2, <1>3, <1>4, <1>5, <1>6, <1>7, <1>8 DEF Sb!Client

\* A phase that leaves unknown runs unknown and never goes back to active.
LEMMA PhaseKeeps ==
    ASSUME BusInv, busPhase' \in [Runs -> {"none", "active", "stopping", "ended", "lost"}],
           \A r \in Runs : busPhase'[r] = busPhase[r] \/ busPhase'[r] \notin {"none", "active"},
           \A r \in Runs : busPhase[r] = "none" => busPhase'[r] = "none",
           UNCHANGED <<busCommands, busControls, busResults, busHand, covered, carried, busAsked, stop>>
    PROVE  BusInv'
BY DEF BusInv, BusShape, CommandsAreNew, KnownWasAsked, CoveredIsOver, ResultsAreTrue,
   ConfirmedIsCarried

\* The server's steps.
LEMMA ServerKeeps == ASSUME BusInv, Sb!Server PROVE BusInv'
<1>1. CASE Sb!OnCommand
  <2> DEFINE r == Head(busCommands)
  <2>1. r \in Runs /\ r \in busAsked /\ busPhase[r] = "none" /\ r = busCommands[1]
        /\ \A j \in 1..Len(busCommands) : busCommands[j] = r => j = 1
    BY <1>1 DEF Sb!OnCommand, BusInv, BusShape, CommandsAreNew
  <2>2. /\ busCommands' \in Seq(Runs)
        /\ \A i \in 1..Len(busCommands') :
              i + 1 \in 1..Len(busCommands) /\ busCommands'[i] = busCommands[i + 1]
    BY <1>1 DEF Sb!OnCommand, BusInv, BusShape
  <2>3. busPhase' = [busPhase EXCEPT ![r] = "active"]
    BY <1>1 DEF Sb!OnCommand
  <2> HIDE DEF r
  <2>4. CommandsAreNew'
    BY <1>1, <2>1, <2>2, <2>3 DEF Sb!OnCommand, Sb!clientVars, BusInv, BusShape,
       CommandsAreNew
  <2>5. KnownWasAsked' /\ CoveredIsOver'
    BY <1>1, <2>1, <2>3 DEF Sb!OnCommand, Sb!clientVars, BusInv, BusShape, KnownWasAsked,
       CoveredIsOver
  <2> QED
    BY <1>1, <2>2, <2>3, <2>4, <2>5 DEF Sb!OnCommand, Sb!clientVars, BusInv, BusShape,
       ResultsAreTrue, ConfirmedIsCarried
<1>2. CASE Sb!OnCancel
  BY <1>2, PhaseKeeps DEF Sb!OnCancel, Sb!clientVars, BusInv, BusShape
<1>3. ASSUME NEW r \in Runs, Sb!RunEnds(r) PROVE BusInv'
  BY <1>3, PhaseKeeps DEF Sb!RunEnds, Sb!topicVars, Sb!clientVars, BusInv, BusShape
<1>4. CASE Sb!OnControl
  <2>1. busHand' \in Sb!Stops /\ busControls' \in Seq(Sb!Stops)
    BY <1>4 DEF Sb!OnControl, BusInv, BusShape
  <2>2. /\ busPhase' \in [Runs -> {"none", "active", "stopping", "ended", "lost"}]
        /\ \A r \in Runs : busPhase'[r] = IF busPhase[r] = "active" THEN "stopping" ELSE busPhase[r]
    BY <1>4 DEF Sb!OnControl, BusInv, BusShape
  <2>3. covered' \in [Sb!Stops -> SUBSET Runs] /\ CoveredIsOver'
    BY <1>4, <2>1, <2>2 DEF Sb!OnControl, BusInv, BusShape, CoveredIsOver
  <2>4. UNCHANGED <<busCommands, busResults, busAsked, carried, stop>>
    BY <1>4 DEF Sb!OnControl, Sb!clientVars
  <2>5. BusShape'
    BY <2>1, <2>2, <2>3, <2>4 DEF BusInv, BusShape
  <2>6. KnownWasAsked'
    BY <2>2, <2>4 DEF BusInv, KnownWasAsked
  <2>7. CommandsAreNew'
    <3>1. \A i \in 1..Len(busCommands) : busCommands[i] \in Runs
      BY DEF BusInv, BusShape
    <3> QED
      BY <2>2, <2>4, <3>1 DEF BusInv, CommandsAreNew
  <2>8. ResultsAreTrue' /\ ConfirmedIsCarried'
    BY <2>4 DEF BusInv, ResultsAreTrue, ConfirmedIsCarried
  <2> QED
    BY <2>3, <2>5, <2>6, <2>7, <2>8 DEF BusInv
<1>5. ASSUME NEW ok \in BOOLEAN, Sb!ReportControl(ok) PROVE BusInv'
  <2> DEFINE answer == [id |-> busHand, ok |-> ok]
  <2>1. busHand \in Sb!Stops /\ answer \in BusAnswers
    BY <1>5 DEF Sb!ReportControl, BusInv, BusShape, BusAnswers
  <2>2. carried \in SUBSET carried' /\ carried' \in SUBSET Sb!Stops /\ (ok => busHand \in carried')
    BY <1>5, <2>1 DEF Sb!ReportControl, BusInv, BusShape
  <2>3. busResults' \in Seq(BusAnswers) /\ ResultsAreTrue'
    <3>1. CASE busResults' = busResults
      BY <2>2, <3>1 DEF BusInv, BusShape, ResultsAreTrue
    <3>2. CASE busResults' = Append(busResults, answer)
      <4>1. busResults' \in Seq(BusAnswers)
        BY <2>1, <3>2 DEF BusInv, BusShape
      <4>2. ASSUME NEW k \in 1..Len(busResults'), busResults'[k].ok PROVE busResults'[k].id \in carried'
        <5>1. CASE k = Len(busResults) + 1
          BY <2>1, <2>2, <3>2, <4>2, <5>1 DEF BusInv, BusShape
        <5>2. CASE k \in 1..Len(busResults)
          BY <2>1, <2>2, <3>2, <4>2, <5>2 DEF BusInv, BusShape, ResultsAreTrue
        <5> QED
          BY <2>1, <3>2, <4>2, <5>1, <5>2 DEF BusInv, BusShape
      <4> QED
        BY <4>1, <4>2 DEF ResultsAreTrue
    <3> QED
      BY <1>5, <3>1, <3>2 DEF Sb!ReportControl, Sb!Heard
  <2> QED
    BY <1>5, <2>2, <2>3 DEF Sb!ReportControl, Sb!clientVars, BusInv, BusShape,
       CommandsAreNew, KnownWasAsked, CoveredIsOver, ConfirmedIsCarried
<1>6. CASE Sb!Crash
  BY <1>6 DEF Sb!Crash, Sb!clientVars, BusInv, BusShape, CommandsAreNew, KnownWasAsked,
     CoveredIsOver, ResultsAreTrue, ConfirmedIsCarried
<1>7. CASE Sb!Start
  BY <1>7, BusFrameKeeps DEF Sb!Start, Sb!topicVars, Sb!workerVars, Sb!clientVars
<1>8. CASE Sb!RelayRegisters
  BY <1>8, BusFrameKeeps DEF Sb!RelayRegisters, Sb!topicVars, Sb!workerVars, Sb!clientVars
<1>9. CASE Sb!Relay
  BY <1>9, BusFrameKeeps DEF Sb!Relay, Sb!clientVars
<1>10. CASE Sb!RelayDies
  BY <1>10, BusFrameKeeps DEF Sb!RelayDies, Sb!topicVars, Sb!clientVars
<1> QED
  BY <1>1, <1>2, <1>3, <1>4, <1>5, <1>6, <1>7, <1>8, <1>9, <1>10 DEF Sb!Server

LEMMA BusKeeps == BusInv /\ [Sb!Next]_(Sb!skillBusVars) => BusInv'
<1> SUFFICES ASSUME BusInv, [Sb!Next]_(Sb!skillBusVars) PROVE BusInv'
  OBVIOUS
<1>1. CASE UNCHANGED Sb!skillBusVars
  BY <1>1, BusFrameKeeps DEF Sb!skillBusVars, Sb!topicVars, Sb!workerVars, Sb!clientVars
<1> QED
  BY <1>1, ClientKeeps, ServerKeeps DEF Sb!Next

\* The stages of the bus's runs.
BusStages == [r \in Runs |-> Sb!Stage(r)]

\* A run the agent asks for is submitted, and moves in no other way.
LEMMA ClientSubmits ==
    ASSUME BusInv, Sb!Client PROVE [Sb!Lifecycle!Next]_BusStages
<1>1. ASSUME NEW r \in Runs, Sb!Submit(r) PROVE [Sb!Lifecycle!Next]_BusStages
  <2>1. r \notin busAsked /\ busAsked' = busAsked \cup {r} /\ UNCHANGED busPhase
    BY <1>1 DEF Sb!Submit, Sb!workerVars
  <2>2. busPhase[r] = "none"
    BY <2>1 DEF BusInv, KnownWasAsked
  <2>3. BusStages[r] = "new" /\ BusStages' = [BusStages EXCEPT ![r] = "submitted"]
    BY <2>1, <2>2 DEF BusStages, Sb!Stage
  <2> QED
    BY <2>3 DEF Sb!Lifecycle!Next, Sb!Lifecycle!Accept, BusStages
<1>2. CASE UNCHANGED <<busAsked, busPhase>>
  BY <1>2 DEF BusStages, Sb!Stage
<1> QED
  BY <1>1, <1>2 DEF Sb!Client, Sb!Connect, Sb!Cancel, Sb!EmergencyStop, Sb!StopTimesOut,
     Sb!OnControlResult, Sb!OnEvent, Sb!TakeEvent, Sb!workerVars, Sb!clientVars

\* The robot's side starts what it was sent, once, and ends or abandons it.
LEMMA ServerCarriesOut ==
    ASSUME BusInv, Sb!Server PROVE [Sb!Lifecycle!Next]_BusStages
<1>0. /\ busCommands \in Seq(Runs) /\ busAsked \in SUBSET Runs
      /\ busPhase \in [Runs -> {"none", "active", "stopping", "ended", "lost"}]
  BY DEF BusInv, BusShape
<1>1. CASE Sb!OnCommand
  <2>1. PICK r \in Runs : r = Head(busCommands) /\ r \in busAsked /\ busPhase[r] = "none"
    BY <1>0, <1>1 DEF Sb!OnCommand, BusInv, CommandsAreNew
  <2>2. busPhase' = [busPhase EXCEPT ![r] = "active"] /\ UNCHANGED busAsked
    BY <1>1, <2>1 DEF Sb!OnCommand, Sb!clientVars
  <2>3. BusStages[r] = "submitted" /\ BusStages' = [BusStages EXCEPT ![r] = "executing"]
    BY <1>0, <2>1, <2>2 DEF BusStages, Sb!Stage
  <2>4. \A s \in Runs : ~Sb!Lifecycle!Conflict(r, s)
    BY DEF Sb!Lifecycle!Conflict
  <2> QED
    BY <2>3, <2>4 DEF Sb!Lifecycle!Next, Sb!Lifecycle!Execute, BusStages
<1>2. ASSUME NEW r \in Runs, Sb!RunEnds(r) PROVE [Sb!Lifecycle!Next]_BusStages
  <2>1. /\ busPhase[r] \in {"active", "stopping"} /\ UNCHANGED busAsked
        /\ busPhase' = [busPhase EXCEPT ![r] = "ended"]
    BY <1>2 DEF Sb!RunEnds, Sb!clientVars
  <2>2. BusStages[r] = "executing" /\ BusStages' = [BusStages EXCEPT ![r] = "ended"]
    BY <1>0, <2>1 DEF BusStages, Sb!Stage
  <2> QED
    BY <2>2 DEF Sb!Lifecycle!Next, Sb!Lifecycle!End, BusStages
<1>3. CASE Sb!Crash
  <2>1. /\ UNCHANGED busAsked
        /\ busPhase' = [r \in Runs |-> IF busPhase[r] \in {"active", "stopping"} THEN "lost"
                                       ELSE busPhase[r]]
    BY <1>3 DEF Sb!Crash, Sb!clientVars
  <2>2. BusStages' = [r \in Runs |-> IF BusStages[r] = "executing" THEN "abandoned"
                                     ELSE BusStages[r]]
    BY <1>0, <2>1 DEF BusStages, Sb!Stage
  <2>3. CASE \E r \in Runs : BusStages[r] = "executing"
    BY <2>2, <2>3 DEF Sb!Lifecycle!Next, Sb!Lifecycle!Abandon, BusStages
  <2>4. CASE ~\E r \in Runs : BusStages[r] = "executing"
    BY <2>2, <2>4 DEF BusStages
  <2> QED
    BY <2>3, <2>4
<1>4. CASE Sb!OnCancel \/ Sb!OnControl
  <2>1. /\ UNCHANGED busAsked /\ DOMAIN busPhase' = Runs
        /\ \A r \in Runs : \/ busPhase'[r] = busPhase[r]
                           \/ busPhase[r] = "active" /\ busPhase'[r] = "stopping"
    BY <1>0, <1>4 DEF Sb!OnCancel, Sb!OnControl, Sb!clientVars
  <2>2. \A r \in Runs : Sb!Stage(r)' = Sb!Stage(r)
    BY <2>1 DEF Sb!Stage
  <2> QED
    BY <2>2 DEF BusStages
<1>5. CASE UNCHANGED <<busAsked, busPhase>>
  BY <1>5 DEF BusStages, Sb!Stage
<1>6. CASE \/ Sb!Start \/ Sb!RelayRegisters \/ (\E ok \in BOOLEAN : Sb!ReportControl(ok))
           \/ Sb!Relay \/ Sb!RelayDies
  BY <1>5, <1>6 DEF Sb!Start, Sb!RelayRegisters, Sb!ReportControl, Sb!Relay, Sb!RelayDies,
     Sb!workerVars, Sb!clientVars
<1> QED
  BY <1>1, <1>2, <1>3, <1>4, <1>6 DEF Sb!Server

\* An emergency stop that returns normally was carried out for this very call, and no
\* run the worker had when it began is active again; and a run is started at most once,
\* whatever is lost, overtaken or left behind by a crash (skills/transport.py,
\* BusSkillClient.emergency_stop, BusSkillServer._on_control and _on_command).
THEOREM StopsAreConfirmed == RunPathSpec => BusKeepsItsWord
<1>1. RunPathInit => BusInv
  BY BusInit DEF RunPathInit
<1>2. BusInv /\ [RunPathNext]_runPathVars => BusInv'
  BY BusKeeps, RunPathSteps
<1>3. BusInv => \A i \in Sb!Stops : stop[i] = "confirmed" => Sb!StopWasCarriedOut(i)
  BY DEF BusInv, ConfirmedIsCarried, CoveredIsOver, Sb!StopWasCarriedOut
<1>4. RunPathInit => Sb!Lifecycle!Init
  BY DEF RunPathInit, Sb!Init, Sb!Lifecycle!Init, Sb!Stage
<1>5. BusInv /\ [RunPathNext]_runPathVars =>
        [Sb!Lifecycle!Next]_[r \in Runs |-> Sb!Stage(r)]
  <2> SUFFICES ASSUME BusInv, [RunPathNext]_runPathVars
               PROVE  [Sb!Lifecycle!Next]_BusStages
    BY DEF BusStages
  <2>1. CASE UNCHANGED Sb!skillBusVars
    BY <2>1 DEF Sb!skillBusVars, Sb!workerVars, Sb!clientVars, BusStages, Sb!Stage
  <2> QED
    BY <2>1, RunPathSteps, ClientSubmits, ServerCarriesOut DEF Sb!Next
<1> QED
  BY <1>1, <1>2, <1>3, <1>4, <1>5, PTL
     DEF RunPathSpec, BusKeepsItsWord, Sb!KeepsLifecycle, Sb!Lifecycle!Spec

-----------------------------------------------------------------------------
(* The files of a run.                                                     *)
StoreLines == Rs!Phases \cup {"corrupt", "unreadable"}

\* Every line can be parsed.
CleanLines(file) == \A i \in 1..Len(file) : file[i] \in Rs!Phases

\* Every line but the last one can be parsed.
CleanButTail(file) == \A i \in 1..Len(file) : file[i] \notin Rs!Phases => i = Len(file)

\* An append goes on when the file can be read, and between the repair and the line it
\* makes room for, the file is clean.
StoreInv ==
    /\ lines \in Seq(StoreLines) /\ storeEnded \in BOOLEAN
    /\ write \in [step : Rs!Steps, phase : Rs!Phases]
    /\ ~storeEnded => lines # <<>>
    /\ CleanButTail(lines)
    /\ write.step = "repair" => Rs!Readable
    /\ write.step \in {"pin", "store", "append"} => CleanLines(lines)

\* A file without its last line.
LEMMA FrontIsClean ==
    ASSUME NEW file \in Seq(StoreLines), file # <<>>, CleanButTail(file)
    PROVE  /\ Rs!Front(file) \in Seq(StoreLines) /\ CleanLines(Rs!Front(file))
           /\ Len(Rs!Front(file)) = Len(file) - 1
           /\ \A i \in 1..Len(file) : i # Len(file) => Rs!Front(file)[i] = file[i]
<1>1. Len(file) \in Nat /\ Len(file) > 0
  BY EmptySeq, LenProperties
<1> DEFINE n == Len(file) - 1
<1>a. n \in Nat /\ \A i \in 1..n : i \in 1..Len(file) /\ file[i] \in StoreLines
  BY <1>1, ElementOfSeq
<1>b. Rs!Front(file) = SubSeq(file, 1, n)
  BY DEF Rs!Front
<1> HIDE DEF n
<1>c. /\ SubSeq(file, 1, n) \in Seq(StoreLines)
      /\ Len(SubSeq(file, 1, n)) = IF 1 <= n THEN n - 1 + 1 ELSE 0
      /\ \A i \in 1..(n - 1 + 1) : SubSeq(file, 1, n)[i] = file[1 + i - 1]
  BY <1>a, SubSeqProperties
<1>2. /\ Rs!Front(file) \in Seq(StoreLines) /\ Len(Rs!Front(file)) = n
      /\ \A i \in 1..n : Rs!Front(file)[i] = file[i]
  BY <1>a, <1>b, <1>c
<1> QED BY <1>1, <1>2 DEF CleanButTail, CleanLines, n

\* A clean file with one more line.
LEMMA AppendToClean ==
    ASSUME NEW file \in Seq(StoreLines), CleanLines(file), NEW line \in StoreLines
    PROVE  /\ Append(file, line) \in Seq(StoreLines) /\ Append(file, line) # <<>>
           /\ CleanButTail(Append(file, line))
           /\ Len(Append(file, line)) = Len(file) + 1
           /\ \A i \in 1..Len(file) : Append(file, line)[i] = file[i]
<1>1. /\ Append(file, line) \in Seq(StoreLines) /\ Append(file, line) # <<>>
      /\ Len(Append(file, line)) = Len(file) + 1 /\ Len(file) \in Nat
      /\ \A i \in 1..Len(file) : Append(file, line)[i] = file[i]
  BY AppendProperties, LenProperties
<1> QED BY <1>1 DEF CleanLines, CleanButTail

\* What an append leaves, whole or torn.
LEMMA AppendedIsClean ==
    ASSUME StoreInv, write.step = "append", NEW line \in StoreLines
    PROVE  /\ Rs!Appended(line) \in Seq(StoreLines) /\ Rs!Appended(line) # <<>>
           /\ CleanButTail(Rs!Appended(line))
           /\ \A i \in 1..Len(lines) : i < Len(lines) \/ storeEnded
                  => i <= Len(Rs!Appended(line)) /\ Rs!Appended(line)[i] = lines[i]
<1>1. CleanLines(lines) /\ lines \in Seq(StoreLines)
  BY DEF StoreInv
<1>a. Len(lines) \in Nat
  BY <1>1, LenProperties
<1>2. CASE storeEnded
  <2>1. Rs!Appended(line) = Append(lines, line)
    BY <1>2 DEF Rs!Appended
  <2> QED BY <1>1, <1>a, <2>1, AppendToClean
<1>3. CASE ~storeEnded
  <2>1. /\ Rs!Front(lines) \in Seq(StoreLines) /\ CleanLines(Rs!Front(lines))
        /\ Len(Rs!Front(lines)) = Len(lines) - 1
        /\ \A i \in 1..Len(lines) : i # Len(lines) => Rs!Front(lines)[i] = lines[i]
    BY <1>3, FrontIsClean DEF StoreInv
  <2>2. Rs!Joined(line) \in StoreLines
    BY DEF StoreLines, Rs!Joined
  <2>3. Rs!Appended(line) = Append(Rs!Front(lines), Rs!Joined(line))
    BY <1>3 DEF Rs!Appended
  <2>4. /\ Rs!Appended(line) \in Seq(StoreLines) /\ Rs!Appended(line) # <<>>
        /\ CleanButTail(Rs!Appended(line)) /\ Len(Rs!Appended(line)) = Len(lines)
        /\ \A i \in 1..Len(lines) - 1 : Rs!Appended(line)[i] = Rs!Front(lines)[i]
    BY <1>a, <2>1, <2>2, <2>3, AppendToClean
  <2> QED BY <1>3, <1>a, <2>1, <2>4
<1> QED BY <1>2, <1>3

LEMMA RepairIsClean ==
    ASSUME StoreInv, write.step = "repair"
    PROVE  /\ Rs!Repaired \in Seq(StoreLines) /\ CleanLines(Rs!Repaired)
           /\ CleanButTail(Rs!Repaired)
           /\ ~(storeEnded \/ Rs!Repaired # lines) => Rs!Repaired # <<>>
           /\ \A i \in 1..Len(lines) : lines[i] \in Rs!Phases
                  => i <= Len(Rs!Repaired) /\ Rs!Repaired[i] = lines[i]
<1>a. Len(lines) \in Nat /\ "corrupt" \notin Rs!Phases
  BY LenProperties DEF StoreInv, Rs!Phases, Rs!Outcomes
<1>1. CASE lines # <<>> /\ lines[Len(lines)] = "corrupt"
  <2>1. Rs!Repaired = Rs!Front(lines)
    BY <1>1 DEF Rs!Repaired, Rs!Corrupt
  <2>2. /\ Rs!Repaired \in Seq(StoreLines) /\ CleanLines(Rs!Repaired)
        /\ Len(Rs!Repaired) = Len(lines) - 1
        /\ \A i \in 1..Len(lines) : i # Len(lines) => Rs!Repaired[i] = lines[i]
    BY <1>1, <2>1, FrontIsClean DEF StoreInv
  <2>3. Rs!Repaired # lines
    BY <1>a, <2>2
  <2>4. \A i \in 1..Len(lines) : lines[i] \in Rs!Phases
            => i <= Len(Rs!Repaired) /\ Rs!Repaired[i] = lines[i]
    BY <1>1, <1>a, <2>2
  <2> QED BY <2>2, <2>3, <2>4 DEF CleanLines, CleanButTail
<1>2. CASE ~(lines # <<>> /\ lines[Len(lines)] = "corrupt")
  <2>1. Rs!Repaired = lines
    BY <1>2 DEF Rs!Repaired, Rs!Corrupt
  <2>2. CleanLines(lines)
    <3> SUFFICES ASSUME NEW i \in 1..Len(lines), lines[i] \notin Rs!Phases PROVE FALSE
      BY DEF CleanLines
    <3>1. i = Len(lines)
      BY DEF StoreInv, CleanButTail
    <3>2. lines[i] \in StoreLines /\ lines[i] # "unreadable"
      BY ElementOfSeq DEF StoreInv, Rs!Readable
    <3>3. lines[i] = "corrupt" /\ lines # <<>>
      BY <1>a, <3>2, EmptySeq DEF StoreLines
    <3> QED BY <1>2, <3>1, <3>3
  <2> QED BY <1>a, <2>1, <2>2 DEF StoreInv
<1> QED BY <1>1, <1>2

LEMMA StoreKeeps == StoreInv /\ [Rs!Next]_(Rs!storeVars) => StoreInv'
<1> SUFFICES ASSUME StoreInv, [Rs!Next]_(Rs!storeVars) PROVE StoreInv'
  OBVIOUS
<1>1. CASE UNCHANGED <<lines, storeEnded, write>>
  BY <1>1 DEF StoreInv, CleanButTail, CleanLines, Rs!Readable, Rs!Corrupt
<1>2. ASSUME NEW step \in {"none", "repair", "result"}, NEW phase \in Rs!Phases,
             step = "repair" => Rs!Readable,
             write' = [step |-> step, phase |-> phase], UNCHANGED <<lines, storeEnded>>
      PROVE  StoreInv'
  BY <1>2 DEF StoreInv, CleanButTail, CleanLines, Rs!Readable, Rs!Corrupt, Rs!Steps
<1>3. CASE Rs!Repair
  <2>1. /\ lines' = Rs!Repaired /\ storeEnded' = (storeEnded \/ lines' # lines)
        /\ \E step \in {"pin", "append"} : write' = [write EXCEPT !.step = step]
    BY <1>3 DEF Rs!Repair
  <2>2. write' \in [step : Rs!Steps, phase : Rs!Phases]
    BY <2>1 DEF StoreInv, Rs!Steps
  <2>3. storeEnded' \in BOOLEAN
    BY <2>1
  <2>4. /\ lines' \in Seq(StoreLines) /\ CleanLines(lines') /\ CleanButTail(lines')
        /\ ~storeEnded' => lines' # <<>>
    BY <1>3, <2>1, RepairIsClean DEF Rs!Repair
  <2>5. write'.step # "repair"
    BY <2>1 DEF StoreInv
  <2> QED BY <2>2, <2>3, <2>4, <2>5 DEF StoreInv, CleanLines, CleanButTail
<1>4. CASE Rs!Pin \/ Rs!StoreTrace
  <2>1. /\ write.step \in {"pin", "store"} /\ UNCHANGED <<lines, storeEnded>>
        /\ \E step \in {"store", "append"} : write' = [write EXCEPT !.step = step]
    BY <1>4 DEF Rs!Pin, Rs!StoreTrace, Rs!files
  <2>2. write' \in [step : Rs!Steps, phase : Rs!Phases]
    BY <2>1 DEF StoreInv, Rs!Steps
  <2> QED BY <2>1, <2>2 DEF StoreInv, CleanButTail, CleanLines
<1>5. ASSUME write.step = "append", NEW line \in StoreLines, lines' = Rs!Appended(line),
             storeEnded' \in BOOLEAN, write' \in [step : Rs!Steps, phase : Rs!Phases],
             write'.step \notin {"repair", "pin", "store", "append"}
      PROVE  StoreInv'
  BY <1>5, AppendedIsClean DEF StoreInv, CleanButTail
<1>6. CASE Rs!AppendLine
  <2>1. PICK line \in {write.phase, "unreadable"} : lines' = Rs!Appended(line)
    BY <1>6 DEF Rs!AppendLine
  <2>a. line \in StoreLines
    BY DEF StoreInv, StoreLines
  <2>2. /\ write' \in [step : Rs!Steps, phase : Rs!Phases]
        /\ write'.step \in {"none", "result"}
    BY <1>6 DEF Rs!AppendLine, StoreInv, Rs!Steps, Rs!Phases, Rs!NoWrite
  <2> QED BY <1>5, <1>6, <2>1, <2>a, <2>2 DEF Rs!AppendLine
<1>7. CASE Rs!CrashInAppend
  <2>1. PICK part \in {"corrupt", "unreadable", write.phase} : lines' = Rs!Appended(part)
    BY <1>7 DEF Rs!CrashInAppend
  <2>2. part \in StoreLines
    BY DEF StoreInv, StoreLines
  <2>3. write' = [step |-> "none", phase |-> "running"] /\ storeEnded' = FALSE
    BY <1>7 DEF Rs!CrashInAppend, Rs!Dies, Rs!NoWrite
  <2>4. write' \in [step : Rs!Steps, phase : Rs!Phases]
    BY <2>3 DEF Rs!Steps, Rs!Phases
  <2> QED BY <1>5, <1>7, <2>1, <2>2, <2>3, <2>4 DEF Rs!CrashInAppend
<1>8. CASE Rs!Submit \/ Rs!Recorded \/ Rs!Evict \/ Rs!Restart \/ Rs!EmitRaises
  BY <1>1, <1>8 DEF Rs!Submit, Rs!Recorded, Rs!Evict, Rs!Restart, Rs!EmitRaises, Rs!files
<1>9. ASSUME NEW phase \in Rs!Phases, Rs!Emit(phase) PROVE StoreInv'
  BY <1>2, <1>9 DEF Rs!Emit, Rs!files
<1>10. CASE Rs!Status
  BY <1>2, <1>10 DEF Rs!Status, Rs!files, Rs!Phases, Rs!Outcomes
<1>11. CASE Rs!WriteResult \/ Rs!Crash
  BY <1>2, <1>11 DEF Rs!WriteResult, Rs!Crash, Rs!Dies, Rs!NoWrite, Rs!files, Rs!Phases
<1>12. CASE UNCHANGED Rs!storeVars
  BY <1>1, <1>12 DEF Rs!storeVars
<1> QED
  BY <1>3, <1>4, <1>6, <1>7, <1>8, <1>9, <1>10, <1>11, <1>12 DEF Rs!Next

\* An event that was written whole, and its newline with it, stays where it is.
LEMMA EventsStay ==
    ASSUME StoreInv, Rs!Next, NEW i \in 1..Len(lines), lines[i] \in Rs!Phases,
           i < Len(lines) \/ storeEnded
    PROVE  i <= Len(lines') /\ lines'[i] = lines[i]
<1>1. CASE UNCHANGED lines
  BY <1>1, LenProperties DEF StoreInv
<1>2. CASE Rs!Repair
  BY <1>2, RepairIsClean DEF Rs!Repair
<1>3. ASSUME NEW line \in StoreLines, write.step = "append", lines' = Rs!Appended(line)
      PROVE  i <= Len(lines') /\ lines'[i] = lines[i]
  BY <1>3, AppendedIsClean
<1>4. CASE Rs!AppendLine \/ Rs!CrashInAppend
  <2>1. PICK line \in {"corrupt", "unreadable", write.phase} : lines' = Rs!Appended(line)
    BY <1>4 DEF Rs!AppendLine, Rs!CrashInAppend
  <2>2. line \in StoreLines /\ write.step = "append"
    BY <1>4 DEF StoreInv, StoreLines, Rs!AppendLine, Rs!CrashInAppend
  <2> QED BY <1>3, <2>1, <2>2
<1> QED
  BY <1>1, <1>2, <1>4 DEF Rs!Next, Rs!Submit, Rs!Recorded, Rs!Status, Rs!Emit, Rs!EmitRaises,
     Rs!Pin, Rs!StoreTrace, Rs!Evict, Rs!WriteResult, Rs!Crash, Rs!Restart, Rs!files

LEMMA StoreInvariant == RunPathSpec => []StoreInv
<1>1. RunPathInit => StoreInv
  <2> HAVE RunPathInit
  <2>1. lines = <<>> /\ storeEnded = TRUE /\ write = [step |-> "none", phase |-> "running"]
    BY DEF RunPathInit, Rs!Init, Rs!NoWrite
  <2>2. lines \in Seq(StoreLines) /\ Len(lines) = 0
    BY <2>1, EmptySeq
  <2> QED BY <2>1, <2>2 DEF StoreInv, CleanButTail, CleanLines, Rs!Steps, Rs!Phases
<1>2. StoreInv /\ [RunPathNext]_runPathVars => StoreInv'
  BY StoreKeeps, RunPathSteps
<1> QED BY <1>1, <1>2, PTL DEF RunPathSpec

-----------------------------------------------------------------------------
(* The media store.                                                        *)
Stages == {"idle", "write", "seal", "list", "evict"}
PutRecords == [at : Stages, object : Nat, doomed : SUBSET Nat]

At(p) == mediaPut[p].at
Object(p) == mediaPut[p].object
Doomed(p) == mediaPut[p].doomed

\* Objects have times of their own, and every put an object of its own.
MediaShape ==
    /\ made \in 0..MaxMade /\ there \subseteq 1..made /\ refs \subseteq 1..made
    /\ born \in [Md!MediaIds -> Nat] /\ mtime \in [Md!MediaIds -> Nat] /\ clock \in Nat
    /\ mediaPut \in [Putters -> PutRecords]
    /\ \A p \in Putters :
          /\ At(p) # "idle" => Object(p) \in 1..made /\ Object(p) \notin refs
          /\ At(p) # "evict" => Doomed(p) = {}
          /\ Doomed(p) \subseteq 1..made
    /\ \A p, q \in Putters :
          At(p) # "idle" /\ At(q) # "idle" /\ Object(p) = Object(q) => p = q

Times ==
    \A o \in 1..made :
        /\ born[o] <= mtime[o] /\ mtime[o] <= clock
        /\ \A other \in 1..made : mtime[other] = mtime[o] => other = o

\* max_items other objects were written since the file of this one appeared.
Superseded(o) == Cardinality(Md!Newer(o)) >= MaxKept

\* An object is gone, or about to go, only when it is superseded.
NewestInv ==
    /\ \A o \in refs : o \in there \/ Superseded(o)
    /\ \A p \in Putters : At(p) # "idle" => Object(p) \in there \/ Superseded(Object(p))
    /\ \A p \in Putters : \A o \in Doomed(p) : Superseded(o)

\* Objects whose put is still to list.
Pending(o) == \E p \in Putters : At(p) \in {"write", "seal", "list"} /\ Object(p) = o

\* What remains besides those, and what one listing has doomed.
Remaining(gone) == {o \in there : ~Pending(o) /\ o \notin left /\ o \notin gone}

\* What the last listing left over, less the objects that are still to be listed, keeps
\* the limit.
LimitInv ==
    \E gone \in SUBSET (1..made) :
        /\ gone = {} \/ \E p \in Putters : gone = Doomed(p)
        /\ Cardinality(Remaining(gone)) <= MaxKept

MediaInv == MediaShape /\ Times /\ NewestInv /\ LimitInv

\* The module's count is the count of the theorems about finite sets.
LEMMA SameCount ==
    ASSUME NEW S
    PROVE  Md!Cardinality(S) = Cardinality(S)
BY DEF Md!Cardinality, Cardinality

LEMMA SmallestMember ==
    ASSUME NEW S, S \subseteq Nat, S # {}
    PROVE  \E t \in S : \A s \in S : t <= s
<1>1. PICK t \in S : \A s \in S : ~(<<s, t>> \in OpToRel(<, Nat))
  BY WFMin, NatLessThanWellFounded, Zenon
<1>2. \A s \in S : s \in Nat /\ t \in Nat /\ ~(s < t)
  BY <1>1, Zenon DEF OpToRel
<1>3. \A s \in S : t <= s
  BY <1>2
<1> QED BY <1>3

\* Of a finite set of objects with different times, at most max_items are followed by
\* fewer than max_items others.
LEMMA FewAreNew ==
    ASSUME NEW all, IsFiniteSet(all), NEW time \in [all -> Nat], NEW limit \in Nat \ {0},
           \A o, q \in all : time[o] = time[q] => o = q
    PROVE  Cardinality({o \in all : Cardinality({q \in all : time[q] > time[o]}) < limit})
             <= limit
<1> DEFINE Later(o) == {q \in all : time[q] > time[o]}
           new == {o \in all : Cardinality(Later(o)) < limit}
           times == {time[o] : o \in new}
<1>1. /\ new \subseteq all /\ \A o \in new : Cardinality(Later(o)) < limit
      /\ \A o : IsFiniteSet(Later(o)) /\ Cardinality(Later(o)) \in Nat
  BY FS_Subset, FS_CardinalityType
<1> SUFFICES Cardinality(new) <= limit
  OBVIOUS
<1> HIDE DEF new
<1>2. IsFiniteSet(new) /\ Cardinality(new) \in Nat
  BY <1>1, FS_Subset, FS_CardinalityType
<1>3. CASE new = {}
  BY <1>3, FS_EmptySet
<1>4. CASE new # {}
  <2>1. times \subseteq Nat /\ times # {}
    BY <1>1, <1>4
  <2>2. PICK t \in times : \A s \in times : t <= s
    <3> HIDE DEF times
    <3> QED BY <2>1, SmallestMember
  <2>3. PICK first \in new : time[first] = t
    OBVIOUS
  <2>4. \A o \in new : time[first] <= time[o]
    BY <2>2, <2>3
  <2>5. new \ {first} \subseteq Later(first)
    <3> SUFFICES ASSUME NEW o \in new, o # first PROVE o \in Later(first)
      OBVIOUS
    <3>1. o \in all /\ first \in all /\ time[o] \in Nat /\ time[first] \in Nat
      BY <1>1
    <3>2. time[o] # time[first]
      BY <3>1
    <3>3. time[o] > time[first]
      BY <2>4, <3>1, <3>2
    <3> QED BY <3>1, <3>3
  <2> HIDE DEF Later
  <2>6. Cardinality(new \ {first}) <= Cardinality(Later(first))
    BY <1>1, <2>5, FS_Subset
  <2>7. Cardinality(new \ {first}) = Cardinality(new) - 1
    BY <1>2, <2>3, FS_RemoveElement
  <2>8. Cardinality(Later(first)) \in Nat /\ Cardinality(Later(first)) < limit
    BY <1>1
  <2> QED BY <1>2, <2>6, <2>7, <2>8
<1> QED BY <1>3, <1>4

\* Once superseded, always superseded.
LEMMA SupersededStays ==
    ASSUME MediaShape, made' \in Nat, made <= made',
           \A q \in 1..made : born'[q] = born[q] /\ mtime'[q] >= mtime[q],
           \A q \in 1..made : mtime'[q] \in Nat,
           NEW o \in 1..made, Superseded(o)
    PROVE  Superseded(o)'
<1> DEFINE before == {q \in (1..made) \ {o} : mtime[q] > born[o]}
           after == {q \in (1..made') \ {o} : mtime'[q] > born'[o]}
<1>1. made \in Nat /\ \A q \in 1..made : mtime[q] \in Nat /\ born[q] \in Nat
  BY RunPathAssumption DEF MediaShape, Md!MediaIds
<1>2. before \subseteq after
  BY <1>1
<1>3. IsFiniteSet(1..made')
  BY FS_Interval
<1>4. IsFiniteSet(after)
  BY <1>3, FS_Subset
<1>5. IsFiniteSet(before) /\ Cardinality(before) <= Cardinality(after)
  BY <1>2, <1>4, FS_Subset
<1>6. Cardinality(before) \in Nat /\ Cardinality(after) \in Nat
  BY <1>4, <1>5, FS_CardinalityType
<1>7. Superseded(o) <=> Cardinality(before) >= MaxKept
  BY DEF Superseded, Md!Newer
<1>8. Superseded(o)' <=> Cardinality(after) >= MaxKept
  BY DEF Superseded, Md!Newer
<1> HIDE DEF before, after
<1> QED BY <1>5, <1>6, <1>7, <1>8, RunPathAssumption

\* Where a put goes on, or ends.
LEMMA PutGoesOn ==
    ASSUME MediaShape, NEW p \in Putters, At(p) # "idle", NEW record \in PutRecords,
           mediaPut' = [mediaPut EXCEPT ![p] = record],
           record.at # "idle" => record.object = Object(p),
           record.at # "evict" => record.doomed = {},
           record.doomed \subseteq 1..made,
           made' = made, born' = born, mtime' \in [Md!MediaIds -> Nat], clock' \in Nat,
           there' \subseteq there,
           refs' = refs \/ (refs' = refs \cup {Object(p)} /\ record.at = "idle")
    PROVE  MediaShape'
<1>1. /\ mediaPut' \in [Putters -> PutRecords] /\ mediaPut'[p] = record
      /\ \A q \in Putters : q # p => mediaPut'[q] = mediaPut[q]
  BY DEF MediaShape
<1>2. Object(p) \in 1..made /\ Object(p) \notin refs
  BY DEF MediaShape
<1>3. ASSUME NEW q \in Putters
      PROVE  /\ At(q)' # "idle" => Object(q)' \in 1..made' /\ Object(q)' \notin refs'
             /\ At(q)' # "evict" => Doomed(q)' = {}
             /\ Doomed(q)' \subseteq 1..made'
  <2>1. CASE q = p
    BY <1>1, <1>2, <2>1 DEF At, Object, Doomed
  <2>2. CASE q # p
    <3>1. mediaPut'[q] = mediaPut[q]
      BY <1>1, <2>2
    <3>2. At(q) # "idle" => Object(q) # Object(p)
      BY <2>2 DEF MediaShape
    <3> QED BY <3>1, <3>2 DEF MediaShape, At, Object, Doomed
  <2> QED BY <2>1, <2>2
<1>4. ASSUME NEW q \in Putters, NEW r \in Putters,
             At(q)' # "idle", At(r)' # "idle", Object(q)' = Object(r)'
      PROVE  q = r
  <2>1. \A s \in Putters : At(s)' # "idle" => At(s) # "idle" /\ Object(s)' = Object(s)
    BY <1>1 DEF At, Object
  <2> QED BY <1>4, <2>1 DEF MediaShape
<1>5. there' \subseteq 1..made' /\ refs' \subseteq 1..made'
  BY <1>2 DEF MediaShape
<1>6. made' \in 0..MaxMade /\ born' \in [Md!MediaIds -> Nat]
  BY DEF MediaShape
<1> QED BY <1>1, <1>3, <1>4, <1>5, <1>6 DEF MediaShape

\* Once the puts have their shape, objects that keep their times keep their claims.
LEMMA TimesStay ==
    ASSUME Times, UNCHANGED <<made, born, mtime, clock>>
    PROVE  Times'
BY DEF Times

LEMMA CreateKeepsShape ==
    ASSUME MediaShape, Times, NEW p \in Putters, Md!Create(p)
    PROVE  (MediaShape /\ Times)'
<1> DEFINE o == made + 1
           record == [Md!Idle EXCEPT !.at = "write", !.object = o]
<1>1. /\ made' = o /\ there' = there \cup {o} /\ refs' = refs /\ clock' = clock + 1
      /\ born' = [born EXCEPT ![o] = clock + 1] /\ mtime' = [mtime EXCEPT ![o] = clock + 1]
      /\ mediaPut' = [mediaPut EXCEPT ![p] = record] /\ made < MaxMade /\ At(p) = "idle"
  BY DEF Md!Create, Md!history, At
<1>2. /\ made \in Nat /\ o \in 1..MaxMade /\ o \notin 1..made /\ clock \in Nat
      /\ \A q \in 1..o : q = o \/ q \in 1..made
      /\ 1..made \subseteq 1..o /\ o \in 1..o
  BY <1>1, RunPathAssumption DEF MediaShape
<1> HIDE DEF o
<1>3. /\ record \in PutRecords
      /\ record.at = "write" /\ record.object = o /\ record.doomed = {}
  <2>1. Md!Idle \in PutRecords /\ Md!Idle.doomed = {}
    BY DEF PutRecords, Stages, Md!Idle, Md!NoMedia
  <2>2. o \in Nat
    BY <1>2
  <2> QED BY <2>1, <2>2 DEF PutRecords, Stages
<1> HIDE DEF record
<1>4. /\ mediaPut' \in [Putters -> PutRecords] /\ mediaPut'[p] = record
      /\ \A q \in Putters : q # p => mediaPut'[q] = mediaPut[q]
  BY <1>1, <1>3 DEF MediaShape
<1>5. /\ born' \in [Md!MediaIds -> Nat] /\ mtime' \in [Md!MediaIds -> Nat]
      /\ born'[o] = clock + 1 /\ mtime'[o] = clock + 1
      /\ \A q \in 1..made : born'[q] = born[q] /\ mtime'[q] = mtime[q]
  BY <1>1, <1>2 DEF MediaShape, Md!MediaIds
<1>6. ASSUME NEW q \in Putters
      PROVE  /\ At(q)' # "idle" => Object(q)' \in 1..o /\ Object(q)' \notin refs
             /\ At(q)' # "evict" => Doomed(q)' = {}
             /\ Doomed(q)' \subseteq 1..o
             /\ At(q)' # "idle" => q = p \/ Object(q)' \in 1..made
  <2>1. CASE q = p
    BY <1>2, <1>3, <1>4, <2>1 DEF MediaShape, At, Object, Doomed
  <2>2. CASE q # p
    <3>1. mediaPut'[q] = mediaPut[q]
      BY <1>4, <2>2
    <3> QED BY <1>2, <3>1 DEF MediaShape, At, Object, Doomed
  <2> QED BY <2>1, <2>2
<1>7. ASSUME NEW q \in Putters, NEW r \in Putters,
             At(q)' # "idle", At(r)' # "idle", Object(q)' = Object(r)'
      PROVE  q = r
  <2>1. CASE q = p \/ r = p
    BY <1>2, <1>3, <1>4, <1>6, <1>7, <2>1 DEF At, Object
  <2>2. CASE q # p /\ r # p
    BY <1>4, <1>7, <2>2 DEF MediaShape, At, Object
  <2> QED BY <2>1, <2>2
<1>8. MediaShape'
  <2>1. /\ made' \in 0..MaxMade /\ there' \subseteq 1..made' /\ refs' \subseteq 1..made'
        /\ clock' \in Nat
    BY <1>1, <1>2 DEF MediaShape
  <2> QED BY <1>1, <1>4, <1>5, <1>6, <1>7, <2>1 DEF MediaShape
<1>9. Times'
  <2> SUFFICES ASSUME NEW q \in 1..o
               PROVE  /\ born'[q] <= mtime'[q] /\ mtime'[q] <= clock'
                      /\ \A r \in 1..o : mtime'[r] = mtime'[q] => r = q
    BY <1>1 DEF Times
  <2>1. \A r \in 1..made : /\ mtime'[r] = mtime[r] /\ mtime[r] <= clock /\ mtime[r] \in Nat
                           /\ born'[r] = born[r] /\ born[r] <= mtime[r] /\ born[r] \in Nat
    BY <1>2, <1>5, RunPathAssumption DEF Times, MediaShape, Md!MediaIds
  <2>2. CASE q = o
    BY <1>1, <1>2, <1>5, <2>1, <2>2
  <2>3. CASE q \in 1..made
    BY <1>1, <1>2, <1>5, <2>1, <2>3 DEF Times
  <2> QED BY <1>2, <2>2, <2>3
<1> QED BY <1>8, <1>9

LEMMA WriteKeepsShape ==
    ASSUME MediaShape, Times, NEW p \in Putters, Md!Write(p)
    PROVE  (MediaShape /\ Times)'
<1> DEFINE o == Object(p)
           record == [mediaPut[p] EXCEPT !.at = "seal"]
<1>1. /\ mediaPut' = [mediaPut EXCEPT ![p] = record] /\ At(p) = "write"
      /\ mtime' = [mtime EXCEPT ![o] = clock + 1] /\ clock' = clock + 1
      /\ made' = made /\ there' = there /\ born' = born /\ refs' = refs
  BY DEF Md!Write, Md!Goto, At, Object, MediaShape
<1>2. o \in 1..made /\ o \in Md!MediaIds /\ clock \in Nat /\ made \in Nat
  BY <1>1, RunPathAssumption DEF MediaShape, Md!MediaIds
<1>3. record \in PutRecords /\ record.at = "seal" /\ record.object = o /\ record.doomed = {}
  BY <1>1 DEF MediaShape, PutRecords, Stages, At, Object, Doomed
<1>4. mtime' \in [Md!MediaIds -> Nat] /\ clock' \in Nat
  BY <1>1, <1>2 DEF MediaShape
<1>5. MediaShape'
  <2> HIDE DEF record
  <2> QED BY <1>1, <1>3, <1>4, PutGoesOn
<1>6. Times'
  <2> HIDE DEF o
  <2>1. \A r \in 1..made : /\ mtime[r] <= clock /\ mtime[r] \in Nat
                           /\ born'[r] = born[r] /\ born[r] <= mtime[r] /\ born[r] \in Nat
                           /\ mtime'[r] = IF r = o THEN clock + 1 ELSE mtime[r]
    BY <1>1, <1>2, RunPathAssumption, SMTT(30) DEF Times, MediaShape, Md!MediaIds
  <2> SUFFICES ASSUME NEW q \in 1..made
               PROVE  /\ born'[q] <= mtime'[q] /\ mtime'[q] <= clock'
                      /\ \A r \in 1..made : mtime'[r] = mtime'[q] => r = q
    BY <1>1 DEF Times
  <2>2. born'[q] <= mtime'[q] /\ mtime'[q] <= clock'
    BY <1>1, <1>2, <2>1
  <2>3. ASSUME NEW r \in 1..made, mtime'[r] = mtime'[q] PROVE r = q
    <3>1. CASE q = o \/ r = o
      BY <1>2, <2>1, <2>3, <3>1
    <3>2. CASE q # o /\ r # o
      BY <2>1, <2>3, <3>2 DEF Times
    <3> QED BY <3>1, <3>2
  <2> QED BY <2>2, <2>3
<1> QED BY <1>5, <1>6

\* The steps of a put that leave all times alone.
LEMMA OthersKeepShape ==
    ASSUME MediaShape, Times, NEW p \in Putters,
           \/ Md!Seal(p) \/ Md!SealFails(p) \/ Md!List(p) \/ Md!HandOut(p) \/ Md!Break(p)
           \/ \E o \in Md!MediaIds : Md!Evict(p, o)
    PROVE  (MediaShape /\ Times)'
<1>1. UNCHANGED <<made, born, mtime, clock>>
  BY DEF Md!Seal, Md!SealFails, Md!List, Md!HandOut, Md!Break, Md!Evict, Md!files
<1>2. Times'
  BY <1>1, TimesStay
<1>3. mtime' \in [Md!MediaIds -> Nat] /\ clock' \in Nat /\ made' = made /\ born' = born
  BY <1>1 DEF MediaShape
<1>4. mediaPut[p] \in PutRecords
  BY DEF MediaShape
<1>5. CASE Md!Seal(p)
  <2> DEFINE record == [mediaPut[p] EXCEPT !.at = "list"]
  <2>1. /\ mediaPut' = [mediaPut EXCEPT ![p] = record] /\ At(p) = "seal"
        /\ there' = there /\ refs' = refs
    BY <1>5 DEF Md!Seal, Md!Goto, Md!files, At, MediaShape
  <2>2. record \in PutRecords /\ record.object = Object(p) /\ record.doomed = {}
    BY <1>4, <2>1 DEF MediaShape, PutRecords, Stages, At, Object, Doomed
  <2> HIDE DEF record
  <2>3. MediaShape'
    BY <1>3, <2>1, <2>2, PutGoesOn
  <2> QED BY <1>2, <2>3
<1>6. CASE Md!List(p)
  <2> DEFINE record == [mediaPut[p] EXCEPT !.at = "evict", !.doomed = Md!Overflow]
  <2>1. /\ mediaPut' = [mediaPut EXCEPT ![p] = record] /\ At(p) = "list"
        /\ there' = there /\ refs' = refs
    BY <1>6 DEF Md!List, Md!files, At, MediaShape
  <2>2. Md!Overflow \subseteq 1..made /\ 1..made \subseteq Nat
    <3>1. Md!Overflow \subseteq there
      BY DEF Md!Overflow
    <3>2. made \in Nat
      BY RunPathAssumption DEF MediaShape
    <3> QED BY <3>1, <3>2 DEF MediaShape
  <2>3. /\ record \in PutRecords /\ record.object = Object(p) /\ record.at = "evict"
        /\ record.doomed \subseteq 1..made
    BY <1>4, <2>1, <2>2 DEF PutRecords, Stages, At, Object
  <2> HIDE DEF record
  <2>4. MediaShape'
    BY <1>3, <2>1, <2>3, PutGoesOn
  <2> QED BY <1>2, <2>4
<1>7. ASSUME NEW o \in Md!MediaIds, Md!Evict(p, o) PROVE (MediaShape /\ Times)'
  <2> DEFINE record == [mediaPut[p] EXCEPT !.doomed = @ \ {o}]
  <2>1. /\ mediaPut' = [mediaPut EXCEPT ![p] = record] /\ At(p) = "evict"
        /\ there' \subseteq there /\ refs' = refs
    BY <1>7 DEF Md!Evict, Md!files, At, MediaShape
  <2>2. /\ record \in PutRecords /\ record.object = Object(p) /\ record.at = "evict"
        /\ record.doomed \subseteq 1..made
    BY <1>4, <2>1 DEF MediaShape, PutRecords, Stages, At, Object, Doomed
  <2> HIDE DEF record
  <2>3. MediaShape'
    BY <1>3, <2>1, <2>2, PutGoesOn
  <2> QED BY <1>2, <2>3
<1>8. CASE Md!SealFails(p) \/ Md!HandOut(p) \/ Md!Break(p)
  <2>1. /\ mediaPut' = [mediaPut EXCEPT ![p] = Md!Idle] /\ At(p) # "idle"
        /\ there' \subseteq there /\ (refs' = refs \/ refs' = refs \cup {Object(p)})
    BY <1>8 DEF Md!SealFails, Md!HandOut, Md!Break, Md!files, At, Object, MediaShape
  <2>2. /\ Md!Idle \in PutRecords /\ Md!Idle.at = "idle" /\ Md!Idle.doomed = {}
    BY DEF Md!Idle, Md!NoMedia, PutRecords, Stages
  <2>3. MediaShape'
    BY <1>3, <2>1, <2>2, PutGoesOn
  <2> QED BY <1>2, <2>3
<1> QED BY <1>5, <1>6, <1>7, <1>8

LEMMA MediaStepShape ==
    MediaShape /\ Times /\ Md!Next => (MediaShape /\ Times)'
BY CreateKeepsShape, WriteKeepsShape, OthersKeepShape DEF Md!Next

\* What a listing dooms is superseded: the files that follow it are newer than it.
LEMMA OverflowIsSuperseded ==
    ASSUME MediaShape, Times, NEW o \in Md!Overflow
    PROVE  Superseded(o)
<1>1. /\ made \in Nat /\ there \subseteq 1..made /\ o \in there
      /\ Cardinality(Md!After(o, there)) >= MaxKept
  <2>1. o \in there /\ Cardinality(Md!After(o, there)) >= MaxKept
    BY SameCount DEF Md!Overflow
  <2> QED BY <2>1, RunPathAssumption DEF MediaShape
<1>2. \A q \in 1..made : mtime[q] \in Nat /\ born[q] \in Nat /\ born[q] <= mtime[q]
  BY <1>1, RunPathAssumption DEF MediaShape, Times, Md!MediaIds
<1>3. Md!After(o, there) \subseteq Md!Newer(o)
  <2> SUFFICES ASSUME NEW q \in there, mtime[q] > mtime[o]
               PROVE  q \in 1..made /\ q # o /\ mtime[q] > born[o]
    BY DEF Md!After, Md!Newer
  <2>1. q \in 1..made /\ o \in 1..made
    BY <1>1
  <2>2. /\ mtime[q] \in Nat /\ mtime[o] \in Nat /\ born[o] \in Nat
        /\ born[o] <= mtime[o]
    BY <1>2, <2>1
  <2> QED BY <2>1, <2>2
<1>4. IsFiniteSet(1..made) /\ Md!Newer(o) \subseteq 1..made
  BY <1>1, FS_Interval DEF Md!Newer
<1>5. IsFiniteSet(Md!Newer(o))
  BY <1>4, FS_Subset
<1>6. /\ IsFiniteSet(Md!After(o, there))
      /\ Cardinality(Md!After(o, there)) <= Cardinality(Md!Newer(o))
  BY <1>3, <1>5, FS_Subset
<1>7. Cardinality(Md!After(o, there)) \in Nat /\ Cardinality(Md!Newer(o)) \in Nat
  BY <1>5, <1>6, FS_CardinalityType
<1> QED BY <1>1, <1>6, <1>7, RunPathAssumption DEF Superseded

\* A step of a put that leaves the times alone, takes away only what is superseded or the
\* file of a put that ends with it, and hands out only what is there.
LEMMA NewestStays ==
    ASSUME MediaShape, NewestInv, UNCHANGED <<made, born, mtime>>, NEW p \in Putters,
           \A q \in Putters : q # p => mediaPut'[q] = mediaPut[q],
           At(p) # "idle", At(p)' # "idle" => Object(p)' = Object(p),
           \A o \in Doomed(p)' : o \in Doomed(p) \/ Superseded(o),
           \A o \in there \ there' :
              Superseded(o) \/ (o = Object(p) /\ At(p)' = "idle" /\ refs' = refs),
           refs' = refs \/ refs' = refs \cup {Object(p)}
    PROVE  NewestInv'
<1>1. \A o : Superseded(o) => Superseded(o)'
  BY DEF Superseded, Md!Newer
<1>2. ASSUME NEW o \in refs' PROVE o \in there' \/ Superseded(o)'
  <2>1. CASE o \in refs
    <3>1. o # Object(p)
      BY <2>1 DEF MediaShape
    <3> QED BY <1>1, <2>1, <3>1 DEF NewestInv
  <2>2. CASE o \notin refs
    <3>1. o = Object(p)
      BY <1>2, <2>2
    <3>2. o \in there \/ Superseded(o)
      BY <3>1 DEF NewestInv
    <3> QED BY <1>1, <1>2, <2>2, <3>2
  <2> QED BY <2>1, <2>2
<1>3. ASSUME NEW q \in Putters, At(q)' # "idle"
      PROVE  Object(q)' \in there' \/ Superseded(Object(q))'
  <2>1. At(q) # "idle" /\ Object(q)' = Object(q)
    BY <1>3 DEF At, Object
  <2>2. Object(q) \in there \/ Superseded(Object(q))
    BY <2>1 DEF NewestInv
  <2>3. Object(q) = Object(p) => At(p)' # "idle"
    BY <1>3, <2>1 DEF MediaShape
  <2>4. Object(q) \in there' \/ Superseded(Object(q))
    BY <2>2, <2>3
  <2> QED BY <2>1, <2>4 DEF Superseded, Md!Newer
<1>4. ASSUME NEW q \in Putters, NEW o \in Doomed(q)' PROVE Superseded(o)'
  <2>1. CASE q = p
    BY <1>1, <1>4, <2>1 DEF NewestInv
  <2>2. CASE q # p
    BY <1>1, <1>4, <2>2 DEF NewestInv, Doomed
  <2> QED BY <2>1, <2>2
<1> QED BY <1>2, <1>3, <1>4 DEF NewestInv

LEMMA CreateKeepsNewest ==
    ASSUME MediaShape, Times, NewestInv, NEW p \in Putters, Md!Create(p)
    PROVE  NewestInv'
<1> DEFINE o == made + 1
           record == [Md!Idle EXCEPT !.at = "write", !.object = o]
<1>1. /\ made' = o /\ there' = there \cup {o} /\ refs' = refs
      /\ born' = [born EXCEPT ![o] = clock + 1] /\ mtime' = [mtime EXCEPT ![o] = clock + 1]
      /\ mediaPut' = [mediaPut EXCEPT ![p] = record]
  BY DEF Md!Create, Md!history
<1>2. made \in Nat /\ clock \in Nat /\ o \in Nat /\ o \notin 1..made
  BY RunPathAssumption DEF MediaShape
<1>3. \A q \in 1..made : q # o /\ q \in Md!MediaIds
  BY <1>2, RunPathAssumption DEF MediaShape, Md!MediaIds
<1>4. \A q \in 1..made : born'[q] = born[q] /\ mtime'[q] = mtime[q] /\ mtime[q] \in Nat
  BY <1>1, <1>3 DEF MediaShape
<1>5. \A q \in 1..made : Superseded(q) => Superseded(q)'
  BY <1>1, <1>2, <1>4, SupersededStays
<1>6. /\ mediaPut'[p] = record /\ record.object = o /\ record.doomed = {}
      /\ \A q \in Putters : q # p => mediaPut'[q] = mediaPut[q]
  BY <1>1 DEF MediaShape, Md!Idle
<1> HIDE DEF o, record
<1>7. \A q \in refs' : q \in there' \/ Superseded(q)'
  BY <1>1, <1>5 DEF MediaShape, NewestInv
<1>8. ASSUME NEW q \in Putters, At(q)' # "idle"
      PROVE  Object(q)' \in there' \/ Superseded(Object(q))'
  <2>1. CASE q = p
    BY <1>1, <1>6, <2>1 DEF Object
  <2>2. CASE q # p
    <3>1. /\ Object(q)' = Object(q) /\ At(q) # "idle" /\ Object(q) \in 1..made
      BY <1>6, <1>8, <2>2 DEF At, Object, MediaShape
    <3>2. Object(q) \in there' \/ Superseded(Object(q))
      BY <1>1, <3>1 DEF NewestInv
    <3>3. ASSUME NEW r \in 1..made, r = Object(q), Superseded(r)
          PROVE  Superseded(Object(q))'
      <4>1. Superseded(r)'
        BY <1>5, <3>3
      <4> QED BY <3>1, <3>3, <4>1 DEF Superseded, Md!Newer
    <3> QED BY <3>1, <3>2, <3>3
  <2> QED BY <2>1, <2>2
<1>9. ASSUME NEW q \in Putters, NEW r \in Doomed(q)' PROVE Superseded(r)'
  <2>1. q # p /\ r \in Doomed(q) /\ r \in 1..made
    BY <1>6, <1>9 DEF Doomed, MediaShape
  <2> QED BY <1>5, <2>1 DEF NewestInv
<1> QED BY <1>7, <1>8, <1>9 DEF NewestInv

LEMMA WriteKeepsNewest ==
    ASSUME MediaShape, Times, NewestInv, NEW p \in Putters, Md!Write(p)
    PROVE  NewestInv'
<1> DEFINE o == Object(p)
<1>1. /\ made' = made /\ there' = there /\ refs' = refs /\ born' = born
      /\ mtime' = [mtime EXCEPT ![o] = clock + 1] /\ At(p) = "write"
      /\ mediaPut' = [mediaPut EXCEPT ![p].at = "seal"]
  BY DEF Md!Write, Md!Goto, Md!history, At, Object
<1>2. made \in Nat /\ clock \in Nat
  BY RunPathAssumption DEF MediaShape
<1>3. \A q \in 1..made :
          /\ mtime[q] \in Nat /\ mtime[q] <= clock
          /\ mtime'[q] = IF q = o THEN clock + 1 ELSE mtime[q]
  BY <1>1, <1>2, RunPathAssumption, SMTT(30) DEF MediaShape, Times, Md!MediaIds
<1>4. \A q \in 1..made : born'[q] = born[q] /\ mtime'[q] >= mtime[q] /\ mtime'[q] \in Nat
  BY <1>1, <1>2, <1>3
<1>5. \A q \in 1..made : Superseded(q) => Superseded(q)'
  BY <1>1, <1>2, <1>4, SupersededStays
<1>6. \A q \in Putters :
          /\ At(q)' # "idle" => At(q) # "idle" /\ Object(q)' = Object(q)
          /\ Doomed(q)' = Doomed(q)
  BY <1>1 DEF MediaShape, PutRecords, At, Object, Doomed
<1> HIDE DEF o
<1>7. \A q \in refs' : q \in there' \/ Superseded(q)'
  BY <1>1, <1>5 DEF MediaShape, NewestInv
<1>8. ASSUME NEW q \in Putters, At(q)' # "idle"
      PROVE  Object(q)' \in there' \/ Superseded(Object(q))'
  <2>1. Object(q)' = Object(q) /\ At(q) # "idle" /\ Object(q) \in 1..made
    BY <1>6, <1>8 DEF MediaShape
  <2>2. Object(q) \in there' \/ Superseded(Object(q))
    BY <1>1, <2>1 DEF NewestInv
  <2>3. ASSUME NEW r \in 1..made, r = Object(q), Superseded(r)
        PROVE  Superseded(Object(q))'
    <3>1. Superseded(r)'
      BY <1>5, <2>3
    <3> QED BY <2>1, <2>3, <3>1 DEF Superseded, Md!Newer
  <2> QED BY <2>1, <2>2, <2>3
<1>9. ASSUME NEW q \in Putters, NEW r \in Doomed(q)' PROVE Superseded(r)'
  <2>1. r \in Doomed(q) /\ r \in 1..made
    BY <1>6, <1>9 DEF MediaShape
  <2> QED BY <1>5, <2>1 DEF NewestInv
<1> QED BY <1>7, <1>8, <1>9 DEF NewestInv

LEMMA NewestKeeps ==
    ASSUME MediaShape, Times, NewestInv, Md!Next
    PROVE  NewestInv'
<1> PICK p \in Putters :
        \/ Md!Create(p) \/ Md!Write(p) \/ Md!Seal(p) \/ Md!SealFails(p) \/ Md!List(p)
        \/ \E o \in Md!MediaIds : Md!Evict(p, o)
        \/ Md!HandOut(p) \/ Md!Break(p)
  BY DEF Md!Next
<1>1. CASE Md!Create(p)
  BY <1>1, CreateKeepsNewest
<1>2. CASE Md!Write(p)
  BY <1>2, WriteKeepsNewest
<1>3. mediaPut[p] \in PutRecords
  BY DEF MediaShape
<1>4. CASE Md!Seal(p)
  <2>1. /\ UNCHANGED <<made, born, mtime, there, refs>> /\ At(p) = "seal"
        /\ mediaPut' = [mediaPut EXCEPT ![p].at = "list"]
    BY <1>4 DEF Md!Seal, Md!Goto, Md!files, At
  <2>2. /\ \A q \in Putters : q # p => mediaPut'[q] = mediaPut[q]
        /\ Object(p)' = Object(p) /\ Doomed(p)' = Doomed(p)
    BY <1>3, <2>1 DEF MediaShape, PutRecords, Object, Doomed
  <2> QED BY <2>1, <2>2, NewestStays
<1>5. CASE Md!List(p)
  <2>1. /\ UNCHANGED <<made, born, mtime, there, refs>> /\ At(p) = "list"
        /\ mediaPut' = [mediaPut EXCEPT ![p].at = "evict", ![p].doomed = Md!Overflow]
    BY <1>5 DEF Md!List, Md!files, At
  <2>2. /\ \A q \in Putters : q # p => mediaPut'[q] = mediaPut[q]
        /\ Object(p)' = Object(p) /\ Doomed(p)' = Md!Overflow
    BY <1>3, <2>1 DEF MediaShape, PutRecords, Object, Doomed
  <2>3. \A o \in Doomed(p)' : Superseded(o)
    BY <2>2, OverflowIsSuperseded
  <2> QED BY <2>1, <2>2, <2>3, NewestStays
<1>6. ASSUME NEW o \in Md!MediaIds, Md!Evict(p, o) PROVE NewestInv'
  <2>1. /\ UNCHANGED <<made, born, mtime, refs>> /\ At(p) = "evict" /\ o \in Doomed(p)
        /\ there' = there \ {o}
        /\ mediaPut' = [mediaPut EXCEPT ![p].doomed = @ \ {o}]
    BY <1>6 DEF Md!Evict, At, Doomed
  <2>2. /\ \A q \in Putters : q # p => mediaPut'[q] = mediaPut[q]
        /\ Object(p)' = Object(p) /\ Doomed(p)' = Doomed(p) \ {o}
    BY <1>3, <2>1 DEF MediaShape, PutRecords, Object, Doomed
  <2>3. Superseded(o)
    BY <2>1 DEF NewestInv
  <2> QED BY <2>1, <2>2, <2>3, NewestStays
<1>7. CASE Md!SealFails(p) \/ Md!HandOut(p) \/ Md!Break(p)
  <2>1. /\ UNCHANGED <<made, born, mtime>> /\ At(p) # "idle"
        /\ \/ there' = there
           \/ there' = there \ {Object(p)} /\ refs' = refs
        /\ refs' = refs \/ refs' = refs \cup {Object(p)}
        /\ mediaPut' = [mediaPut EXCEPT ![p] = Md!Idle]
    BY <1>7 DEF Md!SealFails, Md!HandOut, Md!Break, Md!files, At, Object
  <2>2. /\ \A q \in Putters : q # p => mediaPut'[q] = mediaPut[q]
        /\ At(p)' = "idle" /\ Doomed(p)' = {}
    BY <2>1 DEF MediaShape, Md!Idle, At, Doomed
  <2>3. \A o \in there \ there' : o = Object(p) /\ At(p)' = "idle" /\ refs' = refs
    BY <2>1, <2>2
  <2> QED BY <2>1, <2>2, <2>3, NewestStays
<1> QED BY <1>1, <1>2, <1>4, <1>5, <1>6, <1>7

\* The files of one moment that are not among those to go: max_items at most.
LEMMA ListingLeavesFew ==
    ASSUME MediaShape, Times
    PROVE  /\ IsFiniteSet(there \ Md!Overflow)
           /\ Cardinality(there \ Md!Overflow) <= MaxKept
<1> DEFINE time == [o \in there |-> mtime[o]]
           few == {o \in there : Cardinality({q \in there : time[q] > time[o]}) < MaxKept}
<1>1. made \in Nat /\ there \subseteq 1..made /\ IsFiniteSet(1..made)
  BY FS_Interval, RunPathAssumption DEF MediaShape
<1>2. IsFiniteSet(there)
  BY <1>1, FS_Subset
<1>3. \A o \in there : o \in Md!MediaIds /\ mtime[o] \in Nat
  BY <1>1, RunPathAssumption DEF MediaShape, Md!MediaIds
<1>4. time \in [there -> Nat]
  BY <1>3
<1>5. \A o, q \in there : time[o] = time[q] => o = q
  BY <1>1 DEF Times
<1>6. Cardinality(few) <= MaxKept
  <2> HIDE DEF time
  <2> QED BY <1>2, <1>4, <1>5, FewAreNew, RunPathAssumption
<1>7. \A o \in there : Md!After(o, there) = {q \in there : time[q] > time[o]}
  BY DEF Md!After
<1>8. \A o \in there : Cardinality(Md!After(o, there)) \in Nat
  <2> TAKE o \in there
  <2>1. Md!After(o, there) \subseteq there
    BY DEF Md!After
  <2> QED BY <1>2, <2>1, FS_Subset, FS_CardinalityType
<1>9. there \ Md!Overflow \subseteq few
  <2> SUFFICES ASSUME NEW o \in there, o \notin Md!Overflow
               PROVE  Cardinality({q \in there : time[q] > time[o]}) < MaxKept
    OBVIOUS
  <2>1. ~(Cardinality(Md!After(o, there)) >= MaxKept)
    BY SameCount DEF Md!Overflow
  <2>2. Cardinality(Md!After(o, there)) < MaxKept
    BY <1>8, <2>1, RunPathAssumption
  <2> HIDE DEF time
  <2> QED BY <1>7, <2>2
<1>10. IsFiniteSet(few)
  BY <1>2, FS_Subset
<1> HIDE DEF few
<1>11. /\ IsFiniteSet(there \ Md!Overflow)
       /\ Cardinality(there \ Md!Overflow) <= Cardinality(few)
  BY <1>9, <1>10, FS_Subset
<1>12. Cardinality(there \ Md!Overflow) \in Nat /\ Cardinality(few) \in Nat
  BY <1>10, <1>11, FS_CardinalityType
<1> QED BY <1>6, <1>11, <1>12, RunPathAssumption

\* The limit holds on when no file is left over that was not.
LEMMA FewerRemain ==
    ASSUME MediaShape, NEW gone, Cardinality(Remaining(gone)) <= MaxKept,
           NEW rest, rest \subseteq Remaining(gone)
    PROVE  Cardinality(rest) <= MaxKept
<1>1. made \in Nat /\ there \subseteq 1..made /\ IsFiniteSet(1..made)
  BY FS_Interval, RunPathAssumption DEF MediaShape
<1>2. IsFiniteSet(Remaining(gone))
  <2>1. Remaining(gone) \subseteq there
    BY DEF Remaining
  <2> QED BY <1>1, <2>1, FS_Subset
<1>3. IsFiniteSet(rest) /\ Cardinality(rest) <= Cardinality(Remaining(gone))
  BY <1>2, FS_Subset
<1>4. Cardinality(rest) \in Nat /\ Cardinality(Remaining(gone)) \in Nat
  BY <1>2, <1>3, FS_CardinalityType
<1> QED BY <1>3, <1>4, RunPathAssumption

\* A step of a put that is no listing: what it adds is still to be listed, and what it
\* lists or evicts no longer is gone, or left by a broken put.
LEMMA LimitStays ==
    ASSUME MediaShape, MediaShape', LimitInv, NEW p \in Putters,
           \A q \in Putters : q # p => mediaPut'[q] = mediaPut[q],
           left \subseteq left', \A o \in there' : o \in there \/ Pending(o)',
           \A o \in there' \ left' :
              At(p) \in {"write", "seal", "list"} /\ Object(p) = o =>
                 At(p)' \in {"write", "seal", "list"} /\ Object(p)' = o,
           \A o \in Doomed(p) : o \in Doomed(p)' \/ o \notin there' \/ o \in left'
    PROVE  LimitInv'
<1>1. PICK gone \in SUBSET (1..made) :
          /\ gone = {} \/ \E q \in Putters : gone = Doomed(q)
          /\ Cardinality(Remaining(gone)) <= MaxKept
  BY DEF LimitInv
<1>2. \A o \in there' \ left' : Pending(o) => Pending(o)'
  <2> SUFFICES ASSUME NEW o \in there' \ left', NEW q \in Putters,
                      At(q) \in {"write", "seal", "list"}, Object(q) = o
               PROVE  At(q)' \in {"write", "seal", "list"} /\ Object(q)' = o
    BY DEF Pending
  <2>1. CASE q = p
    BY <2>1
  <2>2. CASE q # p
    BY <2>2 DEF At, Object
  <2> QED BY <2>1, <2>2
<1>3. ASSUME NEW still, still \subseteq 1..made',
             still = {} \/ \E q \in Putters : still = Doomed(q)',
             \A o \in gone : o \in still \/ o \notin there' \/ o \in left'
      PROVE  LimitInv'
  <2> DEFINE rest == {o \in there' : ~Pending(o)' /\ o \notin left' /\ o \notin still}
  <2>1. rest \subseteq Remaining(gone)
    <3> SUFFICES ASSUME NEW o \in there', ~Pending(o)', o \notin left', o \notin still
                 PROVE  o \in there /\ ~Pending(o) /\ o \notin left /\ o \notin gone
      BY DEF Remaining
    <3> QED BY <1>2, <1>3
  <2> HIDE DEF rest
  <2>2. Cardinality(rest) <= MaxKept
    BY <1>1, <2>1, FewerRemain
  <2> USE DEF rest
  <2> QED BY <1>3, <2>2 DEF LimitInv, Remaining
<1>4. CASE gone = {}
  BY <1>3, <1>4
<1>5. ASSUME NEW q \in Putters, q # p, gone = Doomed(q) PROVE LimitInv'
  <2>1. Doomed(q)' = gone /\ gone \subseteq 1..made'
    BY <1>5 DEF Doomed, MediaShape
  <2> QED BY <1>3, <2>1
<1>6. CASE gone = Doomed(p)
  <2> DEFINE still == mediaPut'[p].doomed
  <2>1. still \subseteq 1..made' /\ still = Doomed(p)'
    BY DEF MediaShape, Doomed
  <2> HIDE DEF still
  <2> QED BY <1>3, <1>6, <2>1
<1> QED BY <1>1, <1>4, <1>5, <1>6

LEMMA LimitKeeps ==
    ASSUME MediaShape, MediaShape', Times, LimitInv, Md!Next
    PROVE  LimitInv'
<1> PICK p \in Putters :
        \/ Md!Create(p) \/ Md!Write(p) \/ Md!Seal(p) \/ Md!SealFails(p) \/ Md!List(p)
        \/ \E o \in Md!MediaIds : Md!Evict(p, o)
        \/ Md!HandOut(p) \/ Md!Break(p)
  BY DEF Md!Next
<1>1. mediaPut[p] \in PutRecords
  BY DEF MediaShape
<1>2. CASE Md!Create(p)
  <2> DEFINE record == [Md!Idle EXCEPT !.at = "write", !.object = made + 1]
  <2>1. /\ there' = there \cup {made + 1} /\ left' = left /\ At(p) = "idle"
        /\ mediaPut' = [mediaPut EXCEPT ![p] = record]
    BY <1>2 DEF Md!Create, Md!history, At
  <2>2. record.at = "write" /\ record.object = made + 1
    BY DEF Md!Idle
  <2> HIDE DEF record
  <2>3. /\ \A q \in Putters : q # p => mediaPut'[q] = mediaPut[q]
        /\ At(p)' = "write" /\ Object(p)' = made + 1
    BY <2>1, <2>2 DEF MediaShape, At, Object
  <2>4. \A o \in there' : o \in there \/ Pending(o)'
    BY <2>1, <2>3 DEF Pending
  <2>5. Doomed(p) = {}
    BY <2>1 DEF MediaShape
  <2> QED BY <2>1, <2>3, <2>4, <2>5, LimitStays
<1>3. CASE Md!Write(p) \/ Md!Seal(p)
  <2>1. PICK step \in {"seal", "list"} : mediaPut' = [mediaPut EXCEPT ![p].at = step]
    BY <1>3 DEF Md!Write, Md!Seal, Md!Goto
  <2>2. there' = there /\ left' = left
    BY <1>3 DEF Md!Write, Md!Seal, Md!files, Md!history
  <2>3. /\ \A q \in Putters : q # p => mediaPut'[q] = mediaPut[q]
        /\ At(p)' = step /\ Object(p)' = Object(p) /\ Doomed(p)' = Doomed(p)
    BY <1>1, <2>1 DEF MediaShape, PutRecords, At, Object, Doomed
  <2> QED BY <2>2, <2>3, LimitStays
<1>4. CASE Md!SealFails(p) \/ Md!HandOut(p) \/ Md!Break(p)
  <2>1. /\ mediaPut' = [mediaPut EXCEPT ![p] = Md!Idle] /\ there' \subseteq there
        /\ left \subseteq left'
        /\ \A o \in there' \ left' : o = Object(p) => At(p) = "evict"
        /\ Doomed(p) = {} \/ Doomed(p) \subseteq left'
    BY <1>4 DEF Md!SealFails, Md!HandOut, Md!Break, Md!files, Md!history, At, Object,
                Doomed, MediaShape
  <2>2. \A q \in Putters : q # p => mediaPut'[q] = mediaPut[q]
    BY <2>1 DEF MediaShape
  <2> QED BY <2>1, <2>2, LimitStays
<1>5. ASSUME NEW o \in Md!MediaIds, Md!Evict(p, o) PROVE LimitInv'
  <2>1. /\ At(p) = "evict" /\ there' = there \ {o} /\ left' = left
        /\ mediaPut' = [mediaPut EXCEPT ![p].doomed = @ \ {o}]
    BY <1>5 DEF Md!Evict, Md!history, At
  <2>2. /\ \A q \in Putters : q # p => mediaPut'[q] = mediaPut[q]
        /\ Doomed(p)' = Doomed(p) \ {o}
    BY <1>1, <2>1 DEF MediaShape, PutRecords, Doomed
  <2> QED BY <2>1, <2>2, LimitStays
<1>6. CASE Md!List(p)
  <2>1. /\ there' = there /\ left' = {} /\ UNCHANGED made
        /\ mediaPut' = [mediaPut EXCEPT ![p].at = "evict", ![p].doomed = Md!Overflow]
    BY <1>6 DEF Md!List, Md!files
  <2>2. Doomed(p)' = Md!Overflow
    BY <1>1, <2>1 DEF MediaShape, PutRecords, Doomed
  <2> DEFINE rest == {o \in there : ~Pending(o)' /\ o \notin Md!Overflow}
  <2>3. rest \subseteq there \ Md!Overflow
    OBVIOUS
  <2>4. IsFiniteSet(rest) /\ Cardinality(rest) <= Cardinality(there \ Md!Overflow)
    <3> HIDE DEF rest
    <3> QED BY <2>3, ListingLeavesFew, FS_Subset
  <2>5. Cardinality(rest) \in Nat /\ Cardinality(there \ Md!Overflow) \in Nat
    <3> HIDE DEF rest
    <3> QED BY <2>4, ListingLeavesFew, FS_CardinalityType
  <2>6. Cardinality(rest) <= MaxKept
    <3> HIDE DEF rest
    <3> QED BY <2>4, <2>5, ListingLeavesFew, RunPathAssumption
  <2> DEFINE gone == mediaPut'[p].doomed
  <2>7. gone = Md!Overflow /\ gone = Doomed(p)' /\ gone \subseteq 1..made'
    BY <2>2 DEF Doomed, MediaShape
  <2>8. {o \in there' : ~Pending(o)' /\ o \notin left' /\ o \notin gone} = rest
    BY <2>1, <2>7
  <2> HIDE DEF rest, gone
  <2> QED BY <2>6, <2>7, <2>8 DEF LimitInv, Remaining
<1> QED BY <1>2, <1>3, <1>4, <1>5, <1>6

LEMMA MediaInvariant == RunPathSpec => []MediaInv
<1>1. RunPathInit => MediaInv
  <2> SUFFICES ASSUME Md!Init PROVE MediaInv
    BY DEF RunPathInit
  <2>1. /\ made = 0 /\ there = {} /\ refs = {} /\ clock = 0
        /\ born = [o \in Md!MediaIds |-> 0] /\ mtime = [o \in Md!MediaIds |-> 0]
        /\ mediaPut = [p \in Putters |-> Md!Idle]
    BY DEF Md!Init
  <2>2. /\ Md!Idle \in PutRecords /\ Md!Idle.at = "idle" /\ Md!Idle.doomed = {}
    BY DEF Md!Idle, Md!NoMedia, PutRecords, Stages
  <2>3. MediaShape
    BY <2>1, <2>2, RunPathAssumption DEF MediaShape, At, Object, Doomed
  <2>4. Times
    BY <2>1 DEF Times
  <2>5. NewestInv
    BY <2>1, <2>2 DEF NewestInv, At, Doomed
  <2>6. Remaining({}) = {}
    BY <2>1 DEF Remaining
  <2>7. LimitInv
    BY <2>6, FS_EmptySet, RunPathAssumption DEF LimitInv
  <2> QED BY <2>3, <2>4, <2>5, <2>7 DEF MediaInv
<1>2. MediaInv /\ [RunPathNext]_runPathVars => MediaInv'
  <2> SUFFICES ASSUME MediaInv, [Md!Next]_(Md!mediaVars) PROVE MediaInv'
    BY RunPathSteps
  <2>1. CASE Md!Next
    BY <2>1, MediaStepShape, NewestKeeps, LimitKeeps DEF MediaInv
  <2>2. CASE UNCHANGED Md!mediaVars
    <3>1. UNCHANGED <<made, there, born, mtime, clock, mediaPut, refs, left>>
      BY <2>2 DEF Md!mediaVars
    <3>2. MediaShape'
      BY <3>1 DEF MediaInv, MediaShape, At, Object, Doomed
    <3>3. Times'
      BY <3>1 DEF MediaInv, Times
    <3>4. NewestInv'
      BY <3>1 DEF MediaInv, NewestInv, Superseded, Md!Newer, At, Object, Doomed
    <3>5. LimitInv'
      BY <3>1 DEF MediaInv, LimitInv, Remaining, Pending, At, Object, Doomed
    <3> QED BY <3>2, <3>3, <3>4, <3>5 DEF MediaInv
  <2> QED BY <2>1, <2>2
<1> QED BY <1>1, <1>2, PTL DEF RunPathSpec

\* What was written is kept. Whatever write a crash cuts short, and whatever text damages a
\* line, nothing is appended behind a damaged line of a run's events, and an event whose
\* append has returned stays in its place (persistence/run_store.py, append_event and
\* _read_events); and however the puts of several processes interleave, no listing takes away an
\* object before max_items newer ones were written, nor leaves more than max_items behind
\* (robot_media/store.py, LocalMediaStore._enforce_limit).
THEOREM RecordsStayKept == RunPathSpec => RecordsAreKept
<1>1. StoreInv => Rs!OnlyTheTailIsDamaged
  BY DEF StoreInv, CleanButTail, Rs!OnlyTheTailIsDamaged
<1>2. MediaInv => Md!NewestAreKept
  BY SameCount DEF MediaInv, NewestInv, Superseded, Md!NewestAreKept, Md!Resolves
<1>3. MediaInv => Md!LimitIsKept
  <2> SUFFICES ASSUME MediaInv, Md!Quiet PROVE Cardinality(there \ left) <= MaxKept
    BY SameCount DEF Md!LimitIsKept
  <2>1. PICK gone \in SUBSET (1..made) :
            /\ gone = {} \/ \E p \in Putters : gone = Doomed(p)
            /\ Cardinality(Remaining(gone)) <= MaxKept
    BY DEF MediaInv, LimitInv
  <2>2. \A p \in Putters : At(p) = "idle" /\ Doomed(p) = {}
    BY DEF Md!Quiet, MediaInv, MediaShape, At
  <2>3. gone = {} /\ \A o : ~Pending(o)
    BY <2>1, <2>2 DEF Pending
  <2>4. Remaining(gone) = there \ left
    BY <2>3 DEF Remaining
  <2> QED BY <2>1, <2>4
<1>4. StoreInv /\ MediaInv =>
          Rs!OnlyTheTailIsDamaged /\ Md!NewestAreKept /\ Md!LimitIsKept
  BY <1>1, <1>2, <1>3
<1>5. StoreInv /\ [RunPathNext]_runPathVars =>
          [\A i \in 1..Len(lines) :
              lines[i] \in Rs!Phases /\ (i < Len(lines) \/ storeEnded)
                  => i <= Len(lines') /\ lines'[i] = lines[i]]_(Rs!storeVars)
  BY EventsStay, RunPathSteps
<1> QED
  BY <1>4, <1>5, StoreInvariant, MediaInvariant, PTL
     DEF RunPathSpec, RecordsAreKept, Rs!RecordedStays

-----------------------------------------------------------------------------
(* The deployment.                                                         *)
NoChild == \A p \in Dp!Processes : proc[p] \notin Dp!Alive

\* Children exist only between start() and the end of stop().
DeployInv ==
    /\ DOMAIN proc = Dp!Processes
    /\ deploymentRun \in {"new", "runtime"} => \A p \in Dp!Processes : proc[p] = "none"
    /\ deploymentRun = "model" => proc["model"] = "none"
    /\ deploymentRun = "closing" => NoChild /\ ~credentials
    /\ deploymentRun = "over" /\ ~hit => NoChild /\ (proc["runtime"] = "none" \/ ~credentials)

\* A child that ends or loads leaves no new one.
LEMMA ChildKeeps ==
    ASSUME DeployInv, NEW p \in Dp!Processes, NEW s \in {"loaded", "exited", "killed"},
           proc[p] \in Dp!Alive, proc' = [proc EXCEPT ![p] = s],
           UNCHANGED <<deploymentRun, credentials, hit>>
    PROVE  DeployInv'
<1>1. /\ DOMAIN proc' = Dp!Processes
      /\ \A q \in Dp!Processes : q # p => proc'[q] = proc[q]
      /\ proc[p] # "none" /\ ~NoChild
  BY DEF DeployInv, Dp!Alive, NoChild
<1> QED BY <1>1 DEF DeployInv, NoChild, Dp!Processes

\* A failed start, also when a cancellation makes it fail.
LEMMA StartFailsKeeps == ASSUME DeployInv, Dp!StartFails PROVE DeployInv'
<1>1. CASE deploymentRun = "runtime" /\ deploymentRun' = "over" /\ UNCHANGED proc
  BY <1>1 DEF Dp!StartFails, DeployInv, NoChild, Dp!Alive, Dp!Processes
<1>2. CASE deploymentRun \in {"model", "gate"} /\ Dp!Undone
  BY <1>2 DEF Dp!StartFails, Dp!Undone, Dp!Terminated, DeployInv
<1> QED BY <1>1, <1>2 DEF Dp!StartFails

LEMMA DeployKeeps == DeployInv /\ [Dp!Next]_(Dp!deploymentVars) => DeployInv'
<1> SUFFICES ASSUME DeployInv, [Dp!Next]_(Dp!deploymentVars) PROVE DeployInv'
  OBVIOUS
<1>1. CASE UNCHANGED <<deploymentRun, proc, credentials, hit>>
  BY <1>1 DEF DeployInv, NoChild
<1>2. CASE Dp!Prepare \/ Dp!Reject
  BY <1>2 DEF Dp!Prepare, Dp!Reject, DeployInv, NoChild, Dp!Alive, Dp!Processes
<1>3. CASE Dp!Created
  BY <1>3 DEF Dp!Created, DeployInv, Dp!Processes
<1>4. CASE Dp!GatePasses \/ Dp!GatherEnds
  BY <1>4 DEF Dp!GatePasses, Dp!GatherEnds, DeployInv, NoChild
<1>5. CASE Dp!StopBackend
  BY <1>5 DEF Dp!StopBackend, Dp!Terminated, DeployInv
<1>6. CASE Dp!BackendStopped
  BY <1>6 DEF Dp!BackendStopped, DeployInv, NoChild
<1>7. CASE Dp!CloseServices
  BY <1>7 DEF Dp!CloseServices, DeployInv, NoChild
<1>8. CASE Dp!Fails
  BY <1>8, StartFailsKeeps DEF Dp!Fails
<1>9. CASE Dp!Cancel
  <2>1. CASE Dp!StartFails
    BY <2>1, StartFailsKeeps
  <2>2. CASE deploymentRun' = "unwind" /\ UNCHANGED <<proc, credentials, hit>>
    BY <2>2 DEF DeployInv
  <2>3. CASE deploymentRun' = "over" /\ hit' = TRUE /\ UNCHANGED <<proc, credentials>>
    BY <2>3 DEF DeployInv
  <2> QED BY <1>9, <2>1, <2>2, <2>3 DEF Dp!Cancel
<1>10. ASSUME NEW p \in Dp!Processes, Dp!Load(p) \/ Dp!Exit(p) \/ Dp!Kill(p)
       PROVE  DeployInv'
  BY <1>10, ChildKeeps DEF Dp!Load, Dp!Exit, Dp!Kill, Dp!Alive
<1>11. CASE \/ Dp!Watch \/ \E s \in Services : Dp!Serve(s)
            \/ \E t \in Dp!Tasks : Dp!EndCancelled(t)
  BY <1>1, <1>11 DEF Dp!Watch, Dp!Serve, Dp!EndCancelled, Dp!TaskTo
<1>12. CASE UNCHANGED Dp!deploymentVars
  BY <1>1, <1>12 DEF Dp!deploymentVars
<1> QED
  BY <1>2, <1>3, <1>4, <1>5, <1>6, <1>7, <1>8, <1>9, <1>10, <1>11, <1>12
  DEF Dp!Next, Dp!RunStep

\* Whatever ends the run - a failed start, a service, a child, one cancellation - no child
\* process outlives it, nor do the credentials, unless a cancellation hits the stopping
\* itself (app/runner.py, DeploymentRunner.run; app/robocasa_backend.py, start and stop).
THEOREM ChildrenAreStopped == RunPathSpec => []NoProcessIsLeft
<1>1. RunPathInit => DeployInv
  BY DEF RunPathInit, Dp!Init, DeployInv
<1>2. DeployInv /\ [RunPathNext]_runPathVars => DeployInv'
  BY DeployKeeps, RunPathSteps
<1>3. DeployInv => NoProcessIsLeft
  BY DEF DeployInv, NoChild, NoProcessIsLeft, Dp!NoProcessIsLeft
<1> QED BY <1>1, <1>2, <1>3, PTL DEF RunPathSpec

-----------------------------------------------------------------------------
(* Types. The follow service: whoever speaks to the robot has a session.   *)
Speaking == {"open", "check", "perceive", "close", "report"}

FollowTypes == Hf!TypeOK /\ (followPhase \in Speaking => followActive \in Session)

\* The client's calls and the statuses it hears.
LEMMA FollowClientTypes == ASSUME FollowTypes, Hf!Client PROVE FollowTypes'
<1>1. ASSUME NEW s \in Session, Hf!StartRun(s) \/ Hf!AbandonRun(s) \/ Hf!CancelRun(s)
      PROVE  FollowTypes'
  <2>1. followRun' \in [Session -> {"idle", "waiting", "returned", "cancelled", "abandoned"}]
    BY <1>1 DEF Hf!StartRun, Hf!AbandonRun, Hf!CancelRun, FollowTypes, Hf!TypeOK
  <2>2. followCommands' \in Seq({"start", "stop"} \X Session)
    <3>1. PICK c \in {"start", "stop"} \X Session :
            followCommands' = IF followUp THEN Append(followCommands, c) ELSE followCommands
      BY <1>1 DEF Hf!StartRun, Hf!AbandonRun, Hf!CancelRun, Hf!ToService
    <3>2. followCommands \in Seq({"start", "stop"} \X Session)
      BY DEF FollowTypes, Hf!TypeOK
    <3> QED BY <3>1, <3>2, AppendProperties
  <2>3. UNCHANGED <<status, stream, Hf!serviceVars, Hf!robotVars>>
    BY <1>1 DEF Hf!StartRun, Hf!AbandonRun, Hf!CancelRun
  <2> QED BY <2>1, <2>2, <2>3 DEF FollowTypes, Hf!TypeOK, Hf!serviceVars, Hf!robotVars
<1>2. CASE Hf!OnStatus
  <2>1. status # <<>> /\ status \in Seq(Session \X Hf!Kinds)
    BY <1>2 DEF Hf!OnStatus, FollowTypes, Hf!TypeOK
  <2>2. status' \in Seq(Session \X Hf!Kinds)
    BY <1>2, <2>1, HeadTailProperties DEF Hf!OnStatus
  <2>3. followRun' \in [Session -> {"idle", "waiting", "returned", "cancelled", "abandoned"}]
    BY <1>2 DEF Hf!OnStatus, FollowTypes, Hf!TypeOK
  <2> QED
    BY <1>2, <2>2, <2>3 DEF Hf!OnStatus, FollowTypes, Hf!TypeOK, Hf!serviceVars, Hf!robotVars
<1> QED BY <1>1, <1>2 DEF Hf!Client

\* The commands it is sent.
LEMMA FollowCommandTypes == ASSUME FollowTypes, Hf!OnCommand PROVE FollowTypes'
<1>1. followCommands # <<>> /\ followCommands \in Seq({"start", "stop"} \X Session)
  BY DEF Hf!OnCommand, FollowTypes, Hf!TypeOK
<1>2. /\ followCommands' \in Seq({"start", "stop"} \X Session)
      /\ Head(followCommands) \in {"start", "stop"} \X Session
  BY <1>1, HeadTailProperties DEF Hf!OnCommand
<1>3. PICK s \in Session : Hf!OnStop(s) \/ Hf!OnStart(s)
  BY <1>2 DEF Hf!OnCommand
<1>4. UNCHANGED <<followRun, stream, followUp, followCrashes, Hf!robotVars>>
  BY DEF Hf!OnCommand
<1>5. CASE Hf!OnStop(s)
  <2>1. stopSet' \in BOOLEAN /\ UNCHANGED <<status, followActive, followPhase, lost>>
    BY <1>5 DEF Hf!OnStop
  <2> QED BY <1>2, <1>4, <2>1 DEF FollowTypes, Hf!TypeOK, Hf!robotVars
<1>6. CASE Hf!OnStart(s)
  <2>1. status' \in Seq(Session \X Hf!Kinds)
    <3>1. status \in Seq(Session \X Hf!Kinds) /\ <<s, "busy">> \in Session \X Hf!Kinds
      BY DEF FollowTypes, Hf!TypeOK, Hf!Kinds
    <3> QED BY <1>6, <3>1, AppendProperties DEF Hf!OnStart
  <2>2. /\ stopSet' \in BOOLEAN /\ lost' \in 0..(MaxLost + 1)
        /\ followActive' \in Session \cup {NoSession}
        /\ followPhase' \in {"none", "open", "check", "perceive", "close", "report", "pop"}
        /\ followPhase' \in Speaking => followActive' \in Session
    <3>1. 0 \in 0..(MaxLost + 1)
      BY RunPathAssumption
    <3> QED BY <1>6, <3>1 DEF Hf!OnStart, FollowTypes, Hf!TypeOK
  <2> QED BY <1>2, <1>4, <2>1, <2>2 DEF FollowTypes, Hf!TypeOK, Hf!robotVars
<1> QED BY <1>3, <1>5, <1>6

\* A message to the robot carries the session that speaks.
LEMMA SpokenIsTyped ==
    ASSUME FollowTypes, followPhase \in Speaking, NEW act \in {"open", "close", "velocity"},
           Hf!ToRobot(act)
    PROVE  stream' \in Seq(Hf!Message)
<1>1. [act |-> act, sid |-> followActive] \in Hf!Message /\ stream \in Seq(Hf!Message)
  BY DEF FollowTypes, Hf!TypeOK, Hf!Message
<1> QED BY <1>1, AppendProperties DEF Hf!ToRobot

\* The session's task.
LEMMA FollowTaskTypes ==
    ASSUME FollowTypes,
           Hf!OpenStream \/ Hf!TakeFrame \/ Hf!ApplyVelocity \/ Hf!Ending
    PROVE  FollowTypes'
<1>1. CASE Hf!OpenStream \/ Hf!ApplyVelocity \/ Hf!CloseStream
  <2>1. stream' \in Seq(Hf!Message)
    BY <1>1, SpokenIsTyped
    DEF Hf!OpenStream, Hf!ApplyVelocity, Hf!CloseStream, Hf!TaskStep, Speaking
  <2>2. lost' \in 0..(MaxLost + 1)
    <3>1. lost \in 0..(MaxLost + 1) /\ lost \in Nat /\ MaxLost \in Nat
      BY RunPathAssumption DEF FollowTypes, Hf!TypeOK
    <3> QED
      BY <1>1, <3>1 DEF Hf!OpenStream, Hf!ApplyVelocity, Hf!CloseStream, Hf!Tracked
  <2>3. /\ followPhase \in Speaking /\ followPhase' \in {"check", "report"}
        /\ UNCHANGED <<followRun, followCommands, status, followUp, followActive, stopSet,
                       followCrashes, Hf!robotVars>>
    BY <1>1 DEF Hf!OpenStream, Hf!ApplyVelocity, Hf!CloseStream, Hf!TaskStep, Speaking
  <2> QED BY <2>1, <2>2, <2>3 DEF FollowTypes, Hf!TypeOK, Hf!robotVars
<1>2. CASE Hf!TakeFrame \/ Hf!EndLoop \/ Hf!LeaveLoop \/ Hf!PersonLost
  <2>1. lost' \in 0..(MaxLost + 1)
    <3>1. lost \in 0..(MaxLost + 1) /\ MaxLost \in Nat
      BY RunPathAssumption DEF FollowTypes, Hf!TypeOK
    <3> QED BY <1>2, <3>1 DEF Hf!TakeFrame, Hf!EndLoop, Hf!LeaveLoop, Hf!PersonLost
  <2>2. /\ followPhase \in Speaking /\ followPhase' \in {"perceive", "close"}
        /\ UNCHANGED <<followRun, followCommands, status, stream, followUp, followActive,
                       stopSet, followCrashes, Hf!robotVars>>
    BY <1>2 DEF Hf!TakeFrame, Hf!EndLoop, Hf!LeaveLoop, Hf!PersonLost, Hf!TaskStep, Speaking
  <2> QED BY <2>1, <2>2 DEF FollowTypes, Hf!TypeOK, Hf!robotVars
<1>3. CASE Hf!Report
  <2>1. status' \in Seq(Session \X Hf!Kinds)
    <3>1. /\ status \in Seq(Session \X Hf!Kinds)
          /\ <<followActive, "ended">> \in Session \X Hf!Kinds
      BY <1>3 DEF FollowTypes, Hf!TypeOK, Hf!Kinds, Hf!Report, Hf!TaskStep, Speaking
    <3> QED BY <1>3, <3>1, AppendProperties DEF Hf!Report
  <2> QED
    BY <1>3, <2>1 DEF Hf!Report, Hf!TaskStep, FollowTypes, Hf!TypeOK, Hf!robotVars, Speaking
<1>4. CASE Hf!ForgetSession
  BY <1>4 DEF Hf!ForgetSession, Hf!TaskStep, FollowTypes, Hf!TypeOK, Hf!robotVars, Speaking
<1> QED BY <1>1, <1>2, <1>3, <1>4 DEF Hf!Ending

\* The robot's handlers.
LEMMA FollowRobotTypes == ASSUME FollowTypes, Hf!Robot PROVE FollowTypes'
<1>1. CASE Hf!HandleOpen \/ Hf!HandleClose \/ Hf!HandleVelocity \/ Hf!DropVelocity
  <2>1. stream # <<>> /\ stream \in Seq(Hf!Message) /\ stream' = Tail(stream)
    BY <1>1 DEF Hf!HandleOpen, Hf!HandleClose, Hf!HandleVelocity, Hf!DropVelocity,
       Hf!NextOnStream, FollowTypes, Hf!TypeOK
  <2>2. stream' \in Seq(Hf!Message) /\ Head(stream) \in Hf!Message
    BY <2>1, HeadTailProperties
  <2>3. Head(stream).sid \in Session
    BY <2>2 DEF Hf!Message
  <2>4. /\ opened' \in Session \cup {NoSession} /\ wheels' \in Session \cup {NoSession}
        /\ closed' \subseteq Session
    BY <1>1, <2>3 DEF Hf!HandleOpen, Hf!HandleClose, Hf!HandleVelocity, Hf!DropVelocity,
       Hf!robotVars, FollowTypes, Hf!TypeOK
  <2>5. UNCHANGED <<followRun, followCommands, status, Hf!serviceVars>>
    BY <1>1 DEF Hf!HandleOpen, Hf!HandleClose, Hf!HandleVelocity, Hf!DropVelocity
  <2> QED BY <2>2, <2>4, <2>5 DEF FollowTypes, Hf!TypeOK, Hf!serviceVars
<1>2. CASE Hf!Watchdog
  BY <1>2 DEF Hf!Watchdog, Hf!serviceVars, FollowTypes, Hf!TypeOK
<1> QED BY <1>1, <1>2 DEF Hf!Robot

LEMMA FollowTypesKept == ASSUME FollowTypes, [Hf!Next]_(Hf!vars) PROVE FollowTypes'
<1>1. CASE UNCHANGED Hf!vars
  BY <1>1 DEF Hf!vars, FollowTypes, Hf!TypeOK
<1>2. CASE Hf!StopService \/ Hf!Restart
  BY <1>2 DEF Hf!StopService, Hf!Restart, Hf!robotVars, FollowTypes, Hf!TypeOK
<1>3. CASE Hf!Crash
  <2>1. followCommands' \in Seq({"start", "stop"} \X Session)
    BY <1>3 DEF Hf!Crash
  <2>2. followCrashes' \in 0..FollowCrashes /\ lost' \in 0..(MaxLost + 1)
    <3>1. followCrashes \in 0..FollowCrashes /\ FollowCrashes \in Nat /\ MaxLost \in Nat
      BY RunPathAssumption DEF FollowTypes, Hf!TypeOK
    <3> QED BY <1>3, <3>1 DEF Hf!Crash
  <2> QED BY <1>3, <2>1, <2>2 DEF Hf!Crash, Hf!robotVars, FollowTypes, Hf!TypeOK, Speaking
<1> QED
  BY <1>1, <1>2, <1>3, FollowClientTypes, FollowCommandTypes, FollowTaskTypes,
     FollowRobotTypes DEF Hf!Next, Hf!Service

LEMMA FollowBegins == RunPathInit => FollowTypes
<1> SUFFICES ASSUME Hf!Init PROVE FollowTypes
  BY DEF RunPathInit
<1>1. 0 \in 0..(MaxLost + 1) /\ 0 \in 0..FollowCrashes
  BY RunPathAssumption
<1>2. /\ followCommands \in Seq({"start", "stop"} \X Session)
      /\ status \in Seq(Session \X Hf!Kinds) /\ stream \in Seq(Hf!Message)
  BY DEF Hf!Init
<1> QED BY <1>1, <1>2 DEF Hf!Init, FollowTypes, Hf!TypeOK, Speaking

-----------------------------------------------------------------------------
(* Types. The deployment.                                                  *)
LEMMA DeployTypesKept == ASSUME Dp!TypeOK, [Dp!Next]_(Dp!deploymentVars) PROVE Dp!TypeOK'
<1>1. proc' \in [Dp!Processes -> Dp!Alive \cup {"none", "exited"}]
  BY DEF Dp!TypeOK, Dp!Next, Dp!deploymentVars, Dp!RunStep, Dp!Prepare, Dp!Created,
     Dp!GatePasses, Dp!GatherEnds, Dp!StopBackend, Dp!BackendStopped, Dp!CloseServices,
     Dp!Reject, Dp!Fails, Dp!StartFails, Dp!Undone, Dp!Terminated, Dp!Watch, Dp!Cancel,
     Dp!Load, Dp!Exit, Dp!Kill, Dp!Serve, Dp!EndCancelled, Dp!TaskTo, Dp!Alive
<1>2. task' \in [Dp!Tasks -> {"none", "starting", "serving", "cancelled", "ended", "returned"}]
  BY DEF Dp!TypeOK, Dp!Next, Dp!deploymentVars, Dp!RunStep, Dp!Prepare, Dp!Created,
     Dp!GatePasses, Dp!GatherEnds, Dp!StopBackend, Dp!BackendStopped, Dp!CloseServices,
     Dp!Reject, Dp!Fails, Dp!StartFails, Dp!Watch, Dp!Cancel, Dp!Cancelled,
     Dp!Load, Dp!Exit, Dp!Kill, Dp!Serve, Dp!EndCancelled, Dp!TaskTo
<1>3. deploymentCancels' \in 0..DeploymentCancels
  <2>1. deploymentCancels \in 0..DeploymentCancels /\ DeploymentCancels \in Nat
    BY RunPathAssumption DEF Dp!TypeOK
  <2> QED
    BY <2>1 DEF Dp!Next, Dp!deploymentVars, Dp!RunStep, Dp!Prepare, Dp!Created,
     Dp!GatePasses, Dp!GatherEnds, Dp!StopBackend, Dp!BackendStopped, Dp!CloseServices,
     Dp!Reject, Dp!Fails, Dp!Watch, Dp!Cancel,
     Dp!Load, Dp!Exit, Dp!Kill, Dp!Serve, Dp!EndCancelled, Dp!TaskTo
<1>4. /\ deploymentRun' \in {"new", "runtime", "model", "gate", "undo", "serving", "unwind",
                             "cancelling", "stopping", "closing", "over"}
      /\ credentials' \in BOOLEAN /\ hit' \in BOOLEAN
  BY DEF Dp!TypeOK, Dp!Next, Dp!deploymentVars, Dp!RunStep, Dp!Prepare, Dp!Created,
     Dp!GatePasses, Dp!GatherEnds, Dp!StopBackend, Dp!BackendStopped, Dp!CloseServices,
     Dp!Reject, Dp!Fails, Dp!StartFails, Dp!Undone, Dp!Watch, Dp!Cancel,
     Dp!Load, Dp!Exit, Dp!Kill, Dp!Serve, Dp!EndCancelled, Dp!TaskTo
<1> QED BY <1>1, <1>2, <1>3, <1>4 DEF Dp!TypeOK

LEMMA DeployBegins == RunPathInit => Dp!TypeOK
<1>1. 0 \in 0..DeploymentCancels
  BY RunPathAssumption
<1> QED BY <1>1 DEF RunPathInit, Dp!Init, Dp!TypeOK

-----------------------------------------------------------------------------
(* Types. The skill bus: what BusInv does not speak of.                    *)
\* A subscriber queue stays within its limit: for one event too many the oldest goes.
LEMMA PushedFits ==
    ASSUME NEW q \in Seq(Sb!Event), Len(q) <= MaxEventQueue, NEW e \in Sb!Event
    PROVE  Sb!Pushed(q, e) \in Seq(Sb!Event) /\ Len(Sb!Pushed(q, e)) <= MaxEventQueue
<1>1. MaxEventQueue \in Nat /\ MaxEventQueue >= 1 /\ Len(q) \in Nat
  BY RunPathAssumption, LenProperties
<1>2. CASE Len(q) >= MaxEventQueue
  <2>1. q # <<>>
    BY <1>1, <1>2, EmptySeq
  <2>2. Tail(q) \in Seq(Sb!Event) /\ Len(Tail(q)) = Len(q) - 1
    BY <2>1, HeadTailProperties
  <2>3. /\ Append(Tail(q), e) \in Seq(Sb!Event)
        /\ Len(Append(Tail(q), e)) = Len(Tail(q)) + 1
    BY <2>2, AppendProperties
  <2> QED BY <1>1, <1>2, <2>2, <2>3 DEF Sb!Pushed
<1>3. CASE ~(Len(q) >= MaxEventQueue)
  <2>1. Append(q, e) \in Seq(Sb!Event) /\ Len(Append(q, e)) = Len(q) + 1
    BY AppendProperties
  <2> QED BY <1>1, <1>3, <2>1 DEF Sb!Pushed
<1> QED BY <1>2, <1>3

\* A queue that hands its head over fits all the more.
LEMMA TailFits ==
    ASSUME NEW q \in Seq(Sb!Event), q # <<>>, Len(q) <= MaxEventQueue
    PROVE  /\ Tail(q) \in Seq(Sb!Event) /\ Len(Tail(q)) <= MaxEventQueue
           /\ Head(q) \in Sb!Event
<1>1. Tail(q) \in Seq(Sb!Event) /\ Len(Tail(q)) = Len(q) - 1 /\ Head(q) \in Sb!Event
  BY HeadTailProperties
<1>2. MaxEventQueue \in Nat /\ Len(q) \in Nat
  BY RunPathAssumption, LenProperties
<1> QED BY <1>1, <1>2

\* What the worker emits finds room.
LEMMA EmittedFits ==
    ASSUME Sb!TypeOK, NEW e \in Sb!Event, Sb!Emit(e)
    PROVE  backlog' \in Seq(Sb!Event) /\ Len(backlog') <= MaxEventQueue
BY PushedFits DEF Sb!Emit, Sb!TypeOK

\* A topic of the client's.
LEMMA PublishedIsTyped ==
    ASSUME NEW topic \in Seq(Runs), NEW r \in Runs PROVE Sb!Published(topic, r) \in Seq(Runs)
BY AppendProperties DEF Sb!Published

\* Seen from here, BusInv and these are the types.
BusRest ==
    /\ linked \in BOOLEAN /\ busServer \in {"down", "up"} /\ relay \in {"off", "on", "dead"}
    /\ busCancels \in Seq(Runs) /\ events \in Seq(Sb!Event)
    /\ backlog \in Seq(Sb!Event) /\ Len(backlog) <= MaxEventQueue
    /\ dropped \subseteq busAsked
    /\ busLatest \in [Runs -> {"none", "accepted", "terminal"}]
    /\ queue \in Seq(Sb!Event) /\ Len(queue) <= MaxEventQueue
    /\ busCrashes \in 0..RobotCrashes

LEMMA BusIsTyped == BusInv /\ BusRest <=> BusInv /\ Sb!TypeOK
BY DEF BusInv, BusShape, BusRest, Sb!TypeOK, BusAnswers

LEMMA BusClientTypes == ASSUME BusInv, BusRest, Sb!Client PROVE BusRest'
<1>1. CASE Sb!Connect \/ \E i \in Sb!Stops : Sb!EmergencyStop(i) \/ Sb!StopTimesOut(i)
  BY <1>1 DEF Sb!Connect, Sb!EmergencyStop, Sb!StopTimesOut, BusRest, Sb!topicVars,
     Sb!workerVars, Sb!clientVars
<1>2. ASSUME NEW r \in Runs, Sb!Submit(r) PROVE BusRest'
  BY <1>2 DEF Sb!Submit, BusRest, Sb!workerVars
<1>3. ASSUME NEW r \in Runs, Sb!Cancel(r) PROVE BusRest'
  <2>1. busCancels' \in Seq(Runs)
    BY <1>3, PublishedIsTyped DEF Sb!Cancel, BusRest
  <2> QED BY <1>3, <2>1 DEF Sb!Cancel, BusRest, Sb!workerVars
<1>4. CASE Sb!OnControlResult
  BY <1>4 DEF Sb!OnControlResult, BusRest, Sb!workerVars
<1>5. CASE Sb!OnEvent
  <2>1. events # <<>> /\ events \in Seq(Sb!Event)
    BY <1>5 DEF Sb!OnEvent, BusRest
  <2>2. events' \in Seq(Sb!Event) /\ Head(events) \in Sb!Event
    BY <1>5, <2>1, HeadTailProperties DEF Sb!OnEvent
  <2>3. queue' \in Seq(Sb!Event) /\ Len(queue') <= MaxEventQueue
    BY <1>5, <2>2, PushedFits DEF Sb!OnEvent, BusRest
  <2>4. busLatest' \in [Runs -> {"none", "accepted", "terminal"}]
    BY <1>5, <2>2 DEF Sb!OnEvent, BusRest, Sb!Event
  <2> QED BY <1>5, <2>2, <2>3, <2>4 DEF Sb!OnEvent, BusRest, Sb!workerVars
<1>6. CASE Sb!TakeEvent
  <2>1. queue' \in Seq(Sb!Event) /\ Len(queue') <= MaxEventQueue
    BY <1>6, TailFits DEF Sb!TakeEvent, BusRest
  <2> QED BY <1>6, <2>1 DEF Sb!TakeEvent, BusRest, Sb!topicVars, Sb!workerVars
<1> QED BY <1>1, <1>2, <1>3, <1>4, <1>5, <1>6 DEF Sb!Client

LEMMA BusServerTypes == ASSUME BusInv, BusRest, Sb!Server PROVE BusRest'
<1>0. Sb!TypeOK
  BY BusIsTyped
<1>1. CASE Sb!Start \/ Sb!RelayRegisters \/ Sb!OnControl \/ \E ok \in BOOLEAN : Sb!ReportControl(ok)
  BY <1>1 DEF Sb!Start, Sb!RelayRegisters, Sb!OnControl, Sb!ReportControl, BusRest,
     Sb!topicVars, Sb!workerVars, Sb!clientVars
<1>2. CASE Sb!OnCommand \/ \E r \in Runs : Sb!RunEnds(r)
  <2>1. backlog' \in Seq(Sb!Event) /\ Len(backlog') <= MaxEventQueue
    <3>1. CASE Sb!OnCommand
      <4>1. Head(busCommands) \in Runs
        BY <3>1, HeadTailProperties DEF Sb!OnCommand, BusInv, BusShape
      <4>2. [run |-> Head(busCommands), kind |-> "accepted"] \in Sb!Event
        BY <4>1 DEF Sb!Event
      <4> QED BY <1>0, <3>1, <4>2, EmittedFits DEF Sb!OnCommand
    <3>2. ASSUME NEW r \in Runs, Sb!RunEnds(r)
          PROVE  backlog' \in Seq(Sb!Event) /\ Len(backlog') <= MaxEventQueue
      <4>1. [run |-> r, kind |-> "terminal"] \in Sb!Event
        BY DEF Sb!Event
      <4> QED BY <1>0, <3>2, <4>1, EmittedFits DEF Sb!RunEnds
    <3> QED BY <1>2, <3>1, <3>2
  <2> QED
    BY <1>2, <2>1 DEF Sb!OnCommand, Sb!RunEnds, BusRest, Sb!topicVars, Sb!clientVars
<1>3. CASE Sb!OnCancel
  <2>1. busCancels' \in Seq(Runs)
    BY <1>3, HeadTailProperties DEF Sb!OnCancel, BusRest
  <2> QED BY <1>3, <2>1 DEF Sb!OnCancel, BusRest, Sb!clientVars
<1>4. CASE Sb!Relay
  <2>1. /\ backlog' \in Seq(Sb!Event) /\ Len(backlog') <= MaxEventQueue
        /\ Head(backlog) \in Sb!Event
    BY <1>4, TailFits DEF Sb!Relay, BusRest
  <2>2. events' \in Seq(Sb!Event)
    BY <1>4, <2>1, AppendProperties DEF Sb!Relay, Sb!Heard, BusRest
  <2> QED BY <1>4, <2>1, <2>2 DEF Sb!Relay, BusRest, Sb!clientVars
<1>5. CASE Sb!RelayDies \/ Sb!Crash
  <2>1. backlog' \in Seq(Sb!Event) /\ Len(backlog') <= MaxEventQueue
    <3>1. backlog' = <<>> /\ Len(<<>>) = 0 /\ MaxEventQueue \in Nat
      BY <1>5, RunPathAssumption DEF Sb!RelayDies, Sb!Crash
    <3> QED BY <3>1
  <2>2. busCrashes' \in 0..RobotCrashes
    <3>1. busCrashes \in 0..RobotCrashes /\ RobotCrashes \in Nat
      BY RunPathAssumption DEF BusRest
    <3> QED BY <1>5, <3>1 DEF Sb!RelayDies, Sb!Crash
  <2>3. busCancels' \in Seq(Runs)
    <3>1. busCancels' = busCancels \/ busCancels' = <<>>
      BY <1>5 DEF Sb!RelayDies, Sb!Crash, Sb!topicVars
    <3>2. busCancels \in Seq(Runs) /\ <<>> \in Seq(Runs)
      BY DEF BusRest
    <3> QED BY <3>1, <3>2
  <2> QED
    BY <1>5, <2>1, <2>2, <2>3
    DEF Sb!RelayDies, Sb!Crash, BusRest, Sb!topicVars, Sb!clientVars
<1> QED BY <1>1, <1>2, <1>3, <1>4, <1>5 DEF Sb!Server

LEMMA BusTypesKept == ASSUME BusInv, BusRest, [Sb!Next]_(Sb!skillBusVars) PROVE BusRest'
<1>1. CASE UNCHANGED Sb!skillBusVars
  BY <1>1 DEF Sb!skillBusVars, Sb!topicVars, Sb!workerVars, Sb!clientVars, BusRest
<1> QED BY <1>1, BusClientTypes, BusServerTypes DEF Sb!Next

LEMMA BusBegins == RunPathInit => BusRest
<1> SUFFICES ASSUME Sb!Init PROVE BusRest
  BY DEF RunPathInit
<1>1. 0 \in 0..RobotCrashes /\ MaxEventQueue \in Nat /\ Len(<<>>) = 0
  BY RunPathAssumption
<1>2. /\ busCancels \in Seq(Runs) /\ events \in Seq(Sb!Event)
      /\ backlog \in Seq(Sb!Event) /\ queue \in Seq(Sb!Event)
  BY DEF Sb!Init
<1>3. Len(backlog) <= MaxEventQueue /\ Len(queue) <= MaxEventQueue
  BY <1>1 DEF Sb!Init
<1> QED BY <1>1, <1>2, <1>3 DEF Sb!Init, BusRest

-----------------------------------------------------------------------------
(* Types. The run store: once an append has been repaired to pin, it is of *)
(* an outcome, which becomes the result.                                   *)
StoreRest ==
    /\ command \in {"none", "temporary", "written"} /\ result \in Rs!Outcomes \cup {"none"}
    /\ pinned \in BOOLEAN /\ trace \in {"none", "stored", "evicted"}
    /\ owner \in {"dead", "idle", "submitting", "running"}
    /\ storeCrashes \in 0..StoreCrashes
    /\ write.step \in {"pin", "store", "result"} => write.phase \in Rs!Outcomes

LEMMA StoreTypesKept == ASSUME StoreInv, StoreRest, [Rs!Next]_(Rs!storeVars) PROVE StoreRest'
<1>1. storeCrashes' \in 0..StoreCrashes
  <2>1. storeCrashes \in 0..StoreCrashes /\ StoreCrashes \in Nat
    BY RunPathAssumption DEF StoreRest
  <2>2. \/ storeCrashes' = storeCrashes
        \/ storeCrashes < StoreCrashes /\ storeCrashes' = storeCrashes + 1
    BY DEF Rs!Next, Rs!storeVars, Rs!Submit, Rs!Recorded, Rs!Emit, Rs!Status, Rs!Repair,
       Rs!Pin, Rs!StoreTrace, Rs!Evict, Rs!AppendLine, Rs!WriteResult, Rs!Crash,
       Rs!CrashInAppend, Rs!Dies, Rs!Restart, Rs!EmitRaises
  <2> QED BY <2>1, <2>2
<1>2. /\ command' \in {"none", "temporary", "written"} /\ pinned' \in BOOLEAN
      /\ trace' \in {"none", "stored", "evicted"}
      /\ owner' \in {"dead", "idle", "submitting", "running"}
  BY DEF StoreRest, Rs!Next, Rs!storeVars, Rs!files, Rs!media, Rs!Submit, Rs!Recorded, Rs!Emit,
     Rs!Status, Rs!Repair, Rs!Pin, Rs!StoreTrace, Rs!PutArtifact, Rs!Evict, Rs!AppendLine,
     Rs!WriteResult, Rs!Crash, Rs!CrashInAppend, Rs!Dies, Rs!Restart, Rs!EmitRaises
<1>3. result' \in Rs!Outcomes \cup {"none"}
  BY DEF StoreRest, Rs!Next, Rs!storeVars, Rs!files, Rs!Submit, Rs!Recorded, Rs!Emit,
     Rs!Status, Rs!Repair, Rs!Pin, Rs!StoreTrace, Rs!Evict, Rs!AppendLine,
     Rs!WriteResult, Rs!Crash, Rs!CrashInAppend, Rs!Restart, Rs!EmitRaises
<1>4. write'.step \in {"pin", "store", "result"} => write'.phase \in Rs!Outcomes
  <2>1. CASE Rs!Repair \/ Rs!AppendLine
    BY <2>1 DEF Rs!Repair, Rs!AppendLine, Rs!Terminal, Rs!NoWrite, StoreInv
  <2>2. CASE Rs!Pin \/ Rs!StoreTrace
    BY <2>2 DEF Rs!Pin, Rs!StoreTrace, StoreInv, StoreRest
  <2>3. CASE UNCHANGED write
    BY <2>3 DEF StoreRest
  <2>4. CASE Rs!Crash \/ Rs!CrashInAppend \/ Rs!WriteResult \/ Rs!Status \/ \E phase \in Rs!Phases : Rs!Emit(phase)
    BY <2>4 DEF Rs!Crash, Rs!CrashInAppend, Rs!Dies, Rs!WriteResult, Rs!NoWrite, Rs!Status, Rs!Emit
  <2> QED
    BY <2>1, <2>2, <2>3, <2>4 DEF Rs!Next, Rs!storeVars, Rs!Submit, Rs!Recorded, Rs!Evict,
       Rs!Restart, Rs!EmitRaises
<1> QED BY <1>1, <1>2, <1>3, <1>4 DEF StoreRest

LEMMA StoreBegins == RunPathInit => StoreRest
<1>1. 0 \in 0..StoreCrashes
  BY RunPathAssumption
<1> SUFFICES ASSUME Rs!Init PROVE StoreRest
  BY DEF RunPathInit
<1>2. pinned \in BOOLEAN /\ storeCrashes \in 0..StoreCrashes
  BY <1>1 DEF Rs!Init
<1>3. write.step = "none"
  BY DEF Rs!Init, Rs!NoWrite
<1> QED BY <1>2, <1>3 DEF Rs!Init, StoreRest

-----------------------------------------------------------------------------
(* Types. The media store: objects have names that were given out.         *)
MediaRest ==
    /\ \A p \in Putters : Object(p) \in 0..MaxMade /\ Doomed(p) \subseteq Md!MediaIds
    /\ left \subseteq 1..made /\ broken \in 0..MaxBroken

LEMMA MediaIsTyped == ASSUME MediaShape, MediaRest PROVE Md!TypeOK
<1>1. \A p \in Putters :
        mediaPut[p] \in [at : {"idle", "write", "seal", "list", "evict"},
                         object : 0..MaxMade, doomed : SUBSET Md!MediaIds]
  BY DEF MediaShape, MediaRest, PutRecords, Stages, Object, Doomed
<1>2. mediaPut \in [Putters -> [at : {"idle", "write", "seal", "list", "evict"},
                                object : 0..MaxMade, doomed : SUBSET Md!MediaIds]]
  BY <1>1 DEF MediaShape
<1> QED BY <1>2 DEF MediaShape, MediaRest, Md!TypeOK

LEMMA MediaTypesKept ==
    ASSUME MediaShape, MediaShape', MediaRest, [Md!Next]_(Md!mediaVars)
    PROVE  MediaRest'
<1>0. /\ made \in 0..MaxMade /\ made' \in 0..MaxMade /\ MaxMade \in Nat /\ MaxBroken \in Nat
      /\ broken \in 0..MaxBroken /\ 1..made' \subseteq Md!MediaIds
  BY RunPathAssumption DEF MediaShape, MediaRest, Md!MediaIds
<1>1. broken' \in 0..MaxBroken
  <2>1. broken' = broken \/ (broken < MaxBroken /\ broken' = broken + 1)
    BY DEF Md!Next, Md!mediaVars, Md!Create, Md!Write, Md!Seal, Md!SealFails, Md!List, Md!Evict,
       Md!HandOut, Md!Break, Md!history
  <2> QED BY <1>0, <2>1
<1>2. left' \subseteq 1..made'
  <2>1. ASSUME NEW p \in Putters, Md!Create(p) PROVE left' \subseteq 1..made'
    BY <1>0, <2>1 DEF Md!Create, Md!history, MediaRest
  <2>2. ASSUME NEW p \in Putters, Md!Break(p) PROVE left' \subseteq 1..made'
    BY <2>2 DEF Md!Break, MediaShape, MediaRest, At, Object, Doomed
  <2>3. CASE left' \subseteq left /\ made' = made
    BY <2>3 DEF MediaRest
  <2> QED
    BY <2>1, <2>2, <2>3 DEF Md!Next, Md!mediaVars, Md!Write, Md!Seal, Md!SealFails, Md!List, Md!Evict,
     Md!HandOut, Md!history, Md!files
<1>3. \A q \in Putters : Doomed(q)' \subseteq Md!MediaIds
  BY <1>0 DEF MediaShape, Doomed
<1>4. \A q \in Putters : Object(q)' \in 0..MaxMade
  <2>1. ASSUME NEW q \in Putters PROVE Object(q)' \in 0..MaxMade
    <3>1. CASE At(q)' # "idle"
      BY <1>0, <3>1 DEF MediaShape, Object, At
    <3>2. CASE At(q)' = "idle"
      <4>1. mediaPut'[q] = mediaPut[q] \/ mediaPut'[q] = Md!Idle
        <5>1. CASE UNCHANGED mediaPut
          BY <5>1
        <5>2. ASSUME NEW p \in Putters, Md!SealFails(p) \/ Md!HandOut(p) \/ Md!Break(p)
              PROVE  mediaPut'[q] = mediaPut[q] \/ mediaPut'[q] = Md!Idle
          BY <5>2 DEF Md!SealFails, Md!HandOut, Md!Break, MediaShape
        <5>3. ASSUME NEW p \in Putters, NEW at, at # "idle",
                     mediaPut' = [mediaPut EXCEPT ![p].at = at]
              PROVE  mediaPut'[q] = mediaPut[q]
          BY <3>2, <5>3 DEF MediaShape, PutRecords, At
        <5>4. ASSUME NEW p \in Putters, Md!Create(p) PROVE mediaPut'[q] = mediaPut[q]
          BY <3>2, <5>4 DEF Md!Create, Md!Idle, MediaShape, At
        <5>5. ASSUME NEW p \in Putters, Md!List(p) PROVE mediaPut'[q] = mediaPut[q]
          BY <3>2, <5>5 DEF Md!List, MediaShape, PutRecords, At
        <5>6. ASSUME NEW p \in Putters, NEW o \in Md!MediaIds, Md!Evict(p, o)
              PROVE  mediaPut'[q] = mediaPut[q]
          BY <3>2, <5>6 DEF Md!Evict, MediaShape, PutRecords, At
        <5> QED
          BY <5>1, <5>2, <5>3, <5>4, <5>5, <5>6
          DEF Md!Next, Md!mediaVars, Md!Write, Md!Seal, Md!Goto
      <4> QED BY <1>0, <4>1 DEF MediaRest, Object, Md!Idle, Md!NoMedia
    <3> QED BY <3>1, <3>2
  <2> QED BY <2>1
<1> QED BY <1>1, <1>2, <1>3, <1>4 DEF MediaRest

LEMMA MediaBegins == RunPathInit => MediaRest
<1>1. 0 \in 0..MaxBroken /\ 0 \in 0..MaxMade
  BY RunPathAssumption
<1> QED BY <1>1 DEF RunPathInit, Md!Init, MediaRest, Object, Doomed, Md!Idle, Md!NoMedia

-----------------------------------------------------------------------------
(* Types. The drives of the agent: while the model may be asked, a turn is *)
(* left.                                                                   *)
Turned(record) ==
    record.turns <= MaxTurns /\ (record.at = "model" => record.turns < MaxTurns)

DriveRest == Len(driveTalk) <= Recent /\ \A d \in Ad!Drives : Turned(drive[d])

\* The talk keeps its length: for one message too many the oldest goes.
LEMMA SaidFits ==
    ASSUME driveTalk \in Seq({"user", "text"}), Len(driveTalk) <= Recent,
           NEW role \in {"user", "text"}
    PROVE  Len(Ad!Said(role)) <= Recent
<1> DEFINE all == Append(driveTalk, role)
<1>1. all \in Seq({"user", "text"}) /\ Len(all) = Len(driveTalk) + 1
  BY AppendProperties
<1>2. Len(driveTalk) \in Nat /\ Recent \in Nat
  BY RunPathAssumption, LenProperties
<1> HIDE DEF all
<1>3. \A i \in 1..Len(all) : all[i] \in {"user", "text"}
  BY <1>1, ElementOfSeq
<1>4. CASE Len(all) > Recent
  <2>1. Len(SubSeq(all, 2, Len(all))) = IF 2 <= Len(all) THEN Len(all) - 2 + 1 ELSE 0
    <3>1. Len(all) \in Int /\ \A i \in 2..Len(all) : all[i] \in {"user", "text"}
      BY <1>1, <1>2, <1>3
    <3> QED BY <3>1, SubSeqProperties
  <2>2. Ad!Said(role) = SubSeq(all, 2, Len(all))
    BY <1>4 DEF Ad!Said, all
  <2> QED BY <1>1, <1>2, <2>1, <2>2
<1>5. CASE ~(Len(all) > Recent)
  <2>1. Len(SubSeq(all, 1, Len(all))) = IF 1 <= Len(all) THEN Len(all) - 1 + 1 ELSE 0
    <3>1. Len(all) \in Int
      BY <1>1, <1>2
    <3> QED BY <1>3, <3>1, SubSeqProperties
  <2>2. Ad!Said(role) = SubSeq(all, 1, Len(all))
    BY <1>5 DEF Ad!Said, all
  <2> QED BY <1>1, <1>2, <1>5, <2>1, <2>2
<1> QED BY <1>4, <1>5

\* A drive begins with all its turns, and one that has ended has used none.
LEMMA FreshIsTurned ==
    ASSUME NEW at \in Ad!Ended \cup {"model"}, NEW messages
    PROVE  /\ Turned(Ad!Unused) /\ Turned([Ad!Unused EXCEPT !.at = at, !.messages = messages])
           /\ at \in Ad!Ended => Turned([Ad!Unused EXCEPT !.at = at])
BY RunPathAssumption DEF Turned, Ad!Unused, Ad!Ended

LEMMA OneDriveTurns ==
    ASSUME DriveShape, DriveRest, NEW d \in Ad!Drives, NEW record, Turned(record),
           drive' = [drive EXCEPT ![d] = record]
    PROVE  \A e \in Ad!Drives : Turned(drive'[e])
BY DEF DriveShape, DriveRest

\* A step of a drive that counts no turn beyond the last.
LEMMA DriveToTurns ==
    ASSUME DriveShape, DriveRest, NEW d \in Ad!Drives, NEW at \in Places, NEW more,
           NEW turns \in Nat, Ad!DriveTo(d, at, more, turns),
           at \in Ad!Ended \/ (turns <= MaxTurns /\ (at = "model" => turns < MaxTurns))
    PROVE  \A e \in Ad!Drives : Turned(drive'[e])
<1>1. CASE at \in Ad!Ended
  BY <1>1, FreshIsTurned, OneDriveTurns DEF Ad!DriveTo
<1>2. CASE at \notin Ad!Ended
  <2> DEFINE new == [drive[d] EXCEPT !.at = at, !.turns = turns,
                                     !.messages = drive[d].messages \o more]
  <2>1. drive' = [drive EXCEPT ![d] = new]
    BY <1>2 DEF Ad!DriveTo
  <2>2. new.at = at /\ new.turns = turns
    <3>1. drive[d] \in Records
      BY DEF DriveShape
    <3> QED BY <3>1 DEF Records
  <2> HIDE DEF new
  <2>3. Turned(new)
    BY <1>2, <2>2 DEF Turned
  <2> QED BY <2>1, <2>3, OneDriveTurns
<1> QED BY <1>1, <1>2

LEMMA LaunchTurns ==
    ASSUME DriveInv, DriveRest, NEW c \in Ad!Callers, NEW messages, Ad!LaunchDrive(c, messages)
    PROVE  \A e \in Ad!Drives : Turned(drive'[e])
<1>1. CASE Ad!Joins(current)
  BY <1>1 DEF Ad!LaunchDrive, DriveRest
<1>2. CASE ~Ad!Joins(current)
  BY <1>2, FreeIsFree, FreshIsTurned, OneDriveTurns DEF Ad!LaunchDrive, DriveInv
<1> QED BY <1>1, <1>2

LEMMA DriveTypesKept == ASSUME DriveInv, DriveRest, [Ad!Next]_(Ad!driveVars) PROVE DriveRest'
<1>0. driveTalk \in Seq({"user", "text"}) /\ DriveShape /\ "turn" \in Ad!Callers
  BY DEF DriveInv, DriveShape, Ad!Callers
<1>1. Len(driveTalk') <= Recent
  <2>1. UNCHANGED driveTalk \/ \E role \in {"user", "text"} : driveTalk' = Ad!Said(role)
    BY DEF Ad!Next, Ad!driveVars, Ad!Prompt, Ad!Note, Ad!Steer, Ad!Aborted, Ad!Queued, Ad!Resume,
       Ad!Return, Ad!Launch, Ad!DriveTo, Ad!GoOn, Ad!TimesOut, Ad!Fails, Ad!Proposes, Ad!Chats,
       Ad!Acts, Ad!Aborts
  <2> QED BY <1>0, <2>1, SaidFits DEF DriveRest
<1>2. \A e \in Ad!Drives : Turned(drive'[e])
  <2>1. ASSUME UNCHANGED drive PROVE \A e \in Ad!Drives : Turned(drive'[e])
    BY <2>1 DEF DriveRest
  <2>2. ASSUME Ad!Launch("turn") PROVE \A e \in Ad!Drives : Turned(drive'[e])
    BY <1>0, <2>1, <2>2, LaunchTurns DEF Ad!Launch
  <2>3. CASE Ad!Prompt \/ Ad!Aborted \/ Ad!Queued \/ Ad!Note \/ \E c \in Ad!Callers : Ad!Resume(c)
    BY <1>0, <2>1, <2>2, <2>3, LaunchTurns
    DEF Ad!Prompt, Ad!Aborted, Ad!Queued, Ad!Note, Ad!Resume
  <2>4. CASE Ad!Steer
    <3>1. CASE ~Ad!Running(current)
      BY <2>2, <2>4, <3>1 DEF Ad!Steer
    <3>2. CASE Ad!Running(current)
      <4> DEFINE new == [drive[current] EXCEPT !.cancelled = TRUE]
      <4>1. drive' = [drive EXCEPT ![current] = new]
        BY <2>4, <3>2 DEF Ad!Steer
      <4>2. current \in Ad!Drives /\ drive[current] \in Records
        BY <3>2 DEF DriveInv, DriveShape, Ad!Running
      <4>3. new.at = drive[current].at /\ new.turns = drive[current].turns
        BY <4>2 DEF Records
      <4> HIDE DEF new
      <4>4. Turned(new)
        BY <4>2, <4>3 DEF Turned, DriveRest
      <4> QED BY <1>0, <4>1, <4>2, <4>4, OneDriveTurns
    <3> QED BY <3>1, <3>2
  <2>5. ASSUME NEW c \in Ad!Callers, Ad!Return(c) PROVE \A e \in Ad!Drives : Turned(drive'[e])
    <3>1. drive' = drive \/ drive' = [drive EXCEPT ![caller[c].on] = Ad!Unused]
      BY <2>5 DEF Ad!Return
    <3>2. Turned(Ad!Unused)
      BY FreshIsTurned
    <3> QED BY <1>0, <2>1, <3>1, <3>2 DEF DriveShape, DriveRest
  <2>6. ASSUME NEW d \in Ad!Drives,
               Ad!TimesOut(d) \/ Ad!Fails(d) \/ Ad!Proposes(d) \/ Ad!Chats(d) \/ Ad!Acts(d) \/ Ad!Aborts(d)
        PROVE  \A e \in Ad!Drives : Turned(drive'[e])
    <3>1. /\ drive[d].turns \in Nat /\ drive[d].turns + 1 \in Nat /\ MaxTurns \in Nat
          /\ drive[d].turns <= MaxTurns
          /\ drive[d].at = "model" => drive[d].turns + 1 <= MaxTurns
      BY <1>0, RunPathAssumption DEF DriveShape, Records, DriveRest, Turned
    <3>2. {"model", "tool", "replied", "waiting", "aborted"} \in SUBSET Places
          /\ {"replied", "waiting", "aborted"} \in SUBSET Ad!Ended
      BY DEF Places, Ad!Ended
    <3>3. CASE Ad!TimesOut(d) \/ Ad!Fails(d) \/ Ad!Aborts(d)
      BY <1>0, <3>1, <3>2, <3>3, DriveToTurns DEF Ad!TimesOut, Ad!Fails, Ad!Aborts
    <3>4. CASE Ad!Proposes(d)
      BY <1>0, <3>1, <3>2, <3>4, DriveToTurns DEF Ad!Proposes, Ad!Decided, Ad!Deciding
    <3>5. CASE Ad!Chats(d)
      BY <1>0, <3>1, <3>2, <3>5, DriveToTurns DEF Ad!Chats, Ad!GoOn
    <3>6. CASE Ad!Acts(d)
      BY <1>0, <3>1, <3>2, <3>6, DriveToTurns DEF Ad!Acts, Ad!GoOn
    <3> QED BY <2>6, <3>3, <3>4, <3>5, <3>6
  <2> QED
    BY <2>1, <2>3, <2>4, <2>5, <2>6 DEF Ad!Next, Ad!driveVars
<1> QED BY <1>1, <1>2 DEF DriveRest

LEMMA DriveIsTyped == ASSUME DriveShape, DriveRest PROVE Ad!TypeOK
<1>1. ASSUME NEW d \in Ad!Drives
      PROVE  /\ drive[d].at \in Ad!Ended \cup {"model", "tool"}
             /\ drive[d].turns \in 0..MaxTurns /\ drive[d].cancelled \in BOOLEAN
             /\ Ad!Range(drive[d].messages) \subseteq Ad!Roles
  <2>1. drive[d] \in Records
    BY DEF DriveShape
  <2>2. drive[d].at \in Ad!Ended \cup {"model", "tool"} /\ drive[d].cancelled \in BOOLEAN
    BY <2>1 DEF Records, Places
  <2>3. drive[d].turns \in 0..MaxTurns
    BY <2>1, RunPathAssumption DEF Records, DriveRest, Turned
  <2>4. drive[d].messages \in Seq(Ad!Roles)
    BY <2>1 DEF Records
  <2>5. Ad!Range(drive[d].messages) \subseteq Ad!Roles
    BY <2>4, ElementOfSeq, LenProperties DEF Ad!Range
  <2> QED BY <2>2, <2>3, <2>5
<1>2. Ad!Range(driveTalk) \subseteq {"user", "text"}
  BY ElementOfSeq, LenProperties DEF DriveShape, Ad!Range
<1>3. Len(driveTalk) <= Recent
  BY DEF DriveRest
<1> QED BY <1>1, <1>2, <1>3 DEF DriveShape, CallerRecords, Ad!TypeOK

LEMMA DriveBegins == RunPathInit => DriveRest
<1> SUFFICES ASSUME Ad!Init PROVE DriveRest
  BY DEF RunPathInit
<1>1. Turned(Ad!Unused)
  BY FreshIsTurned
<1>2. Len(driveTalk) <= Recent
  <2>1. driveTalk = <<>> /\ Len(<<>>) = 0 /\ Recent \in Nat
    BY RunPathAssumption DEF Ad!Init
  <2> QED BY <2>1
<1> QED BY <1>1, <1>2 DEF Ad!Init, DriveRest

-----------------------------------------------------------------------------
(* Whatever happens on the way of a run - callers that meet, topics and    *)
(* processes that are lost, a crash between two writes or in one, a write  *)
(* to an object another process unlinks, a cancellation that hits the      *)
(* stopping - each component keeps its types: no queue passes its limit,   *)
(* no drive its turns, no object gets a name that was not given out.       *)
THEOREM RunPathTypesAreKept == RunPathSpec => []RunPathTypes
<1>1. RunPathInit => DriveRest /\ BusRest /\ StoreRest /\ MediaRest /\ Dp!TypeOK /\ FollowTypes
  BY DriveBegins, BusBegins, StoreBegins, MediaBegins, DeployBegins, FollowBegins
<1>2. RunPathInit => BusInv
  BY BusInit DEF RunPathInit
<1>3. DriveInv /\ DriveRest /\ [RunPathNext]_runPathVars => DriveRest'
  BY DriveTypesKept, RunPathSteps
<1>4. /\ BusInv /\ [RunPathNext]_runPathVars => BusInv'
      /\ BusInv /\ BusRest /\ [RunPathNext]_runPathVars => BusRest'
  BY BusKeeps, BusTypesKept, RunPathSteps
<1>5. StoreInv /\ StoreRest /\ [RunPathNext]_runPathVars => StoreRest'
  BY StoreTypesKept, RunPathSteps
<1>6. MediaInv /\ MediaInv' /\ MediaRest /\ [RunPathNext]_runPathVars => MediaRest'
  BY MediaTypesKept, RunPathSteps DEF MediaInv
<1>7. /\ Dp!TypeOK /\ [RunPathNext]_runPathVars => Dp!TypeOK'
      /\ FollowTypes /\ [RunPathNext]_runPathVars => FollowTypes'
  BY DeployTypesKept, FollowTypesKept, RunPathSteps
<1>8. /\ DriveInv /\ DriveRest /\ BusInv /\ BusRest /\ StoreInv /\ StoreRest
      /\ MediaInv /\ MediaRest /\ Dp!TypeOK /\ FollowTypes
      => RunPathTypes
  BY DriveIsTyped, BusIsTyped, MediaIsTyped
  DEF DriveInv, StoreInv, StoreRest, StoreLines, MediaInv, FollowTypes, RunPathTypes, Rs!TypeOK
<1> QED
  BY <1>1, <1>2, <1>3, <1>4, <1>5, <1>6, <1>7, <1>8, DriveInvariant, StoreInvariant,
     MediaInvariant, PTL DEF RunPathSpec
=============================================================================
