--------------------------- MODULE RobotMotionProofs ---------------------------
(***************************************************************************)
(* Theorems about RobotMotion for every set of calls, every size of the     *)
(* thread pool and every number of servo faults.                            *)
(*                                                                          *)
(* CurrentIsAdmitted rests on the control lock alone (Plane): whoever holds *)
(* it has just been handed it or is applying, and who waits for it has no   *)
(* job in a thread.  The watchdog rests on the base lock (Base): a thread   *)
(* is between its test and its stop exactly while it holds that lock, and   *)
(* whoever gives the lock back after the wheels have changed hands has      *)
(* changed the generation, so that a timer still current watches the        *)
(* velocity it was started for; an exchange that raises breaks this once    *)
(* and for all, and from then on the wheels keep the velocity they have.    *)
(***************************************************************************)
EXTENDS RobotMotion, SequenceTheorems, TLAPS

Elems(s) == {s[i] : i \in 1 .. Len(s)}
Distinct(s) == \A i, j \in 1 .. Len(s) : s[i] = s[j] => i = j

CoStates == {"idle", "preempting", "queued", "granted", "applying", "done", "cancelled"}
Locked == {"check", "write", "pulse", "stopping"}

\* The control lock: who holds it, who waits for it, and who is current.
Applying(c) == co[c] = "applying" /\ req[c].plane

Plane ==
    /\ \A c \in Calls :
        /\ co[c] \in {"idle", "queued", "granted", "done"} => th[c] = "none"
        /\ co[c] = "applying" => th[c] # "none"
        /\ co[c] \in {"preempting", "queued", "granted"} => req[c].plane
        /\ co[c] = "granted" \/ Applying(c) <=> holder = c
        /\ Applying(c) <=> current = c
    /\ Distinct(waiters)
    /\ \A c \in Elems(waiters) : co[c] = "queued"

\* A job waits for a thread at most once.
Pool ==
    /\ Distinct(pool)
    /\ \A j \in Elems(pool) : th[j] = "queued"

\* Timer c, if it elapses, will find itself current.
IsCurrent(c) == timer[c] # "none" /\ timerGen[c] = generation

Base ==
    /\ \A c \in Calls : th[c] \in Locked <=> baseLock = c
    /\ \A c \in Calls : timerGen[c] <= generation
    /\ baseLock = None /\ ~portInUse =>
           \A c \in Calls : IsCurrent(c) => wheels \in {None, c}
    /\ baseLock # None /\ job[baseLock] # "velocity" => \A c \in Calls : ~IsCurrent(c)

Closing ==
    /\ th[Closer] \in {"queued", "close_base"} => close = "client"
    /\ th[Closer] = "close_bus" => close = "base_closed"
    /\ th[Closer] = "ended" => close \in {"base_closed", "failed"}

\* TypeOK, by what a step may leave alone.
LoopTypes ==
    /\ req \in [Calls -> AllRequests] /\ co \in [Calls -> CoStates]
    /\ holder \in Calls \cup {None} /\ waiters \in Seq(Calls)
    /\ current \in Calls \cup {None}

ThStates == {"none", "queued", "lock", "check", "write", "pulse", "stopping", "arm",
             "close_base", "close_bus", "ended"}

ThreadTypes ==
    /\ job \in [Jobs -> Ops] /\ th \in [Jobs -> ThStates]
    /\ th[Closer] \in {"none", "queued", "close_base", "close_bus", "ended"}
    /\ \A c \in Calls : th[c] \notin {"close_base", "close_bus"}
    /\ pool \in Seq(Jobs)

DogTypes ==
    /\ baseLock \in Calls \cup {None} /\ generation \in Nat
    /\ watchdog \in Calls \cup {None}
    /\ timer \in [Calls -> {"none", "set", "elapsed"}] /\ timerGen \in [Calls -> Nat]

WheelTypes ==
    /\ wheels \in Calls \cup {None} /\ stopOk \in BOOLEAN /\ faults \in 0 .. MaxFaults
    /\ portInUse \in BOOLEAN /\ initialized \in BOOLEAN /\ busOpen \in BOOLEAN
    /\ close \in {"open", "waiting", "client", "base_closed", "failed", "closed"}

Types == LoopTypes /\ ThreadTypes /\ DogTypes /\ WheelTypes

IInv == Types /\ Plane /\ Pool /\ Base /\ Closing /\ DrivingIsWatched

-----------------------------------------------------------------------------
LEMMA AppendElems ==
    ASSUME NEW S, NEW s \in Seq(S), NEW x \in S, Distinct(s), x \notin Elems(s)
    PROVE  /\ Append(s, x) \in Seq(S)
           /\ Distinct(Append(s, x))
           /\ Elems(Append(s, x)) = Elems(s) \cup {x}
<1>1. Append(s, x) \in Seq(S) /\ Len(Append(s, x)) = Len(s) + 1 /\ Len(s) \in Nat
  BY AppendProperties, LenProperties
<1>2. \A i \in 1 .. Len(s) + 1 : Append(s, x)[i] = IF i <= Len(s) THEN s[i] ELSE x
  BY AppendProperties, <1>1
<1>3. Elems(Append(s, x)) = Elems(s) \cup {x}
  BY <1>1, <1>2 DEF Elems
<1>4. Distinct(Append(s, x))
  BY <1>1, <1>2 DEF Distinct, Elems
<1> QED
  BY <1>1, <1>3, <1>4

LEMMA TailElems ==
    ASSUME NEW S, NEW s \in Seq(S), s # <<>>, Distinct(s)
    PROVE  /\ Head(s) \in S /\ Tail(s) \in Seq(S)
           /\ Distinct(Tail(s))
           /\ Elems(Tail(s)) = Elems(s) \ {Head(s)}
           /\ Head(s) \in Elems(s)
<1>1. /\ Head(s) \in S /\ Tail(s) \in Seq(S) /\ Head(s) = s[1]
      /\ Len(s) \in Nat \ {0} /\ Len(Tail(s)) = Len(s) - 1
      /\ \A i \in 1 .. Len(Tail(s)) : Tail(s)[i] = s[i + 1]
  BY HeadTailProperties, LenProperties, EmptySeq
<1>2. Distinct(Tail(s))
  BY <1>1 DEF Distinct
<1>3. Head(s) \in Elems(s)
  BY <1>1 DEF Elems
<1>4. \A i \in 1 .. Len(Tail(s)) : i + 1 \in 1 .. Len(s)
  BY <1>1
<1>5. \A i \in 1 .. Len(s) : i # 1 => i - 1 \in 1 .. Len(Tail(s)) /\ Tail(s)[i - 1] = s[i]
  BY <1>1
<1>6. Elems(Tail(s)) \subseteq Elems(s) \ {Head(s)}
  BY <1>1, <1>4 DEF Elems, Distinct
<1>7. Elems(s) \ {Head(s)} \subseteq Elems(Tail(s))
  BY <1>1, <1>5 DEF Elems
<1> QED
  BY <1>1, <1>2, <1>3, <1>6, <1>7

\* What deque.remove() leaves.
LEMMA WithoutElems ==
    ASSUME NEW S, NEW s \in Seq(S), NEW x, Distinct(s)
    PROVE  /\ Without(s, x) \in Seq(S)
           /\ Distinct(Without(s, x))
           /\ Elems(Without(s, x)) = Elems(s) \ {x}
<1>1. Len(s) \in Nat /\ DOMAIN s = 1 .. Len(s) /\ \A i \in 1 .. Len(s) : s[i] \in S
  BY LenProperties, ElementOfSeq
<1>2. CASE \A i \in DOMAIN s : s[i] # x
  <2>1. Without(s, x) = s
    BY <1>2 DEF Without
  <2> QED
    BY <1>1, <1>2, <2>1 DEF Elems
<1>3. CASE ~(\A i \in DOMAIN s : s[i] # x)
  <2> DEFINE at == CHOOSE i \in DOMAIN s : s[i] = x
             r == [i \in 1 .. (Len(s) - 1) |-> IF i < at THEN s[i] ELSE s[i + 1]]
  <2>1. at \in 1 .. Len(s) /\ s[at] = x
    BY <1>1, <1>3
  <2>2. Without(s, x) = r
    BY <1>3 DEF Without
  <2> HIDE DEF at
  <2>3. Len(s) - 1 \in Nat
    BY <1>1, <2>1
  <2>4. r \in Seq(S)
    BY <1>1, <2>1, <2>3, IsASeq
  <2>5. Len(r) = Len(s) - 1
    BY <2>3, <2>4, LenProperties
  <2>6. Distinct(r)
    BY <1>1, <2>1, <2>5 DEF Distinct
  <2>7. Elems(r) \subseteq Elems(s) \ {x}
    <3> SUFFICES ASSUME NEW i \in 1 .. Len(s) - 1 PROVE r[i] \in Elems(s) /\ r[i] # x
      BY <2>5 DEF Elems
    <3>1. i \in 1 .. Len(s) /\ i + 1 \in 1 .. Len(s)
      BY <1>1
    <3>2. CASE i < at
      BY <2>1, <3>1, <3>2 DEF Elems, Distinct
    <3>3. CASE ~(i < at)
      <4>1. r[i] = s[i + 1] /\ i + 1 # at
        BY <2>1, <3>1, <3>3
      <4> HIDE DEF r
      <4> QED
        BY <2>1, <3>1, <4>1 DEF Elems, Distinct
    <3> QED
      BY <3>2, <3>3
  <2>8. Elems(s) \ {x} \subseteq Elems(r)
    <3> SUFFICES ASSUME NEW i \in 1 .. Len(s), s[i] # x PROVE s[i] \in Elems(r)
      BY DEF Elems
    <3>1. CASE i < at
      <4>1. i \in 1 .. Len(r) /\ r[i] = s[i]
        BY <1>1, <2>1, <2>5, <3>1
      <4> QED
        BY <4>1 DEF Elems
    <3>2. CASE i > at
      <4>1. i - 1 \in 1 .. Len(r) /\ r[i - 1] = s[i]
        BY <1>1, <2>1, <2>5, <3>2
      <4> HIDE DEF r
      <4> QED
        BY <4>1 DEF Elems
    <3> QED
      BY <1>1, <2>1, <3>1, <3>2
  <2> QED
    BY <2>2, <2>4, <2>6, <2>7, <2>8
<1> QED
  BY <1>2, <1>3

LEMMA TypesAreTypeOK == Types <=> TypeOK
BY DEF Types, LoopTypes, ThreadTypes, DogTypes, WheelTypes, TypeOK, CoStates, ThStates

LEMMA InitIInv == Init => IInv
<1> SUFFICES ASSUME Init PROVE IInv
  OBVIOUS
<1>1. Types
  <2>1. LoopTypes /\ ThreadTypes
    BY MotionAssumption DEF Init, LoopTypes, ThreadTypes, CoStates, ThStates, AllRequests,
                            NoRequest, Jobs, Ops
  <2>2. DogTypes
    BY MotionAssumption DEF Init, DogTypes
  <2>3. WheelTypes
    <3>1. 0 \in 0 .. MaxFaults
      BY MotionAssumption
    <3>2. /\ wheels = None /\ faults = 0 /\ close = "open" /\ stopOk = TRUE
          /\ portInUse = FALSE /\ initialized = TRUE /\ busOpen = TRUE
      BY DEF Init
    <3> QED
      BY <3>1, <3>2 DEF WheelTypes
  <2> QED
    BY <2>1, <2>2, <2>3 DEF Types
<1>2. Plane /\ Pool
  BY MotionAssumption DEF Init, Plane, Pool, Distinct, Elems, Applying, Jobs
<1>3. Base /\ Closing /\ DrivingIsWatched
  BY MotionAssumption DEF Init, Base, Closing, DrivingIsWatched, IsCurrent, Locked, Jobs
<1> QED
  BY <1>1, <1>2, <1>3 DEF IInv

-----------------------------------------------------------------------------
\* A coroutine's step leaves the base alone: the job it moves holds no base lock.
LEMMA LoopStep ==
    ASSUME IInv, NEW c \in Calls, UNCHANGED <<baseLock, dogVars, baseVars, closeVars>>,
           th[c] \in Locked => job'[c] = job[c],
           th'[c] \in Locked <=> th[c] \in Locked,
           \A j \in Jobs \ {c} : th'[j] = th[j] /\ job'[j] = job[j],
           LoopTypes', ThreadTypes', Plane', Pool'
    PROVE  IInv'
<1>1. c # Closer /\ Closer \notin Calls /\ None \notin Calls /\ Calls \subseteq Jobs /\ Closer \in Jobs
  BY MotionAssumption DEF Jobs
<1>2. DogTypes' /\ WheelTypes'
  BY DEF IInv, Types, DogTypes, WheelTypes, dogVars, baseVars, closeVars
<1>3. Base'
  BY <1>1 DEF IInv, Types, DogTypes, Base, IsCurrent, dogVars, baseVars
<1>4. Closing' /\ DrivingIsWatched'
  BY <1>1 DEF IInv, Closing, DrivingIsWatched, Watched, dogVars, baseVars, closeVars
<1> QED
  BY <1>2, <1>3, <1>4 DEF IInv, Types

\* asyncio.to_thread() of a job that does not wait already.
LEMMA SubmitKeeps ==
    ASSUME ThreadTypes, Pool, NEW j \in Jobs, NEW op \in Ops, th[j] # "queued", Submit(j, op)
    PROVE  ThreadTypes' /\ Pool' /\ th'[j] = "queued"
<1>1. j \notin Elems(pool)
  BY DEF Pool
<1>2. pool' \in Seq(Jobs) /\ Distinct(pool') /\ Elems(pool') = Elems(pool) \cup {j}
  BY <1>1, AppendElems DEF Pool, Submit, ThreadTypes
<1>3. ThreadTypes'
  BY <1>2, MotionAssumption DEF ThreadTypes, Submit, ThStates, Jobs
<1>4. Elems(pool) \subseteq Jobs
  BY LenProperties, ElementOfSeq DEF ThreadTypes, Elems
<1> QED
  BY <1>2, <1>3, <1>4 DEF Submit, Pool, ThreadTypes

\* What Plane says, for a step that moves one call and nothing else.
LEMMA AdmitKeeps ==
    ASSUME IInv, NEW c \in Calls, NEW op \in Ops, holder \in {None, c}, current = None,
           co[c] \in {"idle", "preempting", "granted"}, th[c] # "queued",
           req' \in [Calls -> AllRequests], req'[c].plane, \A d \in Calls \ {c} : req'[d] = req[d],
           UNCHANGED waiters, Admit(c, op)
    PROVE  LoopTypes' /\ ThreadTypes' /\ Plane' /\ Pool' /\ th'[c] = "queued"
<1>1. c \in Jobs /\ Calls \subseteq Jobs /\ None \notin Calls
  BY MotionAssumption DEF Jobs
<1>2. ThreadTypes' /\ Pool' /\ th'[c] = "queued"
  BY <1>1, SubmitKeeps DEF IInv, Types, Admit
<1>3. LoopTypes'
  BY DEF IInv, Types, LoopTypes, Admit, CoStates
<1>4. \A d \in Calls \ {c} : co'[d] = co[d] /\ th'[d] = th[d]
  BY <1>1 DEF IInv, Types, LoopTypes, ThreadTypes, Admit, Submit
<1>5. co'[c] = "applying" /\ holder' = c /\ current' = c
  BY DEF IInv, Types, LoopTypes, Admit
<1>6. Elems(waiters) \subseteq Calls \ {c}
  BY LenProperties, ElementOfSeq DEF IInv, Types, LoopTypes, Elems, Plane
<1>7. Plane'
  BY <1>1, <1>2, <1>4, <1>5, <1>6 DEF IInv, Plane, Applying
<1> QED
  BY <1>2, <1>3, <1>7

\* Leaving `async with`: the first waiter is handed the lock.
LEMMA ReleaseKeeps ==
    ASSUME IInv, NEW c \in Calls, NEW outcome \in {"done", "cancelled"}, holder = c, UNCHANGED req,
           Release(c, outcome), th'[c] = "none" \/ outcome = "cancelled",
           \A d \in Calls \ {c} : th'[d] = th[d]
    PROVE  LoopTypes' /\ Plane'
<1> DEFINE next == IF waiters = <<>> THEN None ELSE Head(waiters)
<1>1. None \notin Calls
  BY MotionAssumption DEF Jobs
<1>2. Elems(waiters) \subseteq Calls
  BY LenProperties, ElementOfSeq DEF IInv, Types, LoopTypes, Elems
<1>3. /\ next \in Calls \cup {None} /\ waiters' \in Seq(Calls) /\ Distinct(waiters')
      /\ Elems(waiters') = Elems(waiters) \ {next}
      /\ next # None => next \in Elems(waiters)
  <2>1. CASE waiters = <<>>
    BY <1>1, <1>2, <2>1 DEF IInv, Types, LoopTypes, Release, Plane
  <2>2. CASE waiters # <<>>
    BY <2>2, TailElems DEF IInv, Types, LoopTypes, Release, Plane
  <2> QED
    BY <2>1, <2>2
<1>4. holder' = next /\ current' = (IF current = c THEN None ELSE current)
  BY DEF Release
<1>5. \A d \in Calls : co'[d] = CASE d = c -> outcome [] d = next -> "granted" [] OTHER -> co[d]
  BY DEF Release
<1>6. co' \in [Calls -> CoStates]
  BY DEF Release, IInv, Types, LoopTypes, CoStates
<1> HIDE DEF next
<1>7. LoopTypes'
  BY <1>3, <1>4, <1>6 DEF IInv, Types, LoopTypes
<1>8. next # c /\ (next # None => co[next] = "queued" /\ th[next] = "none" /\ req[next].plane)
  BY <1>1, <1>2, <1>3 DEF IInv, Plane, Applying
<1>9. \A d \in Elems(waiters') : co'[d] = "queued"
  <2> SUFFICES ASSUME NEW d \in Elems(waiters') PROVE co'[d] = "queued"
    OBVIOUS
  <2>1. d \in Calls /\ d # next /\ co[d] = "queued"
    BY <1>2, <1>3 DEF IInv, Plane
  <2>2. d # c
    BY <2>1 DEF IInv, Plane, Applying
  <2> QED
    BY <1>5, <2>1, <2>2
<1>10. Plane'
  <2>1. ASSUME NEW d \in Calls PROVE
        /\ co'[d] \in {"idle", "queued", "granted", "done"} => th'[d] = "none"
        /\ co'[d] = "applying" => th'[d] # "none"
        /\ co'[d] \in {"preempting", "queued", "granted"} => req'[d].plane
        /\ co'[d] = "granted" \/ Applying(d)' <=> holder' = d
        /\ Applying(d)' <=> current' = d
    <3>1. CASE d = c
      BY <1>1, <1>4, <1>5, <1>8, <3>1 DEF IInv, Plane, Applying
    <3>2. CASE d = next /\ d # c
      BY <1>1, <1>4, <1>5, <1>8, <3>2 DEF IInv, Plane, Applying
    <3>3. CASE d # next /\ d # c
      BY <1>1, <1>4, <1>5, <1>8, <3>3 DEF IInv, Plane, Applying
    <3> QED
      BY <3>1, <3>2, <3>3
  <2> QED
    BY <1>3, <1>9, <2>1 DEF Plane
<1> QED
  BY <1>7, <1>10

\* `async with self._action_lock`, from a call that is not in a thread.
LEMMA AcquireKeeps ==
    ASSUME IInv, NEW c \in Calls, NEW op \in Ops, co[c] \in {"idle", "preempting"},
           th[c] \in {"none", "ended"},
           req' \in [Calls -> AllRequests], req'[c].plane, \A d \in Calls \ {c} : req'[d] = req[d],
           Acquire(c, op)
    PROVE  /\ LoopTypes' /\ ThreadTypes' /\ Plane' /\ Pool' /\ th'[c] \notin Locked
           /\ \A j \in Jobs \ {c} : th'[j] = th[j] /\ job'[j] = job[j]
<1>1. c \in Jobs /\ Calls \subseteq Jobs /\ None \notin Calls /\ c # Closer
  BY MotionAssumption DEF Jobs
<1>2. CASE holder = None
  <2>1. current = None
    BY <1>1, <1>2 DEF IInv, Types, LoopTypes, Plane, Applying
  <2>2. Admit(c, op) /\ UNCHANGED waiters
    BY <1>2 DEF Acquire
  <2>3. LoopTypes' /\ ThreadTypes' /\ Plane' /\ Pool' /\ th'[c] = "queued"
    BY <1>2, <2>1, <2>2, AdmitKeeps
  <2>4. \A j \in Jobs \ {c} : th'[j] = th[j] /\ job'[j] = job[j]
    BY <2>2 DEF Admit, Submit, IInv, Types, ThreadTypes
  <2> QED
    BY <2>3, <2>4 DEF Locked
<1>3. CASE holder # None
  <2>1. /\ waiters' = Append(waiters, c) /\ co' = [co EXCEPT ![c] = "queued"]
        /\ th' = [th EXCEPT ![c] = "none"] /\ UNCHANGED <<holder, current, job, pool>>
    BY <1>3 DEF Acquire
  <2>2. c \notin Elems(waiters) /\ Elems(waiters) \subseteq Calls
    BY LenProperties, ElementOfSeq DEF IInv, Types, LoopTypes, Plane, Elems
  <2>3. waiters' \in Seq(Calls) /\ Distinct(waiters') /\ Elems(waiters') = Elems(waiters) \cup {c}
    BY <2>1, <2>2, AppendElems DEF IInv, Types, LoopTypes, Plane
  <2>4. LoopTypes'
    BY <2>1, <2>3 DEF IInv, Types, LoopTypes, CoStates
  <2>5. ThreadTypes' /\ th'[c] = "none" /\ \A j \in Jobs \ {c} : th'[j] = th[j] /\ job'[j] = job[j]
    BY <1>1, <2>1 DEF IInv, Types, ThreadTypes, ThStates
  <2>6. /\ co'[c] = "queued" /\ holder # c /\ current # c
        /\ \A d \in Calls \ {c} : co'[d] = co[d]
    BY <2>1 DEF IInv, Types, LoopTypes, Plane, Applying
  <2>7. Plane'
    BY <1>1, <2>1, <2>2, <2>3, <2>5, <2>6 DEF IInv, Plane, Applying
  <2>8. Elems(pool) \subseteq Jobs
    BY LenProperties, ElementOfSeq DEF IInv, Types, ThreadTypes, Elems
  <2>9. Pool'
    BY <2>1, <2>5, <2>8 DEF IInv, Pool
  <2> QED
    BY <2>4, <2>5, <2>7, <2>9 DEF Locked
<1> QED
  BY <1>2, <1>3

\* A call outside the control plane, and the stop before a preemption.
LEMMA BeginKeeps ==
    ASSUME IInv, NEW c \in Calls, co[c] = "idle", NEW r \in AllRequests, NEW op \in Ops,
           NEW state \in {"preempting", "applying"}, state = "applying" <=> ~r.plane,
           req' = [req EXCEPT ![c] = r], co' = [co EXCEPT ![c] = state],
           Submit(c, op), UNCHANGED <<holder, waiters, current>>
    PROVE  LoopTypes' /\ ThreadTypes' /\ Plane' /\ Pool' /\ th'[c] = "queued"
<1>1. c \in Jobs /\ Calls \subseteq Jobs /\ None \notin Calls
  BY MotionAssumption DEF Jobs
<1>2. th[c] = "none"
  BY DEF IInv, Plane
<1>3. ThreadTypes' /\ Pool' /\ th'[c] = "queued"
  BY <1>1, <1>2, SubmitKeeps DEF IInv, Types
<1>4. LoopTypes'
  BY DEF IInv, Types, LoopTypes, CoStates
<1>5. \A d \in Calls \ {c} : co'[d] = co[d] /\ th'[d] = th[d] /\ req'[d] = req[d]
  BY <1>1 DEF IInv, Types, LoopTypes, ThreadTypes, Submit
<1>6. co'[c] = state /\ req'[c] = r /\ holder # c /\ current # c
  BY DEF IInv, Types, LoopTypes, Plane, Applying
<1>7. Elems(waiters) \subseteq Calls \ {c}
  BY LenProperties, ElementOfSeq DEF IInv, Types, LoopTypes, Elems, Plane
<1>8. Plane'
  BY <1>1, <1>3, <1>5, <1>6, <1>7 DEF IInv, Plane, Applying
<1> QED
  BY <1>3, <1>4, <1>8

LEMMA IssueKeeps == ASSUME IInv, NEW c \in Calls, Issue(c) PROVE IInv'
<1>1. PICK r \in Requests :
        /\ req' = [req EXCEPT ![c] = r]
        /\ \/ /\ r.plane /\ r.preempt
              /\ co' = [co EXCEPT ![c] = "preempting"]
              /\ Submit(c, "stop")
              /\ UNCHANGED <<holder, waiters, current>>
           \/ /\ r.plane /\ ~r.preempt
              /\ Acquire(c, r.op)
           \/ /\ ~r.plane
              /\ co' = [co EXCEPT ![c] = "applying"]
              /\ Submit(c, r.op)
              /\ UNCHANGED <<holder, waiters, current>>
  BY DEF Issue
<1>2. /\ r \in AllRequests /\ r.op \in Ops /\ "stop" \in Ops /\ co[c] = "idle" /\ th[c] = "none"
      /\ UNCHANGED <<baseLock, dogVars, baseVars, closeVars>>
  BY MotionAssumption DEF Issue, AllRequests, Ops, IInv, Plane
<1>3. req' \in [Calls -> AllRequests] /\ req'[c] = r /\ \A d \in Calls \ {c} : req'[d] = req[d]
  BY <1>1, <1>2 DEF IInv, Types, LoopTypes
<1>4. /\ LoopTypes' /\ ThreadTypes' /\ Plane' /\ Pool' /\ th'[c] \notin Locked
      /\ \A j \in Jobs \ {c} : th'[j] = th[j] /\ job'[j] = job[j]
  <2>1. ASSUME NEW op \in Ops, Submit(c, op)
        PROVE  \A j \in Jobs \ {c} : th'[j] = th[j] /\ job'[j] = job[j]
    BY <2>1 DEF Submit, IInv, Types, ThreadTypes
  <2>2. CASE /\ r.plane /\ r.preempt /\ co' = [co EXCEPT ![c] = "preempting"]
             /\ Submit(c, "stop") /\ UNCHANGED <<holder, waiters, current>>
    <3>1. LoopTypes' /\ ThreadTypes' /\ Plane' /\ Pool' /\ th'[c] = "queued"
      BY <1>1, <1>2, <2>2, BeginKeeps
    <3> QED
      BY <1>2, <2>1, <2>2, <3>1 DEF Locked
  <2>3. CASE r.plane /\ ~r.preempt /\ Acquire(c, r.op)
    BY <1>2, <1>3, <2>3, AcquireKeeps
  <2>4. CASE /\ ~r.plane /\ co' = [co EXCEPT ![c] = "applying"]
             /\ Submit(c, r.op) /\ UNCHANGED <<holder, waiters, current>>
    <3>1. LoopTypes' /\ ThreadTypes' /\ Plane' /\ Pool' /\ th'[c] = "queued"
      BY <1>1, <1>2, <2>4, BeginKeeps
    <3> QED
      BY <1>2, <2>1, <2>4, <3>1 DEF Locked
  <2> QED
    BY <1>1, <2>2, <2>3, <2>4
<1>5. th[c] \notin Locked
  BY <1>2 DEF Locked
<1> QED
  BY <1>2, <1>4, <1>5, LoopStep

LEMMA RejectKeeps == ASSUME IInv, NEW c \in Calls, Reject(c) PROVE IInv'
<1>1. PICK r \in Requests : r.plane /\ req' = [req EXCEPT ![c] = r]
  BY DEF Reject
<1>2. r \in AllRequests /\ c \in Jobs
  BY MotionAssumption DEF Jobs
<1>3. LoopTypes' /\ ThreadTypes' /\ Pool'
  BY <1>1, <1>2 DEF Reject, IInv, Types, LoopTypes, ThreadTypes, Pool, CoStates, poolVars
<1>4. /\ co'[c] = "done" /\ th'[c] = "none" /\ holder # c /\ current # c
      /\ \A d \in Calls \ {c} : co'[d] = co[d] /\ req'[d] = req[d]
  BY <1>1 DEF Reject, IInv, Types, LoopTypes, Plane, Applying, poolVars
<1>5. Elems(waiters) \subseteq Calls \ {c}
  BY LenProperties, ElementOfSeq DEF Reject, IInv, Types, LoopTypes, Elems, Plane
<1>6. Plane'
  BY <1>4, <1>5 DEF Reject, IInv, Plane, Applying, poolVars
<1> QED
  BY <1>3, <1>6, LoopStep DEF Reject, poolVars

LEMMA ResumeKeeps == ASSUME IInv, NEW c \in Calls, Resume(c) PROVE IInv'
<1>1. /\ c \in Jobs /\ co[c] = "granted" /\ th[c] = "none" /\ holder = c /\ req[c].plane
      /\ req[c].op \in Ops
  BY MotionAssumption DEF Resume, IInv, Types, LoopTypes, Plane, Jobs, AllRequests
<1>2. current = None
  <2>1. ASSUME NEW d \in Calls, current = d PROVE FALSE
    BY <1>1, <2>1 DEF IInv, Plane, Applying
  <2> QED
    BY <2>1 DEF IInv, Types, LoopTypes
<1>3. LoopTypes' /\ ThreadTypes' /\ Plane' /\ Pool' /\ th'[c] = "queued"
  BY <1>1, <1>2, AdmitKeeps DEF Resume, IInv, Types, LoopTypes
<1>4. \A j \in Jobs \ {c} : th'[j] = th[j] /\ job'[j] = job[j]
  BY DEF Resume, Admit, Submit, IInv, Types, ThreadTypes
<1> QED
  BY <1>1, <1>3, <1>4, LoopStep DEF Resume, Locked

LEMMA RefuseKeeps == ASSUME IInv, NEW c \in Calls, Refuse(c) PROVE IInv'
<1>1. holder = c /\ th[c] = "none" /\ UNCHANGED poolVars
  BY DEF Refuse, IInv, Plane
<1>2. LoopTypes' /\ Plane'
  BY <1>1, ReleaseKeeps DEF Refuse, poolVars
<1>3. ThreadTypes' /\ Pool'
  BY <1>1 DEF IInv, Types, ThreadTypes, Pool, poolVars
<1> QED
  BY <1>1, <1>2, <1>3, LoopStep DEF Refuse, poolVars

LEMMA ReturnKeeps == ASSUME IInv, NEW c \in Calls, Return(c) PROVE IInv'
<1>1. /\ c \in Jobs /\ c # Closer /\ th[c] = "ended" /\ th[c] \notin Locked /\ req[c].op \in Ops
      /\ UNCHANGED <<req, baseLock, dogVars, baseVars, closeVars>>
  BY MotionAssumption DEF Return, IInv, Types, LoopTypes, Jobs, AllRequests, Locked
<1>2. CASE co[c] = "preempting" /\ Acquire(c, req[c].op)
  <2>1. /\ LoopTypes' /\ ThreadTypes' /\ Plane' /\ Pool' /\ th'[c] \notin Locked
        /\ \A j \in Jobs \ {c} : th'[j] = th[j] /\ job'[j] = job[j]
    BY <1>1, <1>2, AcquireKeeps DEF IInv, Types, LoopTypes, Plane
  <2> QED
    BY <1>1, <2>1, LoopStep
<1>3. CASE /\ co[c] = "applying"
           /\ IF req[c].plane
              THEN Release(c, "done")
              ELSE /\ co' = [co EXCEPT ![c] = "done"]
                   /\ UNCHANGED <<holder, waiters, current>>
           /\ th' = [th EXCEPT ![c] = "none"]
           /\ UNCHANGED <<job, pool>>
  <2>1. th'[c] = "none" /\ \A j \in Jobs \ {c} : th'[j] = th[j] /\ job'[j] = job[j]
    BY <1>1, <1>3 DEF IInv, Types, ThreadTypes
  <2>2. ThreadTypes'
    BY <1>1, <1>3 DEF IInv, Types, ThreadTypes, ThStates
  <2>3. Pool'
    <3>1. c \notin Elems(pool) /\ Elems(pool) \subseteq Jobs
      BY <1>1, LenProperties, ElementOfSeq DEF IInv, Types, ThreadTypes, Pool, Elems
    <3> QED
      BY <1>3, <2>1, <3>1 DEF IInv, Pool
  <2>4. LoopTypes' /\ Plane'
    <3>1. CASE req[c].plane
      <4>1. holder = c
        BY <1>3, <3>1 DEF IInv, Plane, Applying
      <4> QED
        BY <1>1, <1>3, <2>1, <3>1, <4>1, ReleaseKeeps DEF Jobs
    <3>2. CASE ~req[c].plane
      <4>1. co' = [co EXCEPT ![c] = "done"] /\ UNCHANGED <<holder, waiters, current, req>>
        BY <1>1, <1>3, <3>2
      <4>2. LoopTypes'
        BY <4>1 DEF IInv, Types, LoopTypes, CoStates
      <4>3. /\ co'[c] = "done" /\ holder # c /\ current # c
            /\ \A d \in Calls \ {c} : co'[d] = co[d] /\ th'[d] = th[d]
        BY <1>3, <2>1, <3>2, <4>1 DEF IInv, Types, LoopTypes, Plane, Applying, Jobs
      <4>4. Elems(waiters) \subseteq Calls \ {c}
        BY <1>3, LenProperties, ElementOfSeq DEF IInv, Types, LoopTypes, Elems, Plane
      <4>5. Plane'
        BY <2>1, <4>1, <4>3, <4>4 DEF IInv, Plane, Applying
      <4> QED
        BY <4>2, <4>5
    <3> QED
      BY <3>1, <3>2
  <2> QED
    BY <1>1, <2>1, <2>2, <2>3, <2>4, LoopStep DEF Locked
<1> QED
  BY <1>2, <1>3 DEF Return

LEMMA CancelKeeps == ASSUME IInv, NEW c \in Calls, Cancel(c) PROVE IInv'
<1>1. /\ c \in Jobs /\ c # Closer /\ UNCHANGED <<req, job, baseLock, dogVars, baseVars, closeVars>>
      /\ pool' = Without(pool, c)
      /\ th' = [th EXCEPT ![c] = IF th[c] \in {"queued", "ended"} THEN "none" ELSE th[c]]
  BY MotionAssumption DEF Cancel, Jobs
<1>2. /\ th'[c] \in Locked <=> th[c] \in Locked
      /\ \A j \in Jobs \ {c} : th'[j] = th[j] /\ job'[j] = job[j]
  BY <1>1 DEF IInv, Types, ThreadTypes, Locked
<1>3. pool' \in Seq(Jobs) /\ Distinct(pool') /\ Elems(pool') = Elems(pool) \ {c}
  BY <1>1, WithoutElems DEF IInv, Types, ThreadTypes, Pool
<1>4. ThreadTypes'
  BY <1>1, <1>3 DEF IInv, Types, ThreadTypes, ThStates
<1>5. Pool'
  <2>1. Elems(pool) \subseteq Jobs
    BY LenProperties, ElementOfSeq DEF IInv, Types, ThreadTypes, Elems
  <2> QED
    BY <1>2, <1>3, <2>1 DEF IInv, Pool
<1>6. LoopTypes' /\ Plane'
  <2>1. CASE /\ co[c] \in {"granted", "applying"} /\ holder = c /\ Release(c, "cancelled")
    BY <1>1, <1>2, <2>1, ReleaseKeeps DEF Jobs
  <2>2. CASE \/ /\ co[c] = "queued" /\ waiters' = Without(waiters, c)
                /\ co' = [co EXCEPT ![c] = "cancelled"] /\ UNCHANGED <<holder, current>>
             \/ /\ co[c] \in {"preempting", "applying"} /\ holder # c
                /\ co' = [co EXCEPT ![c] = "cancelled"] /\ UNCHANGED <<holder, waiters, current>>
    <3>1. /\ co' = [co EXCEPT ![c] = "cancelled"] /\ UNCHANGED <<holder, current, req>>
          /\ holder # c /\ current # c
      BY <1>1, <2>2 DEF IInv, Plane, Applying
    <3>2. Elems(waiters) \subseteq Calls
      BY LenProperties, ElementOfSeq DEF IInv, Types, LoopTypes, Elems
    <3>3. waiters' \in Seq(Calls) /\ Distinct(waiters') /\ Elems(waiters') \subseteq Elems(waiters) \ {c}
      <4>1. CASE co[c] = "queued"
        BY <2>2, <4>1, WithoutElems DEF IInv, Types, LoopTypes, Plane
      <4>2. CASE co[c] # "queued"
        BY <2>2, <4>2 DEF IInv, Types, LoopTypes, Plane
      <4> QED
        BY <4>1, <4>2
    <3>4. LoopTypes'
      BY <3>1, <3>3 DEF IInv, Types, LoopTypes, CoStates
    <3>5. co'[c] = "cancelled" /\ \A d \in Calls \ {c} : co'[d] = co[d] /\ th'[d] = th[d]
      BY <1>2, <3>1 DEF IInv, Types, LoopTypes, Jobs
    <3>6. Plane'
      BY <3>1, <3>2, <3>3, <3>5 DEF IInv, Plane, Applying
    <3> QED
      BY <3>4, <3>6
  <2> QED
    BY <2>1, <2>2 DEF Cancel
<1> QED
  BY <1>1, <1>2, <1>4, <1>5, <1>6, LoopStep

-----------------------------------------------------------------------------
\* A thread goes on: the coroutines and the queue of the pool do not see it.
LEMMA ThreadMoves ==
    ASSUME IInv, NEW j \in Jobs, NEW place \in ThStates, UNCHANGED <<callVars, job, pool>>,
           th[j] \notin {"none", "queued"},
           j = Closer => place \in {"close_bus", "ended", "none"},
           j # Closer => place \notin {"none", "close_base", "close_bus"},
           th' = [th EXCEPT ![j] = place]
    PROVE  LoopTypes' /\ ThreadTypes' /\ Plane' /\ Pool'
<1>1. Closer \notin Calls /\ Calls \subseteq Jobs
  BY MotionAssumption DEF Jobs
<1>2. th'[j] = place /\ \A k \in Jobs \ {j} : th'[k] = th[k]
  BY DEF IInv, Types, ThreadTypes
<1>3. LoopTypes' /\ ThreadTypes'
  BY <1>1 DEF IInv, Types, LoopTypes, ThreadTypes, callVars
<1>4. Plane'
  BY <1>1, <1>2 DEF IInv, Plane, Applying, callVars
<1>5. Elems(pool) \subseteq Jobs \ {j}
  BY LenProperties, ElementOfSeq DEF IInv, Types, ThreadTypes, Pool, Elems
<1>6. Pool'
  BY <1>2, <1>5 DEF IInv, Pool
<1> QED
  BY <1>3, <1>4, <1>6

LEMMA StopWheelsKeeps ==
    ASSUME WheelTypes, StopWheels, initialized' \in BOOLEAN, UNCHANGED busOpen,
           close' \in {"open", "waiting", "client", "base_closed", "failed", "closed"}
    PROVE  /\ WheelTypes'
           /\ wheels' \in {None, wheels}
           /\ wheels' # wheels => ~portInUse
           /\ wheels' # None => ~stopOk' \/ portInUse'
<1>1. MaxFaults \in Nat /\ faults \in 0 .. MaxFaults
  BY MotionAssumption DEF WheelTypes
<1>2. CASE StopReturns
  <2>1. faults' \in 0 .. MaxFaults /\ portInUse' \in BOOLEAN
    BY <1>1, <1>2 DEF StopReturns, WriteOk, WriteFails, Fault, WheelTypes
  <2>2. /\ wheels' \in {None, wheels} /\ stopOk' \in BOOLEAN /\ (wheels' # None => ~stopOk')
        /\ wheels' # wheels => ~portInUse
    BY <1>2 DEF StopReturns, WriteOk, Reachable
  <2> QED
    BY <2>1, <2>2 DEF WheelTypes
<1>3. CASE StopRaises
  <2>1. /\ faults' \in 0 .. MaxFaults /\ portInUse' = TRUE /\ ~portInUse
        /\ wheels' \in {None, wheels} /\ UNCHANGED stopOk
    BY <1>1, <1>3 DEF StopRaises, Raises, Fault, Reachable
  <2> QED
    BY <2>1 DEF WheelTypes
<1> QED
  BY <1>2, <1>3 DEF StopWheels

LEMMA CancelWatchdogKeeps ==
    ASSUME DogTypes, \A c \in Calls : timerGen[c] <= generation, CancelWatchdog,
           baseLock' \in Calls \cup {None}
    PROVE  DogTypes' /\ \A c \in Calls : timerGen'[c] < generation'
BY DEF DogTypes, CancelWatchdog

\* A timer of an earlier generation is not current.
LEMMA NoneCurrent ==
    ASSUME DogTypes', \A c \in Calls : timerGen'[c] < generation'
    PROVE  \A c \in Calls : timerGen'[c] <= generation' /\ ~IsCurrent(c)'
BY DEF DogTypes, IsCurrent

\* Steps of a thread that change neither base lock, watchdog nor wheels.
LEMMA QuietThreadStep ==
    ASSUME IInv, NEW c \in Calls, NEW place \in ThStates \ {"none", "close_base", "close_bus"},
           th[c] \notin {"none", "queued"}, place \in Locked <=> th[c] \in Locked,
           th' = [th EXCEPT ![c] = place],
           UNCHANGED <<callVars, job, pool, baseLock, dogVars, baseVars, closeVars>>
    PROVE  IInv'
<1>1. c # Closer /\ c \in Jobs
  BY MotionAssumption DEF Jobs
<1>2. LoopTypes' /\ ThreadTypes' /\ Plane' /\ Pool'
  BY <1>1, ThreadMoves
<1>3. th'[c] = place /\ \A j \in Jobs \ {c} : th'[j] = th[j] /\ job'[j] = job[j]
  BY <1>1 DEF IInv, Types, ThreadTypes
<1> QED
  BY <1>2, <1>3, LoopStep

LEMMA StartThreadKeeps == ASSUME IInv, StartThread PROVE IInv'
<1> DEFINE j == Head(pool)
           place == CASE j = Closer -> "close_base"
                      [] j # Closer /\ job[j] = "arm" -> "arm"
                      [] OTHER -> "lock"
<1>1. /\ j \in Jobs /\ pool' = Tail(pool) /\ Tail(pool) \in Seq(Jobs) /\ Distinct(Tail(pool))
      /\ Elems(Tail(pool)) = Elems(pool) \ {j} /\ th[j] = "queued"
  BY TailElems DEF StartThread, IInv, Types, ThreadTypes, Pool
<1>2. Closer \notin Calls /\ Calls \subseteq Jobs /\ None \notin Calls /\ Closer \in Jobs
  BY MotionAssumption DEF Jobs
<1>3. th' = [th EXCEPT ![j] = place] /\ UNCHANGED <<callVars, job, baseLock, dogVars, baseVars, closeVars>>
  BY DEF StartThread
<1>4. place \in {"close_base", "arm", "lock"} /\ (place = "close_base" <=> j = Closer)
  <2>1. CASE j = Closer
    BY <2>1
  <2>2. CASE j # Closer /\ job[j] = "arm"
    BY <2>2
  <2>3. CASE j # Closer /\ job[j] # "arm"
    BY <2>3
  <2> QED
    BY <2>1, <2>2, <2>3
<1> HIDE DEF j, place
<1>5. th'[j] = place /\ \A k \in Jobs \ {j} : th'[k] = th[k]
  BY <1>1, <1>3 DEF IInv, Types, ThreadTypes
<1>6. LoopTypes' /\ ThreadTypes'
  BY <1>1, <1>2, <1>3, <1>4 DEF IInv, Types, LoopTypes, ThreadTypes, ThStates, callVars
<1>7. Plane'
  BY <1>1, <1>2, <1>3, <1>4, <1>5 DEF IInv, Plane, Applying, callVars
<1>8. Elems(pool) \subseteq Jobs
  BY LenProperties, ElementOfSeq DEF IInv, Types, ThreadTypes, Elems
<1>9. Pool'
  BY <1>1, <1>5, <1>8 DEF IInv, Pool
<1>10. DogTypes' /\ WheelTypes'
  BY <1>3 DEF IInv, Types, DogTypes, WheelTypes, dogVars, baseVars, closeVars
<1>11. \A c \in Calls : th'[c] \in Locked <=> th[c] \in Locked
  BY <1>1, <1>2, <1>4, <1>5 DEF Locked
<1>12. Base'
  BY <1>3, <1>11 DEF IInv, Base, IsCurrent, dogVars, baseVars
<1>13. Closing' /\ DrivingIsWatched'
  BY <1>1, <1>2, <1>3, <1>4, <1>5 DEF IInv, Closing, DrivingIsWatched, Watched, dogVars, baseVars, closeVars
<1> QED
  BY <1>6, <1>7, <1>9, <1>10, <1>12, <1>13 DEF IInv, Types

LEMMA TakeLockKeeps == ASSUME IInv, NEW c \in Calls, TakeLock(c) PROVE IInv'
<1>1. /\ c # Closer /\ c \in Jobs /\ None \notin Calls /\ c # None /\ Calls \subseteq Jobs /\ Closer \in Jobs
      /\ th[c] = "lock" /\ baseLock = None /\ baseLock' = c /\ UNCHANGED <<callVars, job, pool, baseVars, closeVars>>
  BY MotionAssumption DEF TakeLock, Jobs
<1>2. PICK place \in {"check", "stopping"} : th' = [th EXCEPT ![c] = place]
  BY DEF TakeLock
<1>3. place \in ThStates /\ place \notin {"none", "close_base", "close_bus"} /\ place \in Locked
  BY DEF ThStates, Locked
<1>4. LoopTypes' /\ ThreadTypes' /\ Plane' /\ Pool'
  BY <1>1, <1>2, <1>3, ThreadMoves
<1>5. th'[c] = place /\ \A j \in Jobs \ {c} : th'[j] = th[j]
  BY <1>1, <1>2 DEF IInv, Types, ThreadTypes
<1>6. WheelTypes'
  BY <1>1 DEF IInv, Types, WheelTypes, baseVars, closeVars
<1>7. \A d \in Calls : th'[d] \in Locked <=> baseLock' = d
  BY <1>1, <1>3, <1>5 DEF IInv, Base
<1>8. /\ DogTypes' /\ \A d \in Calls : timerGen'[d] <= generation'
      /\ job[c] # "velocity" => \A d \in Calls : ~IsCurrent(d)'
  <2>1. CASE job[c] = "velocity" /\ UNCHANGED dogVars
    BY <1>1, <2>1 DEF IInv, Types, DogTypes, Base, dogVars
  <2>2. CASE CancelWatchdog
    <3>1. DogTypes' /\ \A d \in Calls : timerGen'[d] < generation'
      BY <1>1, <2>2, CancelWatchdogKeeps DEF IInv, Types, Base
    <3> QED
      BY <3>1, NoneCurrent
  <2> QED
    BY <2>1, <2>2 DEF TakeLock
<1>9. Base'
  BY <1>1, <1>7, <1>8 DEF Base
<1>10. Closing' /\ DrivingIsWatched'
  BY <1>1, <1>5 DEF IInv, Closing, DrivingIsWatched, closeVars
<1> QED
  BY <1>4, <1>6, <1>8, <1>9, <1>10 DEF IInv, Types

\* Steps that end with the base lock free, or with its holder where it was.
LEMMA CheckInitializedKeeps == ASSUME IInv, NEW c \in Calls, CheckInitialized(c) PROVE IInv'
<1>1. PICK place \in {"write", "stopping"} : th' = [th EXCEPT ![c] = place]
  BY DEF CheckInitialized
<1> QED
  BY <1>1, QuietThreadStep DEF CheckInitialized, ThStates, Locked

LEMMA PulseKeeps == ASSUME IInv, NEW c \in Calls, PulseAgain(c) \/ PulseOver(c) PROVE IInv'
<1>1. PICK place \in {"check", "stopping"} : th' = [th EXCEPT ![c] = place]
  BY DEF PulseAgain, PulseOver
<1> QED
  BY <1>1, QuietThreadStep DEF PulseAgain, PulseOver, ThStates, Locked

LEMMA CommandArmKeeps == ASSUME IInv, NEW c \in Calls, CommandArm(c) PROVE IInv'
BY QuietThreadStep DEF CommandArm, ThStates, Locked

LEMMA WriteVelocityKeeps == ASSUME IInv, NEW c \in Calls, WriteVelocity(c) PROVE IInv'
<1>1. /\ c # Closer /\ c \in Jobs /\ None \notin Calls /\ c # None /\ Calls \subseteq Jobs
      /\ Closer \in Jobs /\ Closer \notin Calls
      /\ th[c] = "write" /\ wheels' = c /\ baseLock = c
      /\ UNCHANGED <<callVars, job, pool, closeVars, stopOk, faults, portInUse>>
  BY MotionAssumption DEF WriteVelocity, WriteOk, Jobs, IInv, Base, Locked
<1>2. PICK place \in {"pulse", "ended"} : th' = [th EXCEPT ![c] = place]
  BY DEF WriteVelocity
<1>3. place \in ThStates /\ place \notin {"none", "close_base", "close_bus"}
  BY DEF ThStates
<1>4. LoopTypes' /\ ThreadTypes' /\ Plane' /\ Pool'
  BY <1>1, <1>2, <1>3, ThreadMoves
<1>5. th'[c] = place /\ \A j \in Jobs \ {c} : th'[j] = th[j]
  BY <1>1, <1>2 DEF IInv, Types, ThreadTypes
<1>6. WheelTypes'
  BY <1>1 DEF IInv, Types, WheelTypes, closeVars
<1>7. Closing'
  BY <1>1, <1>5 DEF IInv, Closing, closeVars
<1>8. CASE job[c] = "move" /\ th' = [th EXCEPT ![c] = "pulse"] /\ UNCHANGED <<baseLock, dogVars>>
  <2>1. th'[c] = "pulse" /\ \A d \in Calls : th'[d] \in Locked <=> th[d] \in Locked
    BY <1>1, <1>5, <1>8 DEF IInv, Types, ThreadTypes, Locked
  <2>2. DogTypes' /\ Base'
    BY <1>1, <1>8, <2>1 DEF IInv, Types, DogTypes, Base, IsCurrent, dogVars
  <2>3. DrivingIsWatched'
    BY <1>1, <1>8 DEF DrivingIsWatched
  <2> QED
    BY <1>4, <1>6, <1>7, <2>2, <2>3 DEF IInv, Types
<1>9. CASE /\ job[c] = "velocity" /\ th' = [th EXCEPT ![c] = "ended"] /\ baseLock' = None
           /\ ScheduleWatchdog(c)
  <2>1. DogTypes'
    BY <1>9 DEF IInv, Types, DogTypes, ScheduleWatchdog
  <2>2. /\ timer'[c] = "set" /\ timerGen'[c] = generation' /\ generation' = generation + 1
        /\ \A d \in Calls \ {c} : timerGen'[d] = timerGen[d]
    BY <1>9 DEF IInv, Types, DogTypes, ScheduleWatchdog
  <2>3. \A d \in Calls \ {c} : timerGen'[d] < generation'
    BY <2>2 DEF IInv, Types, DogTypes, Base
  <2>4. \A d \in Calls : timerGen'[d] <= generation' /\ (IsCurrent(d)' => d = c)
    BY <2>1, <2>2, <2>3 DEF DogTypes, IsCurrent
  <2>5. \A d \in Calls : th'[d] \notin Locked
    BY <1>1, <1>5, <1>9 DEF IInv, Types, ThreadTypes, Base, Locked
  <2>6. Base'
    BY <1>1, <1>9, <2>4, <2>5 DEF Base
  <2>7. DrivingIsWatched'
    BY <2>2 DEF DrivingIsWatched, Watched
  <2> QED
    BY <1>4, <1>6, <1>7, <2>1, <2>6, <2>7 DEF IInv, Types
<1> QED
  BY <1>8, <1>9 DEF WriteVelocity

LEMMA WriteRefusedKeeps == ASSUME IInv, NEW c \in Calls, WriteRefused(c) PROVE IInv'
<1>1. /\ c # Closer /\ c \in Jobs /\ None \notin Calls /\ c # None /\ Calls \subseteq Jobs
      /\ Closer \in Jobs /\ th[c] = "write" /\ baseLock = c
      /\ th' = [th EXCEPT ![c] = "stopping"]
      /\ UNCHANGED <<callVars, job, pool, baseLock, dogVars, closeVars>>
  BY MotionAssumption DEF WriteRefused, Jobs, IInv, Base, Locked
<1>2. wheels' \in {None, wheels, c} /\ stopOk' \in BOOLEAN
  BY DEF WriteRefused
<1>3. faults' \in 0 .. MaxFaults /\ UNCHANGED portInUse
  BY MotionAssumption DEF WriteRefused, WriteFails, Fault, IInv, Types, WheelTypes
<1>4. LoopTypes' /\ ThreadTypes' /\ Plane' /\ Pool'
  BY <1>1, ThreadMoves DEF ThStates
<1>5. th'[c] = "stopping" /\ \A j \in Jobs \ {c} : th'[j] = th[j]
  BY <1>1 DEF IInv, Types, ThreadTypes
<1>6. WheelTypes' /\ DogTypes'
  BY <1>1, <1>2, <1>3 DEF IInv, Types, WheelTypes, DogTypes, closeVars, dogVars
<1>7. Base'
  BY <1>1, <1>5 DEF IInv, Base, IsCurrent, Locked, dogVars
<1>8. Closing' /\ DrivingIsWatched'
  BY <1>1, <1>5 DEF IInv, Closing, DrivingIsWatched, closeVars
<1> QED
  BY <1>4, <1>6, <1>7, <1>8 DEF IInv, Types

\* What raises leaves the base lock, and the port in use: nothing reaches the wheels.
LEMMA WriteRaisesKeeps == ASSUME IInv, NEW c \in Calls, WriteRaises(c) PROVE IInv'
<1>1. /\ c # Closer /\ c \in Jobs /\ None \notin Calls /\ c # None /\ Calls \subseteq Jobs
      /\ Closer \in Jobs /\ th[c] = "write" /\ baseLock = c /\ baseLock' = None
      /\ th' = [th EXCEPT ![c] = "ended"]
      /\ UNCHANGED <<callVars, job, pool, stopOk, dogVars, closeVars>>
  BY MotionAssumption DEF WriteRaises, Jobs, IInv, Base, Locked
<1>2. wheels' \in {None, wheels, c} /\ portInUse' = TRUE
  BY DEF WriteRaises, Raises
<1>3. faults' \in 0 .. MaxFaults
  BY MotionAssumption DEF WriteRaises, Raises, Fault, IInv, Types, WheelTypes
<1>4. LoopTypes' /\ ThreadTypes' /\ Plane' /\ Pool'
  BY <1>1, ThreadMoves DEF ThStates
<1>5. th'[c] = "ended" /\ \A j \in Jobs \ {c} : th'[j] = th[j]
  BY <1>1 DEF IInv, Types, ThreadTypes
<1>6. WheelTypes' /\ DogTypes'
  BY <1>1, <1>2, <1>3 DEF IInv, Types, WheelTypes, DogTypes, closeVars, dogVars
<1>7. \A d \in Calls : th'[d] \notin Locked
  BY <1>1, <1>5 DEF IInv, Base, Locked
<1>8. Base'
  BY <1>1, <1>2, <1>7 DEF IInv, Base, dogVars
<1>9. Closing' /\ DrivingIsWatched'
  BY <1>1, <1>2, <1>5 DEF IInv, Closing, DrivingIsWatched, closeVars
<1> QED
  BY <1>4, <1>6, <1>8, <1>9 DEF IInv, Types

LEMMA ExchangeRaisesKeeps == ASSUME IInv, ExchangeRaises PROVE IInv'
<1>1. /\ UNCHANGED <<callVars, poolVars, baseLock, dogVars, wheels, stopOk, closeVars>>
      /\ portInUse' = TRUE
  BY DEF ExchangeRaises, Raises
<1>2. faults' \in 0 .. MaxFaults
  BY MotionAssumption DEF ExchangeRaises, Raises, Fault, IInv, Types, WheelTypes
<1>3. Types'
  BY <1>1, <1>2 DEF IInv, Types, LoopTypes, ThreadTypes, DogTypes, WheelTypes, callVars,
                    poolVars, dogVars, closeVars
<1>4. Plane' /\ Pool' /\ Closing'
  BY <1>1 DEF IInv, Plane, Applying, Pool, Closing, callVars, poolVars, closeVars
<1>5. Base' /\ DrivingIsWatched'
  BY <1>1 DEF IInv, Base, IsCurrent, DrivingIsWatched, poolVars, dogVars
<1> QED
  BY <1>3, <1>4, <1>5 DEF IInv

LEMMA StopBaseKeeps == ASSUME IInv, NEW c \in Calls, StopBase(c) PROVE IInv'
<1>1. /\ c # Closer /\ c \in Jobs /\ None \notin Calls /\ c # None /\ Calls \subseteq Jobs
      /\ Closer \in Jobs /\ th[c] = "stopping" /\ baseLock = c /\ baseLock' = None
      /\ StopWheels /\ UNCHANGED <<callVars, job, pool, closeVars>>
  BY MotionAssumption DEF StopBase, StopWheels, Jobs, IInv, Base, Locked
<1>2. PICK place \in {"arm", "ended"} : th' = [th EXCEPT ![c] = place]
  BY DEF StopBase
<1>3. LoopTypes' /\ ThreadTypes' /\ Plane' /\ Pool'
  BY <1>1, <1>2, ThreadMoves DEF ThStates
<1>4. th'[c] = place /\ \A j \in Jobs \ {c} : th'[j] = th[j]
  BY <1>1, <1>2 DEF IInv, Types, ThreadTypes
<1>5. WheelTypes' /\ wheels' \in {None, wheels} /\ (wheels' # None => ~stopOk' \/ portInUse')
  BY <1>1, StopWheelsKeeps DEF IInv, Types, WheelTypes, closeVars
<1>6. DogTypes' /\ \A d \in Calls : timerGen'[d] <= generation' /\ ~IsCurrent(d)'
  <2>1. CASE job[c] = "velocity"
    <3>1. DogTypes' /\ \A d \in Calls : timerGen'[d] < generation'
      BY <1>1, <2>1, CancelWatchdogKeeps DEF StopBase, IInv, Types, Base
    <3> QED
      BY <3>1, NoneCurrent
  <2>2. CASE job[c] # "velocity"
    <3>1. UNCHANGED dogVars
      BY <2>2 DEF StopBase
    <3> QED
      BY <1>1, <2>2, <3>1 DEF IInv, Types, DogTypes, Base, IsCurrent, dogVars
  <2> QED
    BY <2>1, <2>2
<1>7. \A d \in Calls : th'[d] \notin Locked
  BY <1>1, <1>2, <1>4 DEF IInv, Base, Locked
<1>8. Base'
  BY <1>1, <1>6, <1>7 DEF Base
<1>9. Closing' /\ DrivingIsWatched'
  BY <1>1, <1>4, <1>5 DEF IInv, Closing, DrivingIsWatched, closeVars
<1> QED
  BY <1>3, <1>5, <1>6, <1>8, <1>9 DEF IInv, Types

-----------------------------------------------------------------------------
LEMMA TimerElapsesKeeps == ASSUME IInv, NEW c \in Calls, TimerElapses(c) PROVE IInv'
<1>1. /\ UNCHANGED <<callVars, poolVars, baseLock, generation, watchdog, timerGen, baseVars, closeVars>>
      /\ timer' \in [Calls -> {"none", "set", "elapsed"}]
      /\ \A d \in Calls : timer'[d] = "none" <=> timer[d] = "none"
  BY DEF TimerElapses, IInv, Types, DogTypes
<1>2. Types'
  BY <1>1 DEF IInv, Types, LoopTypes, ThreadTypes, DogTypes, WheelTypes, callVars, poolVars,
              baseVars, closeVars
<1>3. Plane' /\ Pool' /\ Closing'
  BY <1>1 DEF IInv, Plane, Applying, Pool, Closing, callVars, poolVars, closeVars
<1>4. \A d \in Calls : IsCurrent(d)' <=> IsCurrent(d)
  BY <1>1 DEF IsCurrent
<1>5. Base'
  BY <1>1, <1>4 DEF IInv, Base, poolVars, baseVars
<1>6. DrivingIsWatched'
  BY <1>1, <1>4 DEF IInv, DrivingIsWatched, Watched, IsCurrent, baseVars, closeVars
<1> QED
  BY <1>2, <1>3, <1>5, <1>6 DEF IInv

LEMMA StopIfStaleKeeps == ASSUME IInv, NEW c \in Calls, StopIfStale(c) PROVE IInv'
<1>1. /\ UNCHANGED <<callVars, poolVars, baseLock, generation, timerGen, closeVars>>
      /\ timer' \in [Calls -> {"none", "set", "elapsed"}] /\ timer'[c] = "none"
      /\ \A d \in Calls \ {c} : timer'[d] = timer[d]
      /\ timer[c] = "elapsed" /\ baseLock = None
  BY DEF StopIfStale, IInv, Types, DogTypes
<1>2. LoopTypes' /\ ThreadTypes' /\ Plane' /\ Pool' /\ Closing'
  BY <1>1 DEF IInv, Types, LoopTypes, ThreadTypes, Plane, Applying, Pool, Closing, callVars,
              poolVars, closeVars
<1>3. \A d \in Calls : IsCurrent(d)' <=> IsCurrent(d) /\ d # c
  BY <1>1 DEF IsCurrent
<1>4. \A d \in Calls : (th'[d] \in Locked <=> baseLock' = d) /\ timerGen'[d] <= generation'
  BY <1>1 DEF IInv, Base, poolVars
<1>5. CASE timerGen[c] # generation /\ UNCHANGED <<watchdog, baseVars>>
  <2>1. DogTypes' /\ WheelTypes'
    BY <1>1, <1>5 DEF IInv, Types, DogTypes, WheelTypes, baseVars, closeVars
  <2>2. Base'
    BY <1>1, <1>3, <1>4, <1>5 DEF IInv, Base, baseVars
  <2>3. DrivingIsWatched'
    BY <1>1, <1>3, <1>5 DEF IInv, DrivingIsWatched, Watched, IsCurrent, baseVars, closeVars
  <2> QED
    BY <1>2, <2>1, <2>2, <2>3 DEF IInv, Types
<1>6. CASE timerGen[c] = generation /\ watchdog' = None /\ StopWheels
  <2>1. /\ WheelTypes' /\ wheels' \in {None, wheels} /\ (wheels' # wheels => ~portInUse)
        /\ wheels' # None => ~stopOk' \/ portInUse'
    BY <1>1, <1>6, StopWheelsKeeps DEF IInv, Types, WheelTypes, closeVars
  <2>2. DogTypes'
    BY <1>1, <1>6 DEF IInv, Types, DogTypes
  <2>3. portInUse => portInUse'
    BY <1>6 DEF StopWheels, StopReturns, StopRaises, WriteOk, WriteFails, Fault, Raises, Reachable
  <2>4. Base'
    BY <1>1, <1>3, <1>4, <2>1, <2>3 DEF IInv, Base, IsCurrent, Types, WheelTypes, poolVars
  <2>5. DrivingIsWatched'
    BY <2>1 DEF DrivingIsWatched
  <2> QED
    BY <1>2, <2>1, <2>2, <2>4, <2>5 DEF IInv, Types
<1> QED
  BY <1>5, <1>6 DEF StopIfStale

\* close() on the event loop and its job in the pool.
LEMMA CloseExecutorKeeps == ASSUME IInv, CloseExecutor PROVE IInv'
<1>1. /\ close = "waiting" /\ close' = "client" /\ baseLock = None
      /\ CancelWatchdog /\ Submit(Closer, "halt")
      /\ UNCHANGED <<callVars, baseLock, baseVars, initialized, busOpen>>
  BY DEF CloseExecutor
<1>2. Closer \in Jobs /\ Closer \notin Calls /\ Calls \subseteq Jobs /\ "halt" \in Ops
  BY MotionAssumption DEF Jobs, Ops
<1>3. th' = [th EXCEPT ![Closer] = "queued"] /\ job' = [job EXCEPT ![Closer] = "halt"]
      /\ pool' = Append(pool, Closer)
  BY <1>1 DEF Submit
<1>4. th[Closer] # "queued"
  BY <1>1 DEF IInv, Closing
<1>5. ThreadTypes' /\ Pool' /\ th'[Closer] = "queued"
  BY <1>1, <1>2, <1>4, SubmitKeeps DEF IInv, Types
<1>6. \A c \in Calls : th'[c] = th[c]
  BY <1>2, <1>3 DEF IInv, Types, ThreadTypes
<1>7. LoopTypes' /\ Plane'
  BY <1>1, <1>6 DEF IInv, Types, LoopTypes, Plane, Applying, callVars
<1>8. DogTypes' /\ \A c \in Calls : timerGen'[c] < generation'
  BY <1>1, CancelWatchdogKeeps DEF IInv, Types, DogTypes, Base
<1>9. Base'
  BY <1>1, <1>6, <1>8, NoneCurrent DEF IInv, Base
<1>10. WheelTypes'
  BY <1>1 DEF IInv, Types, WheelTypes, baseVars
<1>11. Closing' /\ DrivingIsWatched'
  BY <1>1, <1>5 DEF Closing, DrivingIsWatched
<1> QED
  BY <1>5, <1>7, <1>8, <1>9, <1>10, <1>11 DEF IInv, Types

\* The other steps of close() free no lock and set no timer.
LEMMA CloseSteps ==
    ASSUME IInv, NEW place \in {"close_bus", "ended", "none"},
           th[Closer] \notin {"none", "queued"}, th' = [th EXCEPT ![Closer] = place],
           UNCHANGED <<callVars, job, pool, baseLock, dogVars>>, WheelTypes',
           wheels' \in {None, wheels}, portInUse => portInUse', Closing', DrivingIsWatched'
    PROVE  IInv'
<1>1. Closer \in Jobs /\ Closer \notin Calls /\ Calls \subseteq Jobs
  BY MotionAssumption DEF Jobs
<1>2. LoopTypes' /\ ThreadTypes' /\ Plane' /\ Pool'
  BY <1>1, ThreadMoves DEF ThStates
<1>3. \A c \in Calls : th'[c] = th[c]
  BY <1>1 DEF IInv, Types, ThreadTypes
<1>4. DogTypes' /\ Base'
  BY <1>3 DEF IInv, Types, DogTypes, Base, IsCurrent, dogVars
<1> QED
  BY <1>2, <1>4 DEF IInv, Types

LEMMA CloseKeeps ==
    ASSUME IInv, CloseBegin \/ CloseBase \/ CloseBus \/ CloseReturn PROVE IInv'
<1>1. CASE CloseBegin
  <2>1. /\ UNCHANGED <<callVars, poolVars, baseLock, dogVars, baseVars, initialized, busOpen>>
        /\ close = "open" /\ close' = "waiting"
    BY <1>1 DEF CloseBegin
  <2>2. Types'
    BY <2>1 DEF IInv, Types, LoopTypes, ThreadTypes, DogTypes, WheelTypes, callVars, poolVars,
                dogVars, baseVars
  <2>3. Plane' /\ Pool' /\ Base'
    BY <2>1 DEF IInv, Plane, Applying, Pool, Base, IsCurrent, callVars, poolVars, dogVars, baseVars
  <2>4. Closing' /\ DrivingIsWatched'
    BY <2>1 DEF IInv, Closing, DrivingIsWatched, Watched, poolVars, dogVars, baseVars
  <2> QED
    BY <2>2, <2>3, <2>4 DEF IInv
<1>2. CASE CloseBase
  <2>1. PICK place \in {"close_bus", "ended"} : th' = [th EXCEPT ![Closer] = place]
    BY <1>2 DEF CloseBase
  <2>2. /\ th[Closer] = "close_base" /\ StopWheels /\ initialized' \in BOOLEAN
        /\ place = "close_bus" => close' = "base_closed"
        /\ place = "ended" => close' = "failed"
        /\ UNCHANGED <<callVars, job, pool, baseLock, dogVars, busOpen>>
    <3>1. th'[Closer] = place
      BY <2>1, MotionAssumption DEF IInv, Types, ThreadTypes, Jobs
    <3>2. CASE StopReturns /\ initialized' = FALSE /\ th' = [th EXCEPT ![Closer] = "close_bus"]
               /\ close' = "base_closed"
      BY <1>2, <3>1, <3>2, MotionAssumption
         DEF CloseBase, StopWheels, IInv, Types, ThreadTypes, Jobs
    <3>3. CASE StopRaises /\ th' = [th EXCEPT ![Closer] = "ended"] /\ close' = "failed"
               /\ UNCHANGED initialized
      BY <1>2, <3>1, <3>3, MotionAssumption
         DEF CloseBase, StopWheels, IInv, Types, ThreadTypes, WheelTypes, Jobs
    <3> QED
      BY <1>2, <3>2, <3>3 DEF CloseBase
  <2>3. WheelTypes' /\ wheels' \in {None, wheels} /\ (wheels' # None => ~stopOk' \/ portInUse')
    BY <2>1, <2>2, StopWheelsKeeps DEF IInv, Types
  <2>4. th'[Closer] = place
    BY <2>1, MotionAssumption DEF IInv, Types, ThreadTypes, Jobs
  <2>5. Closing' /\ DrivingIsWatched'
    BY <2>1, <2>2, <2>3, <2>4 DEF Closing, DrivingIsWatched
  <2>6. portInUse => portInUse'
    BY <2>2 DEF StopWheels, StopReturns, StopRaises, WriteOk, WriteFails, Fault, Raises, Reachable
  <2> QED
    BY <2>1, <2>2, <2>3, <2>5, <2>6, CloseSteps
<1>3. CASE CloseBus
  <2>1. th'[Closer] = "ended" /\ th[Closer] = "close_bus" /\ close = "base_closed"
    BY <1>3, MotionAssumption DEF CloseBus, IInv, Types, ThreadTypes, Jobs, Closing
  <2>2. CASE busOpen' = FALSE /\ UNCHANGED <<faults, portInUse, close>>
    <3>1. WheelTypes' /\ Closing' /\ DrivingIsWatched'
      BY <1>3, <2>1, <2>2 DEF CloseBus, IInv, Types, WheelTypes, Closing, DrivingIsWatched,
                              Watched, dogVars
    <3> QED
      BY <1>3, <2>1, <2>2, <3>1, CloseSteps DEF CloseBus
  <2>3. CASE Raises /\ close' = "failed" /\ UNCHANGED busOpen
    <3>1. faults' \in 0 .. MaxFaults /\ portInUse' = TRUE
      BY <2>3, MotionAssumption DEF Raises, Fault, IInv, Types, WheelTypes
    <3>2. WheelTypes' /\ Closing' /\ DrivingIsWatched'
      BY <1>3, <2>1, <2>3, <3>1 DEF CloseBus, IInv, Types, WheelTypes, Closing, DrivingIsWatched
    <3> QED
      BY <1>3, <2>1, <2>3, <3>1, <3>2, CloseSteps DEF CloseBus
  <2> QED
    BY <1>3, <2>2, <2>3 DEF CloseBus
<1>4. CASE CloseReturn
  <2>1. th'[Closer] = "none"
    BY <1>4, MotionAssumption DEF CloseReturn, IInv, Types, ThreadTypes, Jobs
  <2>2. close # "client"
    BY <1>4 DEF CloseReturn, IInv, Closing
  <2>3. WheelTypes' /\ Closing' /\ DrivingIsWatched'
    BY <1>4, <2>1, <2>2 DEF CloseReturn, IInv, Types, WheelTypes, Closing, DrivingIsWatched,
                            Watched, dogVars, baseVars
  <2> QED
    BY <1>4, <2>3, CloseSteps DEF CloseReturn, baseVars
<1> QED
  BY <1>1, <1>2, <1>3, <1>4

-----------------------------------------------------------------------------
LEMMA NextKeepsIInv == ASSUME IInv, [Next]_vars PROVE IInv'
<1>1. CASE UNCHANGED vars
  <2>1. Types' /\ Plane' /\ Pool'
    BY <1>1 DEF IInv, Types, LoopTypes, ThreadTypes, DogTypes, WheelTypes, Plane, Applying, Pool,
                vars, callVars, poolVars, dogVars, baseVars, closeVars
  <2>2. Base' /\ Closing' /\ DrivingIsWatched'
    BY <1>1 DEF IInv, Base, IsCurrent, Closing, DrivingIsWatched, Watched,
                vars, poolVars, dogVars, baseVars, closeVars
  <2> QED
    BY <2>1, <2>2 DEF IInv
<1>2. ASSUME NEW c \in Calls,
             \/ Issue(c) \/ Reject(c) \/ Resume(c) \/ Refuse(c) \/ Return(c) \/ Cancel(c)
             \/ TimerElapses(c) \/ StopIfStale(c)
      PROVE  IInv'
  BY <1>2, IssueKeeps, RejectKeeps, ResumeKeeps, RefuseKeeps, ReturnKeeps, CancelKeeps,
     TimerElapsesKeeps, StopIfStaleKeeps
<1>3. ASSUME NEW c \in Calls, ThreadStep(c) \/ PulseAgain(c) PROVE IInv'
  BY <1>3, TakeLockKeeps, CheckInitializedKeeps, WriteVelocityKeeps, WriteRefusedKeeps,
     WriteRaisesKeeps, PulseKeeps, StopBaseKeeps, CommandArmKeeps DEF ThreadStep
<1>4. CASE StartThread \/ ExchangeRaises \/ CloseExecutor \/ CloseBegin \/ CloseBase \/ CloseBus \/ CloseReturn
  BY <1>4, StartThreadKeeps, ExchangeRaisesKeeps, CloseExecutorKeeps, CloseKeeps
<1> QED
  BY <1>1, <1>2, <1>3, <1>4 DEF Next

THEOREM Inductive == Safety => []IInv
BY InitIInv, NextKeepsIInv, PTL DEF Safety

(***************************************************************************)
(* The state of control plane, pool, base and watchdog keeps its types      *)
(* (control_plane.py, executor.py).                                         *)
(***************************************************************************)
THEOREM TypeCorrect == Safety => []TypeOK
<1>1. IInv => TypeOK
  BY TypesAreTypeOK DEF IInv
<1> QED
  BY Inductive, <1>1, PTL

(***************************************************************************)
(* However many commands, steps, stops, cancellations and faults there are, *)
(* free wheels turn under a timer that will stop them, before close() stops *)
(* them, because the servos refused the last stop, or because an exchange   *)
(* has raised and left the port in use, after which no write reaches them   *)
(* (executor.py, _schedule_velocity_stop; servo_bus.py).                    *)
(***************************************************************************)
THEOREM DrivingStaysWatched == Safety => []DrivingIsWatched
<1>1. IInv => DrivingIsWatched
  BY DEF IInv
<1> QED
  BY Inductive, <1>1, PTL

(***************************************************************************)
(* The control plane's current action is the one it admitted, however its   *)
(* callers queue, preempt and are cancelled (control_plane.py,              *)
(* apply_action).                                                           *)
(***************************************************************************)
THEOREM CurrentWasAdmitted == Safety => []CurrentIsAdmitted
<1>1. IInv => CurrentIsAdmitted
  BY DEF IInv, Types, LoopTypes, Plane, Applying, CurrentIsAdmitted, Admitted, CoStates
<1> QED
  BY Inductive, <1>1, PTL

\* Only stop_if_stale() takes an elapsed timer out of that state.
LEMMA ElapsedIsTaken ==
    ASSUME IInv, Next, NEW c \in Calls, timer[c] = "elapsed", timer'[c] = "none", wheels' # wheels
    PROVE  wheels = c
<1>1. DogTypes
  BY DEF IInv, Types
<1>2. CancelWatchdog => timer'[c] = "elapsed"
  BY <1>1 DEF CancelWatchdog, DogTypes
<1>3. ASSUME NEW d \in Calls, ScheduleWatchdog(d) PROVE timer'[c] \in {"elapsed", "set"}
  BY <1>1, <1>3 DEF ScheduleWatchdog, DogTypes
<1>4. PICK d \in Calls : StopIfStale(d)
  <2>1. ASSUME NEW d \in Calls,
               Issue(d) \/ Reject(d) \/ Resume(d) \/ Refuse(d) \/ Return(d) \/ Cancel(d)
        PROVE  FALSE
    BY <2>1 DEF Issue, Reject, Resume, Refuse, Return, Cancel, baseVars
  <2>2. ASSUME NEW d \in Calls, ThreadStep(d) \/ PulseAgain(d) PROVE FALSE
    <3>1. CASE TakeLock(d) \/ CheckInitialized(d) \/ PulseAgain(d) \/ PulseOver(d) \/ CommandArm(d)
      BY <3>1 DEF TakeLock, CheckInitialized, PulseAgain, PulseOver, CommandArm, baseVars
    <3>2. CASE WriteVelocity(d)
      BY <1>3, <3>2 DEF WriteVelocity, dogVars
    <3>3. CASE WriteRefused(d)
      BY <3>3 DEF WriteRefused, dogVars
    <3>4. CASE StopBase(d)
      BY <1>2, <3>4 DEF StopBase, dogVars
    <3>5. CASE WriteRaises(d)
      BY <3>5 DEF WriteRaises, dogVars
    <3> QED
      BY <2>2, <3>1, <3>2, <3>3, <3>4, <3>5 DEF ThreadStep
  <2>3. ASSUME NEW d \in Calls, TimerElapses(d) PROVE FALSE
    BY <2>3 DEF TimerElapses, baseVars
  <2>4. CASE StartThread \/ ExchangeRaises \/ CloseBegin \/ CloseExecutor \/ CloseBus
             \/ CloseReturn
    BY <2>4 DEF StartThread, ExchangeRaises, CloseBegin, CloseExecutor, CloseBus, CloseReturn,
                baseVars
  <2>5. CASE CloseBase
    BY <2>5 DEF CloseBase, dogVars
  <2> QED
    BY <2>1, <2>2, <2>3, <2>4, <2>5 DEF Next
<1>5. d = c /\ timerGen[c] = generation /\ StopWheels /\ baseLock = None
  BY <1>1, <1>4 DEF StopIfStale, DogTypes, baseVars
<1>6. wheels' \in {None, wheels} /\ ~portInUse
  BY <1>5 DEF StopWheels, StopReturns, StopRaises, WriteOk, Raises, Fault, Reachable
<1>7. wheels \in {None, c}
  BY <1>5, <1>6 DEF IInv, Base, IsCurrent
<1> QED
  BY <1>6, <1>7

(***************************************************************************)
(* A velocity watchdog stops no other motion than the one it was started    *)
(* for, however late its thread gets the base lock (executor.py,            *)
(* stop_if_stale).                                                          *)
(***************************************************************************)
THEOREM WatchdogIsSparing == Safety => WatchdogSparesNewer
<1>1. IInv /\ [Next]_vars =>
        [\A c \in Calls : timer[c] = "elapsed" /\ timer'[c] = "none" /\ wheels' # wheels
             => wheels = c]_vars
  BY ElapsedIsTaken
<1> QED
  BY Inductive, <1>1, PTL DEF Safety, WatchdogSparesNewer

=============================================================================
