---------------------------- MODULE BackendProofs ----------------------------
(***************************************************************************)
(* Theorems about ModelServices and RobotHardware, what the skills call    *)
(* on, for every value of the constants. Each component has an inductive   *)
(* invariant of its own; a step of another leaves its variables alone      *)
(* (ModelSteps, HardwareSteps). The types of a component are its invariant *)
(* and what that leaves open (PolicyRest, for one).                        *)
(***************************************************************************)
EXTENDS ModelServices, RobotHardware, SequenceTheorems, FiniteSetTheorems, TLAPS

(* Whichever component moves, each one steps or stutters.                  *)
LEMMA ModelSteps ==
    ASSUME [ModelServicesNext]_modelVars
    PROVE  /\ [Pc!Next]_(Pc!perceptionVars) /\ [Ps!Next]_(Ps!policyVars)
           /\ [Mo!Next]_(Mo!optionVars) /\ [Vp!Next]_(Vp!plannerVars)
           /\ [Aa!Next]_(Aa!admissionVars)
BY DEF ModelServicesNext, modelVars, PerceptionStep, PolicyStep, OptionStep, PlannerStep,
   AdmissionStep, perceptionVars, policyVars, optionVars, plannerVars, admissionVars,
   Pc!perceptionVars, Ps!policyVars, Mo!optionVars, Vp!plannerVars, Aa!admissionVars

-----------------------------------------------------------------------------
(* The planner of a navigation run.                                        *)
(* What the model keeps between two calls is of the session it was last    *)
(* called in, and a call in another session begins with a reset.           *)
PlannerInv ==
    /\ basis \in [PlannerRuns -> SUBSET PlannerRuns]
    /\ \A r \in PlannerRuns : basis[r] \subseteq {r}
    /\ plannerHistory \subseteq {plannerSession}
    /\ DOMAIN waypoint = {"of", "calls"}
    /\ waypoint.of \in {plannerSession, NoRun}

(* A plan of r rests on r alone, when what is left after the reset is r's. *)
LEMMA PlanKeeps ==
    ASSUME PlannerInv, NEW r \in PlannerRuns, Vp!System1(r) \/ Vp!System2(r)
    PROVE  PlannerInv'
<1>1. /\ Vp!OldHistory(r) \subseteq {r}
      /\ DOMAIN Vp!OldWaypoint(r) = {"of", "calls"}
      /\ Vp!OldWaypoint(r).of \in {r, NoRun}
  BY DEF PlannerInv, Vp!OldHistory, Vp!OldWaypoint, Vp!Resets, Vp!NoWaypoint
<1>2. CASE Vp!System1(r)
  <2>1. /\ basis' = [basis EXCEPT ![r] = {Vp!OldWaypoint(r).of}]
        /\ Vp!OldWaypoint(r).of = r /\ plannerSession' = r
        /\ plannerHistory' = Vp!OldHistory(r) \cup {r}
        /\ waypoint' = [Vp!OldWaypoint(r) EXCEPT !.calls = @ + 1]
    BY <1>1, <1>2 DEF Vp!System1, Vp!Planned, Vp!Continues
  <2> QED BY <1>1, <2>1 DEF PlannerInv
<1>3. CASE Vp!System2(r)
  <2>1. /\ basis' = [basis EXCEPT ![r] = Vp!OldHistory(r) \cup {r}]
        /\ plannerSession' = r /\ plannerHistory' = Vp!OldHistory(r) \cup {r}
        /\ waypoint' \in {[of |-> r, calls |-> 1], Vp!NoWaypoint, Vp!OldWaypoint(r)}
    BY <1>3 DEF Vp!System2, Vp!Planned
  <2> QED BY <1>1, <2>1 DEF PlannerInv, Vp!NoWaypoint
<1> QED BY <1>2, <1>3

LEMMA PlannerKeeps ==
    ASSUME PlannerInv, [Vp!Next]_(Vp!plannerVars) PROVE PlannerInv'
<1>1. CASE UNCHANGED <<plannerSession, plannerHistory, waypoint, basis>>
  BY <1>1 DEF PlannerInv
<1>2. ASSUME NEW r \in PlannerRuns, Vp!Call(r) \/ Vp!Execute(r) \/ Vp!PlanFails(r)
      PROVE  UNCHANGED <<plannerSession, plannerHistory, waypoint, basis>>
  BY <1>2 DEF Vp!Call, Vp!Execute, Vp!PlanFails
<1>3. Vp!Cancel => UNCHANGED <<plannerSession, plannerHistory, waypoint, basis>>
  BY DEF Vp!Cancel
<1> QED BY <1>1, <1>2, <1>3, PlanKeeps DEF Vp!Next, Vp!plannerVars

-----------------------------------------------------------------------------
(* The options that let a model move the robot.                            *)
(* The loop is entered with a frame the model was not asked about, except  *)
(* by a VLN option whose budget is spent and which asks no more.           *)
OptionInv ==
    /\ moved \in Nat
    /\ option \in {"vla", "vln"}
    /\ optionAt \in {"idle", "first"} => ~spent
    /\ optionAt = "loop" => ~spent \/ (option = "vln" /\ moved >= MaxSteps)
    /\ ~askedTwice

LEMMA OptionKeeps ==
    ASSUME OptionInv, [Mo!Next]_(Mo!optionVars) PROVE OptionInv'
<1> USE ModelAssumption
<1>0. CASE UNCHANGED Mo!optionVars
  BY <1>0 DEF Mo!optionVars, OptionInv
<1>1. ASSUME NEW reason, Mo!End(reason) PROVE OptionInv'
  BY <1>1 DEF Mo!End, Mo!data, OptionInv
<1>2. CASE Mo!Start \/ Mo!FirstObservation
  BY <1>1, <1>2 DEF Mo!Start, Mo!FirstObservation, Mo!Move, Mo!Go, Mo!data, OptionInv
<1>3. CASE Mo!Ask
  <2>1. ~(option = "vln" /\ moved >= MaxSteps)
    BY <1>3 DEF Mo!Ask, OptionInv
  <2>2. ~spent
    BY <1>3, <2>1 DEF Mo!Ask, Mo!Move, Mo!Go, OptionInv
  <2>3. ~askedTwice'
    BY <1>3, <2>2, Zenon DEF Mo!Ask, Mo!Asking, OptionInv
  <2>4. /\ optionAt' = "infer" /\ UNCHANGED <<option, moved>>
    BY <1>3 DEF Mo!Ask, Mo!Asking, Mo!Move, Mo!Go
  <2> QED BY <2>3, <2>4 DEF OptionInv
<1>4. CASE \/ Mo!BudgetSpent \/ Mo!Cancelled \/ Mo!ModelFails \/ Mo!NoCommands
           \/ Mo!EnvironmentDone \/ Mo!ActionFails \/ Mo!NoNewFrame \/ Mo!Interrupt
  BY <1>1, <1>4 DEF Mo!BudgetSpent, Mo!Cancelled, Mo!ModelFails, Mo!NoCommands,
     Mo!EnvironmentDone, Mo!ActionFails, Mo!NoNewFrame, Mo!Interrupt
<1>5. ASSUME NEW acts \in Mo!Chunks, NEW flag \in BOOLEAN,
             Mo!VlaAnswer(acts, flag) \/ Mo!VlnAnswer(acts, flag)
      PROVE  OptionInv'
  BY <1>1, <1>5 DEF Mo!VlaAnswer, Mo!VlnAnswer, Mo!Move, Mo!Go, OptionInv
<1>6. CASE Mo!LookDown
  BY <1>1, <1>6 DEF Mo!LookDown, Mo!Move, Mo!Go, OptionInv
<1>7. CASE Mo!Send \/ Mo!Act
  BY <1>7 DEF Mo!Send, Mo!Act, Mo!Move, Mo!Go, Mo!data, OptionInv
<1>8. CASE Mo!ActionDone
  BY <1>8 DEF Mo!ActionDone, Mo!Move, Mo!Go, OptionInv
<1>9. CASE Mo!VlaProgress \/ Mo!VlnProgress
  BY <1>1, <1>9 DEF Mo!VlaProgress, Mo!VlnProgress, Mo!Move, Mo!Go, Mo!data, OptionInv
<1>10. CASE Mo!Observe
  BY <1>10 DEF Mo!Observe, Mo!NewerFrame, Mo!Go, OptionInv
<1>11. CASE Mo!NewFrame \/ Mo!AskCancel
  BY <1>11 DEF Mo!NewFrame, Mo!AskCancel, Mo!data, OptionInv
<1> QED
  BY <1>0, <1>2, <1>3, <1>4, <1>5, <1>6, <1>7, <1>8, <1>9, <1>10, <1>11
  DEF Mo!Next, Mo!Handler

-----------------------------------------------------------------------------
(* A plan rests on what its own run has seen, and the model is not asked   *)
(* about one frame twice.                                                  *)
THEOREM PlansRestOnOwnSight == ModelServicesSpec => []PlansFromOwnSight
<1>1. ModelServicesInit => OptionInv /\ PlannerInv
  BY DEF ModelServicesInit, Mo!Init, OptionInv, Vp!Init, PlannerInv, Vp!NoWaypoint
<1>2. OptionInv /\ PlannerInv /\ [ModelServicesNext]_modelVars => OptionInv' /\ PlannerInv'
  BY OptionKeeps, PlannerKeeps, ModelSteps
<1>3. OptionInv /\ PlannerInv => PlansFromOwnSight
  BY DEF OptionInv, PlannerInv, PlansFromOwnSight, Vp!PlansFromOwnSight, Mo!FreshEyes
<1> QED BY <1>1, <1>2, <1>3, PTL DEF ModelServicesSpec

-----------------------------------------------------------------------------
(* The line before a lock. Nobody stands in it twice.                      *)
Distinct(s) == \A i, j \in 1..Len(s) : s[i] = s[j] => i = j

Stands(s, a) == \E i \in 1..Len(s) : s[i] = a

LEMMA LineHasAHead ==
    ASSUME NEW S, NEW s \in Seq(S), s # <<>>
    PROVE  Len(s) \in Nat /\ Len(s) >= 1 /\ Head(s) = s[1]
<1>1. Len(s) \in Nat \ {0}
  BY EmptySeq
<1> QED BY <1>1

(* One more at the end.                                                    *)
LEMMA LineGrows ==
    ASSUME NEW S, NEW s \in Seq(S), NEW a \in S, Distinct(s), ~Stands(s, a)
    PROVE  /\ Append(s, a) \in Seq(S) /\ Append(s, a) # <<>> /\ Distinct(Append(s, a))
           /\ \A b : Stands(Append(s, a), b) => b = a \/ Stands(s, b)
           /\ s # <<>> => Head(Append(s, a)) = Head(s)
<1> DEFINE r == Append(s, a)
<1>1. /\ r \in Seq(S) /\ r # <<>> /\ Len(r) = Len(s) + 1
      /\ \A i \in 1..Len(s) : r[i] = s[i]
      /\ r[Len(s) + 1] = a
  BY AppendProperties
<1>2. Len(s) \in Nat
  BY LenProperties
<1>3. Head(r) = r[1]
  BY <1>1, LineHasAHead
<1>4. s # <<>> => Len(s) >= 1 /\ Head(s) = s[1]
  BY LineHasAHead
<1> HIDE DEF r
<1>5. \A i \in 1..Len(r) : (i \in 1..Len(s) /\ r[i] = s[i]) \/ (i = Len(s) + 1 /\ r[i] = a)
  BY <1>1, <1>2
<1>6. Distinct(r)
  BY <1>5 DEF Distinct, Stands
<1>7. \A b : Stands(r, b) => b = a \/ Stands(s, b)
  BY <1>5 DEF Stands
<1>8. s # <<>> => Head(r) = Head(s)
  BY <1>1, <1>2, <1>3, <1>4
<1> QED BY <1>1, <1>6, <1>7, <1>8 DEF r

(* The first one leaves.                                                   *)
LEMMA LineAdvances ==
    ASSUME NEW S, NEW s \in Seq(S), s # <<>>, Distinct(s)
    PROVE  /\ Tail(s) \in Seq(S) /\ Distinct(Tail(s))
           /\ \A b : Stands(Tail(s), b) => Stands(s, b) /\ b # Head(s)
<1> DEFINE r == Tail(s)
<1>1. r \in Seq(S) /\ Len(r) = Len(s) - 1 /\ \A i \in 1..Len(r) : r[i] = s[i + 1]
  BY HeadTailProperties
<1>2. Len(s) \in Nat /\ Len(s) >= 1 /\ Head(s) = s[1]
  BY LineHasAHead
<1> HIDE DEF r
<1>3. \A i \in 1..Len(r) : i + 1 \in 1..Len(s) /\ i + 1 # 1 /\ r[i] = s[i + 1]
  BY <1>1, <1>2
<1>4. Distinct(r)
  <2> SUFFICES ASSUME NEW i \in 1..Len(r), NEW j \in 1..Len(r), r[i] = r[j] PROVE i = j
    BY DEF Distinct
  <2>1. i + 1 = j + 1
    BY <1>3 DEF Distinct
  <2> QED BY <2>1
<1>5. 1 \in 1..Len(s)
  BY <1>2
<1>6. \A b : Stands(r, b) => Stands(s, b) /\ b # Head(s)
  BY <1>2, <1>3, <1>5 DEF Stands, Distinct
<1> QED BY <1>1, <1>4, <1>6 DEF r

Without(s, i) == SubSeq(s, 1, i - 1) \o SubSeq(s, i + 1, Len(s))

(* One that waits leaves.                                                  *)
LEMMA LineThins ==
    ASSUME NEW S, NEW s \in Seq(S), NEW i \in 1..Len(s), Distinct(s)
    PROVE  /\ Without(s, i) \in Seq(S) /\ Distinct(Without(s, i))
           /\ \A b : Stands(Without(s, i), b) => Stands(s, b) /\ b # s[i]
           /\ i # 1 => Without(s, i) # <<>> /\ Head(Without(s, i)) = Head(s)
<1> DEFINE l == SubSeq(s, 1, i - 1)
           h == SubSeq(s, i + 1, Len(s))
           r == l \o h
<1>1. Len(s) \in Nat /\ i \in Nat /\ i >= 1 /\ i <= Len(s)
  BY LenProperties
<1>2. \A j \in 1..Len(s) : s[j] \in S
  BY ElementOfSeq
<1>3. l \in Seq(S) /\ Len(l) = i - 1 /\ \A j \in 1..(i - 1) : l[j] = s[j]
  <2>1. \A j \in 1..(i - 1) : s[j] \in S
    BY <1>1, <1>2
  <2>2. /\ l \in Seq(S) /\ Len(l) = IF 1 <= i - 1 THEN (i - 1) - 1 + 1 ELSE 0
        /\ \A j \in 1..((i - 1) - 1 + 1) : l[j] = s[1 + j - 1]
    BY <1>1, <2>1, SubSeqProperties
  <2> HIDE DEF l
  <2> QED BY <1>1, <2>2
<1>4. /\ h \in Seq(S) /\ Len(h) = Len(s) - i
      /\ \A j \in 1..(Len(s) - i) : h[j] = s[i + j]
  <2>1. \A j \in (i + 1)..Len(s) : s[j] \in S
    BY <1>1, <1>2
  <2>2. /\ h \in Seq(S)
        /\ Len(h) = IF i + 1 <= Len(s) THEN Len(s) - (i + 1) + 1 ELSE 0
        /\ \A j \in 1..(Len(s) - (i + 1) + 1) : h[j] = s[(i + 1) + j - 1]
    BY <1>1, <2>1, SubSeqProperties
  <2> HIDE DEF h
  <2> QED BY <1>1, <2>2
<1> HIDE DEF l, h
<1>5. /\ r \in Seq(S) /\ Len(r) = Len(l) + Len(h)
      /\ \A j \in 1..(Len(l) + Len(h)) : r[j] = IF j <= Len(l) THEN l[j] ELSE h[j - Len(l)]
  BY <1>3, <1>4, ConcatProperties
<1> HIDE DEF r
<1>6. Len(r) = Len(s) - 1
  BY <1>1, <1>3, <1>4, <1>5
<1>7. \A j \in 1..Len(r) : r[j] = IF j <= i - 1 THEN s[j] ELSE s[j + 1]
  <2> SUFFICES ASSUME NEW j \in 1..Len(r) PROVE r[j] = IF j <= i - 1 THEN s[j] ELSE s[j + 1]
    OBVIOUS
  <2>1. CASE j <= i - 1
    BY <1>1, <1>3, <1>4, <1>5, <1>6, <2>1
  <2>2. CASE ~(j <= i - 1)
    <3>1. r[j] = h[j - (i - 1)]
      BY <1>1, <1>3, <1>4, <1>5, <1>6, <2>2
    <3>2. j - (i - 1) \in 1..(Len(s) - i)
      BY <1>1, <1>6, <2>2
    <3>3. h[j - (i - 1)] = s[i + (j - (i - 1))]
      BY <1>4, <3>2
    <3>4. i + (j - (i - 1)) = j + 1
      BY <1>1
    <3> QED BY <2>2, <3>1, <3>3, <3>4
  <2> QED BY <2>1, <2>2
<1>8. Distinct(r)
  <2> SUFFICES ASSUME NEW j \in 1..Len(r), NEW k \in 1..Len(r), r[j] = r[k] PROVE j = k
    BY DEF Distinct
  <2> DEFINE at(n) == IF n <= i - 1 THEN n ELSE n + 1
  <2>1. \A n \in 1..Len(r) : at(n) \in 1..Len(s) /\ r[n] = s[at(n)]
    BY <1>1, <1>6, <1>7, SMTT(30)
  <2>2. at(j) = at(k)
    BY <2>1 DEF Distinct
  <2> QED BY <1>1, <2>2
<1>9. \A b : Stands(r, b) => Stands(s, b) /\ b # s[i]
  <2> SUFFICES ASSUME NEW j \in 1..Len(r) PROVE Stands(s, r[j]) /\ r[j] # s[i]
    BY DEF Stands
  <2> DEFINE at == IF j <= i - 1 THEN j ELSE j + 1
  <2>1. at \in 1..Len(s) /\ at # i /\ r[j] = s[at] /\ i \in 1..Len(s)
    BY <1>1, <1>6, <1>7
  <2> QED BY <2>1 DEF Stands, Distinct
<1>10. i # 1 => r # <<>> /\ Head(r) = Head(s)
  <2> SUFFICES ASSUME i # 1 PROVE r # <<>> /\ Head(r) = Head(s)
    OBVIOUS
  <2>1. r # <<>>
    BY <1>1, <1>6, EmptySeq
  <2>2. Head(r) = r[1] /\ Head(s) = s[1]
    BY <1>1, <1>5, <2>1, EmptySeq, LineHasAHead
  <2>3. r[1] = s[1]
    BY <1>1, <1>6, <1>7
  <2> QED BY <2>1, <2>2, <2>3
<1> QED BY <1>5, <1>8, <1>9, <1>10 DEF r, l, h, Without

(* So a line is no longer than there are those who may stand in it.        *)
LEMMA LinesAreShort ==
    ASSUME NEW S, IsFiniteSet(S), NEW s \in Seq(S), Distinct(s)
    PROVE  Len(s) <= Cardinality(S)
<1>1. Len(s) \in Nat /\ \A i \in 1..Len(s) : s[i] \in S
  BY LenProperties, ElementOfSeq
<1> DEFINE f == [i \in 1..Len(s) |-> s[i]]
<1>2. f \in [1..Len(s) -> S] /\ \A i, j \in 1..Len(s) : f[i] = f[j] => i = j
  BY <1>1 DEF Distinct
<1> HIDE DEF f
<1>3. f \in Injection(1..Len(s), S)
  BY <1>2 DEF Injection, IsInjective
<1>4. Cardinality(1..Len(s)) <= Cardinality(S)
  BY <1>3, FS_Injection
<1>5. Cardinality(1..Len(s)) = Len(s)
  <2>1. Cardinality(1..Len(s)) = IF 1 > Len(s) THEN 0 ELSE Len(s) - 1 + 1
    BY <1>1, FS_Interval
  <2> QED BY <1>1, <2>1
<1> QED BY <1>4, <1>5

-----------------------------------------------------------------------------
(* From the camera to an observation.                                      *)
Held == [frame: Nat, picture: Nat]
AskerState == [phase: {"idle", "asks", "has", "captions"}, after: Nat,
               why: {"none", "loop", "observe", "evidence", "inspect"},
               renewed: BOOLEAN, got: Held, floor: Nat]

SinceFloor(look, state) == look.picture = 0 \/ look.picture >= state.floor

(* What a state of an asker must satisfy beside what is taken and shared:  *)
(* an open camera shows nothing older than what the asker may get.         *)
Served(state) ==
    /\ camera.open => state.floor <= camera.latest
    /\ taken # Pc!Nothing => SinceFloor(taken, state)
    /\ state.renewed /\ perceptionLatest # Pc!Nothing => SinceFloor(perceptionLatest, state)
    /\ state.phase \in {"has", "captions"} => SinceFloor(state.got, state)

NobodyAsks == /\ perceptionLine = <<>> /\ holder = Pc!Nobody /\ taken = Pc!Nothing
              /\ \A a \in Pc!Askers : asker[a] = Pc!Idle

SightInv ==
    /\ camera \in [open: BOOLEAN, stopping: BOOLEAN, reader: BOOLEAN, frame: Nat, latest: Nat]
    /\ camera.latest <= camera.frame
    /\ perceptionDriver \in [state: {"created", "idle", "degraded", "closing", "closed"},
                             frame: Nat]
    /\ taken \in Held /\ perceptionLatest \in Held
    /\ asker \in [Pc!Askers -> AskerState]
    /\ perceptionDriver.state = "created" => NobodyAsks
    /\ camera.open /\ taken # Pc!Nothing => taken.picture <= camera.latest
    /\ \A a \in Pc!Askers : Served(asker[a])

LEMMA IdleIsServed ==
    Pc!Nothing \in Held /\ Pc!Idle \in AskerState /\ (SightInv => Served(Pc!Idle))
BY ModelAssumption DEF Pc!Nothing, Pc!NoLook, Held, Pc!Idle, AskerState, Served, SinceFloor,
   SightInv

(* Where nobody has asked yet, only the driver and the camera start.       *)
LEMMA OneAskerKeeps ==
    ASSUME SightInv, NEW a \in Pc!Askers, NEW state \in AskerState, Served(state),
           perceptionDriver.state # "created",
           asker' = [asker EXCEPT ![a] = state],
           UNCHANGED <<camera, perceptionDriver, taken, perceptionLatest>>
    PROVE  SightInv'
<1>1. asker' \in [Pc!Askers -> AskerState]
  BY DEF SightInv
<1>2. ASSUME NEW b \in Pc!Askers PROVE Served(asker[b])'
  <2>1. Served(asker'[b])
    BY DEF SightInv
  <2> QED BY <2>1 DEF Served, SinceFloor
<1> QED BY <1>1, <1>2 DEF SightInv

LEMMA AskingKeeps ==
    ASSUME SightInv, NEW a \in Pc!Askers, NEW why \in {"loop", "observe", "evidence", "inspect"},
           NEW after \in Nat, Pc!Asks(a, why, after), perceptionDriver.state # "created",
           UNCHANGED <<camera, perceptionDriver, taken, perceptionLatest>>
    PROVE  SightInv'
<1> DEFINE floor1 == IF taken # Pc!Nothing THEN taken.picture ELSE camera.latest
           state == [Pc!Idle EXCEPT !.phase = "asks", !.why = why, !.after = after,
                                    !.floor = floor1]
<1>1. floor1 \in Nat /\ (camera.open => floor1 <= camera.latest)
      /\ (taken # Pc!Nothing => floor1 = taken.picture)
  BY DEF SightInv, Held
<1>2. asker' = [asker EXCEPT ![a] = state]
  BY DEF Pc!Asks
<1> HIDE DEF floor1
<1>3. state \in AskerState /\ state.floor = floor1 /\ ~state.renewed /\ state.phase = "asks"
  BY <1>1, IdleIsServed DEF AskerState, Pc!Idle
<1>4. Served(state)
  BY <1>1, <1>3, IdleIsServed DEF Served, SinceFloor
<1> HIDE DEF state
<1> QED BY <1>2, <1>3, <1>4, OneAskerKeeps

(* An answer that is given up or used leaves the asker idle.               *)
LEMMA LeavingKeeps ==
    ASSUME SightInv, NEW a \in Pc!Askers, Pc!Leave(a), perceptionDriver.state # "created",
           UNCHANGED <<camera, perceptionDriver, taken, perceptionLatest>>
    PROVE  SightInv'
BY IdleIsServed, OneAskerKeeps DEF Pc!Leave

(* Camera and driver: an open camera's picture only gets newer.            *)
LEMMA CameraKeeps ==
    ASSUME SightInv,
           \/ Pc!Start \/ Pc!Diagnose \/ Pc!ReadFrame \/ Pc!ReaderEnds
           \/ Pc!StopCamera \/ Pc!CloseCamera
    PROVE  SightInv'
<1>1. UNCHANGED <<perceptionLine, asker, holder, taken, perceptionLatest>>
  BY DEF Pc!Start, Pc!Diagnose, Pc!ReadFrame, Pc!ReaderEnds, Pc!StopCamera, Pc!CloseCamera,
     Pc!requests, Pc!refreshes
<1>2. /\ camera' \in [open: BOOLEAN, stopping: BOOLEAN, reader: BOOLEAN, frame: Nat, latest: Nat]
      /\ camera'.latest <= camera'.frame
      /\ perceptionDriver' \in [state: {"created", "idle", "degraded", "closing", "closed"},
                                frame: Nat]
      /\ perceptionDriver'.state = "created" => perceptionDriver.state = "created"
      /\ camera'.open => \/ camera.open /\ camera.latest <= camera'.latest
                         \/ perceptionDriver.state = "created"
  <2>0. /\ camera \in [open: BOOLEAN, stopping: BOOLEAN, reader: BOOLEAN, frame: Nat,
                       latest: Nat]
        /\ perceptionDriver \in [state: {"created", "idle", "degraded", "closing", "closed"},
                                 frame: Nat]
        /\ camera.latest <= camera.frame /\ camera.latest \in Nat /\ camera.frame \in Nat
    BY DEF SightInv
  <2>1. CASE Pc!Start
    BY <2>0, <2>1 DEF Pc!Start
  <2>2. CASE Pc!ReadFrame
    <3> DEFINE next == camera.frame + 1
    <3>1. /\ camera' = [camera EXCEPT !.frame = next, !.latest = next] /\ next \in Nat
          /\ perceptionDriver' = perceptionDriver
      BY <2>0, <2>2 DEF Pc!ReadFrame
    <3> HIDE DEF next
    <3>2. /\ camera' \in [open: BOOLEAN, stopping: BOOLEAN, reader: BOOLEAN, frame: Nat,
                          latest: Nat]
          /\ camera'.open = camera.open
      BY <2>0, <3>1
    <3>3. camera'.latest = camera.frame + 1 /\ camera'.frame = camera.frame + 1
      BY <2>0, <3>1 DEF next
    <3>4. /\ perceptionDriver' \in
                [state: {"created", "idle", "degraded", "closing", "closed"}, frame: Nat]
          /\ perceptionDriver'.state = "created" => perceptionDriver.state = "created"
      BY <2>0, <3>1
    <3> QED BY <2>0, <3>2, <3>3, <3>4
  <2>3. CASE Pc!Diagnose
    <3>1. camera' = camera /\ perceptionDriver' = [perceptionDriver EXCEPT !.state = "idle"]
      BY <2>3 DEF Pc!Diagnose
    <3>2. /\ camera' \in [open: BOOLEAN, stopping: BOOLEAN, reader: BOOLEAN, frame: Nat,
                          latest: Nat]
          /\ camera'.open = camera.open
      BY <2>0, <3>1
    <3>3. camera'.latest = camera.latest /\ camera'.frame = camera.frame
      BY <2>0, <3>1
    <3>4. /\ perceptionDriver' \in
                [state: {"created", "idle", "degraded", "closing", "closed"}, frame: Nat]
          /\ perceptionDriver'.state = "created" => perceptionDriver.state = "created"
      BY <2>0, <3>1
    <3> QED BY <2>0, <3>2, <3>3, <3>4
  <2>4. CASE Pc!ReaderEnds
    <3>1. camera' = [camera EXCEPT !.reader = FALSE] /\ perceptionDriver' = perceptionDriver
      BY <2>4 DEF Pc!ReaderEnds
    <3>2. /\ camera' \in [open: BOOLEAN, stopping: BOOLEAN, reader: BOOLEAN, frame: Nat,
                          latest: Nat]
          /\ camera'.open = camera.open
      BY <2>0, <3>1
    <3>3. camera'.latest = camera.latest /\ camera'.frame = camera.frame
      BY <2>0, <3>1
    <3>4. /\ perceptionDriver' \in
                [state: {"created", "idle", "degraded", "closing", "closed"}, frame: Nat]
          /\ perceptionDriver'.state = "created" => perceptionDriver.state = "created"
      BY <2>0, <3>1
    <3> QED BY <2>0, <3>2, <3>3, <3>4
  <2>5. CASE Pc!StopCamera
    <3>1. /\ camera' = [camera EXCEPT !.stopping = TRUE]
          /\ perceptionDriver' = [perceptionDriver EXCEPT !.state = "closing"]
      BY <2>5 DEF Pc!StopCamera
    <3>2. /\ camera' \in [open: BOOLEAN, stopping: BOOLEAN, reader: BOOLEAN, frame: Nat,
                          latest: Nat]
          /\ camera'.open = camera.open
      BY <2>0, <3>1
    <3>3. camera'.latest = camera.latest /\ camera'.frame = camera.frame
      BY <2>0, <3>1
    <3>4. /\ perceptionDriver' \in
                [state: {"created", "idle", "degraded", "closing", "closed"}, frame: Nat]
          /\ perceptionDriver'.state = "created" => perceptionDriver.state = "created"
      BY <2>0, <3>1
    <3> QED BY <2>0, <3>2, <3>3, <3>4
  <2>6. CASE Pc!CloseCamera
    <3>1. /\ camera' = [camera EXCEPT !.open = FALSE, !.latest = 0]
          /\ perceptionDriver' = [perceptionDriver EXCEPT !.state = "closed"]
      BY <2>6 DEF Pc!CloseCamera
    <3>2. /\ camera' \in [open: BOOLEAN, stopping: BOOLEAN, reader: BOOLEAN, frame: Nat,
                          latest: Nat]
          /\ ~camera'.open /\ camera'.latest = 0 /\ camera'.frame = camera.frame
      BY <2>0, <3>1
    <3>3. /\ perceptionDriver' \in
                [state: {"created", "idle", "degraded", "closing", "closed"}, frame: Nat]
          /\ perceptionDriver'.state = "created" => perceptionDriver.state = "created"
      BY <2>0, <3>1
    <3> QED BY <2>0, <3>2, <3>3
  <2> QED BY <2>1, <2>2, <2>3, <2>4, <2>5, <2>6
<1>3. ASSUME NEW a \in Pc!Askers PROVE Served(asker[a])'
  <2>1. CASE perceptionDriver.state = "created"
    <3>1. asker[a] = Pc!Idle /\ taken = Pc!Nothing
      BY <2>1 DEF SightInv, NobodyAsks
    <3> QED BY <1>1, <1>2, <3>1 DEF Served, Pc!Idle
  <2>2. CASE perceptionDriver.state # "created"
    <3>1. /\ Served(asker[a]) /\ asker[a].floor \in Nat
          /\ camera.latest \in Nat /\ camera'.latest \in Nat
      BY <1>2 DEF SightInv, AskerState
    <3>2. camera'.open => asker[a].floor <= camera'.latest
      BY <1>2, <2>2, <3>1 DEF Served
    <3> QED BY <1>1, <3>1, <3>2 DEF Served, SinceFloor
  <2> QED BY <2>1, <2>2
<1>4. camera'.open /\ taken # Pc!Nothing => taken.picture <= camera'.latest
  BY <1>2 DEF SightInv, Held, NobodyAsks
<1>5. perceptionDriver'.state = "created" => NobodyAsks'
  BY <1>1, <1>2 DEF SightInv, NobodyAsks
<1> QED BY <1>1, <1>2, <1>3, <1>4, <1>5 DEF SightInv

(* An observe takes a picture that is not older than any asker's floor.    *)
LEMMA CaptureKeeps == ASSUME SightInv, Pc!Capture PROVE SightInv'
<1> DEFINE picture == Pc!LastFrame
           shot == IF picture # 0 THEN picture ELSE Pc!Min({perceptionDriver.frame + 1, MaxFrames})
<1>1. picture \in Nat /\ (picture # 0 => camera.open /\ picture = camera.latest)
  BY DEF Pc!LastFrame, SightInv
<1>2. Pc!Min({perceptionDriver.frame + 1, MaxFrames}) \in Nat
  <2> DEFINE n == perceptionDriver.frame + 1
  <2>1. n \in Nat
    BY DEF SightInv
  <2> HIDE DEF n
  <2>2. \E x \in {n, MaxFrames} : \A y \in {n, MaxFrames} : x <= y
    BY <2>1, ModelAssumption
  <2>3. Pc!Min({n, MaxFrames}) \in {n, MaxFrames}
    BY <2>2 DEF Pc!Min
  <2> QED BY <2>1, <2>3, ModelAssumption DEF n
<1>3. shot \in Nat
  BY <1>1, <1>2
<1>4. /\ taken = Pc!Nothing /\ taken' = [frame |-> shot, picture |-> picture]
      /\ perceptionDriver' = [perceptionDriver EXCEPT !.frame = shot]
      /\ UNCHANGED <<camera, holder, perceptionLatest, perceptionLine, asker>>
  BY DEF Pc!Capture, Pc!requests
<1> HIDE DEF shot, picture
<1>5. taken' \in Held /\ taken'.picture = picture
  BY <1>1, <1>3, <1>4 DEF Held
<1>6. perceptionDriver' \in [state: {"created", "idle", "degraded", "closing", "closed"},
                             frame: Nat]
      /\ perceptionDriver'.state = perceptionDriver.state
  BY <1>3, <1>4 DEF SightInv
<1>7. perceptionDriver.state # "created"
  BY DEF SightInv, NobodyAsks, Pc!Capture
<1>8. ASSUME NEW a \in Pc!Askers PROVE Served(asker[a])'
  <2>1. Served(asker[a])
    BY DEF SightInv
  <2>2. picture = 0 \/ picture >= asker[a].floor
    BY <1>1, <2>1 DEF Served
  <2> QED BY <1>4, <1>5, <2>1, <2>2 DEF Served, SinceFloor
<1>9. camera'.open /\ taken' # Pc!Nothing => taken'.picture <= camera'.latest
  BY <1>1, <1>4, <1>5 DEF SightInv
<1> QED BY <1>4, <1>5, <1>6, <1>7, <1>8, <1>9 DEF SightInv

(* What was taken becomes what is shared, with those who waited for it.    *)
LEMMA EndKeeps == ASSUME SightInv, Pc!EndRefresh PROVE SightInv'
<1>1. /\ taken # Pc!Nothing /\ perceptionLatest' = taken /\ taken' = Pc!Nothing
      /\ UNCHANGED <<camera, perceptionDriver>>
      /\ asker' = [a \in Pc!Askers |->
            IF a = holder THEN [asker[a] EXCEPT !.phase = "has", !.got = taken]
            ELSE [asker[a] EXCEPT !.renewed = (@ \/ a \in Pc!Range(perceptionLine))]]
  BY DEF Pc!EndRefresh, Pc!devices
<1>2. perceptionDriver.state # "created"
  BY <1>1 DEF SightInv, NobodyAsks
<1>3. ASSUME NEW a \in Pc!Askers
      PROVE  asker'[a] \in AskerState /\ Served(asker[a])'
  <2>1. asker[a] \in AskerState /\ Served(asker[a]) /\ SinceFloor(taken, asker[a])
    BY <1>1 DEF SightInv, Served
  <2>2. CASE a = holder
    <3>1. asker'[a] = [asker[a] EXCEPT !.phase = "has", !.got = taken]
      BY <1>1, <2>2
    <3>2. /\ asker'[a] \in AskerState /\ asker'[a].got = taken
          /\ asker'[a].floor = asker[a].floor
      BY <2>1, <3>1 DEF AskerState, SightInv
    <3> QED BY <1>1, <2>1, <3>2 DEF Served, SinceFloor
  <2>3. CASE a # holder
    <3>1. asker'[a] = [asker[a] EXCEPT !.renewed = (@ \/ a \in Pc!Range(perceptionLine))]
      BY <1>1, <2>3
    <3>2. /\ asker'[a] \in AskerState /\ asker'[a].got = asker[a].got
          /\ asker'[a].floor = asker[a].floor /\ asker'[a].phase = asker[a].phase
      BY <2>1, <3>1 DEF AskerState
    <3> QED BY <1>1, <2>1, <3>2 DEF Served, SinceFloor
  <2> QED BY <2>2, <2>3
<1>4. asker' \in [Pc!Askers -> AskerState]
  BY <1>1, <1>3
<1>5. taken' \in Held /\ perceptionLatest' \in Held
  BY <1>1, IdleIsServed DEF SightInv
<1> QED BY <1>1, <1>2, <1>3, <1>4, <1>5 DEF SightInv

LEMMA RefreshKeeps ==
    ASSUME SightInv,
           \/ Pc!RefreshFails
           \/ \E a \in Pc!Askers : Pc!TakeShared(a) \/ Pc!BeginRefresh(a)
    PROVE  SightInv'
<1>1. CASE Pc!RefreshFails
  <2>1. /\ holder # Pc!Nobody /\ taken' = Pc!Nothing
        /\ UNCHANGED <<camera, perceptionDriver, perceptionLatest>>
        /\ asker' = [asker EXCEPT ![holder] = Pc!Idle]
    BY <1>1 DEF Pc!RefreshFails, Pc!devices
  <2>2. perceptionDriver.state # "created"
    BY <2>1 DEF SightInv, NobodyAsks
  <2>3. asker' \in [Pc!Askers -> AskerState] /\ taken' \in Held
    BY <2>1, IdleIsServed DEF SightInv
  <2>4. ASSUME NEW a \in Pc!Askers PROVE Served(asker[a])'
    <3>1. Served(asker'[a])
      BY <2>1, IdleIsServed DEF SightInv
    <3> QED BY <2>1, <3>1 DEF Served, SinceFloor
  <2> QED BY <2>1, <2>2, <2>3, <2>4 DEF SightInv
<1>2. ASSUME NEW a \in Pc!Askers, Pc!BeginRefresh(a) PROVE SightInv'
  <2>1. /\ perceptionLine # <<>> /\ taken' = Pc!Nothing
        /\ UNCHANGED <<camera, perceptionDriver, perceptionLatest, asker>>
    BY <1>2 DEF Pc!BeginRefresh, Pc!devices
  <2>2. perceptionDriver.state # "created"
    BY <2>1 DEF SightInv, NobodyAsks
  <2>3. ASSUME NEW b \in Pc!Askers PROVE Served(asker[b])'
    BY <2>1 DEF SightInv, Served, SinceFloor
  <2> QED BY <2>1, <2>2, <2>3, IdleIsServed DEF SightInv
<1>3. ASSUME NEW a \in Pc!Askers, Pc!TakeShared(a) PROVE SightInv'
  <2> DEFINE state == [asker[a] EXCEPT !.phase = "has", !.got = perceptionLatest]
  <2>1. /\ perceptionLine # <<>> /\ perceptionLatest # Pc!Nothing /\ asker[a].renewed
        /\ asker' = [asker EXCEPT ![a] = state]
        /\ UNCHANGED <<camera, perceptionDriver, taken, perceptionLatest>>
    BY <1>3 DEF Pc!TakeShared, Pc!Shares, Pc!devices, Pc!refreshes, SightInv
  <2>2. perceptionDriver.state # "created"
    BY <2>1 DEF SightInv, NobodyAsks
  <2>3. /\ state \in AskerState /\ state.floor = asker[a].floor /\ state.renewed
        /\ state.got = perceptionLatest
    BY <2>1 DEF SightInv, AskerState
  <2>4. Served(state)
    BY <2>1, <2>3 DEF SightInv, Served, SinceFloor
  <2> HIDE DEF state
  <2> QED BY <2>1, <2>2, <2>3, <2>4, OneAskerKeeps
<1> QED BY <1>1, <1>2, <1>3

(* The skills' own steps.                                                  *)
LEMMA SkillKeeps == ASSUME SightInv, NEW s \in Skills, Pc!Skill(s) PROVE SightInv'
<1>0. s \in Pc!Askers /\ asker[s] \in AskerState /\ Pc!Idle.phase = "idle"
  BY DEF Pc!Askers, SightInv, Pc!Idle
<1>1. asker[s].phase # "idle" => perceptionDriver.state # "created"
  BY <1>0 DEF SightInv, NobodyAsks
<1>2. ASSUME NEW why \in {"observe", "evidence", "inspect"}, NEW after \in Nat,
             Pc!Ask(s, why, after)
      PROVE  SightInv'
  BY <1>0, <1>2, AskingKeeps DEF Pc!Ask, Pc!devices, Pc!refreshes
<1>3. CASE Pc!ClientObserve(s) \/ Pc!ActionEnded(s) \/ Pc!InspectScene(s) \/ Pc!LookAgain(s)
  <2>1. perceptionDriver.frame \in Nat /\ asker[s].after \in Nat
    BY <1>0 DEF SightInv, AskerState
  <2> QED BY <1>2, <1>3, <2>1 DEF Pc!ClientObserve, Pc!ActionEnded, Pc!InspectScene, Pc!LookAgain
<1>4. CASE \/ Pc!GiveUp(s) \/ Pc!Observed(s) \/ Pc!KeepEvidence(s)
           \/ Pc!NoPicture(s) \/ Pc!Captioned(s)
  <2>1. /\ Pc!Leave(s) /\ asker[s].phase # "idle"
        /\ UNCHANGED <<camera, perceptionDriver, taken, perceptionLatest>>
    BY <1>4 DEF Pc!GiveUp, Pc!Observed, Pc!KeepEvidence, Pc!NoPicture, Pc!Captioned,
       Pc!Answered, Pc!Leave, Pc!devices, Pc!refreshes
  <2> QED BY <1>0, <1>1, <2>1, LeavingKeeps
<1>5. CASE Pc!PinEvidence(s)
  <2>1. UNCHANGED <<camera, perceptionDriver, perceptionLine, asker, holder, taken,
                    perceptionLatest>>
    BY <1>5 DEF Pc!PinEvidence, Pc!devices, Pc!requests, Pc!refreshes
  <2> QED BY <2>1 DEF SightInv, Served, SinceFloor, NobodyAsks
<1>6. CASE Pc!StartCaption(s)
  <2> DEFINE state == [asker[s] EXCEPT !.phase = "captions"]
  <2>1. /\ asker[s].phase = "has" /\ asker' = [asker EXCEPT ![s] = state]
        /\ UNCHANGED <<camera, perceptionDriver, taken, perceptionLatest>>
    BY <1>6 DEF Pc!StartCaption, Pc!devices, Pc!refreshes, SightInv
  <2>2. /\ state \in AskerState /\ state.floor = asker[s].floor /\ state.got = asker[s].got
        /\ state.renewed = asker[s].renewed
    BY <1>0 DEF AskerState
  <2>3. Served(state)
    BY <1>0, <2>1, <2>2 DEF SightInv, Served, SinceFloor
  <2> HIDE DEF state
  <2> QED BY <1>0, <1>1, <2>1, <2>2, <2>3, OneAskerKeeps
<1>7. CASE Pc!LookAround(s)
  <2>1. /\ Pc!Asks(s, "inspect", 0) /\ asker[s].phase # "idle"
        /\ UNCHANGED <<camera, perceptionDriver, taken, perceptionLatest>>
    BY <1>7 DEF Pc!LookAround, Pc!Answered, Pc!devices, Pc!refreshes
  <2> QED BY <1>0, <1>1, <2>1, AskingKeeps
<1> QED BY <1>3, <1>4, <1>5, <1>6, <1>7 DEF Pc!Skill

LEMMA SightKeeps ==
    ASSUME SightInv, [Pc!Next]_(Pc!perceptionVars) PROVE SightInv'
<1>1. CASE UNCHANGED Pc!perceptionVars
  BY <1>1 DEF Pc!perceptionVars, SightInv, Served, SinceFloor, NobodyAsks
<1>2. CASE Pc!LoopAsks
  <2>1. ObservationLoop \in Pc!Askers /\ Pc!Asks(ObservationLoop, "loop", 0) /\ perceptionDriver.state # "created"
        /\ UNCHANGED <<camera, perceptionDriver, taken, perceptionLatest>>
    BY <1>2 DEF Pc!LoopAsks, Pc!Ask, Pc!Askers, Pc!devices, Pc!refreshes
  <2> QED BY <2>1, AskingKeeps
<1>3. CASE Pc!Publish
  <2>1. ObservationLoop \in Pc!Askers /\ Pc!Leave(ObservationLoop) /\ asker[ObservationLoop].phase = "has"
        /\ UNCHANGED <<camera, perceptionDriver, taken, perceptionLatest>>
    BY <1>3 DEF Pc!Publish, Pc!Askers, Pc!devices, Pc!refreshes
  <2>2. perceptionDriver.state # "created"
    BY <2>1 DEF SightInv, NobodyAsks, Pc!Idle
  <2> QED BY <2>1, <2>2, LeavingKeeps
<1> QED
  BY <1>1, <1>2, <1>3, CameraKeeps, CaptureKeeps, EndKeeps, RefreshKeeps, SkillKeeps
  DEF Pc!Next

(* However observes, failures and askers interleave: who gets a picture    *)
(* gets one as new as the camera's when it asked, or as the one of the     *)
(* observation that was then under way.                                    *)
THEOREM PicturesAreRecent == ModelServicesSpec => []SeenSinceAsked
<1>1. ModelServicesInit => SightInv
  <2> HAVE ModelServicesInit
  <2>1. /\ asker = [a \in Pc!Askers |-> Pc!Idle] /\ taken = Pc!Nothing
        /\ perceptionLatest = Pc!Nothing /\ perceptionLine = <<>> /\ holder = Pc!Nobody
        /\ camera = [open |-> FALSE, stopping |-> FALSE, reader |-> FALSE, frame |-> 0,
                     latest |-> 0]
        /\ perceptionDriver = [state |-> "created", frame |-> 0]
    BY DEF ModelServicesInit, Pc!Init
  <2>2. Served(Pc!Idle)
    BY <2>1 DEF Served, Pc!Idle
  <2> QED BY <2>1, <2>2, IdleIsServed DEF SightInv, NobodyAsks
<1>2. SightInv /\ [ModelServicesNext]_modelVars => SightInv'
  BY SightKeeps, ModelSteps
<1>3. SightInv => SeenSinceAsked
  BY DEF SightInv, Served, SinceFloor, SeenSinceAsked, Pc!SeenSinceAsked
<1> QED BY <1>1, <1>2, <1>3, PTL DEF ModelServicesSpec

-----------------------------------------------------------------------------
(* The policy service.                                                     *)
(* What is in a pipe, replies first, moves on in its order.                *)
LEMMA PipeSend ==
    ASSUME NEW M, NEW f \in Seq(M), NEW t \in Seq(M), NEW m \in M
    PROVE  /\ Append(t, m) \in Seq(M)
           /\ f \o Append(t, m) = Append(f \o t, m)
<1>1. Append(t, m) \in Seq(M) /\ f \o t \in Seq(M) /\ f \o Append(t, m) \in Seq(M)
      /\ Append(f \o t, m) \in Seq(M)
  BY ConcatProperties, AppendProperties
<1>2. /\ Len(f \o Append(t, m)) = Len(Append(f \o t, m))
      /\ Len(f \o Append(t, m)) = Len(f) + Len(t) + 1
      /\ Len(f) \in Nat /\ Len(t) \in Nat
  BY <1>1, ConcatProperties, AppendProperties, LenProperties
<1>3. ASSUME NEW i \in 1..Len(f \o Append(t, m))
      PROVE  (f \o Append(t, m))[i] = Append(f \o t, m)[i]
  <2>1. i \in 1..(Len(f) + Len(t) + 1) /\ Len(f \o t) = Len(f) + Len(t)
        /\ Len(Append(t, m)) = Len(t) + 1
    BY <1>2, ConcatProperties, AppendProperties
  <2>2. (f \o Append(t, m))[i] = IF i <= Len(f) THEN f[i] ELSE Append(t, m)[i - Len(f)]
    BY <1>1, <2>1, ConcatProperties
  <2>3. CASE i <= Len(f)
    <3>1. Append(f \o t, m)[i] = (f \o t)[i] /\ (f \o t)[i] = f[i]
      BY <1>1, <1>2, <2>1, <2>3, ConcatProperties, AppendProperties
    <3> QED BY <2>2, <2>3, <3>1
  <2>4. CASE i > Len(f) /\ i <= Len(f) + Len(t)
    <3>1. Append(f \o t, m)[i] = (f \o t)[i] /\ (f \o t)[i] = t[i - Len(f)]
      BY <1>1, <1>2, <2>1, <2>4, ConcatProperties, AppendProperties
    <3>2. Append(t, m)[i - Len(f)] = t[i - Len(f)]
      BY <1>2, <2>1, <2>4, AppendProperties
    <3> QED BY <1>2, <2>1, <2>2, <2>4, <3>1, <3>2
  <2>5. CASE i = Len(f) + Len(t) + 1
    <3>1. Append(f \o t, m)[i] = m
      BY <1>1, <2>1, <2>5, AppendProperties
    <3>2. Append(t, m)[i - Len(f)] = m
      BY <1>2, <2>5, AppendProperties
    <3> QED BY <1>2, <2>1, <2>2, <2>5, <3>1, <3>2
  <2> QED BY <1>2, <2>1, <2>3, <2>4, <2>5
<1> QED BY <1>1, <1>2, <1>3, SeqEqual

LEMMA PipeReceive ==
    ASSUME NEW M, NEW f \in Seq(M), NEW t \in Seq(M), f # <<>>
    PROVE  /\ Tail(f) \in Seq(M) /\ Head(f) \in M
           /\ f \o t # <<>> /\ Head(f) = Head(f \o t)
           /\ Tail(f) \o t = Tail(f \o t)
<1>1. /\ Tail(f) \in Seq(M) /\ Head(f) \in M /\ f \o t \in Seq(M)
      /\ Len(f \o t) = Len(f) + Len(t) /\ Len(f) \in Nat /\ Len(t) \in Nat /\ Len(f) > 0
      /\ Len(Tail(f)) = Len(f) - 1
  BY HeadTailProperties, ConcatProperties, LenProperties, EmptySeq
<1>2. f \o t # <<>>
  BY <1>1, EmptySeq
<1>3. Head(f) = Head(f \o t)
  <2>1. (f \o t)[1] = f[1]
    BY <1>1, ConcatProperties
  <2> QED BY <2>1
<1>4. Tail(f \o t) \in Seq(M) /\ Tail(f) \o t \in Seq(M)
      /\ Len(Tail(f \o t)) = Len(f) + Len(t) - 1
      /\ Len(Tail(f) \o t) = Len(f) + Len(t) - 1
  BY <1>1, <1>2, HeadTailProperties, ConcatProperties
<1>5. ASSUME NEW i \in 1..(Len(f) + Len(t) - 1)
      PROVE  (Tail(f) \o t)[i] = Tail(f \o t)[i]
  <2>1. Tail(f \o t)[i] = (f \o t)[i + 1]
    BY <1>1, <1>2, <1>4, HeadTailProperties
  <2>2. (f \o t)[i + 1] = IF i + 1 <= Len(f) THEN f[i + 1] ELSE t[i + 1 - Len(f)]
    BY <1>1, ConcatProperties
  <2>3. (Tail(f) \o t)[i] = IF i <= Len(f) - 1 THEN Tail(f)[i] ELSE t[i - (Len(f) - 1)]
    BY <1>1, ConcatProperties
  <2>4. CASE i <= Len(f) - 1
    <3>1. Tail(f)[i] = f[i + 1]
      BY <1>1, <2>4, HeadTailProperties
    <3> QED BY <1>1, <2>1, <2>2, <2>3, <2>4, <3>1
  <2>5. CASE i > Len(f) - 1
    <3>1. i - (Len(f) - 1) = i + 1 - Len(f)
      BY <1>1
    <3> QED BY <1>1, <2>1, <2>2, <2>3, <2>5, <3>1
  <2> QED BY <1>1, <2>4, <2>5
<1> QED BY <1>1, <1>2, <1>3, <1>4, <1>5, SeqEqual

LEMMA PipeReply ==
    ASSUME NEW M, NEW f \in Seq(M), NEW t \in Seq(M), t # <<>>
    PROVE  /\ Append(f, Head(t)) \in Seq(M) /\ Tail(t) \in Seq(M)
           /\ Append(f, Head(t)) \o Tail(t) = f \o t
<1>1. /\ Tail(t) \in Seq(M) /\ Head(t) \in M /\ Len(Tail(t)) = Len(t) - 1
      /\ Len(f) \in Nat /\ Len(t) \in Nat /\ Len(t) > 0
  BY HeadTailProperties, LenProperties, EmptySeq
<1>2. Append(f, Head(t)) \in Seq(M) /\ Len(Append(f, Head(t))) = Len(f) + 1
  BY <1>1, AppendProperties
<1>3. /\ Append(f, Head(t)) \o Tail(t) \in Seq(M) /\ f \o t \in Seq(M)
      /\ Len(Append(f, Head(t)) \o Tail(t)) = Len(f) + Len(t)
      /\ Len(f \o t) = Len(f) + Len(t)
  BY <1>1, <1>2, ConcatProperties
<1>4. ASSUME NEW i \in 1..(Len(f) + Len(t))
      PROVE  (Append(f, Head(t)) \o Tail(t))[i] = (f \o t)[i]
  <2>1. (f \o t)[i] = IF i <= Len(f) THEN f[i] ELSE t[i - Len(f)]
    BY ConcatProperties
  <2>2. (Append(f, Head(t)) \o Tail(t))[i] =
            IF i <= Len(f) + 1 THEN Append(f, Head(t))[i] ELSE Tail(t)[i - (Len(f) + 1)]
    BY <1>1, <1>2, ConcatProperties
  <2>3. CASE i <= Len(f)
    <3>1. Append(f, Head(t))[i] = f[i]
      BY <1>1, <2>3, AppendProperties
    <3> QED BY <1>1, <2>1, <2>2, <2>3, <3>1
  <2>4. CASE i = Len(f) + 1
    <3>1. Append(f, Head(t))[i] = Head(t) /\ Head(t) = t[1] /\ i - Len(f) = 1
      BY <1>1, <2>4, AppendProperties
    <3> QED BY <1>1, <2>1, <2>2, <2>4, <3>1
  <2>5. CASE i > Len(f) + 1
    <3>1. Tail(t)[i - (Len(f) + 1)] = t[i - (Len(f) + 1) + 1]
      BY <1>1, <2>5, HeadTailProperties
    <3>2. i - (Len(f) + 1) + 1 = i - Len(f)
      BY <1>1
    <3> QED BY <1>1, <2>1, <2>2, <2>5, <3>1, <3>2
  <2> QED BY <1>1, <2>3, <2>4, <2>5
<1> QED BY <1>1, <1>2, <1>3, <1>4, SeqEqual

(* The requests a policy process has not answered yet and the replies that *)
(* were not received yet, in the order they will be received.              *)
Pipe(p) == fromPolicy[p] \o toPolicy[p]

InSession(c) == work[c] \in {"session", "reset", "check", "select"}
Awaits(c) == work[c] \in {"reset", "select"}
Own(c) == [of |-> c, kind |-> work[c]]

(* A pipe is empty, but for the late reply of an unanswered request.       *)
Clear(pipe, late) == pipe = <<>> \/ (unanswered = 1 /\ \E m \in late : pipe = <<m>>)
Ready(pipe, late, own) ==
    pipe = <<own>> \/ (unanswered = 1 /\ \E m \in late : pipe = <<m, own>>)

(* A late reply that c may take for the answer of its inference: it is     *)
(* refused, or it is c's. Before, it is one that a reset precedes.         *)
Harmless(c) == {m \in Ps!Message : m.kind = "reset" \/ m.of = c}
Known == {m \in Ps!Message : m.kind = "reset" \/ policySession \in {m.of, NoCaller}}

PolicyTypes ==
    /\ work \in [PolicyRuns -> Ps!InThread \cup Ps!Results \cup {"none"}]
    /\ loads \in 0..MaxLoads /\ runtime \in 0..loads
    /\ model \in [PolicyRuns -> 0..loads]
    /\ toPolicy \in [Ps!Processes -> Seq(Ps!Message)]
    /\ fromPolicy \in [Ps!Processes -> Seq(Ps!Message)]
    /\ actions \in [PolicyRuns -> SUBSET PolicyRuns]
    /\ overlapped \in BOOLEAN /\ unanswered \in 0..2
    /\ policyServer = "loading" => \A c \in PolicyRuns : work[c] = "none"
    /\ \A c \in PolicyRuns : InSession(c) => model[c] # 0
    /\ \A p \in Ps!Processes : p > loads => fromPolicy[p] = <<>> /\ toPolicy[p] = <<>>

(* Where a thread in session c is, says what its pipe holds.               *)
SessionPipe(c) ==
    /\ work[c] = "session" => Clear(Pipe(model[c]), Known)
    /\ work[c] = "reset" => Ready(Pipe(model[c]), Ps!Message, Own(c))
    /\ work[c] = "check" => Clear(Pipe(model[c]), Harmless(c))
    /\ work[c] = "select" => Ready(Pipe(model[c]), Harmless(c), Own(c))
    /\ runtime # 0 => /\ model[c] = runtime
                      /\ work[c] \in {"check", "select"} => policySession = c

(* One thread at a time, and one unanswered request at most.               *)
Undisturbed ==
    /\ \A c, d \in Ps!Working : c = d
    /\ \A c \in PolicyRuns : InSession(c) => SessionPipe(c)
    /\ runtime # 0 /\ (\A c \in PolicyRuns : ~InSession(c)) => Clear(Pipe(runtime), Known)
    /\ \A c \in PolicyRuns : actions[c] \subseteq {c}

PolicyInv == PolicyTypes /\ (~overlapped /\ unanswered < 2 => Undisturbed)

LEMMA TinyPipes ==
    ASSUME NEW a, NEW b
    PROVE  /\ Append(<<>>, a) = <<a>> /\ Append(<<a>>, b) = <<a, b>>
           /\ Head(<<a>>) = a /\ Tail(<<a>>) = <<>>
           /\ Head(<<a, b>>) = a /\ Tail(<<a, b>>) = <<b>>
<1> DEFINE S == {a, b}
<1>1. <<>> \in Seq(S) /\ <<a>> \in Seq(S) /\ <<b>> \in Seq(S) /\ <<a, b>> \in Seq(S)
  OBVIOUS
<1>2. Append(<<>>, a) = <<a>>
  OBVIOUS
<1>3. Append(<<a>>, b) = <<a, b>>
  <2>1. /\ Append(<<a>>, b) \in Seq(S) /\ Len(Append(<<a>>, b)) = 2
        /\ Append(<<a>>, b)[1] = a /\ Append(<<a>>, b)[2] = b
    BY <1>1, AppendProperties
  <2>2. Len(<<a, b>>) = 2 /\ <<a, b>>[1] = a /\ <<a, b>>[2] = b
    OBVIOUS
  <2>3. \A i \in 1..2 : Append(<<a>>, b)[i] = <<a, b>>[i]
    BY <2>1, <2>2
  <2> QED BY <1>1, <2>1, <2>2, <2>3, SeqEqual
<1>4. Head(<<a>>) = a /\ Head(<<a, b>>) = a
  OBVIOUS
<1>5. Tail(<<a>>) = <<>>
  <2>1. Tail(<<a>>) \in Seq(S) /\ Len(Tail(<<a>>)) = 0
    BY <1>1, HeadTailProperties
  <2> QED BY <2>1, EmptySeq
<1>6. Tail(<<a, b>>) = <<b>>
  <2>1. /\ Tail(<<a, b>>) \in Seq(S) /\ Len(Tail(<<a, b>>)) = 1
        /\ Tail(<<a, b>>)[1] = b
    BY <1>1, HeadTailProperties
  <2> QED BY <1>1, <2>1, SeqEqual
<1> QED BY <1>2, <1>3, <1>4, <1>5, <1>6

LEMMA RuntimesAreProcesses ==
    ASSUME PolicyTypes
    PROVE  /\ \A c \in PolicyRuns : InSession(c) => model[c] \in Ps!Processes /\ model[c] <= loads
           /\ runtime # 0 => runtime \in Ps!Processes /\ runtime <= loads
BY ModelAssumption DEF PolicyTypes, Ps!Processes

(* Whoever works is alone.                                                 *)
LEMMA WorksAlone ==
    ASSUME Undisturbed, NEW c \in PolicyRuns, work[c] # "none", NEW d \in PolicyRuns, d # c
    PROVE  work[d] = "none"
BY DEF Undisturbed, Ps!Working

(* A step of the only thread there is.                                     *)
LEMMA OneThreadKeeps ==
    ASSUME PolicyTypes, PolicyTypes', NEW c \in PolicyRuns, NEW w,
           \A d \in PolicyRuns : d # c => work[d] = "none",
           work' = [work EXCEPT ![c] = w],
           \A d \in PolicyRuns : actions'[d] \subseteq {d},
           InSession(c)' => SessionPipe(c)',
           runtime' # 0 /\ ~InSession(c)' => Clear(Pipe(runtime), Known)'
    PROVE  Undisturbed'
<1>1. \A d \in PolicyRuns : d # c => work'[d] = "none" /\ ~InSession(d)'
  BY DEF PolicyTypes, InSession
<1>2. \A d, e \in Ps!Working' : d = e
  BY <1>1 DEF Ps!Working
<1>3. \A d \in PolicyRuns : InSession(d)' => SessionPipe(d)'
  BY <1>1
<1> QED BY <1>2, <1>3 DEF Undisturbed

(* Nothing happens to the threads and nothing to what the pipes hold.      *)
LEMMA SamePipesKeep ==
    ASSUME PolicyInv, PolicyTypes',
           \A p \in Ps!Processes : fromPolicy'[p] \o toPolicy'[p] = fromPolicy[p] \o toPolicy[p],
           UNCHANGED <<work, model, runtime, policySession, actions, overlapped, unanswered>>
    PROVE  PolicyInv'
<1> SUFFICES ASSUME Undisturbed PROVE Undisturbed'
  BY DEF PolicyInv
<1>1. ASSUME NEW c \in PolicyRuns, InSession(c)' PROVE SessionPipe(c)'
  <2>1. InSession(c) /\ SessionPipe(c) /\ model[c] \in Ps!Processes
    BY <1>1, RuntimesAreProcesses DEF InSession, Undisturbed, PolicyInv
  <2>2. fromPolicy'[model'[c]] \o toPolicy'[model'[c]] = fromPolicy[model[c]] \o toPolicy[model[c]]
    BY <2>1
  <2> QED BY <2>1, <2>2 DEF SessionPipe, Clear, Ready, Pipe, Own, Harmless, Known
<1>2. ASSUME runtime' # 0, \A c \in PolicyRuns : ~InSession(c)'
      PROVE  Clear(Pipe(runtime), Known)'
  <2>1. Clear(Pipe(runtime), Known) /\ runtime \in Ps!Processes
    BY <1>2, RuntimesAreProcesses DEF InSession, Undisturbed, PolicyInv
  <2>2. fromPolicy'[runtime'] \o toPolicy'[runtime'] = fromPolicy[runtime] \o toPolicy[runtime]
    BY <2>1
  <2> QED BY <2>1, <2>2 DEF Clear, Pipe, Known
<1>3. \A c, d \in Ps!Working' : c = d
  BY DEF Undisturbed, Ps!Working
<1>4. \A c \in PolicyRuns : actions'[c] \subseteq {c}
  BY DEF Undisturbed
<1> QED BY <1>1, <1>2, <1>3, <1>4 DEF Undisturbed

LEMMA ReplyKeeps ==
    ASSUME PolicyInv, NEW p \in Ps!Processes, Ps!Reply(p) \/ Ps!Hang(p) \/ Ps!PolicyRaises(p)
    PROVE  PolicyInv'
<1>1. CASE Ps!Reply(p)
  <2>1. /\ toPolicy[p] # <<>>
        /\ fromPolicy' = [fromPolicy EXCEPT ![p] = Append(@, Head(toPolicy[p]))]
        /\ toPolicy' = [toPolicy EXCEPT ![p] = Tail(@)]
        /\ UNCHANGED <<policyServer, work, model, runtime, loads, policySession, actions,
                          overlapped,
                    unanswered>>
    BY <1>1 DEF Ps!Reply, Ps!callVars
  <2>2. fromPolicy[p] \in Seq(Ps!Message) /\ toPolicy[p] \in Seq(Ps!Message)
    BY DEF PolicyInv, PolicyTypes
  <2>3. /\ Append(fromPolicy[p], Head(toPolicy[p])) \in Seq(Ps!Message)
        /\ Tail(toPolicy[p]) \in Seq(Ps!Message)
        /\ Append(fromPolicy[p], Head(toPolicy[p])) \o Tail(toPolicy[p])
              = fromPolicy[p] \o toPolicy[p]
    BY <2>1, <2>2, PipeReply
  <2>4. /\ fromPolicy'[p] = Append(fromPolicy[p], Head(toPolicy[p]))
        /\ toPolicy'[p] = Tail(toPolicy[p])
        /\ \A q \in Ps!Processes :
                q # p => fromPolicy'[q] = fromPolicy[q] /\ toPolicy'[q] = toPolicy[q]
    BY <2>1 DEF PolicyInv, PolicyTypes
  <2>5. \A q \in Ps!Processes : fromPolicy'[q] \o toPolicy'[q] = fromPolicy[q] \o toPolicy[q]
    BY <2>3, <2>4
  <2>6. /\ fromPolicy' \in [Ps!Processes -> Seq(Ps!Message)]
        /\ toPolicy' \in [Ps!Processes -> Seq(Ps!Message)]
    BY <2>1, <2>3 DEF PolicyInv, PolicyTypes
  <2>7. p <= loads
    BY <2>1, ModelAssumption DEF PolicyInv, PolicyTypes, Ps!Processes
  <2>8. \A q \in Ps!Processes : q > loads' => fromPolicy'[q] = <<>> /\ toPolicy'[q] = <<>>
    BY <2>1, <2>4, <2>7, ModelAssumption DEF PolicyInv, PolicyTypes, Ps!Processes
  <2>9. PolicyTypes'
    BY <2>1, <2>6, <2>8 DEF PolicyInv, PolicyTypes, InSession
  <2> QED BY <2>1, <2>5, <2>9, SamePipesKeep
<1>2. CASE Ps!Hang(p) \/ Ps!PolicyRaises(p)
  <2>1. UNCHANGED <<policyServer, work, model, runtime, loads, policySession, actions, overlapped,
                    unanswered, fromPolicy, toPolicy>>
    BY <1>2 DEF Ps!Hang, Ps!PolicyRaises, Ps!callVars
  <2> QED BY <2>1, SamePipesKeep DEF PolicyInv, PolicyTypes, InSession
<1> QED BY <1>1, <1>2

(* The process is terminated and whose session it was is forgotten.        *)
LEMMA ReleaseKeeps == ASSUME PolicyInv, Ps!Release \/ Ps!Stop PROVE PolicyInv'
<1>1. /\ runtime' = 0 /\ policySession' = NoCaller
      /\ UNCHANGED <<work, model, loads, fromPolicy, toPolicy, actions, overlapped, unanswered>>
      /\ policyServer' = "loading" => policyServer = "loading"
  BY DEF Ps!Release, Ps!Stop, Ps!callVars
<1>2. PolicyTypes'
  BY <1>1, ModelAssumption DEF PolicyInv, PolicyTypes, InSession
<1> SUFFICES ASSUME Undisturbed PROVE Undisturbed'
  BY <1>1, <1>2 DEF PolicyInv
<1>3. ASSUME NEW c \in PolicyRuns, InSession(c)' PROVE SessionPipe(c)'
  <2>1. InSession(c) /\ SessionPipe(c)
    BY <1>1, <1>3 DEF InSession, Undisturbed
  <2> QED BY <1>1, <2>1 DEF SessionPipe, Clear, Ready, Pipe, Own, Harmless, Known
<1>4. \A c, d \in Ps!Working' : c = d
  BY <1>1 DEF Undisturbed, Ps!Working
<1> QED BY <1>1, <1>3, <1>4 DEF Undisturbed

(* A new process has a new pipe.                                           *)
LEMMA SpawnKeeps ==
    ASSUME PolicyTypes, Ps!Spawn, UNCHANGED <<fromPolicy, toPolicy>>
    PROVE  /\ loads' = loads + 1 /\ runtime' = loads' /\ loads' \in 0..MaxLoads
           /\ loads' # 0 /\ loads' \in Ps!Processes
           /\ fromPolicy'[loads'] \o toPolicy'[loads'] = <<>>
           /\ \A p \in Ps!Processes : p > loads' => fromPolicy'[p] = <<>> /\ toPolicy'[p] = <<>>
<1>1. /\ loads' = loads + 1 /\ runtime' = loads' /\ loads' \in 0..MaxLoads
      /\ loads' # 0 /\ loads' \in Ps!Processes /\ loads' > loads
  BY ModelAssumption DEF PolicyTypes, Ps!Spawn, Ps!Processes
<1>2. fromPolicy'[loads'] = <<>> /\ toPolicy'[loads'] = <<>>
  BY <1>1 DEF PolicyTypes
<1>3. <<>> \o <<>> = <<>>
  BY ConcatEmptySeq, EmptySeq
<1>4. \A p \in Ps!Processes : p > loads' => fromPolicy'[p] = <<>> /\ toPolicy'[p] = <<>>
  BY <1>1, ModelAssumption DEF PolicyTypes, Ps!Processes
<1> QED BY <1>1, <1>2, <1>3, <1>4

LEMMA ServeKeeps == ASSUME PolicyInv, Ps!Serve PROVE PolicyInv'
<1>1. /\ Ps!Spawn /\ policyServer = "loading" /\ policyServer' = "serving"
      /\ UNCHANGED <<work, model, fromPolicy, toPolicy, policySession, actions, overlapped,
                     unanswered>>
  BY DEF Ps!Serve
<1>2. /\ loads' = loads + 1 /\ runtime' = loads' /\ loads' \in 0..MaxLoads /\ loads' # 0
      /\ fromPolicy'[runtime'] \o toPolicy'[runtime'] = <<>>
      /\ \A p \in Ps!Processes : p > loads' => fromPolicy'[p] = <<>> /\ toPolicy'[p] = <<>>
  BY <1>1, SpawnKeeps DEF PolicyInv
<1>3. model' \in [PolicyRuns -> 0..loads'] /\ runtime' \in 0..loads'
  BY <1>1, <1>2 DEF PolicyInv, PolicyTypes
<1>4. PolicyTypes'
  BY <1>1, <1>2, <1>3 DEF PolicyInv, PolicyTypes, InSession
<1>5. \A c \in PolicyRuns : work'[c] = "none"
  BY <1>1 DEF PolicyInv, PolicyTypes
<1>6. Undisturbed => Undisturbed'
  BY <1>1, <1>2, <1>5 DEF Undisturbed, Ps!Working, InSession, Clear, Pipe
<1> QED BY <1>1, <1>4, <1>6 DEF PolicyInv

(* The servicer: a handler begins, answers or is given up.                 *)
LEMMA HandlerKeeps ==
    ASSUME PolicyInv, NEW c \in PolicyRuns, Ps!Execute(c) \/ Ps!Answer(c) \/ Ps!GiveUp(c)
    PROVE  PolicyInv'
<1>1. /\ UNCHANGED <<policyServer, model, runtime, loads, fromPolicy, toPolicy, policySession,
                     actions, unanswered>>
      /\ overlapped => overlapped'
  <2>1. CASE Ps!Execute(c)
    <3>1. overlapped' = overlapped \/ overlapped' = (overlapped \/ Ps!Working # {})
      BY <2>1 DEF Ps!Execute
    <3>2. overlapped => overlapped'
      BY <3>1, Zenon
    <3> QED BY <2>1, <3>2 DEF Ps!Execute, Ps!pipeVars
  <2>2. CASE Ps!Answer(c) \/ Ps!GiveUp(c)
    BY <2>2 DEF Ps!Answer, Ps!GiveUp, Ps!pipeVars
  <2> QED BY <2>1, <2>2
<1>2. CASE UNCHANGED <<work, overlapped>>
  <2>1. PolicyTypes'
    BY <1>1, <1>2 DEF PolicyInv, PolicyTypes, InSession
  <2> QED BY <1>1, <1>2, <2>1, SamePipesKeep
<1>3. ASSUME NEW w \in {"none", "runtime"}, work' = [work EXCEPT ![c] = w],
             policyServer # "loading" \/ w = "none", overlapped' \in BOOLEAN,
             ~InSession(c),
             overlapped' \/ w = "none" \/ \A d \in PolicyRuns : work[d] = "none",
             w = "none" => work[c] # "none"
      PROVE  PolicyInv'
  <2>1. PolicyTypes'
    BY <1>1, <1>3 DEF PolicyInv, PolicyTypes, InSession, Ps!InThread
  <2>2. ASSUME ~overlapped', Undisturbed PROVE Undisturbed'
    <3>1. \A d \in PolicyRuns : d # c => work[d] = "none"
      BY <1>3, <2>2, WorksAlone
    <3>2. \A d \in PolicyRuns : ~InSession(d)
      BY <1>3, <3>1 DEF InSession
    <3>3. ~InSession(c)'
      BY <1>3 DEF PolicyInv, PolicyTypes, InSession
    <3>4. runtime # 0 => Clear(Pipe(runtime), Known)
      BY <2>2, <3>2 DEF Undisturbed
    <3>5. runtime' # 0 => Clear(Pipe(runtime), Known)'
      BY <1>1, <3>4 DEF Clear, Pipe, Known
    <3>6. \A d \in PolicyRuns : actions'[d] \subseteq {d}
      BY <1>1, <2>2 DEF Undisturbed
    <3> QED BY <1>3, <2>1, <3>1, <3>3, <3>5, <3>6, OneThreadKeeps DEF PolicyInv
  <2> QED BY <1>1, <2>1, <2>2 DEF PolicyInv
<1>4. CASE Ps!Execute(c)
  <2>1. \/ UNCHANGED <<work, overlapped>>
        \/ /\ work' = [work EXCEPT ![c] = "runtime"] /\ policyServer # "loading"
           /\ overlapped' = (overlapped \/ Ps!Working # {})
    BY <1>4 DEF Ps!Execute
  <2>2. CASE /\ work' = [work EXCEPT ![c] = "runtime"] /\ policyServer # "loading"
             /\ overlapped' = (overlapped \/ Ps!Working # {})
    <3>1. overlapped' \/ \A d \in PolicyRuns : work[d] = "none"
      BY <2>2 DEF Ps!Working
    <3>2. overlapped' \in BOOLEAN
      BY <2>2
    <3>3. CASE overlapped'
      <4>1. PolicyTypes'
        BY <1>1, <2>2, <3>2 DEF PolicyInv, PolicyTypes, InSession, Ps!InThread
      <4> QED BY <3>3, <4>1 DEF PolicyInv
    <3>4. CASE \A d \in PolicyRuns : work[d] = "none"
      <4>1. ~InSession(c)
        BY <3>4 DEF InSession
      <4> QED BY <1>3, <2>2, <3>2, <3>4, <4>1
    <3> QED BY <3>1, <3>3, <3>4
  <2> QED BY <1>2, <2>1, <2>2
<1>5. CASE Ps!Answer(c) \/ Ps!GiveUp(c)
  <2>1. /\ overlapped' = overlapped
        /\ \/ work' = [work EXCEPT ![c] = "none"] /\ work[c] \in Ps!Results
           \/ work' = [work EXCEPT ![c] = work[c]]
    BY <1>5 DEF Ps!Answer, Ps!GiveUp
  <2>2. CASE work' = [work EXCEPT ![c] = "none"] /\ work[c] \in Ps!Results
    <3>1. ~InSession(c) /\ work[c] # "none" /\ overlapped' \in BOOLEAN
      BY <2>1, <2>2 DEF InSession, Ps!Results, PolicyInv, PolicyTypes
    <3> QED BY <1>3, <2>2, <3>1
  <2>3. CASE work' = [work EXCEPT ![c] = work[c]]
    <3>1. work' = work
      BY <2>3 DEF PolicyInv, PolicyTypes
    <3> QED BY <1>2, <2>1, <3>1
  <2> QED BY <2>1, <2>2, <2>3
<1> QED BY <1>4, <1>5

(* What a thread leaves behind when it awaits no reply.                    *)
LEMMA LeavesClear ==
    ASSUME PolicyTypes, Undisturbed, NEW c \in PolicyRuns, runtime # 0,
           work[c] \in {"runtime", "load", "session", "check"}
    PROVE  Clear(Pipe(runtime), Known)
<1>1. \A d \in PolicyRuns : d # c => ~InSession(d)
  BY WorksAlone DEF InSession
<1>2. CASE work[c] \in {"runtime", "load"}
  BY <1>1, <1>2 DEF InSession, Undisturbed
<1>3. CASE work[c] = "session"
  BY <1>3 DEF InSession, Undisturbed, SessionPipe
<1>4. CASE work[c] = "check"
  <2>1. Clear(Pipe(runtime), Harmless(c)) /\ policySession = c
    BY <1>4 DEF InSession, Undisturbed, SessionPipe
  <2>2. Harmless(c) \subseteq Known
    BY <2>1 DEF Harmless, Known
  <2> QED BY <2>1, <2>2 DEF Clear
<1> QED BY <1>2, <1>3, <1>4

(* A thread ends, or has a result for its handler.                         *)
LEMMA ReturningKeeps ==
    ASSUME PolicyInv, NEW c \in PolicyRuns, work[c] # "none", NEW w \in Ps!Results \cup {"none"},
           work' = [work EXCEPT ![c] = w],
           UNCHANGED <<policyServer, model, runtime, loads, policySession, overlapped>>,
           fromPolicy' \in [Ps!Processes -> Seq(Ps!Message)],
           UNCHANGED toPolicy,
           \A p \in Ps!Processes : p > loads => fromPolicy'[p] = <<>>,
           actions' \in [PolicyRuns -> SUBSET PolicyRuns],
           unanswered' \in 0..2, unanswered' < 2 => unanswered < 2,
           Undisturbed /\ unanswered' < 2 =>
               /\ \A d \in PolicyRuns : actions'[d] \subseteq {d}
               /\ runtime # 0 => Clear(Pipe(runtime), Known)'
    PROVE  PolicyInv'
<1>1. PolicyTypes'
  BY DEF PolicyInv, PolicyTypes, InSession, Ps!Results
<1>2. ASSUME ~overlapped', unanswered' < 2 PROVE Undisturbed'
  <2>1. Undisturbed
    BY <1>2 DEF PolicyInv
  <2>2. \A d \in PolicyRuns : d # c => work[d] = "none"
    BY <2>1, WorksAlone
  <2>3. ~InSession(c)'
    BY DEF PolicyInv, PolicyTypes, InSession, Ps!Results
  <2> QED BY <1>1, <1>2, <2>1, <2>2, <2>3, OneThreadKeeps DEF PolicyInv
<1> QED BY <1>1, <1>2 DEF PolicyInv

LEMMA GivingUpKeeps ==
    ASSUME PolicyInv, NEW c \in PolicyRuns,
           \/ Ps!RejectRequest(c) \/ Ps!LoadFails(c) \/ Ps!ProcessGone(c)
           \/ Ps!Check(c) /\ cancelEvent
    PROVE  PolicyInv'
<1>1. work[c] \in {"runtime", "load", "session", "check"}
  BY DEF Ps!RejectRequest, Ps!LoadFails, Ps!ProcessGone, Ps!Check
<1>2. /\ UNCHANGED <<policyServer, model, runtime, loads, policySession, overlapped, fromPolicy,
                     toPolicy, actions, unanswered>>
      /\ \E w \in Ps!Results \cup {"none"} : work' = [work EXCEPT ![c] = w]
  BY DEF Ps!RejectRequest, Ps!LoadFails, Ps!ProcessGone, Ps!Check, Ps!Return, Ps!OnlyWork,
     Ps!callVars, Ps!pipeVars, Ps!Results
<1>3. ASSUME Undisturbed
      PROVE  /\ \A d \in PolicyRuns : actions'[d] \subseteq {d}
             /\ runtime # 0 => Clear(Pipe(runtime), Known)'
  <2>1. runtime # 0 => Clear(Pipe(runtime), Known)
    BY <1>1, <1>3, LeavesClear DEF PolicyInv
  <2> QED BY <1>2, <1>3, <2>1 DEF Undisturbed, Clear, Pipe, Known
<1>4. /\ fromPolicy' \in [Ps!Processes -> Seq(Ps!Message)]
      /\ \A p \in Ps!Processes : p > loads => fromPolicy'[p] = <<>>
      /\ actions' \in [PolicyRuns -> SUBSET PolicyRuns] /\ unanswered' \in 0..2
  BY <1>2 DEF PolicyInv, PolicyTypes
<1> QED BY <1>1, <1>2, <1>3, <1>4, ReturningKeeps

(* The first unanswered request: its late reply is harmless to a next run. *)
LEMMA NoReplyKeeps ==
    ASSUME PolicyInv, NEW c \in PolicyRuns, Ps!NoReply(c) PROVE PolicyInv'
<1>1. /\ work[c] \in {"reset", "select"}
      /\ UNCHANGED <<policyServer, model, runtime, loads, policySession, overlapped, fromPolicy,
                     toPolicy, actions>>
      /\ unanswered' = IF unanswered = 2 THEN 2 ELSE unanswered + 1
      /\ \E w \in Ps!Results \cup {"none"} : work' = [work EXCEPT ![c] = w]
  BY DEF Ps!NoReply, Ps!Return, Ps!callVars, Ps!pipeVars, Ps!Results
<1>2. unanswered' \in 0..2 /\ (unanswered' < 2 => unanswered = 0 /\ unanswered' = 1)
  BY <1>1 DEF PolicyInv, PolicyTypes
<1>3. ASSUME Undisturbed, unanswered' < 2
      PROVE  /\ \A d \in PolicyRuns : actions'[d] \subseteq {d}
             /\ runtime # 0 => Clear(Pipe(runtime), Known)'
  <2>1. SessionPipe(c)
    BY <1>1, <1>3 DEF Undisturbed, InSession
  <2>2. Pipe(model[c]) = <<Own(c)>> /\ (runtime # 0 => model[c] = runtime)
    BY <1>1, <1>2, <1>3, <2>1 DEF SessionPipe, Ready
  <2>3. runtime # 0 => Own(c) \in Known
    BY <1>1, <2>1 DEF SessionPipe, Own, Known, Ps!Message
  <2>4. Known' = Known /\ Pipe(runtime)' = Pipe(runtime)
    BY <1>1 DEF Known, Pipe
  <2>5. runtime # 0 => Clear(Pipe(runtime), Known)'
    <3> DEFINE m == Own(c)
    <3> HIDE DEF m
    <3>1. runtime # 0 => m \in Known /\ Pipe(runtime) = <<m>>
      BY <2>2, <2>3 DEF m
    <3> QED BY <1>2, <1>3, <2>4, <3>1 DEF Clear
  <2> QED BY <1>1, <1>3, <2>5 DEF Undisturbed
<1>4. /\ fromPolicy' \in [Ps!Processes -> Seq(Ps!Message)]
      /\ \A p \in Ps!Processes : p > loads => fromPolicy'[p] = <<>>
      /\ actions' \in [PolicyRuns -> SUBSET PolicyRuns]
  BY <1>1 DEF PolicyInv, PolicyTypes
<1>5. work[c] # "none" /\ (unanswered' < 2 => unanswered < 2)
  BY <1>1, <1>2
<1> QED BY <1>1, <1>2, <1>3, <1>4, <1>5, ReturningKeeps

LEMMA ReceivingMovesOn ==
    ASSUME PolicyTypes, NEW p \in Ps!Processes, fromPolicy[p] # <<>>,
           fromPolicy' = [fromPolicy EXCEPT ![p] = Tail(@)], UNCHANGED toPolicy
    PROVE  /\ fromPolicy' \in [Ps!Processes -> Seq(Ps!Message)]
           /\ \A q \in Ps!Processes : q > loads => fromPolicy'[q] = <<>>
           /\ Head(fromPolicy[p]) \in Ps!Message /\ Head(fromPolicy[p]) = Head(Pipe(p))
           /\ fromPolicy'[p] \o toPolicy'[p] = Tail(Pipe(p))
<1>1. fromPolicy[p] \in Seq(Ps!Message) /\ toPolicy[p] \in Seq(Ps!Message)
  BY DEF PolicyTypes
<1>2. /\ Tail(fromPolicy[p]) \in Seq(Ps!Message) /\ Head(fromPolicy[p]) \in Ps!Message
      /\ Head(fromPolicy[p]) = Head(Pipe(p))
      /\ Tail(fromPolicy[p]) \o toPolicy[p] = Tail(Pipe(p))
  BY <1>1, PipeReceive DEF Pipe
<1>3. /\ fromPolicy'[p] = Tail(fromPolicy[p])
      /\ \A q \in Ps!Processes : q # p => fromPolicy'[q] = fromPolicy[q]
  BY DEF PolicyTypes
<1>4. fromPolicy' \in [Ps!Processes -> Seq(Ps!Message)]
  BY <1>2 DEF PolicyTypes
<1>5. \A q \in Ps!Processes : q > loads => fromPolicy'[q] = <<>>
  BY <1>3 DEF PolicyTypes
<1> QED BY <1>2, <1>3, <1>4, <1>5

LEMMA SendingAppends ==
    ASSUME PolicyTypes, NEW p \in Ps!Processes, p <= loads, NEW m \in Ps!Message,
           toPolicy' = [toPolicy EXCEPT ![p] = Append(@, m)], UNCHANGED fromPolicy
    PROVE  /\ toPolicy' \in [Ps!Processes -> Seq(Ps!Message)]
           /\ \A q \in Ps!Processes : q > loads => toPolicy'[q] = <<>>
           /\ fromPolicy'[p] \o toPolicy'[p] = Append(Pipe(p), m)
<1>1. fromPolicy[p] \in Seq(Ps!Message) /\ toPolicy[p] \in Seq(Ps!Message)
  BY DEF PolicyTypes
<1>2. /\ Append(toPolicy[p], m) \in Seq(Ps!Message)
      /\ fromPolicy[p] \o Append(toPolicy[p], m) = Append(Pipe(p), m)
  <2> DEFINE f == fromPolicy[p]
             t == toPolicy[p]
             M == Ps!Message
  <2>1. f \in Seq(Ps!Message) /\ t \in Seq(Ps!Message) /\ Pipe(p) = f \o t
    BY <1>1 DEF Pipe
  <2>a. m \in M /\ f \in Seq(M) /\ t \in Seq(M)
    BY <2>1
  <2> HIDE DEF f, t, M
  <2>b. Append(t, m) \in Seq(M) /\ f \o Append(t, m) = Append(f \o t, m)
    BY ONLY <2>a, PipeSend, SMT
  <2>2. Append(t, m) \in Seq(Ps!Message) /\ f \o Append(t, m) = Append(f \o t, m)
    BY <2>b DEF M
  <2> QED BY <2>1, <2>2 DEF f, t
<1>3. /\ toPolicy'[p] = Append(toPolicy[p], m)
      /\ \A q \in Ps!Processes : q # p => toPolicy'[q] = toPolicy[q]
  BY DEF PolicyTypes
<1>4. toPolicy' \in [Ps!Processes -> Seq(Ps!Message)]
  BY <1>2 DEF PolicyTypes
<1>5. \A q \in Ps!Processes : q > loads => toPolicy'[q] = <<>>
  BY <1>3, ModelAssumption DEF PolicyTypes, Ps!Processes
<1> QED BY <1>2, <1>3, <1>4, <1>5

(* An inference takes its own reply or one that does no harm.              *)
LEMMA SelectedKeeps ==
    ASSUME PolicyInv, NEW c \in PolicyRuns, Ps!Selected(c) PROVE PolicyInv'
<1> DEFINE reply == Head(fromPolicy[model[c]])
           answer == IF reply.kind # "select" THEN "failed"
                     ELSE IF cancelEvent THEN "cancelled" ELSE "action"
<1>1. /\ work[c] = "select" /\ fromPolicy[model[c]] # <<>>
      /\ UNCHANGED <<policyServer, model, runtime, loads, policySession, overlapped, toPolicy,
                     unanswered>>
      /\ fromPolicy' = [fromPolicy EXCEPT ![model[c]] = Tail(@)]
      /\ \E w \in Ps!Results \cup {"none"} : work' = [work EXCEPT ![c] = w]
      /\ \/ actions' = actions
         \/ reply.kind = "select" /\ actions' = [actions EXCEPT ![c] = @ \cup {reply.of}]
  BY DEF Ps!Selected, Ps!Receive, Ps!Return, Ps!Results
<1>2. InSession(c) /\ model[c] \in Ps!Processes /\ work[c] # "none"
  BY <1>1, RuntimesAreProcesses DEF InSession, PolicyInv
<1>3. /\ fromPolicy' \in [Ps!Processes -> Seq(Ps!Message)]
      /\ \A q \in Ps!Processes : q > loads => fromPolicy'[q] = <<>>
      /\ reply \in Ps!Message /\ reply = Head(Pipe(model[c]))
      /\ fromPolicy'[model[c]] \o toPolicy'[model[c]] = Tail(Pipe(model[c]))
  BY <1>1, <1>2, ReceivingMovesOn DEF PolicyInv
<1> HIDE DEF reply
<1>4. actions' \in [PolicyRuns -> SUBSET PolicyRuns]
  <2>1. reply.of \in PolicyRuns /\ actions \in [PolicyRuns -> SUBSET PolicyRuns]
    BY <1>3 DEF PolicyInv, PolicyTypes, Ps!Message
  <2> QED BY <1>1, <2>1
<1>5. ASSUME Undisturbed, unanswered' < 2
      PROVE  /\ \A d \in PolicyRuns : actions'[d] \subseteq {d}
             /\ runtime # 0 => Clear(Pipe(runtime), Known)'
  <2> DEFINE own == Own(c)
  <2>1. /\ SessionPipe(c) /\ own.of = c /\ own \in Ps!Message
    BY <1>1, <1>2, <1>5 DEF Undisturbed, Own, Ps!Message
  <2>2. Ready(Pipe(model[c]), Harmless(c), own)
    BY <1>1, <2>1 DEF SessionPipe
  <2> HIDE DEF own
  <2>3. /\ reply.kind = "select" => reply.of = c
        /\ Tail(Pipe(model[c])) = <<>> \/ (unanswered = 1 /\ Tail(Pipe(model[c])) = <<own>>)
    <3>1. CASE Pipe(model[c]) = <<own>>
      BY <1>3, <2>1, <3>1, TinyPipes
    <3>2. CASE unanswered = 1 /\ \E m \in Harmless(c) : Pipe(model[c]) = <<m, own>>
      BY <1>3, <2>1, <3>2, TinyPipes DEF Harmless
    <3> QED BY <2>2, <3>1, <3>2 DEF Ready
  <2>4. \A d \in PolicyRuns : actions'[d] \subseteq {d}
    <3>1. actions \in [PolicyRuns -> SUBSET PolicyRuns] /\ \A d \in PolicyRuns : actions[d] \subseteq {d}
      BY <1>5 DEF Undisturbed, PolicyInv, PolicyTypes
    <3>2. actions' = actions \/ actions' = [actions EXCEPT ![c] = @ \cup {c}]
      BY <1>1, <2>3
    <3> QED BY <3>1, <3>2
  <2>5. ASSUME runtime # 0 PROVE Clear(Pipe(runtime), Known)'
    <3>1. runtime = model[c] /\ policySession = c
      BY <1>1, <2>1, <2>5 DEF SessionPipe
    <3>2. own \in Known /\ Known' = Known
      BY <1>1, <2>1, <3>1 DEF Known
    <3>3. fromPolicy'[runtime'] \o toPolicy'[runtime'] = Tail(Pipe(model[c]))
      BY <1>1, <1>3, <3>1
    <3> QED BY <1>1, <2>3, <3>2, <3>3 DEF Clear, Pipe
  <2> QED BY <2>4, <2>5
<1>6. unanswered' \in 0..2 /\ (unanswered' < 2 => unanswered < 2)
  BY <1>1 DEF PolicyInv, PolicyTypes
<1> QED BY <1>1, <1>2, <1>3, <1>4, <1>5, <1>6, ReturningKeeps

(* A thread goes on in its session, or into one.                           *)
LEMMA SessionKeeps ==
    ASSUME PolicyInv, PolicyTypes', NEW c \in PolicyRuns, work[c] # "none",
           NEW w \in {"session", "reset", "check", "select"}, work' = [work EXCEPT ![c] = w],
           UNCHANGED <<actions, overlapped, unanswered>>,
           Undisturbed => SessionPipe(c)'
    PROVE  PolicyInv'
<1>1. ASSUME Undisturbed PROVE Undisturbed'
  <2>1. \A d \in PolicyRuns : d # c => work[d] = "none"
    BY <1>1, WorksAlone
  <2>2. InSession(c)'
    BY DEF PolicyInv, PolicyTypes, InSession
  <2> QED BY <1>1, <2>1, <2>2, OneThreadKeeps DEF PolicyInv, Undisturbed
<1> QED BY <1>1 DEF PolicyInv

LEMMA RuntimeKeeps ==
    ASSUME PolicyInv, NEW c \in PolicyRuns, Ps!GetRuntime(c) \/ Ps!Load(c) PROVE PolicyInv'
<1>1. CASE Ps!GetRuntime(c) /\ runtime # 0
  <2>1. /\ work[c] = "runtime" /\ work' = [work EXCEPT ![c] = "session"]
        /\ model' = [model EXCEPT ![c] = runtime]
        /\ UNCHANGED <<policyServer, runtime, loads, fromPolicy, toPolicy, policySession, actions,
                       overlapped, unanswered>>
    BY <1>1 DEF Ps!GetRuntime, Ps!Step, Ps!callVars, Ps!pipeVars
  <2>2. PolicyTypes'
    BY <1>1, <2>1 DEF PolicyInv, PolicyTypes, InSession, Ps!InThread
  <2>3. model'[c] = runtime /\ work'[c] = "session"
    BY <2>1 DEF PolicyInv, PolicyTypes
  <2>4. ASSUME Undisturbed PROVE SessionPipe(c)'
    <3>1. Clear(Pipe(runtime), Known)
      BY <1>1, <2>1, <2>4, LeavesClear DEF PolicyInv
    <3> QED BY <2>1, <2>3, <3>1 DEF SessionPipe, Clear, Pipe, Known
  <2> QED BY <2>1, <2>2, <2>4, SessionKeeps
<1>2. CASE Ps!GetRuntime(c) /\ runtime = 0
  <2>1. /\ work[c] = "runtime" /\ work' = [work EXCEPT ![c] = "load"]
        /\ UNCHANGED <<policyServer, model, runtime, loads, fromPolicy, toPolicy, policySession,
                       actions, overlapped, unanswered>>
    BY <1>2 DEF Ps!GetRuntime, Ps!Step, Ps!callVars, Ps!pipeVars
  <2>2. PolicyTypes' /\ ~InSession(c)'
    BY <1>2, <2>1 DEF PolicyInv, PolicyTypes, InSession, Ps!InThread
  <2>3. Undisturbed => Undisturbed'
    <3> SUFFICES ASSUME Undisturbed PROVE Undisturbed'
      OBVIOUS
    <3>1. \A d \in PolicyRuns : d # c => work[d] = "none"
      BY <2>1, WorksAlone
    <3> QED BY <1>2, <2>1, <2>2, <3>1, OneThreadKeeps DEF PolicyInv, Undisturbed
  <2> QED BY <2>1, <2>2, <2>3 DEF PolicyInv
<1>3. CASE Ps!Load(c)
  <2>1. /\ work[c] = "load" /\ work' = [work EXCEPT ![c] = "session"] /\ Ps!Spawn
        /\ model' = [model EXCEPT ![c] = loads + 1]
        /\ UNCHANGED <<policyServer, fromPolicy, toPolicy, policySession, actions, overlapped,
                       unanswered>>
    BY <1>3 DEF Ps!Load, Ps!Step, Ps!callVars
  <2>2. /\ loads' = loads + 1 /\ runtime' = loads' /\ loads' \in 0..MaxLoads /\ loads' # 0
        /\ fromPolicy'[loads'] \o toPolicy'[loads'] = <<>>
        /\ \A p \in Ps!Processes : p > loads' => fromPolicy'[p] = <<>> /\ toPolicy'[p] = <<>>
    BY <2>1, SpawnKeeps DEF PolicyInv
  <2>3. /\ loads \in Nat /\ model \in [PolicyRuns -> 0..loads]
    BY DEF PolicyInv, PolicyTypes
  <2>4. /\ model' \in [PolicyRuns -> 0..loads'] /\ model'[c] = loads' /\ loads' \in 0..loads'
        /\ \A d \in PolicyRuns : d # c => model'[d] = model[d]
    BY <2>1, <2>2, <2>3
  <2>5. PolicyTypes'
    BY <2>1, <2>2, <2>4 DEF PolicyInv, PolicyTypes, InSession, Ps!InThread
  <2>6. work'[c] = "session"
    BY <2>1 DEF PolicyInv, PolicyTypes
  <2>7. SessionPipe(c)'
    BY <2>2, <2>4, <2>6 DEF SessionPipe, Clear, Pipe
  <2> QED BY <2>1, <2>5, <2>7, SessionKeeps
<1> QED BY <1>1, <1>2, <1>3 DEF Ps!GetRuntime
(* A thread sends its request behind what is still in the pipe.            *)
LEMMA AskingPolicyKeeps ==
    ASSUME PolicyInv, NEW c \in PolicyRuns, Ps!Reset(c) \/ (Ps!Check(c) /\ ~cancelEvent)
    PROVE  PolicyInv'
<1> DEFINE own == [of |-> c, kind |-> IF work[c] = "session" THEN "reset" ELSE "select"]
<1>1. /\ work[c] \in {"session", "check"}
      /\ work' = [work EXCEPT ![c] = IF work[c] = "session" THEN "reset" ELSE "select"]
      /\ toPolicy' = [toPolicy EXCEPT ![model[c]] = Append(@, own)]
      /\ UNCHANGED <<policyServer, model, runtime, loads, fromPolicy, policySession, actions,
                     overlapped, unanswered>>
  BY DEF Ps!Reset, Ps!Send, Ps!Check, Ps!Step, Ps!callVars
<1>2. /\ InSession(c) /\ work[c] # "none" /\ own \in Ps!Message
      /\ model[c] \in Ps!Processes /\ model[c] <= loads
  BY <1>1, RuntimesAreProcesses DEF InSession, Ps!Message, PolicyInv
<1>3. /\ own = Own(c)' /\ work'[c] = IF work[c] = "session" THEN "reset" ELSE "select"
  BY <1>1 DEF Own, PolicyInv, PolicyTypes
<1> HIDE DEF own
<1>4. /\ toPolicy' \in [Ps!Processes -> Seq(Ps!Message)]
      /\ \A q \in Ps!Processes : q > loads => toPolicy'[q] = <<>>
      /\ fromPolicy'[model[c]] \o toPolicy'[model[c]] = Append(Pipe(model[c]), own)
  BY <1>1, <1>2, SendingAppends DEF PolicyInv
<1>5. PolicyTypes'
  BY <1>1, <1>4 DEF PolicyInv, PolicyTypes, InSession, Ps!InThread
<1>6. ASSUME Undisturbed PROVE SessionPipe(c)'
  <2>1. SessionPipe(c)
    BY <1>2, <1>6 DEF Undisturbed
  <2>2. Pipe(model[c])' = Append(Pipe(model[c]), own)
    BY <1>1, <1>4 DEF Pipe
  <2>3. CASE work[c] = "session"
    <3>1. Clear(Pipe(model[c]), Known)
      BY <2>1, <2>3 DEF SessionPipe
    <3>2. Ready(Append(Pipe(model[c]), own), Ps!Message, own)
      BY <3>1, TinyPipes, ZenonT(60) DEF Clear, Ready, Known
    <3>3. Ready(Pipe(model[c]), Ps!Message, Own(c))'
      BY <1>1, <1>3, <2>2, <3>2 DEF Ready
    <3> QED BY <1>1, <1>3, <2>1, <2>3, <3>3 DEF SessionPipe
  <2>4. CASE work[c] = "check"
    <3>1. Clear(Pipe(model[c]), Harmless(c))
      BY <2>1, <2>4 DEF SessionPipe
    <3>2. Ready(Append(Pipe(model[c]), own), Harmless(c), own)
      BY <3>1, TinyPipes, ZenonT(60) DEF Clear, Ready
    <3>3. Ready(Pipe(model[c]), Harmless(c), Own(c))'
      BY <1>1, <1>3, <2>2, <3>2 DEF Ready, Harmless
    <3> QED BY <1>1, <1>3, <2>1, <2>4, <3>3 DEF SessionPipe
  <2> QED BY <1>1, <2>3, <2>4
<1> QED BY <1>1, <1>2, <1>5, <1>6, SessionKeeps

(* Whatever reply a reset takes, one that is left is a reset's.            *)
LEMMA ResetDoneKeeps ==
    ASSUME PolicyInv, NEW c \in PolicyRuns, Ps!ResetDone(c) PROVE PolicyInv'
<1> DEFINE own == Own(c)
<1>1. /\ work[c] = "reset" /\ work' = [work EXCEPT ![c] = "check"]
      /\ fromPolicy[model[c]] # <<>>
      /\ fromPolicy' = [fromPolicy EXCEPT ![model[c]] = Tail(@)]
      /\ policySession' = c
      /\ UNCHANGED <<policyServer, model, runtime, loads, toPolicy, actions, overlapped,
                     unanswered>>
  BY DEF Ps!ResetDone, Ps!Step, Ps!Receive, Ps!callVars
<1>2. InSession(c) /\ model[c] \in Ps!Processes /\ work'[c] = "check"
  BY <1>1, RuntimesAreProcesses DEF InSession, PolicyInv, PolicyTypes
<1>3. /\ fromPolicy' \in [Ps!Processes -> Seq(Ps!Message)]
      /\ \A q \in Ps!Processes : q > loads => fromPolicy'[q] = <<>>
      /\ fromPolicy'[model[c]] \o toPolicy'[model[c]] = Tail(Pipe(model[c]))
  BY <1>1, <1>2, ReceivingMovesOn DEF PolicyInv
<1>4. PolicyTypes'
  BY <1>1, <1>3 DEF PolicyInv, PolicyTypes, InSession, Ps!InThread
<1>5. ASSUME Undisturbed PROVE SessionPipe(c)'
  <2>1. SessionPipe(c) /\ own \in Harmless(c)
    BY <1>1, <1>2, <1>5 DEF Undisturbed, Own, Harmless, Ps!Message
  <2>2. Ready(Pipe(model[c]), Ps!Message, own)
    BY <1>1, <2>1 DEF SessionPipe
  <2> HIDE DEF own
  <2>3. Tail(Pipe(model[c])) = <<>> \/ (unanswered = 1 /\ Tail(Pipe(model[c])) = <<own>>)
    <3>1. CASE Pipe(model[c]) = <<own>>
      BY <3>1, TinyPipes
    <3>2. CASE unanswered = 1 /\ \E m \in Ps!Message : Pipe(model[c]) = <<m, own>>
      BY <3>2, TinyPipes
    <3> QED BY <2>2, <3>1, <3>2 DEF Ready
  <2>4. Clear(Pipe(model[c]), Harmless(c))'
    BY <1>1, <1>3, <2>1, <2>3 DEF Clear, Pipe, Harmless
  <2> QED BY <1>1, <1>2, <2>1, <2>4 DEF SessionPipe
<1> QED BY <1>1, <1>4, <1>5, SessionKeeps

(* The session is still the thread's own.                                  *)
LEMMA SameSessionKeeps ==
    ASSUME PolicyInv, NEW c \in PolicyRuns, Ps!SameSession(c) PROVE PolicyInv'
<1>1. /\ work[c] = "session" /\ work' = [work EXCEPT ![c] = "check"] /\ policySession = c
      /\ UNCHANGED <<policyServer, model, runtime, loads, fromPolicy, toPolicy, policySession,
                     actions, overlapped, unanswered>>
  BY DEF Ps!SameSession, Ps!NewSession, Ps!Step, Ps!OnlyWork, Ps!callVars, Ps!pipeVars
<1>2. PolicyTypes' /\ work'[c] = "check" /\ InSession(c)
  BY <1>1 DEF PolicyInv, PolicyTypes, InSession, Ps!InThread
<1>3. ASSUME Undisturbed PROVE SessionPipe(c)'
  <2>1. SessionPipe(c) /\ Clear(Pipe(model[c]), Known)
    BY <1>1, <1>2, <1>3 DEF Undisturbed, SessionPipe
  <2>2. Known \subseteq Harmless(c)
    BY <1>1, ModelAssumption DEF Known, Harmless
  <2>3. Clear(Pipe(model[c]), Harmless(c))
    BY <2>1, <2>2 DEF Clear
  <2>4. Clear(Pipe(model[c]), Harmless(c))'
    BY <1>1, <2>3 DEF Clear, Pipe, Harmless
  <2> QED BY <1>1, <1>2, <2>1, <2>4 DEF SessionPipe
<1> QED BY <1>1, <1>2, <1>3, SessionKeeps

LEMMA PolicyKeeps ==
    ASSUME PolicyInv, [Ps!Next]_(Ps!policyVars) PROVE PolicyInv'
<1>1. CASE UNCHANGED Ps!policyVars \/ Ps!CancelSkill
  <2>1. UNCHANGED <<policyServer, work, model, runtime, loads, policySession, actions, overlapped,
                    unanswered, fromPolicy, toPolicy>>
    BY <1>1 DEF Ps!policyVars, Ps!CancelSkill, Ps!pipeVars
  <2> QED BY <2>1, SamePipesKeep DEF PolicyInv, PolicyTypes, InSession
<1>2. ASSUME NEW c \in PolicyRuns, Ps!Thread(c) PROVE PolicyInv'
  BY <1>2, GivingUpKeeps, NoReplyKeeps, SelectedKeeps, RuntimeKeeps, AskingPolicyKeeps,
     ResetDoneKeeps, SameSessionKeeps DEF Ps!Thread
<1> QED
  BY <1>1, <1>2, ServeKeeps, ReleaseKeeps, HandlerKeeps, ReplyKeeps DEF Ps!Next

LEMMA PolicyBegins == ModelServicesInit => PolicyInv
<1> HAVE ModelServicesInit
<1>1. /\ work = [c \in PolicyRuns |-> "none"] /\ model = [c \in PolicyRuns |-> 0]
      /\ runtime = 0 /\ loads = 0
      /\ toPolicy = [p \in Ps!Processes |-> <<>>]
      /\ fromPolicy = [p \in Ps!Processes |-> <<>>]
      /\ actions = [c \in PolicyRuns |-> {}] /\ overlapped = FALSE /\ unanswered = 0
  BY DEF ModelServicesInit, Ps!Init
<1>2. PolicyTypes
  <2>1. \A c \in PolicyRuns : work[c] = "none" /\ model[c] = 0 /\ ~InSession(c)
    BY <1>1 DEF InSession
  <2>2. work \in [PolicyRuns -> Ps!InThread \cup Ps!Results \cup {"none"}]
    BY <1>1
  <2>a. /\ loads \in 0..MaxLoads /\ runtime \in 0..loads
        /\ unanswered \in 0..2 /\ 0 \in 0..loads
    BY <1>1, ModelAssumption
  <2>b. model \in [PolicyRuns -> 0..loads]
    BY <1>1, <2>a
  <2>3. /\ actions \in [PolicyRuns -> SUBSET PolicyRuns]
        /\ overlapped \in BOOLEAN
    BY <1>1
  <2>4. <<>> \in Seq(Ps!Message)
    BY EmptySeq
  <2>5. /\ toPolicy \in [Ps!Processes -> Seq(Ps!Message)]
        /\ fromPolicy \in [Ps!Processes -> Seq(Ps!Message)]
        /\ \A p \in Ps!Processes : fromPolicy[p] = <<>> /\ toPolicy[p] = <<>>
    BY <1>1, <2>4
  <2> QED BY <2>1, <2>2, <2>3, <2>5, <2>a, <2>b DEF PolicyTypes
<1>3. Undisturbed
  BY <1>1 DEF Undisturbed, Ps!Working, InSession
<1> QED BY <1>2, <1>3 DEF PolicyInv

(* No run is handed another run's action, whatever happens to the policy   *)
(* process, as long as the threads do not overlap and one request at most  *)
(* goes unanswered.                                                        *)
THEOREM ActionsAreOwn == ModelServicesSpec => []NoForeignAction
<1>1. ModelServicesInit => PolicyInv
  BY PolicyBegins
<1>2. PolicyInv /\ [ModelServicesNext]_modelVars => PolicyInv'
  BY PolicyKeeps, ModelSteps
<1>3. PolicyInv => NoForeignAction
  BY DEF PolicyInv, Undisturbed, NoForeignAction, Ps!NoForeignAction
<1> QED BY <1>1, <1>2, <1>3, PTL DEF ModelServicesSpec

-----------------------------------------------------------------------------
(* Types. The planner.                                                     *)
Waypoints == [of : PlannerRuns \cup {NoRun}, calls : 0..Replans \cup {1}]

LEMMA WaypointTypes ==
    ASSUME Vp!TypeOK, NEW r \in PlannerRuns
    PROVE  /\ Vp!NoWaypoint \in Waypoints /\ Vp!OldWaypoint(r) \in Waypoints
           /\ Vp!OldHistory(r) \subseteq PlannerRuns
           /\ [of |-> r, calls |-> 1] \in Waypoints
BY ModelAssumption DEF Vp!TypeOK, Vp!NoWaypoint, Vp!OldWaypoint, Vp!OldHistory, Waypoints

LEMMA PlannedTypes ==
    ASSUME Vp!TypeOK, NEW r \in PlannerRuns, NEW sights \in SUBSET PlannerRuns,
           Vp!Planned(r, sights), plannerHistory' = Vp!OldHistory(r) \cup {r},
           waypoint' \in Waypoints,
           \E look \in BOOLEAN : lastLook' = [lastLook EXCEPT ![r] = look]
    PROVE  Vp!TypeOK'
<1>1. /\ planning' \in [PlannerRuns -> {"none", "called", "planning", "over"}]
      /\ basis' \in [PlannerRuns -> SUBSET PlannerRuns] /\ plannerSession' = r
      /\ UNCHANGED <<plans, stopPlan>>
  BY DEF Vp!Planned, Vp!TypeOK
<1>2. plannerHistory' \subseteq PlannerRuns
  BY WaypointTypes
<1>3. lastLook' \in [PlannerRuns -> BOOLEAN]
  BY DEF Vp!TypeOK
<1> QED BY <1>1, <1>2, <1>3 DEF Vp!TypeOK, Waypoints

LEMMA PlannerTypes == ASSUME Vp!TypeOK, [Vp!Next]_(Vp!plannerVars) PROVE Vp!TypeOK'
<1>1. CASE UNCHANGED Vp!plannerVars
  BY <1>1 DEF Vp!plannerVars, Vp!TypeOK
<1>2. ASSUME NEW r \in PlannerRuns, Vp!Call(r) PROVE Vp!TypeOK'
  <2>1. plans[r] + 1 \in 0..MaxPlans
    BY <1>2, ModelAssumption DEF Vp!Call, Vp!TypeOK
  <2>2. plans' \in [PlannerRuns -> 0..MaxPlans]
    BY <1>2, <2>1 DEF Vp!Call, Vp!TypeOK
  <2> QED BY <1>2, <2>2 DEF Vp!Call, Vp!TypeOK
<1>3. ASSUME NEW r \in PlannerRuns, Vp!Execute(r) PROVE Vp!TypeOK'
  BY <1>3 DEF Vp!Execute, Vp!TypeOK
<1>4. ASSUME NEW r \in PlannerRuns, Vp!System1(r) PROVE Vp!TypeOK'
  <2> DEFINE w == Vp!OldWaypoint(r)
  <2>1. w \in Waypoints /\ w.of # NoRun /\ w.calls < Replans
    BY <1>4, WaypointTypes DEF Vp!System1, Vp!Continues
  <2>2. waypoint' = [w EXCEPT !.calls = w.calls + 1]
    BY <1>4 DEF Vp!System1
  <2>3. /\ Vp!Planned(r, {w.of}) /\ plannerHistory' = Vp!OldHistory(r) \cup {r}
        /\ lastLook' = [lastLook EXCEPT ![r] = FALSE]
    BY <1>4 DEF Vp!System1
  <2> HIDE DEF w
  <2>4. w.calls + 1 \in 0..Replans \cup {1} /\ w.of \in PlannerRuns
    BY <2>1, ModelAssumption DEF Waypoints
  <2>5. waypoint' \in Waypoints
    BY <2>1, <2>2, <2>4 DEF Waypoints
  <2> QED BY <2>3, <2>4, <2>5, PlannedTypes
<1>5. ASSUME NEW r \in PlannerRuns, Vp!System2(r) PROVE Vp!TypeOK'
  <2>1. waypoint' \in Waypoints
    BY <1>5, WaypointTypes DEF Vp!System2
  <2>2. \E look \in BOOLEAN : lastLook' = [lastLook EXCEPT ![r] = look]
    BY <1>5 DEF Vp!System2
  <2>3. Vp!OldHistory(r) \cup {r} \in SUBSET PlannerRuns
    BY WaypointTypes
  <2> QED BY <1>5, <2>1, <2>2, <2>3, PlannedTypes DEF Vp!System2
<1>6. ASSUME NEW r \in PlannerRuns, Vp!PlanFails(r) PROVE Vp!TypeOK'
  BY <1>6 DEF Vp!PlanFails, Vp!TypeOK
<1>7. CASE Vp!Cancel
  BY <1>7 DEF Vp!Cancel, Vp!TypeOK
<1> QED BY <1>1, <1>2, <1>3, <1>4, <1>5, <1>6, <1>7 DEF Vp!Next

(* Types. The admission of actions.                                        *)
LEMMA MovedTypes ==
    ASSUME Aa!TypeOK, NEW r \in Requests, NEW how \in Aa!Outcomes,
           NEW where \in {"new", "waiting", "moving", "adrift", "over"},
           Aa!Moved(r, where, how)
    PROVE  request' \in [Requests -> [action : Aa!Actions, complete : BOOLEAN,
                           outcome : Aa!Outcomes,
                           at : {"new", "waiting", "moving", "adrift", "over"}]]
BY DEF Aa!TypeOK, Aa!Moved

LEMMA AdmissionTypes == ASSUME Aa!TypeOK, [Aa!Next]_(Aa!admissionVars) PROVE Aa!TypeOK'
<1> USE DEF Aa!TypeOK
<1>1. CASE UNCHANGED Aa!admissionVars
  BY <1>1 DEF Aa!admissionVars
<1>2. ASSUME NEW b \in Aa!Levels, NEW opened \in SUBSET {"base", "arm"},
             NEW now \in SUBSET {"base", "arm"}, NEW eyesUp \in BOOLEAN,
             Aa!Start(b, opened, now, eyesUp)
      PROVE  Aa!TypeOK'
  BY <1>2 DEF Aa!Start, Aa!site, Aa!States
<1>3. ASSUME NEW b \in Aa!Levels, NEW armsUp \in BOOLEAN, Aa!Telemetry(b, armsUp)
      PROVE  Aa!TypeOK'
  BY <1>3 DEF Aa!Telemetry, Aa!site
<1>4. CASE Aa!Close
  BY <1>4 DEF Aa!Close, Aa!site, Aa!view, Aa!States
<1>5. ASSUME NEW r \in Requests, NEW k \in AskedActions, NEW c \in BOOLEAN,
             Aa!Submit(r, k, c)
      PROVE  Aa!TypeOK'
  <2>1. k \in Aa!Actions
    BY ModelAssumption DEF Aa!Actions
  <2>2. request' \in [Requests -> [action : Aa!Actions, complete : BOOLEAN,
                           outcome : Aa!Outcomes,
                           at : {"new", "waiting", "moving", "adrift", "over"}]]
    BY <1>5, <2>1 DEF Aa!Submit, Aa!Outcomes
  <2> QED BY <1>5, <2>2 DEF Aa!Submit, Aa!site, Aa!view
<1>6. ASSUME NEW r \in Requests, Aa!EmergencyStop(r) PROVE Aa!TypeOK'
  <2>1. request' \in [Requests -> [action : Aa!Actions, complete : BOOLEAN,
                           outcome : Aa!Outcomes,
                           at : {"new", "waiting", "moving", "adrift", "over"}]]
    BY <1>6 DEF Aa!EmergencyStop, Aa!Outcomes, Aa!Actions
  <2> QED BY <1>6, <2>1 DEF Aa!EmergencyStop, Aa!site, Aa!view, Aa!States
<1>7. ASSUME NEW r \in Requests,
             \/ Aa!Admit(r) \/ Aa!Refuse(r) \/ Aa!Cancel(r) \/ Aa!Land(r)
             \/ \E ok \in BOOLEAN : Aa!Finish(r, ok)
      PROVE  Aa!TypeOK'
  <2>1. \/ Aa!Moved(r, "moving", "none") \/ Aa!Moved(r, "over", "refused")
        \/ Aa!Moved(r, "over", "cancelled") \/ Aa!Moved(r, "adrift", "cancelled")
        \/ Aa!Moved(r, "over", "ok") \/ Aa!Moved(r, "over", "failed")
    BY <1>7 DEF Aa!Admit, Aa!Refuse, Aa!Cancel, Aa!Land, Aa!Finish
  <2>2. {"none", "refused", "cancelled", "ok", "failed"} \subseteq Aa!Outcomes
    BY DEF Aa!Outcomes
  <2>3. request' \in [Requests -> [action : Aa!Actions, complete : BOOLEAN,
                           outcome : Aa!Outcomes,
                           at : {"new", "waiting", "moving", "adrift", "over"}]]
    BY <2>1, <2>2, MovedTypes
  <2>4. /\ lock' \in {lock, r, NoRequest} /\ UNCHANGED <<boot, Aa!site, Aa!view>>
        /\ admissionState' \in {admissionState, "failed", "skill_completed"}
    BY <1>7 DEF Aa!Admit, Aa!Refuse, Aa!Cancel, Aa!Land, Aa!Finish, Aa!Released
  <2> QED BY <2>3, <2>4 DEF Aa!site, Aa!view, Aa!States
<1> QED BY <1>1, <1>2, <1>3, <1>4, <1>5, <1>6, <1>7 DEF Aa!Next

(* Types. The policy service: what its invariant does not already say.     *)
PolicyRest ==
    /\ policyServer \in {"loading", "serving", "stopped"}
    /\ rpc \in [PolicyRuns -> {"idle", "waiting", "over"}]
    /\ calls \in [PolicyRuns -> 0..MaxCalls]
    /\ busy \in BOOLEAN /\ awaited \in [PolicyRuns -> BOOLEAN]
    /\ health \in [Ps!Processes -> {"up", "hung", "dead"}]
    /\ cancelEvent \in BOOLEAN
    /\ policySession \in PolicyRuns \cup {NoCaller}
    /\ canceller \in {"none", "lock"} /\ policyCancels \in 0..MaxCancels

LEMMA HandlerRest ==
    ASSUME PolicyRest, NEW c \in PolicyRuns, Ps!Execute(c) \/ Ps!Answer(c) \/ Ps!GiveUp(c)
    PROVE  PolicyRest'
<1>1. UNCHANGED <<policyServer, health, cancelEvent, policySession, canceller, policyCancels>>
  BY DEF Ps!Execute, Ps!Answer, Ps!GiveUp, Ps!pipeVars
<1>2. rpc' \in [PolicyRuns -> {"idle", "waiting", "over"}]
  BY DEF PolicyRest, Ps!Execute, Ps!Answer, Ps!GiveUp
<1>3. calls' \in [PolicyRuns -> 0..MaxCalls]
  <2>1. CASE Ps!Execute(c)
    <3>1. calls[c] + 1 \in 0..MaxCalls
      BY <2>1, ModelAssumption DEF PolicyRest, Ps!Execute
    <3> QED BY <2>1, <3>1 DEF PolicyRest, Ps!Execute
  <2> QED BY <2>1 DEF PolicyRest, Ps!Answer, Ps!GiveUp
<1>4. busy' \in BOOLEAN
  BY DEF PolicyRest, Ps!Execute, Ps!Answer, Ps!GiveUp
<1>5. awaited' \in [PolicyRuns -> BOOLEAN]
  BY DEF PolicyRest, Ps!Execute, Ps!Answer, Ps!GiveUp
<1> QED BY <1>1, <1>2, <1>3, <1>4, <1>5 DEF PolicyRest

LEMMA ThreadRest ==
    ASSUME PolicyRest, NEW c \in PolicyRuns, Ps!Thread(c) PROVE PolicyRest'
<1>1. UNCHANGED <<policyServer, rpc, calls, busy, awaited, canceller, policyCancels>>
  BY DEF Ps!Thread, Ps!RejectRequest, Ps!GetRuntime, Ps!Load, Ps!LoadFails, Ps!Reset,
     Ps!SameSession, Ps!Check, Ps!ProcessGone, Ps!ResetDone, Ps!Selected, Ps!NoReply,
     Ps!Send, Ps!OnlyWork, Ps!callVars
<1>2. policySession' \in {policySession, c}
  BY DEF Ps!Thread, Ps!RejectRequest, Ps!GetRuntime, Ps!Load, Ps!LoadFails, Ps!Reset,
     Ps!SameSession, Ps!Check, Ps!ProcessGone, Ps!ResetDone, Ps!Selected, Ps!NoReply,
     Ps!Send, Ps!OnlyWork
<1>3. cancelEvent' \in BOOLEAN
  BY DEF PolicyRest, Ps!Thread, Ps!RejectRequest, Ps!GetRuntime, Ps!Load, Ps!LoadFails,
     Ps!Reset, Ps!SameSession, Ps!Check, Ps!ProcessGone, Ps!ResetDone, Ps!Selected,
     Ps!NoReply, Ps!Send, Ps!OnlyWork
<1>4. health' = health \/ health' = [health EXCEPT ![loads + 1] = "up"]
  BY DEF Ps!Thread, Ps!RejectRequest, Ps!GetRuntime, Ps!Load, Ps!LoadFails, Ps!Reset,
     Ps!SameSession, Ps!Check, Ps!ProcessGone, Ps!ResetDone, Ps!Selected, Ps!NoReply,
     Ps!Send, Ps!OnlyWork, Ps!pipeVars, Ps!Spawn
<1>5. health' \in [Ps!Processes -> {"up", "hung", "dead"}]
  BY <1>4 DEF PolicyRest
<1> QED BY <1>1, <1>2, <1>3, <1>5 DEF PolicyRest

LEMMA PolicyRestKeeps ==
    ASSUME PolicyRest, [Ps!Next]_(Ps!policyVars) PROVE PolicyRest'
<1>1. CASE UNCHANGED Ps!policyVars
  BY <1>1 DEF Ps!policyVars, PolicyRest
<1>2. CASE Ps!Serve
  BY <1>2 DEF Ps!Serve, Ps!Spawn, PolicyRest
<1>3. CASE Ps!CancelSkill
  <2>1. policyCancels + 1 \in 0..MaxCancels
    BY <1>3, ModelAssumption DEF Ps!CancelSkill, PolicyRest
  <2> QED BY <1>3, <2>1 DEF Ps!CancelSkill, Ps!pipeVars, PolicyRest
<1>4. CASE Ps!Release \/ Ps!Stop
  <2>1. health' \in [Ps!Processes -> {"up", "hung", "dead"}]
    BY <1>4 DEF Ps!Release, Ps!Stop, Ps!Terminate, PolicyRest
  <2> QED BY <1>4, <2>1 DEF Ps!Release, Ps!Stop, Ps!callVars, PolicyRest
<1>5. ASSUME NEW p \in Ps!Processes, Ps!Reply(p) \/ Ps!Hang(p) \/ Ps!PolicyRaises(p)
      PROVE  PolicyRest'
  BY <1>5 DEF Ps!Reply, Ps!Hang, Ps!PolicyRaises, Ps!Terminate, Ps!callVars, PolicyRest
<1> QED BY <1>1, <1>2, <1>3, <1>4, <1>5, HandlerRest, ThreadRest DEF Ps!Next

LEMMA PolicyServiceTypes == PolicyInv /\ PolicyRest => Ps!TypeOK
<1> SUFFICES ASSUME PolicyTypes, PolicyRest PROVE Ps!TypeOK
  BY DEF PolicyInv
<1>1. 0..loads \subseteq 0..MaxLoads
  BY ModelAssumption DEF PolicyTypes
<1>2. model \in [PolicyRuns -> 0..MaxLoads] /\ runtime \in 0..MaxLoads
  BY <1>1 DEF PolicyTypes
<1> QED BY <1>2 DEF PolicyTypes, PolicyRest, Ps!TypeOK

(* Types. A VLA step moves a chunk at most, and a VLN option stops at its  *)
(* budget, in whatever order they count.                                   *)
OptionTypes ==
    /\ option \in {"vla", "vln"}
    /\ optionAt \in {"idle", "first", "loop", "infer", "act", "sending", "moving",
                     "progress", "observe", "ended"}
    /\ newer \in BOOLEAN /\ spent \in BOOLEAN /\ askedTwice \in BOOLEAN
    /\ steps \in Nat /\ moved \in Nat /\ chunk \in Seq({"move", "stop"})
    /\ modelDone \in BOOLEAN /\ cancelAsked \in BOOLEAN
    /\ optionEnded \in Mo!Reasons \cup {"no"}
    /\ optionAt \in {"sending", "moving"} => chunk # <<>>

VlaCounts ==
    /\ steps < MaxSteps /\ moved <= (steps + 1) * MaxChunk
    /\ optionAt \in {"idle", "first", "loop", "infer"} => moved <= steps * MaxChunk
    /\ optionAt \in {"act", "sending", "moving"} => moved + Len(chunk) <= (steps + 1) * MaxChunk
    /\ optionAt \in {"progress", "observe"} => chunk = <<>>
    /\ optionAt = "observe" => steps + 1 < MaxSteps

VlnCounts ==
    /\ steps <= MaxSteps /\ moved <= MaxSteps
    /\ optionAt \in {"infer", "act", "sending", "moving", "observe"} => moved < MaxSteps
    /\ optionAt = "progress" => chunk # <<>>

OptionCounts ==
    /\ OptionTypes
    /\ option = "vla" => VlaCounts
    /\ option = "vln" => VlnCounts

LEMMA ChunksAreShort ==
    ASSUME NEW answer \in Mo!Chunks
    PROVE  answer \in Seq({"move", "stop"}) /\ Len(answer) <= MaxChunk
<1>1. PICK n \in 0..MaxChunk : answer \in [1..n -> {"move"}]
  BY DEF Mo!Chunks
<1>2. n \in Nat /\ n <= MaxChunk
  BY <1>1, ModelAssumption
<1>3. answer \in Seq({"move", "stop"}) /\ Len(answer) = n
  BY <1>1, <1>2
<1> QED BY <1>2, <1>3

LEMMA OneChunkMore ==
    ASSUME NEW s \in Nat
    PROVE  /\ s * MaxChunk \in Nat /\ (s + 1) * MaxChunk = s * MaxChunk + MaxChunk
           /\ s < MaxSteps => (s + 1) * MaxChunk <= MaxSteps * MaxChunk
           /\ MaxSteps <= MaxSteps * MaxChunk
BY ModelAssumption

(* Where the option stands and what it counted decide.                     *)
LEMMA EndCounts ==
    ASSUME OptionCounts, NEW reason \in Mo!Reasons, Mo!End(reason) PROVE OptionCounts'
BY DEF OptionCounts, OptionTypes, VlaCounts, VlnCounts, Mo!End, Mo!data

LEMMA HandlerCounts == ASSUME OptionCounts, Mo!Handler PROVE OptionCounts'
<1> USE DEF Mo!Move, Mo!Go, Mo!data
<1>0. OptionTypes /\ ModelAssumption /\ (option = "vla" \/ option = "vln")
  BY ModelAssumption DEF OptionCounts, OptionTypes
<1>1. ASSUME NEW reason \in Mo!Reasons, Mo!End(reason) PROVE OptionCounts'
  BY <1>1, EndCounts
<1>2. CASE Mo!Start \/ Mo!FirstObservation
  <2>1. CASE \E reason \in Mo!Reasons : Mo!End(reason)
    BY <1>1, <2>1
  <2>2. CASE ~\E reason \in Mo!Reasons : Mo!End(reason)
    <3>1. /\ optionAt \in {"idle", "first"} /\ optionAt' \in {"first", "loop"}
          /\ newer' \in BOOLEAN
          /\ UNCHANGED <<option, spent, askedTwice, steps, moved, chunk, modelDone,
                         cancelAsked, optionEnded>>
      BY <1>0, <1>2, <2>2 DEF Mo!Start, Mo!FirstObservation, Mo!Reasons, OptionTypes
    <3> QED BY <3>1 DEF OptionCounts, OptionTypes, VlaCounts, VlnCounts
  <2> QED BY <2>1, <2>2
<1>3. CASE Mo!Ask
  BY <1>3, ModelAssumption DEF Mo!Ask, Mo!Asking, Mo!CountPlanning, OptionCounts,
     OptionTypes, VlaCounts, VlnCounts
<1>4. CASE \/ Mo!BudgetSpent \/ Mo!Cancelled \/ Mo!ModelFails \/ Mo!NoCommands
           \/ Mo!EnvironmentDone \/ Mo!ActionFails \/ Mo!NoNewFrame
  BY <1>1, <1>4 DEF Mo!BudgetSpent, Mo!Cancelled, Mo!ModelFails, Mo!NoCommands,
     Mo!EnvironmentDone, Mo!ActionFails, Mo!NoNewFrame, Mo!Reasons
<1>5. ASSUME NEW answer \in Mo!Chunks, NEW flag \in BOOLEAN, Mo!VlaAnswer(answer, flag)
      PROVE  OptionCounts'
  <2>1. CASE answer = <<>>
    BY <1>1, <1>5, <2>1 DEF Mo!VlaAnswer, Mo!Reasons
  <2>2. CASE answer # <<>>
    <3>1. /\ option = "vla" /\ optionAt = "infer" /\ optionAt' = "act" /\ chunk' = answer
          /\ modelDone' = flag
          /\ UNCHANGED <<option, newer, spent, askedTwice, steps, moved, cancelAsked,
                         optionEnded>>
      BY <1>5, <2>2 DEF Mo!VlaAnswer
    <3>2. chunk' \in Seq({"move", "stop"}) /\ Len(chunk') <= MaxChunk /\ Len(chunk') \in Nat
      BY <3>1, ChunksAreShort, LenProperties
    <3>3. OptionTypes'
      BY <3>1, <3>2 DEF OptionCounts, OptionTypes
    <3>4. moved' + Len(chunk') <= (steps' + 1) * MaxChunk
          /\ moved' <= (steps' + 1) * MaxChunk
      BY <3>1, <3>2, <1>0, OneChunkMore, ModelAssumption DEF OptionCounts, OptionTypes, VlaCounts
    <3>5. VlaCounts'
      BY <3>1, <3>4 DEF OptionCounts, VlaCounts
    <3> QED BY <3>1, <3>3, <3>5 DEF OptionCounts
  <2> QED BY <2>1, <2>2
<1>6. ASSUME NEW answer \in Mo!Chunks, NEW flag \in BOOLEAN, Mo!VlnAnswer(answer, flag)
      PROVE  OptionCounts'
  <2>1. /\ option = "vln" /\ optionAt = "infer" /\ optionAt' = "act"
        /\ chunk' = IF flag THEN Append(answer, "stop") ELSE answer
        /\ UNCHANGED <<option, newer, spent, askedTwice, steps, moved, modelDone, cancelAsked,
                       optionEnded>>
    BY <1>6 DEF Mo!VlnAnswer
  <2>2. chunk' \in Seq({"move", "stop"})
    BY <2>1, ChunksAreShort, AppendProperties
  <2> QED BY <2>1, <2>2 DEF OptionCounts, OptionTypes, VlnCounts
<1>7. CASE Mo!LookDown
  <2>1. <<>> \in Seq({"move", "stop"})
    BY EmptySeq
  <2> QED
    BY <1>1, <1>7, <2>1 DEF Mo!LookDown, Mo!Reasons, OptionCounts, OptionTypes, VlnCounts
<1>8. CASE Mo!Send \/ Mo!Act
  BY <1>8 DEF Mo!Send, Mo!Act, OptionCounts, OptionTypes, VlaCounts, VlnCounts
<1>9. CASE Mo!ActionDone
  <2>1. /\ optionAt = "moving" /\ chunk # <<>> /\ chunk \in Seq({"move", "stop"})
        /\ Tail(chunk) \in Seq({"move", "stop"}) /\ Len(Tail(chunk)) = Len(chunk) - 1
        /\ Len(chunk) \in Nat /\ Len(chunk) >= 1
        /\ (Tail(chunk) = <<>> <=> Len(Tail(chunk)) = 0)
    <3>1. optionAt = "moving" /\ chunk # <<>> /\ chunk \in Seq({"move", "stop"})
      BY <1>0, <1>9 DEF OptionTypes, Mo!ActionDone
    <3>2. /\ Tail(chunk) \in Seq({"move", "stop"}) /\ Len(Tail(chunk)) = Len(chunk) - 1
      BY <3>1, HeadTailProperties
    <3>3. Len(chunk) \in Nat \ {0}
      BY <3>1, EmptySeq
    <3>4. Tail(chunk) = <<>> <=> Len(Tail(chunk)) = 0
      BY <3>2, EmptySeq
    <3> QED BY <3>1, <3>2, <3>3, <3>4
  <2>2. /\ optionAt' = IF option = "vla" /\ Len(chunk) > 1 THEN "act" ELSE "progress"
        /\ chunk' = IF option = "vla" THEN Tail(chunk) ELSE chunk
        /\ moved' \in {moved, moved + 1}
        /\ UNCHANGED <<option, newer, spent, askedTwice, steps, modelDone, cancelAsked,
                       optionEnded>>
    BY <1>9 DEF Mo!ActionDone
  <2>3. OptionTypes'
    BY <2>1, <2>2, <1>0 DEF OptionTypes
  <2>4. CASE option = "vla"
    <3>1. moved + Len(chunk) <= (steps + 1) * MaxChunk /\ VlaCounts /\ steps \in Nat
          /\ moved \in Nat
      BY <1>0, <2>1, <2>4 DEF OptionCounts, VlaCounts, OptionTypes
    <3>2. (steps + 1) * MaxChunk \in Nat
      BY <3>1, OneChunkMore, ModelAssumption
    <3>3. /\ moved' + Len(chunk') <= (steps' + 1) * MaxChunk
          /\ moved' <= (steps' + 1) * MaxChunk
      BY <2>1, <2>2, <2>4, <3>1, <3>2
    <3>4. optionAt' \in {"progress", "observe"} => chunk' = <<>>
      BY <2>1, <2>2, <2>4
    <3>5. VlaCounts'
      BY <2>2, <3>1, <3>3, <3>4 DEF VlaCounts
    <3> QED BY <2>2, <2>3, <2>4, <3>5 DEF OptionCounts
  <2>5. CASE option = "vln"
    <3>1. moved < MaxSteps /\ VlnCounts /\ moved \in Nat
      BY <1>0, <2>1, <2>5 DEF OptionCounts, VlnCounts, OptionTypes
    <3>2. moved' <= MaxSteps
      BY <2>2, <3>1, ModelAssumption
    <3>3. VlnCounts'
      BY <2>1, <2>2, <2>5, <3>1, <3>2 DEF VlnCounts
    <3> QED BY <2>2, <2>3, <2>5, <3>3 DEF OptionCounts
  <2> QED BY <1>0, <2>4, <2>5
<1>10. CASE Mo!VlaProgress
  <2>1. CASE \E reason \in Mo!Reasons : Mo!End(reason)
    BY <1>1, <2>1
  <2>2. CASE ~\E reason \in Mo!Reasons : Mo!End(reason)
    <3>1. /\ option = "vla" /\ optionAt = "progress" /\ optionAt' = "observe"
          /\ ~(steps + 1 >= MaxSteps)
          /\ UNCHANGED <<option, newer, spent, askedTwice, steps, moved, chunk, modelDone,
                         cancelAsked, optionEnded>>
      BY <1>0, <1>10, <2>2 DEF Mo!VlaProgress, Mo!Reasons
    <3>2. steps + 1 < MaxSteps
      BY <1>0, <3>1, ModelAssumption DEF OptionTypes
    <3> QED BY <3>1, <3>2 DEF OptionCounts, OptionTypes, VlaCounts
  <2> QED BY <2>1, <2>2
<1>11. CASE Mo!VlnProgress
  <2>1. chunk # <<>> /\ Tail(chunk) \in Seq({"move", "stop"})
    BY <1>0, <1>11, HeadTailProperties DEF OptionTypes, OptionCounts, VlnCounts, Mo!VlnProgress
  <2>2. <<>> \in Seq({"move", "stop"})
    BY EmptySeq
  <2>3. CASE Head(chunk) = "stop"
    BY <1>1, <1>11, <2>3 DEF Mo!VlnProgress, Mo!Reasons
  <2>4. CASE Head(chunk) # "stop"
    <3>1. /\ option = "vln" /\ optionAt = "progress"
          /\ optionAt' = IF moved >= MaxSteps THEN "loop" ELSE "observe"
          /\ chunk' = IF moved >= MaxSteps THEN <<>> ELSE Tail(chunk)
          /\ UNCHANGED <<option, newer, spent, askedTwice, steps, moved, modelDone,
                         cancelAsked, optionEnded>>
      BY <1>11, <2>4 DEF Mo!VlnProgress
    <3>2. chunk' \in Seq({"move", "stop"}) /\ optionAt' \in {"loop", "observe"}
      BY <2>1, <2>2, <3>1
    <3>3. optionAt' = "observe" => moved < MaxSteps
      BY <1>0, <3>1, ModelAssumption DEF OptionTypes
    <3>4. OptionTypes'
      BY <1>0, <3>1, <3>2 DEF OptionTypes
    <3> QED BY <3>1, <3>2, <3>3, <3>4 DEF OptionCounts, VlnCounts
  <2> QED BY <2>3, <2>4
<1>12. CASE Mo!Observe
  <2>1. /\ optionAt = "observe" /\ optionAt' = IF chunk = <<>> THEN "loop" ELSE "act"
        /\ steps' = IF option = "vla" THEN steps + 1 ELSE steps
        /\ newer' \in BOOLEAN /\ UNCHANGED <<option, askedTwice, moved, chunk, modelDone,
                                             cancelAsked, optionEnded>>
    BY <1>12 DEF Mo!Observe
  <2>2. spent' \in BOOLEAN
    BY <1>12 DEF Mo!Observe
  <2>3. OptionTypes'
    BY <1>0, <2>1, <2>2 DEF OptionTypes
  <2>4. CASE option = "vla"
    <3>1. /\ chunk = <<>> /\ steps + 1 < MaxSteps /\ moved <= (steps + 1) * MaxChunk
          /\ steps \in Nat /\ moved \in Nat
      BY <1>0, <2>1, <2>4 DEF OptionCounts, VlaCounts, OptionTypes
    <3>2. /\ steps + 1 \in Nat /\ (steps + 1) * MaxChunk \in Nat
          /\ (steps + 1 + 1) * MaxChunk = (steps + 1) * MaxChunk + MaxChunk
      BY <3>1, OneChunkMore
    <3> DEFINE k == (steps + 1) * MaxChunk
               l == (steps + 1 + 1) * MaxChunk
    <3>3. k \in Nat /\ l = k + MaxChunk /\ moved <= k /\ MaxChunk \in Nat
      BY <3>1, <3>2, ModelAssumption
    <3> HIDE DEF k, l
    <3>4. moved <= l
      BY <3>1, <3>3
    <3>5. /\ optionAt' = "loop" /\ steps' < MaxSteps /\ moved' <= steps' * MaxChunk
          /\ moved' <= (steps' + 1) * MaxChunk
      BY <2>1, <2>4, <3>1, <3>3, <3>4 DEF k, l
    <3> QED BY <2>1, <2>3, <2>4, <3>5 DEF OptionCounts, VlaCounts
  <2>5. CASE option = "vln"
    BY <2>1, <2>3, <2>5 DEF OptionCounts, VlnCounts
  <2> QED BY <1>0, <2>4, <2>5
<1> QED
  BY <1>2, <1>3, <1>4, <1>5, <1>6, <1>7, <1>8, <1>9, <1>10, <1>11, <1>12 DEF Mo!Handler

LEMMA OptionCountsKeep ==
    ASSUME OptionCounts, [Mo!Next]_(Mo!optionVars) PROVE OptionCounts'
<1>1. CASE UNCHANGED Mo!optionVars
  BY <1>1 DEF Mo!optionVars, OptionCounts, OptionTypes, VlaCounts, VlnCounts
<1>2. CASE Mo!NewFrame \/ Mo!AskCancel
  BY <1>2, ZenonT(60) DEF Mo!NewFrame, Mo!AskCancel, Mo!data, OptionCounts, OptionTypes, VlaCounts,
     VlnCounts
<1>3. CASE Mo!Interrupt
  BY <1>3, EndCounts DEF Mo!Interrupt, Mo!Reasons
<1> QED BY <1>1, <1>2, <1>3, HandlerCounts DEF Mo!Next

LEMMA OptionIsTyped == OptionCounts => Mo!TypeOK
<1> SUFFICES ASSUME OptionCounts PROVE Mo!TypeOK
  OBVIOUS
<1>1. steps \in Nat /\ moved \in Nat /\ (option = "vla" \/ option = "vln")
  BY DEF OptionCounts, OptionTypes
<1> DEFINE k == (steps + 1) * MaxChunk
           all == MaxSteps * MaxChunk
<1>2. k \in Nat /\ all \in Nat /\ MaxSteps <= all /\ (steps < MaxSteps => k <= all)
  BY <1>1, OneChunkMore, ModelAssumption
<1>3. option = "vla" => steps < MaxSteps /\ moved <= k
  BY DEF OptionCounts, VlaCounts
<1>4. option = "vln" => steps <= MaxSteps /\ moved <= MaxSteps
  BY DEF OptionCounts, VlnCounts
<1> HIDE DEF k, all
<1>5. steps \in 0..MaxSteps /\ moved \in 0..all
  BY <1>1, <1>2, <1>3, <1>4, ModelAssumption
<1> QED BY <1>5 DEF OptionCounts, OptionTypes, Mo!TypeOK, all

(* Types. Perception: a picture that was looked for is one of the camera's, *)
(* and who stands in the line asks.                                        *)
Looked(look) == look \in Pc!Look /\ (look = Pc!Nothing \/ look.picture \in Pc!Frames)

AskerRecord == [phase: {"idle", "asks", "has", "captions"}, after: Pc!Frames,
                why: {"none", "loop", "observe", "evidence", "inspect"},
                renewed: BOOLEAN, got: Pc!Look, floor: Pc!Frames]
AskerTyped(state) ==
    /\ state \in AskerRecord
    /\ state.phase \in {"has", "captions"} => state.got.picture \in Pc!Frames

CameraTypes ==
    /\ camera \in [open: BOOLEAN, stopping: BOOLEAN, reader: BOOLEAN, frame: Pc!Frames,
                   latest: Pc!Frames]
    /\ perceptionDriver \in [state: {"created", "idle", "degraded", "closing", "closed"},
                             frame: Pc!Frames]

LookTypes ==
    /\ holder \in Pc!Askers \cup {Pc!Nobody}
    /\ Looked(taken) /\ Looked(perceptionLatest)
    /\ DOMAIN asker = Pc!Askers /\ asker = [a \in Pc!Askers |-> asker[a]]
    /\ \A a \in Pc!Askers : AskerTyped(asker[a])

SceneTypes ==
    /\ perceptionStored \subseteq Pc!Frames \ {0} /\ entities \in Pc!Frames
    /\ evidence \in [Skills -> [picture: Pc!Frames, pinned: BOOLEAN]]

AskersLine ==
    /\ perceptionLine \in Seq(Pc!Askers) /\ Distinct(perceptionLine)
    /\ \A a \in Pc!Askers : Stands(perceptionLine, a) => asker[a].phase = "asks"
    /\ holder # Pc!Nobody => asker[holder].phase = "asks" /\ ~Stands(perceptionLine, holder)

PerceptionTypes == CameraTypes /\ LookTypes /\ SceneTypes /\ AskersLine

LEMMA FramesFrom ==
    /\ 0 \in Pc!Frames /\ Pc!Frames \subseteq Nat /\ Looked(Pc!Nothing)
    /\ Pc!Nothing.picture = Pc!NoLook /\ Pc!NoLook \notin Pc!Frames
    /\ AskerTyped(Pc!Idle) /\ Pc!Idle.phase = "idle"
BY ModelAssumption DEF Pc!Frames, Looked, Pc!Look, Pc!Nothing, Pc!NoLook, AskerTyped, AskerRecord,
   Pc!Idle

(* One asker moves on.                                                     *)
LEMMA AskerMoves ==
    ASSUME LookTypes, NEW a \in Pc!Askers, NEW state, AskerTyped(state),
           asker' = [asker EXCEPT ![a] = state], UNCHANGED <<holder, taken, perceptionLatest>>
    PROVE  LookTypes' /\ \A b \in Pc!Askers : asker'[b] = IF b = a THEN state ELSE asker[b]
<1>1. DOMAIN asker' = Pc!Askers /\ asker' = [b \in Pc!Askers |-> asker'[b]]
  BY DEF LookTypes
<1>2. \A b \in Pc!Askers : asker'[b] = IF b = a THEN state ELSE asker[b]
  BY DEF LookTypes
<1>3. \A b \in Pc!Askers : AskerTyped(asker'[b])
  BY <1>2 DEF LookTypes
<1> QED BY <1>1, <1>2, <1>3 DEF LookTypes, AskerTyped, Looked

(* The camera and the driver move on their own.                            *)
LEMMA CameraTypesKeep ==
    ASSUME PerceptionTypes,
           \/ Pc!Start \/ Pc!Diagnose \/ Pc!ReadFrame \/ Pc!ReaderEnds
           \/ Pc!StopCamera \/ Pc!CloseCamera
    PROVE  PerceptionTypes'
<1>1. /\ UNCHANGED <<perceptionLine, asker, holder, taken, perceptionLatest,
                     perceptionStored, entities, evidence>>
  BY DEF Pc!Start, Pc!Diagnose, Pc!ReadFrame, Pc!ReaderEnds, Pc!StopCamera, Pc!CloseCamera,
     Pc!requests, Pc!refreshes, Pc!scene
<1>2. LookTypes' /\ SceneTypes' /\ AskersLine'
  BY <1>1 DEF PerceptionTypes, LookTypes, SceneTypes, AskersLine, AskerTyped, Looked
<1>3. perceptionDriver' \in [state: {"created", "idle", "degraded", "closing", "closed"},
                             frame: Pc!Frames]
  BY DEF PerceptionTypes, CameraTypes, Pc!Start, Pc!Diagnose, Pc!ReadFrame, Pc!ReaderEnds,
     Pc!StopCamera, Pc!CloseCamera
<1>4. camera' \in [open: BOOLEAN, stopping: BOOLEAN, reader: BOOLEAN, frame: Pc!Frames,
                   latest: Pc!Frames]
  <2>1. CASE Pc!ReadFrame
    <3> DEFINE next == camera.frame + 1
    <3>1. next \in Pc!Frames /\ camera' = [camera EXCEPT !.frame = next, !.latest = next]
      BY <2>1, ModelAssumption DEF PerceptionTypes, CameraTypes, Pc!ReadFrame, Pc!Frames
    <3> HIDE DEF next
    <3> QED BY <3>1 DEF PerceptionTypes, CameraTypes
  <2>2. CASE Pc!Start
    BY <2>2 DEF PerceptionTypes, CameraTypes, Pc!Start
  <2>3. CASE Pc!Diagnose \/ Pc!ReaderEnds \/ Pc!StopCamera \/ Pc!CloseCamera
    BY <2>3, FramesFrom DEF PerceptionTypes, CameraTypes, Pc!Diagnose, Pc!ReaderEnds,
       Pc!StopCamera, Pc!CloseCamera
  <2> QED BY <2>1, <2>2, <2>3
<1> QED BY <1>2, <1>3, <1>4 DEF PerceptionTypes, CameraTypes

(* Somebody who does not ask yet stands behind the others.                 *)
LEMMA AskingTypes ==
    ASSUME PerceptionTypes, NEW a \in Pc!Askers, asker[a].phase # "asks",
           NEW why \in {"loop", "observe", "evidence", "inspect"}, NEW after \in Pc!Frames,
           Pc!Asks(a, why, after), UNCHANGED <<holder, taken, perceptionLatest>>
    PROVE  LookTypes' /\ AskersLine'
<1> DEFINE floor1 == IF taken # Pc!Nothing THEN taken.picture ELSE camera.latest
           state == [Pc!Idle EXCEPT !.phase = "asks", !.why = why, !.after = after,
                                    !.floor = floor1]
<1>1. floor1 \in Pc!Frames
  BY DEF PerceptionTypes, CameraTypes, LookTypes, Looked
<1>2. asker' = [asker EXCEPT ![a] = state] /\ perceptionLine' = Append(perceptionLine, a)
  BY DEF Pc!Asks
<1> HIDE DEF floor1
<1>3. AskerTyped(state) /\ state.phase = "asks"
  BY <1>1, FramesFrom DEF AskerTyped, AskerRecord, Pc!Idle
<1> HIDE DEF state
<1>4. LookTypes' /\ \A b \in Pc!Askers : asker'[b] = IF b = a THEN state ELSE asker[b]
  BY <1>2, <1>3, AskerMoves DEF PerceptionTypes
<1>5. ~Stands(perceptionLine, a)
  BY DEF PerceptionTypes, AskersLine
<1>6. /\ perceptionLine' \in Seq(Pc!Askers) /\ Distinct(perceptionLine')
      /\ \A b : Stands(perceptionLine', b) => b = a \/ Stands(perceptionLine, b)
  BY <1>2, <1>5, LineGrows DEF PerceptionTypes, AskersLine
<1>7. \A b \in Pc!Askers : Stands(perceptionLine', b) => asker'[b].phase = "asks"
  BY <1>3, <1>4, <1>6 DEF PerceptionTypes, AskersLine
<1>8. holder' # Pc!Nobody => asker'[holder'].phase = "asks" /\ ~Stands(perceptionLine', holder')
  BY <1>3, <1>4, <1>6 DEF PerceptionTypes, AskersLine, LookTypes
<1> QED BY <1>4, <1>6, <1>7, <1>8 DEF AskersLine

(* Somebody who does not ask any more, and does not stand in the line.     *)
LEMMA UsingTypes ==
    ASSUME PerceptionTypes, NEW a \in Pc!Askers, asker[a].phase # "asks",
           NEW state, AskerTyped(state), asker' = [asker EXCEPT ![a] = state],
           UNCHANGED <<holder, taken, perceptionLatest, perceptionLine>>
    PROVE  LookTypes' /\ AskersLine'
<1>1. LookTypes' /\ \A b \in Pc!Askers : asker'[b] = IF b = a THEN state ELSE asker[b]
  BY AskerMoves DEF PerceptionTypes
<1>2. AskersLine'
  BY <1>1 DEF PerceptionTypes, AskersLine, LookTypes
<1> QED BY <1>1, <1>2

(* An observe is begun, ends or fails.                                     *)
LEMMA CaptureTypes == ASSUME PerceptionTypes, Pc!Capture PROVE PerceptionTypes'
<1> DEFINE picture == Pc!LastFrame
           n == perceptionDriver.frame + 1
           shot == IF picture # 0 THEN picture ELSE Pc!Min({n, MaxFrames})
<1>1. picture \in Pc!Frames
  BY FramesFrom DEF Pc!LastFrame, PerceptionTypes, CameraTypes
<1>2. n \in Nat /\ MaxFrames \in Nat
  BY ModelAssumption DEF PerceptionTypes, CameraTypes, Pc!Frames
<1>3. /\ taken' = [frame |-> shot, picture |-> picture]
      /\ perceptionDriver' = [perceptionDriver EXCEPT !.frame = shot]
      /\ UNCHANGED <<camera, holder, perceptionLatest, perceptionLine, asker,
                     perceptionStored, entities, evidence>>
  BY DEF Pc!Capture, Pc!requests, Pc!scene
<1>4. Pc!Min({n, MaxFrames}) \in Pc!Frames
  <2> HIDE DEF n
  <2>1. \E x \in {n, MaxFrames} : \A y \in {n, MaxFrames} : x <= y
    BY <1>2
  <2>2. Pc!Min({n, MaxFrames}) \in {n, MaxFrames} /\ Pc!Min({n, MaxFrames}) <= MaxFrames
    BY <2>1 DEF Pc!Min
  <2> QED BY <1>2, <2>2 DEF Pc!Frames
<1>5. shot \in Pc!Frames
  BY <1>1, <1>4
<1> HIDE DEF shot, picture, n
<1>6. Looked(taken')
  BY <1>1, <1>3, <1>5 DEF Looked, Pc!Look
<1>7. CameraTypes'
  BY <1>3, <1>5 DEF PerceptionTypes, CameraTypes
<1> QED BY <1>3, <1>6, <1>7 DEF PerceptionTypes, LookTypes, Looked, AskerTyped, SceneTypes,
           AskersLine

LEMMA EndTypes == ASSUME PerceptionTypes, Pc!EndRefresh PROVE PerceptionTypes'
<1>1. /\ taken # Pc!Nothing /\ perceptionLatest' = taken /\ taken' = Pc!Nothing
      /\ holder # Pc!Nobody /\ holder' = Pc!Nobody
      /\ UNCHANGED <<camera, perceptionDriver, perceptionLine, entities, evidence>>
      /\ perceptionStored' = IF perceptionLatest.picture = taken.picture THEN perceptionStored
                             ELSE Pc!Put(taken.picture)
      /\ asker' = [a \in Pc!Askers |->
            IF a = holder THEN [asker[a] EXCEPT !.phase = "has", !.got = taken]
            ELSE [asker[a] EXCEPT !.renewed = (@ \/ a \in Pc!Range(perceptionLine))]]
  BY DEF Pc!EndRefresh, Pc!devices, Pc!scene
<1>2. taken.picture \in Pc!Frames /\ taken \in Pc!Look
  BY <1>1 DEF PerceptionTypes, LookTypes, Looked
<1>3. ASSUME NEW a \in Pc!Askers
      PROVE  AskerTyped(asker'[a]) /\ (a # holder => asker'[a].phase = asker[a].phase)
  <2>1. AskerTyped(asker[a])
    BY DEF PerceptionTypes, LookTypes
  <2>2. CASE a = holder
    <3>1. asker'[a] = [asker[a] EXCEPT !.phase = "has", !.got = taken]
      BY <1>1, <2>2
    <3>2. asker'[a] \in AskerRecord /\ asker'[a].got = taken
      BY <1>2, <2>1, <3>1 DEF AskerTyped, AskerRecord
    <3> QED BY <1>2, <2>2, <3>2 DEF AskerTyped
  <2>3. CASE a # holder
    <3>1. asker'[a] = [asker[a] EXCEPT !.renewed = (@ \/ a \in Pc!Range(perceptionLine))]
      BY <1>1, <2>3
    <3>2. /\ asker'[a] \in AskerRecord /\ asker'[a].got = asker[a].got
          /\ asker'[a].phase = asker[a].phase
      BY <2>1, <3>1 DEF AskerTyped, AskerRecord
    <3> QED BY <2>1, <3>2 DEF AskerTyped
  <2> QED BY <2>2, <2>3
<1>4. DOMAIN asker' = Pc!Askers /\ asker' = [a \in Pc!Askers |-> asker'[a]]
  BY <1>1
<1>5. LookTypes'
  <2>1. \A a \in Pc!Askers : AskerTyped(asker[a])'
    BY <1>3 DEF AskerTyped
  <2>2. Looked(taken)' /\ Looked(perceptionLatest)'
    BY <1>1, FramesFrom DEF PerceptionTypes, LookTypes, Looked
  <2> QED BY <1>1, <1>4, <2>1, <2>2 DEF LookTypes
<1>6. AskersLine'
  <2>1. \A a \in Pc!Askers : Stands(perceptionLine', a) => asker'[a].phase = "asks"
    BY <1>1, <1>3 DEF PerceptionTypes, AskersLine
  <2> QED BY <1>1, <2>1 DEF PerceptionTypes, AskersLine
<1>7. SceneTypes'
  <2>1. perceptionStored' \subseteq perceptionStored \cup ({taken.picture} \ {0})
    BY <1>1 DEF Pc!Put, Pc!Kept
  <2> QED BY <1>1, <1>2, <2>1 DEF PerceptionTypes, SceneTypes
<1> QED BY <1>1, <1>5, <1>6, <1>7 DEF PerceptionTypes, CameraTypes

LEMMA RefreshTypes ==
    ASSUME PerceptionTypes,
           \/ Pc!RefreshFails
           \/ \E a \in Pc!Askers : Pc!TakeShared(a) \/ Pc!BeginRefresh(a)
    PROVE  PerceptionTypes'
<1>1. CASE Pc!RefreshFails
  <2>1. /\ holder # Pc!Nobody /\ holder' = Pc!Nobody /\ taken' = Pc!Nothing
        /\ asker' = [asker EXCEPT ![holder] = Pc!Idle]
        /\ UNCHANGED <<camera, perceptionDriver, perceptionLatest, perceptionStored,
                       perceptionLine, entities, evidence>>
    BY <1>1 DEF Pc!RefreshFails, Pc!devices, Pc!scene
  <2>2. /\ DOMAIN asker' = Pc!Askers /\ asker' = [a \in Pc!Askers |-> asker'[a]]
        /\ \A a \in Pc!Askers : asker'[a] = IF a = holder THEN Pc!Idle ELSE asker[a]
    BY <2>1 DEF PerceptionTypes, LookTypes
  <2>3. LookTypes'
    <3>1. \A a \in Pc!Askers : AskerTyped(asker[a])'
      BY <2>2, FramesFrom DEF PerceptionTypes, LookTypes, AskerTyped
    <3>2. Looked(taken)' /\ Looked(perceptionLatest)'
      BY <2>1, FramesFrom DEF PerceptionTypes, LookTypes, Looked
    <3> QED BY <2>1, <2>2, <3>1, <3>2 DEF LookTypes
  <2>4. AskersLine'
    BY <2>1, <2>2 DEF PerceptionTypes, AskersLine
  <2> QED BY <2>1, <2>3, <2>4 DEF PerceptionTypes, CameraTypes, SceneTypes
<1>2. ASSUME NEW a \in Pc!Askers, Pc!BeginRefresh(a) PROVE PerceptionTypes'
  <2>1. /\ holder = Pc!Nobody /\ perceptionLine # <<>> /\ a = Head(perceptionLine)
        /\ perceptionLine' = Tail(perceptionLine) /\ holder' = a /\ taken' = Pc!Nothing
        /\ UNCHANGED <<camera, perceptionDriver, perceptionLatest, perceptionStored,
                       asker, entities, evidence>>
    BY <1>2 DEF Pc!BeginRefresh, Pc!devices, Pc!scene
  <2>2. Stands(perceptionLine, a)
    <3>1. Len(perceptionLine) \in Nat /\ Len(perceptionLine) >= 1 /\ a = perceptionLine[1]
      BY <2>1, LineHasAHead DEF PerceptionTypes, AskersLine
    <3> QED BY <3>1 DEF Stands
  <2>3. /\ perceptionLine' \in Seq(Pc!Askers) /\ Distinct(perceptionLine')
        /\ \A b : Stands(perceptionLine', b) => Stands(perceptionLine, b) /\ b # a
    BY <2>1, LineAdvances DEF PerceptionTypes, AskersLine
  <2>4. LookTypes'
    BY <2>1, FramesFrom DEF PerceptionTypes, LookTypes, Looked, AskerTyped
  <2>5. AskersLine'
    BY <2>1, <2>2, <2>3 DEF PerceptionTypes, AskersLine
  <2> QED BY <2>1, <2>4, <2>5 DEF PerceptionTypes, CameraTypes, SceneTypes
<1>3. ASSUME NEW a \in Pc!Askers, Pc!TakeShared(a) PROVE PerceptionTypes'
  <2> DEFINE state == [asker[a] EXCEPT !.phase = "has", !.got = perceptionLatest]
  <2>1. /\ holder = Pc!Nobody /\ perceptionLine # <<>> /\ a = Head(perceptionLine)
        /\ perceptionLine' = Tail(perceptionLine) /\ perceptionLatest # Pc!Nothing
        /\ asker' = [asker EXCEPT ![a] = state]
        /\ UNCHANGED <<camera, perceptionDriver, holder, taken, perceptionLatest,
                       perceptionStored, entities, evidence>>
    BY <1>3 DEF Pc!TakeShared, Pc!Shares, Pc!devices, Pc!refreshes, Pc!scene, PerceptionTypes,
       LookTypes
  <2>2. AskerTyped(state)
    BY <2>1 DEF PerceptionTypes, LookTypes, Looked, AskerTyped, AskerRecord
  <2> HIDE DEF state
  <2>3. LookTypes' /\ \A b \in Pc!Askers : asker'[b] = IF b = a THEN state ELSE asker[b]
    BY <2>1, <2>2, AskerMoves DEF PerceptionTypes
  <2>4. /\ perceptionLine' \in Seq(Pc!Askers) /\ Distinct(perceptionLine')
        /\ \A b : Stands(perceptionLine', b) => Stands(perceptionLine, b) /\ b # a
    BY <2>1, LineAdvances DEF PerceptionTypes, AskersLine
  <2>5. AskersLine'
    BY <2>1, <2>3, <2>4 DEF PerceptionTypes, AskersLine
  <2> QED BY <2>1, <2>3, <2>5 DEF PerceptionTypes, CameraTypes, SceneTypes
<1> QED BY <1>1, <1>2, <1>3

(* The skills' own steps.                                                  *)
LEMMA SkillTypes == ASSUME PerceptionTypes, NEW s \in Skills, Pc!Skill(s) PROVE PerceptionTypes'
<1>0. /\ s \in Pc!Askers /\ AskerTyped(asker[s])
      /\ asker[s].after \in Pc!Frames /\ asker[s].got \in Pc!Look
      /\ perceptionDriver.frame \in Pc!Frames
  BY DEF Pc!Askers, PerceptionTypes, LookTypes, CameraTypes, AskerTyped, AskerRecord
<1>1. CASE \/ Pc!ClientObserve(s) \/ Pc!ActionEnded(s) \/ Pc!InspectScene(s) \/ Pc!LookAgain(s)
  <2>1. /\ asker[s].phase # "asks"
        /\ \E why \in {"observe", "evidence", "inspect"}, after \in Pc!Frames :
              Pc!Asks(s, why, after)
        /\ UNCHANGED <<camera, perceptionDriver, holder, taken, perceptionLatest,
                       perceptionStored, entities, evidence>>
    BY <1>0, <1>1, FramesFrom DEF Pc!ClientObserve, Pc!ActionEnded, Pc!InspectScene,
       Pc!LookAgain, Pc!Ask, Pc!devices, Pc!refreshes, Pc!scene
  <2>2. LookTypes' /\ AskersLine'
    BY <1>0, <2>1, AskingTypes
  <2> QED BY <2>1, <2>2 DEF PerceptionTypes, CameraTypes, SceneTypes
<1>2. CASE Pc!GiveUp(s)
  <2>1. PICK i \in 1..Len(perceptionLine) :
            perceptionLine[i] = s /\ perceptionLine' = Pc!RemoveAt(perceptionLine, i)
    BY <1>2 DEF Pc!GiveUp
  <2>2. /\ holder # s /\ asker' = [asker EXCEPT ![s] = Pc!Idle]
        /\ UNCHANGED <<camera, perceptionDriver, holder, taken, perceptionLatest,
                       perceptionStored, entities, evidence>>
    BY <1>2 DEF Pc!GiveUp, Pc!devices, Pc!refreshes, Pc!scene
  <2>3. perceptionLine' = Without(perceptionLine, i)
    BY <2>1 DEF Pc!RemoveAt, Without
  <2>4. /\ perceptionLine' \in Seq(Pc!Askers) /\ Distinct(perceptionLine')
        /\ \A b : Stands(perceptionLine', b) => Stands(perceptionLine, b) /\ b # s
    BY <2>1, <2>3, LineThins DEF PerceptionTypes, AskersLine
  <2>5. LookTypes' /\ \A b \in Pc!Askers : asker'[b] = IF b = s THEN Pc!Idle ELSE asker[b]
    <3>1. AskerTyped(Pc!Idle) /\ LookTypes
      BY FramesFrom DEF PerceptionTypes
    <3>2. UNCHANGED <<holder, taken, perceptionLatest>> /\ s \in Pc!Askers
      BY <1>0, <2>2
    <3> HIDE DEF AskerTyped
    <3> QED BY <2>2, <3>1, <3>2, AskerMoves
  <2>6. AskersLine'
    BY <2>2, <2>4, <2>5 DEF PerceptionTypes, AskersLine, LookTypes
  <2> QED BY <2>2, <2>5, <2>6 DEF PerceptionTypes, CameraTypes, SceneTypes
<1>3. CASE \/ Pc!Observed(s) \/ Pc!KeepEvidence(s) \/ Pc!NoPicture(s) \/ Pc!Captioned(s)
  <2>1. /\ asker[s].phase \in {"has", "captions"} /\ asker' = [asker EXCEPT ![s] = Pc!Idle]
        /\ UNCHANGED <<camera, perceptionDriver, perceptionLine, holder, taken,
                       perceptionLatest, perceptionStored>>
    BY <1>3 DEF Pc!Observed, Pc!KeepEvidence, Pc!NoPicture, Pc!Captioned, Pc!Answered,
       Pc!Leave, Pc!devices, Pc!refreshes
  <2>2. LookTypes' /\ AskersLine'
    BY <1>0, <2>1, FramesFrom, UsingTypes
  <2>3. entities' \in {entities, 0, asker[s].got.frame}
    BY <1>3 DEF Pc!Observed, Pc!KeepEvidence, Pc!NoPicture, Pc!Captioned, Pc!Answered,
       Pc!Joined, Pc!scene
  <2>4. entities' \in Pc!Frames
    BY <1>0, <2>3, FramesFrom DEF PerceptionTypes, SceneTypes, Pc!Look
  <2>5. \/ evidence' = evidence
        \/ \E p \in {0, asker[s].got.picture} :
              evidence' = [evidence EXCEPT ![s].picture = p, ![s].pinned = FALSE]
    BY <1>3 DEF Pc!Observed, Pc!KeepEvidence, Pc!NoPicture, Pc!Captioned, Pc!Answered,
       Pc!scene
  <2>6. evidence' \in [Skills -> [picture: Pc!Frames, pinned: BOOLEAN]]
    BY <1>0, <2>1, <2>5, FramesFrom DEF PerceptionTypes, SceneTypes, AskerTyped
  <2> QED BY <2>1, <2>2, <2>4, <2>6 DEF PerceptionTypes, CameraTypes, SceneTypes
<1>4. CASE Pc!PinEvidence(s)
  <2>1. /\ evidence' = [evidence EXCEPT ![s].pinned = TRUE]
        /\ UNCHANGED <<camera, perceptionDriver, perceptionLine, asker, holder, taken,
                       perceptionLatest, perceptionStored, entities>>
    BY <1>4 DEF Pc!PinEvidence, Pc!devices, Pc!requests, Pc!refreshes
  <2>2. evidence' \in [Skills -> [picture: Pc!Frames, pinned: BOOLEAN]]
    BY <2>1 DEF PerceptionTypes, SceneTypes
  <2> QED BY <2>1, <2>2 DEF PerceptionTypes, CameraTypes, LookTypes, SceneTypes, AskersLine,
             AskerTyped, Looked
<1>5. CASE Pc!StartCaption(s)
  <2> DEFINE state == [asker[s] EXCEPT !.phase = "captions"]
  <2>1. /\ asker[s].phase = "has" /\ asker' = [asker EXCEPT ![s] = state]
        /\ UNCHANGED <<camera, perceptionDriver, perceptionLine, holder, taken,
                       perceptionLatest, perceptionStored, entities, evidence>>
    BY <1>5 DEF Pc!StartCaption, Pc!devices, Pc!refreshes, Pc!scene, PerceptionTypes, LookTypes
  <2>2. AskerTyped(state)
    BY <1>0, <2>1 DEF AskerTyped, AskerRecord
  <2> HIDE DEF state
  <2>3. LookTypes' /\ AskersLine'
    BY <1>0, <2>1, <2>2, UsingTypes
  <2> QED BY <2>1, <2>3 DEF PerceptionTypes, CameraTypes, SceneTypes
<1>6. CASE Pc!LookAround(s)
  <2>1. /\ asker[s].phase = "captions" /\ Pc!Asks(s, "inspect", 0)
        /\ entities' \in {entities, asker[s].got.frame}
        /\ UNCHANGED <<camera, perceptionDriver, holder, taken, perceptionLatest,
                       perceptionStored, evidence>>
    BY <1>6 DEF Pc!LookAround, Pc!Answered, Pc!devices, Pc!refreshes
  <2>2. LookTypes' /\ AskersLine'
    BY <1>0, <2>1, FramesFrom, AskingTypes
  <2>3. entities' \in Pc!Frames
    BY <1>0, <2>1 DEF PerceptionTypes, SceneTypes, Pc!Look
  <2> QED BY <2>1, <2>2, <2>3 DEF PerceptionTypes, CameraTypes, SceneTypes
<1> QED BY <1>1, <1>2, <1>3, <1>4, <1>5, <1>6 DEF Pc!Skill

LEMMA PerceptionTypesKeep ==
    ASSUME PerceptionTypes, [Pc!Next]_(Pc!perceptionVars) PROVE PerceptionTypes'
<1>1. CASE UNCHANGED Pc!perceptionVars
  BY <1>1 DEF Pc!perceptionVars, PerceptionTypes, CameraTypes, LookTypes, SceneTypes,
     AskersLine, AskerTyped, Looked
<1>2. CASE Pc!LoopAsks
  <2>1. /\ ObservationLoop \in Pc!Askers /\ asker[ObservationLoop].phase # "asks"
        /\ Pc!Asks(ObservationLoop, "loop", 0)
        /\ UNCHANGED <<camera, perceptionDriver, holder, taken, perceptionLatest,
                       perceptionStored, entities, evidence>>
    BY <1>2 DEF Pc!LoopAsks, Pc!Ask, Pc!Askers, Pc!devices, Pc!refreshes, Pc!scene
  <2>2. LookTypes' /\ AskersLine'
    BY <2>1, FramesFrom, AskingTypes
  <2> QED BY <2>1, <2>2 DEF PerceptionTypes, CameraTypes, SceneTypes
<1>3. CASE Pc!Publish
  <2>1. /\ ObservationLoop \in Pc!Askers /\ asker[ObservationLoop].phase = "has"
        /\ asker' = [asker EXCEPT ![ObservationLoop] = Pc!Idle] /\ entities' \in {entities, 0}
        /\ UNCHANGED <<camera, perceptionDriver, perceptionLine, holder, taken,
                       perceptionLatest, perceptionStored, evidence>>
    BY <1>3 DEF Pc!Publish, Pc!Leave, Pc!Joined, Pc!Askers, Pc!devices, Pc!refreshes
  <2>2. LookTypes' /\ AskersLine'
    BY <2>1, FramesFrom, UsingTypes
  <2>3. entities' \in Pc!Frames
    BY <2>1, FramesFrom DEF PerceptionTypes, SceneTypes
  <2> QED BY <2>1, <2>2, <2>3 DEF PerceptionTypes, CameraTypes, SceneTypes
<1> QED
  BY <1>1, <1>2, <1>3, CameraTypesKeep, CaptureTypes, EndTypes, RefreshTypes, SkillTypes
  DEF Pc!Next

(* Nobody stands in the line twice, so it is no longer than there are      *)
(* askers.                                                                 *)
LEMMA PerceptionIsTyped == PerceptionTypes => Pc!TypeOK
<1> SUFFICES ASSUME PerceptionTypes PROVE Pc!TypeOK
  OBVIOUS
<1>1. perceptionLine \in Pc!BoundedSeq(Pc!Askers, Pc!Cardinality(Pc!Askers))
  <2>1. IsFiniteSet(Pc!Askers)
    BY ModelAssumption, FS_AddElement DEF Pc!Askers
  <2>2. Pc!Cardinality(Pc!Askers) = Cardinality(Pc!Askers)
    BY DEF Pc!Cardinality, Cardinality
  <2> DEFINE n == Len(perceptionLine)
             most == Cardinality(Pc!Askers)
  <2>3. n \in Nat /\ n <= most /\ most \in Nat /\ perceptionLine \in [1..n -> Pc!Askers]
    BY <2>1, FS_CardinalityType, LinesAreShort, LenProperties DEF PerceptionTypes, AskersLine
  <2> HIDE DEF n, most
  <2>4. n \in 0..most
    BY <2>3
  <2>5. perceptionLine \in Pc!BoundedSeq(Pc!Askers, most)
    BY <2>3, <2>4 DEF Pc!BoundedSeq, Pc!SeqOf
  <2> QED BY <2>2, <2>5 DEF most
<1>2. asker \in [Pc!Askers -> AskerRecord]
  BY DEF PerceptionTypes, LookTypes, AskerTyped
<1>3. taken \in Pc!Look /\ perceptionLatest \in Pc!Look
  BY DEF PerceptionTypes, LookTypes, Looked
<1> QED BY <1>1, <1>2, <1>3 DEF PerceptionTypes, CameraTypes, LookTypes, SceneTypes, AskerRecord,
           Pc!TypeOK

-----------------------------------------------------------------------------
(* Each service keeps its types.  Perception, the policy service and the   *)
(* options need more than their types for it: the bounds of the counters   *)
(* and of the line rest on where each of them stands.                      *)
ModelInv ==
    /\ PerceptionTypes /\ PolicyInv /\ PolicyRest /\ OptionCounts
    /\ Vp!TypeOK /\ Aa!TypeOK

LEMMA ModelBegins == ModelServicesInit => ModelInv
<1> SUFFICES ASSUME ModelServicesInit PROVE ModelInv
  OBVIOUS
<1>1. PerceptionTypes
  <2>1. Pc!Init
    BY DEF ModelServicesInit
  <2>2. CameraTypes /\ SceneTypes
    BY <2>1, FramesFrom DEF Pc!Init, CameraTypes, SceneTypes
  <2>3. LookTypes
    BY <2>1, FramesFrom DEF Pc!Init, LookTypes
  <2>4. perceptionLine = <<>> /\ <<>> \in Seq(Pc!Askers) /\ Len(<<>>) = 0
    BY <2>1, EmptySeq DEF Pc!Init
  <2>5. AskersLine
    BY <2>1, <2>4 DEF Pc!Init, AskersLine, Distinct, Stands
  <2> QED BY <2>2, <2>3, <2>5 DEF PerceptionTypes
<1>2. PolicyInv
  BY PolicyBegins
<1>3. PolicyRest
  <2>1. Ps!Init /\ 0 \in 0..MaxCalls /\ 0 \in 0..MaxCancels
    BY ModelAssumption DEF ModelServicesInit
  <2>2. rpc \in [PolicyRuns -> {"idle", "waiting", "over"}] /\ calls \in [PolicyRuns -> 0..MaxCalls]
    BY <2>1 DEF Ps!Init
  <2>3. awaited \in [PolicyRuns -> BOOLEAN]
    BY <2>1 DEF Ps!Init
  <2>4. health \in [Ps!Processes -> {"up", "hung", "dead"}]
    BY <2>1 DEF Ps!Init
  <2> QED BY <2>1, <2>2, <2>3, <2>4 DEF Ps!Init, PolicyRest
<1>4. OptionCounts
  <2>1. Mo!Init /\ chunk = <<>> /\ <<>> \in Seq({"move", "stop"})
    BY EmptySeq DEF ModelServicesInit, Mo!Init
  <2>2. OptionTypes
    BY <2>1 DEF Mo!Init, OptionTypes
  <2>3. VlaCounts /\ VlnCounts
    BY <2>1, ModelAssumption DEF Mo!Init, VlaCounts, VlnCounts
  <2> QED BY <2>2, <2>3 DEF OptionCounts
<1>5. Vp!TypeOK
  <2>1. Vp!Init /\ 0 \in 0..MaxPlans /\ 0 \in 0..Replans
    BY ModelAssumption DEF ModelServicesInit
  <2> QED BY <2>1 DEF Vp!Init, Vp!TypeOK, Vp!NoWaypoint
<1>6. Aa!TypeOK
  BY DEF ModelServicesInit, Aa!Init, Aa!TypeOK, Aa!States, Aa!Levels, Aa!Actions, Aa!Outcomes
<1> QED BY <1>1, <1>2, <1>3, <1>4, <1>5, <1>6 DEF ModelInv

(* However the services and those who use them interleave, each keeps its  *)
(* types: no thread, reply or cancellation brings a counter past its bound *)
(* or a picture that no camera took.                                       *)
THEOREM ModelTypesAreKept == ModelServicesSpec => []ModelTypes
<1>1. ModelInv /\ [ModelServicesNext]_modelVars => ModelInv'
  <2> SUFFICES ASSUME ModelInv, [ModelServicesNext]_modelVars PROVE ModelInv'
    OBVIOUS
  <2>1. PerceptionTypes'
    BY ModelSteps, PerceptionTypesKeep DEF ModelInv
  <2>2. PolicyInv' /\ PolicyRest'
    BY ModelSteps, PolicyKeeps, PolicyRestKeeps DEF ModelInv
  <2>3. OptionCounts'
    BY ModelSteps, OptionCountsKeep DEF ModelInv
  <2>4. Vp!TypeOK' /\ Aa!TypeOK'
    BY ModelSteps, PlannerTypes, AdmissionTypes DEF ModelInv
  <2> QED BY <2>1, <2>2, <2>3, <2>4 DEF ModelInv
<1>2. ModelInv => ModelTypes
  BY PerceptionIsTyped, PolicyServiceTypes, OptionIsTyped DEF ModelInv, ModelTypes
<1> QED BY ModelBegins, <1>1, <1>2, PTL DEF ModelServicesSpec

-----------------------------------------------------------------------------
(* Whichever component moves, each one steps or stutters.                  *)
LEMMA HardwareSteps ==
    ASSUME [RobotHardwareNext]_robotVars
    PROVE  /\ [Bs!Next]_(Bs!busVars) /\ [Dk!Next]_(Dk!dockVars)
           /\ [Mk!Next]_(Mk!mockVars) /\ [Sd!Next]_(Sd!simVars)
           /\ [Ct!Next]_(Ct!casaVars)
BY DEF RobotHardwareNext, robotVars, ServoStep, DockStep, MockStep, SimulationStep,
   TrialStep, servoVars, dockVars, mockVars, simulationVars, trialVars, Bs!busVars,
   Dk!dockVars, Mk!mockVars, Sd!simVars, Ct!casaVars

-----------------------------------------------------------------------------
(* The trials of the evaluation.                                           *)
(* A step that went through lies behind: in a trial that was begun and, in *)
(* the active one, before its current frame.                               *)
Acts == [tries : Nat, through : BOOLEAN]

Behind(t, f) == t <= begun /\ (t = trial => f < frame)

TrialInv ==
    /\ begun \in Nat /\ frame \in Nat /\ trial \in 0..begun
    /\ acted \in [Ct!Trials -> [Ct!Frames -> Acts]]
    /\ \A t \in Ct!Trials : \A f \in Ct!Frames : acted[t][f].through => Behind(t, f)

(* What a step that executes no action may do: end the trial.              *)
Idles == UNCHANGED <<begun, frame, acted>> /\ trial' \in {trial, 0}

(* Requests, answers and deadlines execute nothing.                        *)
LEMMA OthersIdle ==
    ASSUME NEW i \in Ct!Rpcs,
           \/ Ct!Serve(i) \/ Ct!Receive(i) \/ Ct!CreationFails(i) \/ Ct!StepRefused(i) \/ Ct!Ended(i)
           \/ Ct!DriverStart \/ Ct!DriverObserve \/ Ct!Reset
           \/ \E f \in Ct!Frames : Ct!ApplyAction(f)
           \/ \E op \in Ct!Ops : Ct!BenchSends(op)
    PROVE  Idles
<1>1. CASE Ct!Serve(i)
  BY <1>1 DEF Ct!Serve, Ct!Observe, Ct!BeginTrial, Ct!Step, Ct!EndTrial, Ct!environment,
     Idles
<1>2. CASE Ct!Receive(i)
  BY <1>2 DEF Ct!Receive, Ct!Observed, Ct!Applied, Ct!ResetEnded, Ct!ResetBegun,
     Ct!DriverGivesUp, Ct!BenchReceives, Ct!BenchGivesUp, Ct!environment, Idles
<1>3. CASE Ct!CreationFails(i) \/ Ct!StepRefused(i) \/ Ct!Ended(i)
  BY <1>3 DEF Ct!CreationFails, Ct!StepRefused, Ct!Ended, Ct!environment, Idles
<1>4. CASE \/ Ct!DriverStart \/ Ct!DriverObserve \/ Ct!Reset
           \/ \E f \in Ct!Frames : Ct!ApplyAction(f)
           \/ \E op \in Ct!Ops : Ct!BenchSends(op)
  BY <1>4 DEF Ct!DriverStart, Ct!DriverObserve, Ct!Reset, Ct!ApplyAction, Ct!BenchSends,
     Ct!environment, Idles
<1> QED BY <1>1, <1>2, <1>3, <1>4

(* An idle step leaves everything behind that was behind.                  *)
LEMMA IdlingKeeps == ASSUME TrialInv, Idles PROVE TrialInv'
BY DEF TrialInv, Idles, Behind, Ct!Trials

(* A new trial has a new number, of which nothing has been acted on.       *)
LEMMA CreatingKeeps == ASSUME NEW i \in Ct!Rpcs, TrialInv, Ct!Created(i) PROVE TrialInv'
<1>1. begun' = begun + 1 /\ trial' = begun + 1 /\ frame' = 0 /\ acted' = acted
  BY DEF Ct!Created
<1> QED BY <1>1 DEF TrialInv, Behind, Ct!Trials

(* What is executed is executed on the current frame, of the active trial. *)
ActsNow(through) ==
    /\ trial # 0 /\ trial \in 0..begun
    /\ acted' = [acted EXCEPT ![trial][frame] =
                    [tries |-> @.tries + 1, through |-> @.through \/ through]]

LEMMA ExecutedNow ==
    ASSUME NEW i \in Ct!Rpcs, TrialInv
    PROVE  /\ Ct!Stepped(i) => ActsNow(TRUE)
           /\ Ct!StepBreaks(i) => ActsNow(FALSE)
BY DEF Ct!Stepped, Ct!StepBreaks, Ct!Executes, Ct!Accepts, ActsNow, TrialInv

LEMMA ActsTyped ==
    ASSUME TrialInv, NEW through \in BOOLEAN, ActsNow(through)
    PROVE  /\ acted' \in [Ct!Trials -> [Ct!Frames -> Acts]]
           /\ \A t \in Ct!Trials : \A f \in Ct!Frames :
                /\ ~(t = trial /\ f = frame) => acted'[t][f] = acted[t][f]
                /\ t = trial /\ f = frame /\ ~through =>
                      acted'[t][f].through = acted[t][f].through
<1>1. acted \in [Ct!Trials -> [Ct!Frames -> Acts]]
  BY DEF TrialInv
<1> DEFINE Next1(r) == [tries |-> r.tries + 1, through |-> r.through \/ through]
<1>2. \A r \in Acts : Next1(r) \in Acts /\ (~through => Next1(r).through = r.through)
  BY DEF Acts
<1>3. acted' = [t \in Ct!Trials |-> [f \in Ct!Frames |->
                   IF t = trial /\ f = frame THEN Next1(acted[t][f]) ELSE acted[t][f]]]
  BY <1>1 DEF ActsNow
<1> HIDE DEF Next1
<1> QED BY <1>1, <1>2, <1>3

(* A step that breaks off leaves the frame where it is.                    *)
LEMMA BreakingKeeps == ASSUME NEW i \in Ct!Rpcs, TrialInv, Ct!StepBreaks(i) PROVE TrialInv'
<1>1. UNCHANGED <<trial, begun, frame>>
  BY DEF Ct!StepBreaks
<1>2. ActsNow(FALSE)
  BY ExecutedNow
<1> QED BY <1>1, <1>2, ActsTyped DEF TrialInv, Behind

(* One that goes through acts on the current frame, then the last behind.  *)
LEMMA SteppingKeeps == ASSUME NEW i \in Ct!Rpcs, TrialInv, Ct!Stepped(i) PROVE TrialInv'
<1>1. trial' = trial /\ begun' = begun /\ frame' = frame + 1
  BY DEF Ct!Stepped
<1>2. ActsNow(TRUE)
  BY ExecutedNow
<1>3. ASSUME NEW t \in Ct!Trials, NEW f \in Ct!Frames, acted'[t][f].through PROVE Behind(t, f)'
  <2>1. f \in Nat /\ frame \in Nat
    BY DEF TrialInv, Ct!Frames
  <2>2. CASE t = trial /\ f = frame
    BY <1>1, <1>2, <2>1, <2>2 DEF ActsNow, Behind
  <2>3. CASE ~(t = trial /\ f = frame)
    <3>1. Behind(t, f)
      BY <1>2, <1>3, <2>3, ActsTyped DEF TrialInv
    <3> QED BY <1>1, <2>1, <3>1 DEF Behind
  <2> QED BY <2>2, <2>3
<1>4. begun' \in Nat /\ frame' \in Nat /\ trial' \in 0..begun'
  BY <1>1 DEF TrialInv
<1>5. acted' \in [Ct!Trials -> [Ct!Frames -> Acts]]
  BY <1>2, ActsTyped
<1> QED BY <1>3, <1>4, <1>5 DEF TrialInv

(* The actions of one request are those of the service, of its thread and  *)
(* of its client.                                                          *)
LEMMA TrialKeeps == ASSUME TrialInv, [Ct!Next]_(Ct!casaVars) PROVE TrialInv'
<1>1. CASE UNCHANGED Ct!casaVars
  BY <1>1, IdlingKeeps DEF Ct!casaVars, Idles
<1>2. ASSUME NEW i \in Ct!Rpcs, Ct!Serve(i) \/ Ct!Thread(i) \/ Ct!Receive(i) PROVE TrialInv'
  BY <1>2, OthersIdle, IdlingKeeps, CreatingKeeps, SteppingKeeps, BreakingKeeps
     DEF Ct!Thread
<1>3. CASE \/ Ct!DriverStart \/ Ct!DriverObserve \/ Ct!Reset
           \/ \E f \in Ct!Frames : Ct!ApplyAction(f)
           \/ \E op \in Ct!Ops : Ct!BenchSends(op)
  <2>1. Idles
    BY <1>3 DEF Ct!DriverStart, Ct!DriverObserve, Ct!Reset, Ct!ApplyAction, Ct!BenchSends,
       Ct!environment, Idles
  <2> QED BY <2>1, IdlingKeeps
<1> QED BY <1>1, <1>2, <1>3 DEF Ct!Next

(* Only the thread of a step executes an action.                           *)
LEMMA ActingIsAStep ==
    ASSUME TrialInv, [Ct!Next]_(Ct!casaVars)
    PROVE  acted' = acted \/ \E through \in BOOLEAN : ActsNow(through)
<1>1. CASE UNCHANGED Ct!casaVars
  BY <1>1 DEF Ct!casaVars
<1>2. ASSUME NEW i \in Ct!Rpcs, Ct!Serve(i) \/ Ct!Thread(i) \/ Ct!Receive(i)
      PROVE  acted' = acted \/ \E through \in BOOLEAN : ActsNow(through)
  <2>1. CASE Ct!Created(i)
    BY <2>1 DEF Ct!Created
  <2>2. CASE Ct!Stepped(i) \/ Ct!StepBreaks(i)
    BY <2>2, ExecutedNow
  <2> QED BY <1>2, <2>1, <2>2, OthersIdle DEF Idles, Ct!Thread
<1>3. CASE \/ Ct!DriverStart \/ Ct!DriverObserve \/ Ct!Reset
           \/ \E f \in Ct!Frames : Ct!ApplyAction(f)
           \/ \E op \in Ct!Ops : Ct!BenchSends(op)
  BY <1>3 DEF Ct!DriverStart, Ct!DriverObserve, Ct!Reset, Ct!ApplyAction, Ct!BenchSends,
     Ct!environment
<1> QED BY <1>1, <1>2, <1>3 DEF Ct!Next

(* A step that went through is not executed again on the frame it was      *)
(* chosen on, though its answer was lost or late: that frame lies behind,  *)
(* and what is executed is executed on the current one.                    *)
THEOREM StepsAreNotRepeated == RobotHardwareSpec => NoStepRepeated
<1>1. RobotHardwareInit => TrialInv
  BY DEF RobotHardwareInit, Ct!Init, TrialInv, Acts, Behind, Ct!Trials, Ct!Frames
<1>2. TrialInv /\ [RobotHardwareNext]_robotVars => TrialInv'
  BY TrialKeeps, HardwareSteps
<1>3. TrialInv /\ [RobotHardwareNext]_robotVars =>
        [\A t \in Ct!Trials : \A f \in Ct!Frames :
            acted[t][f].through => acted'[t][f] = acted[t][f]]_(Ct!casaVars)
  <2> SUFFICES ASSUME TrialInv, [Ct!Next]_(Ct!casaVars),
                      NEW t \in Ct!Trials, NEW f \in Ct!Frames, acted[t][f].through
               PROVE  acted'[t][f] = acted[t][f]
    BY HardwareSteps
  <2>1. ~(t = trial /\ f = frame)
    BY DEF TrialInv, Behind
  <2> QED BY <2>1, ActingIsAStep, ActsTyped
<1> QED
  BY <1>1, <1>2, <1>3, PTL DEF RobotHardwareSpec, NoStepRepeated, Ct!NoStepRepeated

-----------------------------------------------------------------------------
(* What a gripper holds.                                                   *)
WandInv ==
    /\ dockActive \in BOOLEAN /\ gripped \in BOOLEAN /\ docked \in BOOLEAN
    /\ Dk!WandIsKept

(* What a primitive may do to the wand, whoever calls it.                  *)
WandStays == UNCHANGED <<gripped, docked>> /\ dockActive' \in {dockActive, TRUE}

LEMMA WandStaysKept == ASSUME WandInv, WandStays PROVE WandInv'
BY DEF WandInv, WandStays, Dk!WandIsKept

(* A gripper command moves the wand from weld to weld, never to neither.   *)
LEMMA GripperKeeps ==
    ASSUME WandInv, Dk!OpenGripper \/ Dk!CloseGripper PROVE WandInv'
<1>1. CASE Dk!OpenGripper
  <2>1. \/ gripped' = FALSE /\ docked' = TRUE /\ dockActive' = FALSE
        \/ UNCHANGED <<gripped, docked>> /\ dockActive' = dockActive
    BY <1>1 DEF Dk!OpenGripper, Dk!Released, Dk!wand
  <2> QED BY <2>1, WandStaysKept DEF WandInv, Dk!WandIsKept, WandStays
<1>2. CASE Dk!CloseGripper
  <2>1. \/ dockActive /\ gripped' = TRUE /\ docked' = FALSE /\ dockActive' = dockActive
        \/ UNCHANGED <<gripped, docked>> /\ dockActive' = dockActive
    BY <1>2 DEF Dk!CloseGripper
  <2>2. CASE dockActive /\ gripped' = TRUE /\ docked' = FALSE /\ dockActive' = dockActive
    BY <2>2 DEF WandInv, Dk!WandIsKept
  <2>3. CASE UNCHANGED <<gripped, docked>> /\ dockActive' = dockActive
    BY <2>3, WandStaysKept DEF WandStays
  <2> QED BY <2>1, <2>2, <2>3
<1> QED BY <1>1, <1>2

LEMMA WandKeeps == ASSUME WandInv, [Dk!Next]_(Dk!dockVars) PROVE WandInv'
<1>1. CASE UNCHANGED Dk!dockVars
  BY <1>1, WandStaysKept DEF Dk!dockVars, WandStays
<1>2. CASE \/ \E direction \in {"forward", "backward", "left", "right"} :
                Dk!MoveBase(direction)
           \/ \E quarter \in {1, 3} : Dk!TurnBase(quarter)
           \/ \E s \in {"pick", "place"} : Dk!StartSkill(s)
  BY <1>2, WandStaysKept DEF Dk!MoveBase, Dk!TurnBase, Dk!StartSkill, Dk!wand, WandStays
<1>3. CASE Dk!Reset \/ Dk!Reconnect
  BY <1>3 DEF Dk!Reset, Dk!Reconnect, Dk!Fresh, WandInv, Dk!WandIsKept
<1>4. CASE Dk!OtherSkill
  BY <1>4, GripperKeeps, WandStaysKept DEF Dk!OtherSkill, Dk!ResetPosture, Dk!wand, WandStays
<1>5. CASE Dk!CallOpen \/ Dk!CallClose
  BY <1>5, GripperKeeps DEF Dk!CallOpen, Dk!CallClose
<1>6. CASE Dk!CallPosture \/ Dk!Locate \/ Dk!CallIk \/ Dk!CallAbove \/ Dk!CallOn
  BY <1>6, WandStaysKept DEF Dk!CallPosture, Dk!ResetPosture, Dk!Locate, Dk!CallIk,
     Dk!SolveIk, Dk!CallAbove, Dk!CallOn, Dk!MoveArm, Dk!wand, WandStays
<1>7. CASE Dk!LookForTarget \/ Dk!LookAtResult \/ Dk!FailSkill
  BY <1>7, WandStaysKept DEF Dk!LookForTarget, Dk!LookAtResult, Dk!FailSkill, Dk!wand,
     WandStays
<1> QED BY <1>1, <1>2, <1>3, <1>4, <1>5, <1>6, <1>7 DEF Dk!Next

(* An object lies in the mock gripper only while it is marked as held; the *)
(* one the robot remembers is among them.                                  *)
GripperInv ==
    /\ settings \in Deployments
    /\ objects \in [Objects -> [held : BOOLEAN, visible : BOOLEAN, place : Mk!Places]]
    /\ mockHeld \in Objects \cup {NoObject}
    /\ \A o \in Objects : objects[o].place = "gripper" => objects[o].held
    /\ mockHeld # NoObject => objects[mockHeld].place = "gripper"

LEMMA GripperStays ==
    ASSUME GripperInv, UNCHANGED <<settings, objects, mockHeld>> PROVE GripperInv'
BY DEF GripperInv

LEMMA ScanKeeps == ASSUME NEW o \in Objects, GripperInv, Mk!Scan(o) PROVE GripperInv'
<1>1. UNCHANGED <<settings, mockHeld>> /\ objects' \in {objects, [objects EXCEPT ![o].visible = TRUE]}
  BY DEF Mk!Scan
<1>2. CASE objects' = objects
  BY <1>1, <1>2, GripperStays
<1>3. CASE objects' = [objects EXCEPT ![o].visible = TRUE]
  <2>1. /\ objects' \in [Objects -> [held : BOOLEAN, visible : BOOLEAN, place : Mk!Places]]
        /\ \A x \in Objects : /\ objects'[x].place = objects[x].place
                              /\ objects'[x].held = objects[x].held
    <3>1. objects \in [Objects -> [held : BOOLEAN, visible : BOOLEAN, place : Mk!Places]]
      BY DEF GripperInv
    <3> QED BY <1>3, <3>1
  <2> QED BY <1>1, <2>1 DEF GripperInv
<1> QED BY <1>1, <1>2, <1>3

LEMMA GraspKeeps == ASSUME NEW o \in Objects, GripperInv, Mk!Grasp(o) PROVE GripperInv'
<1>1. /\ mockHeld' = o /\ UNCHANGED settings
      /\ objects' = [objects EXCEPT ![o] =
                       [held |-> TRUE, visible |-> FALSE, place |-> "gripper"]]
  BY DEF Mk!Grasp, Mk!Succeed
<1> QED BY <1>1 DEF GripperInv, Mk!Places

LEMMA OpenKeeps == ASSUME GripperInv, Mk!Open PROVE GripperInv'
<1>1. /\ mockHeld' = NoObject /\ UNCHANGED settings
      /\ objects' = IF mockHeld = NoObject THEN objects ELSE Mk!LetGo(mockHeld)
  BY DEF Mk!Open, Mk!Succeed
<1>2. CASE mockHeld = NoObject
  BY <1>1, <1>2 DEF GripperInv
<1>3. CASE mockHeld # NoObject
  <2>1. mockHeld \in Objects
    BY <1>3 DEF GripperInv
  <2>2. objects' = [objects EXCEPT ![mockHeld] =
                      [held |-> FALSE, visible |-> TRUE, place |-> "workspace"]]
    BY <1>1, <1>3 DEF Mk!LetGo
  <2>3. objects' \in [Objects -> [held : BOOLEAN, visible : BOOLEAN, place : Mk!Places]]
    BY <2>1, <2>2 DEF GripperInv, Mk!Places
  <2>4. ASSUME NEW o \in Objects, objects'[o].place = "gripper" PROVE objects'[o].held
    <3>1. o # mockHeld /\ objects'[o] = objects[o]
      BY <2>1, <2>2, <2>4 DEF GripperInv
    <3> QED BY <3>1, <2>4 DEF GripperInv
  <2> QED BY <1>1, <2>3, <2>4 DEF GripperInv
<1> QED BY <1>2, <1>3

LEMMA SettingsAreTyped == \A s \in Deployments : s.seen \in [Objects -> BOOLEAN]
BY RobotHardwareAssumption DEF Mk!Settings

(* A new world has everything on the table.                                *)
LEMMA NewWorld ==
    ASSUME NEW w, NEW s \in Deployments,
           w = [o \in Objects |->
                  [held |-> FALSE, visible |-> s.seen[o], place |-> "table"]]
    PROVE  /\ w \in [Objects -> [held : BOOLEAN, visible : BOOLEAN, place : Mk!Places]]
           /\ \A o \in Objects : w[o].place = "table"
BY SettingsAreTyped DEF Mk!Places

LEMMA GripperKeepsHold == ASSUME GripperInv, [Mk!Next]_(Mk!mockVars) PROVE GripperInv'
<1>1. CASE UNCHANGED Mk!mockVars
  BY <1>1, GripperStays DEF Mk!mockVars
<1>2. CASE Mk!Start \/ Mk!Close
  BY <1>2, GripperStays DEF Mk!Start, Mk!Close, Mk!world
<1>3. CASE Mk!Reset
  <2>1. /\ mockHeld' = NoObject
        /\ objects' = [o \in Objects |->
             [held |-> FALSE, visible |-> settings.seen[o], place |-> "table"]]
        /\ settings' = settings
    BY <1>3 DEF Mk!Reset
  <2>2. settings \in Deployments
    BY DEF GripperInv
  <2>3. /\ objects' \in [Objects -> [held : BOOLEAN, visible : BOOLEAN, place : Mk!Places]]
        /\ \A o \in Objects : objects'[o].place = "table"
    BY <2>1, <2>2, NewWorld
  <2> QED BY <2>1, <2>2, <2>3 DEF GripperInv
<1>4. CASE \E o \in Objects : Mk!Scan(o) \/ Mk!Grasp(o)
  BY <1>4, ScanKeeps, GraspKeeps
<1>5. CASE \E action \in Mk!Actions :
             Mk!Injected(action) \/ \E complete \in BOOLEAN : Mk!Refuse(action, complete)
  BY <1>5, GripperStays DEF Mk!Refuse, Mk!Injected, Mk!Unsuccessful, Mk!world
<1>6. CASE Mk!BeyondLimit \/ Mk!StopMotion \/ Mk!MoveBase \/ Mk!MoveArm \/ Mk!ResetPosture
  BY <1>6, GripperStays DEF Mk!BeyondLimit, Mk!Unsuccessful, Mk!world, Mk!StopMotion,
     Mk!MoveBase, Mk!MoveArm, Mk!ResetPosture, Mk!Succeed
<1>7. CASE Mk!Open
  BY <1>7, OpenKeeps
<1>8. CASE Mk!HalfOpen \/ Mk!CloseOnNothing
  BY <1>8, GripperStays DEF Mk!HalfOpen, Mk!CloseOnNothing, Mk!Succeed
<1> QED BY <1>1, <1>2, <1>3, <1>4, <1>5, <1>6, <1>7, <1>8 DEF Mk!Next

(* Whatever is given up on the way, the wand is in its dock or in the      *)
(* gripper, and the mock gripper never shows what it holds in the scene.   *)
THEOREM HeldObjectsAreKept == RobotHardwareSpec => []HeldIsKept
<1> DEFINE HoldInv == WandInv /\ GripperInv
<1>1. RobotHardwareInit => HoldInv
  <2> SUFFICES ASSUME RobotHardwareInit PROVE WandInv /\ GripperInv
    OBVIOUS
  <2>1. WandInv
    BY DEF RobotHardwareInit, Dk!Init, WandInv, Dk!WandIsKept
  <2>2. /\ objects \in [Objects -> [held : BOOLEAN, visible : BOOLEAN, place : Mk!Places]]
        /\ \A o \in Objects : objects[o].place = "table"
    BY NewWorld DEF RobotHardwareInit, Mk!Init
  <2>3. GripperInv
    BY <2>2 DEF RobotHardwareInit, Mk!Init, GripperInv
  <2> QED BY <2>1, <2>3
<1>2. HoldInv /\ [RobotHardwareNext]_robotVars => HoldInv'
  BY WandKeeps, GripperKeepsHold, HardwareSteps
<1>3. HoldInv => HeldIsKept
  BY DEF WandInv, GripperInv, HeldIsKept, Mk!HeldIsOutOfSight, Mk!InSight
<1> QED
  BY <1>1, <1>2, <1>3, PTL DEF RobotHardwareSpec

-----------------------------------------------------------------------------
(* Readings. Between two exchanges nothing that a servo ever answered is   *)
(* left in the group, and a call that reads is about one joint.            *)
NothingLeft == \A b \in DOMAIN group : group[b] = {}

Asks == {"read", "delta"}

Calls == [step : Bs!Steps, arms : SUBSET Arms, got : Bs!Readings, had : SUBSET Bs!Angles]

ReadingInv ==
    /\ call \in [Bs!Threads -> Calls]
    /\ NothingLeft
    /\ \A t \in Bs!Threads : call[t].step \in Asks => \E a \in Arms : call[t].arms = {a}

(* Whatever is asked is asked anew: what is not answered now is nothing.   *)
LEMMA AskedIsEmpty ==
    ASSUME NEW a \in Arms, NothingLeft
    PROVE  /\ \A b \in DOMAIN Bs!AskedWith(a) : Bs!AskedWith(a)[b] = {}
           /\ a \in DOMAIN Bs!AskedWith(a)
BY DEF NothingLeft, Bs!AskedWith

(* What a group read returns is measured while it runs, and it leaves      *)
(* nothing behind.                                                         *)
LEMMA ReadIsFresh ==
    ASSUME NEW a \in Arms, NEW got, NothingLeft, Bs!SyncRead(a, got)
    PROVE  got \subseteq {angle[a]} /\ NothingLeft'
<1> DEFINE asked == Bs!AskedWith(a)
<1>1. (\A b \in DOMAIN asked : asked[b] = {}) /\ a \in DOMAIN asked
  BY AskedIsEmpty
<1>2. \A s : Bs!Cleared(s) = [x \in {} |-> {}]
  BY DEF Bs!Cleared, Bs!NothingRead
<1>3. NothingLeft'
  BY <1>2 DEF Bs!SyncRead, NothingLeft
<1>4. got = {} => got \subseteq {angle[a]}
  OBVIOUS
<1>5. got = asked[a] => got \subseteq {angle[a]}
  BY <1>1
<1>6. ASSUME NEW who, got = Bs!AnsweredBy(asked, who)[a] PROVE got \subseteq {angle[a]}
  BY <1>6, <1>1 DEF Bs!AnsweredBy
<1> QED BY <1>3, <1>4, <1>5, <1>6 DEF Bs!SyncRead

Answers == {"assign"}

(* A step that answers no reader, and keeps the invariant.                 *)
NoReader ==
    /\ ReadingInv'
    /\ \A t \in Bs!Threads : call[t].step \in Asks => call'[t].step \notin Answers

(* The steps that neither read nor follow a reading.                       *)
LEMMA StepIsKnown ==
    /\ Asks \subseteq Bs!Steps /\ Answers \subseteq Bs!Steps /\ Asks \cap Answers = {}
    /\ {"none", "ping base", "limp", "wheel mode", "hold", "ping arm", "arm holds",
        "target", "write", "stop arm", "close arm", "close bus", "done", "over"}
          \subseteq Bs!Steps \ (Asks \cup Answers)
BY DEF Bs!Steps, Asks, Answers

(* A thread that does not go on to read leaves the readings alone.         *)
LEMMA OneCallMoves ==
    ASSUME NEW t \in Bs!Threads, ReadingInv, NothingLeft',
           NEW c \in Calls,
           call' = [call EXCEPT ![t] = c],
           c.step \in Asks => \E a \in Arms : c.arms = {a}
    PROVE  ReadingInv' /\ (c.step \notin Answers => NoReader)
<1>1. ReadingInv'
  BY DEF ReadingInv
<1>2. \A s \in Bs!Threads : call'[s] = IF s = t THEN c ELSE call[s]
  BY DEF ReadingInv
<1> QED BY <1>1, <1>2, StepIsKnown DEF NoReader

(* Several calls may change in one step.                                   *)
LEMMA CallsMove ==
    ASSUME NothingLeft', call' \in [Bs!Threads -> Calls],
           \A t \in Bs!Threads : call'[t].step \in Asks => \E a \in Arms : call'[t].arms = {a},
           \A t \in Bs!Threads : call[t].step \in Asks => call'[t].step \notin Answers
    PROVE  NoReader
BY DEF ReadingInv, NoReader

LEMMA NoCallMoves == ASSUME ReadingInv, NothingLeft', UNCHANGED call PROVE NoReader
BY StepIsKnown DEF ReadingInv, NoReader

LEMMA GroupStays == ASSUME NothingLeft, UNCHANGED group PROVE NothingLeft'
BY DEF NothingLeft

(* A call that moves on, or ends.                                          *)
LEMMA MovingOn ==
    ASSUME NEW t \in Bs!Threads, NEW step \in Bs!Steps \ (Asks \cup Answers), ReadingInv, NothingLeft',
           Bs!Moves(t, step)
    PROVE  NoReader
<1> DEFINE c == [call[t] EXCEPT !.step = step]
<1>1. c \in Calls /\ c.step \notin Asks \cup Answers
  BY DEF ReadingInv, Calls
<1>2. call' = [call EXCEPT ![t] = c]
  BY DEF Bs!Moves
<1> HIDE DEF c
<1> QED BY <1>1, <1>2, OneCallMoves

LEMMA Ending ==
    ASSUME NEW t \in Bs!Threads, ReadingInv, NothingLeft', Bs!Ends(t)
    PROVE  NoReader
<1>1. /\ Bs!Idle \in Calls
      /\ Bs!Idle.step \notin Asks \cup Answers
  BY StepIsKnown DEF Bs!Idle, Bs!Call, Calls, Bs!Readings
<1> QED BY <1>1, OneCallMoves DEF Bs!Ends

LEMMA ToNextArm ==
    ASSUME NEW t \in Bs!Threads, NEW a, NEW step \in Bs!Steps \ (Asks \cup Answers),
           NEW end \in Bs!Steps \ (Asks \cup Answers), ReadingInv, NothingLeft',
           Bs!NextArm(t, a, step, end)
    PROVE  NoReader
<1> DEFINE c == Bs!Call(IF call[t].arms = {a} THEN end ELSE step, call[t].arms \ {a}, {}, {})
<1>1. c \in Calls /\ c.step \notin Asks \cup Answers
  BY DEF ReadingInv, Bs!Readings, Bs!Call, Calls
<1>2. call' = [call EXCEPT ![t] = c]
  BY DEF Bs!NextArm
<1> HIDE DEF c
<1> QED BY <1>1, <1>2, OneCallMoves

LEMMA Beginning ==
    ASSUME NEW t \in Bs!Threads, NEW step \in Bs!Steps, NEW those \in SUBSET Arms,
           NEW got \in Bs!Readings, NEW had \in SUBSET Bs!Angles,
           ReadingInv, NothingLeft', step \notin Answers, step \in Asks => \E a \in Arms : those = {a},
           call' = [call EXCEPT ![t] = Bs!Call(step, those, got, had)]
    PROVE  NoReader
<1> DEFINE c == Bs!Call(step, those, got, had)
<1>1. c \in Calls
  BY DEF Calls, Bs!Call
<1>2. c.step \notin Answers /\ (c.step \in Asks => \E a \in Arms : c.arms = {a})
  BY DEF Bs!Call
<1> HIDE DEF c
<1> QED BY <1>1, <1>2, OneCallMoves DEF c

LEMMA ThreadsKnown == {"main", "command", "stop", "telemetry"} \subseteq Bs!Threads
BY DEF Bs!Threads

(* start() and close().                                                    *)
LEMMA MainKeepsReadings ==
    ASSUME ReadingInv, Bs!Connect \/ Bs!PingBase \/ Bs!AllLimp \/ Bs!SetWheelMode
                       \/ Bs!BaseHolds \/ Bs!Close \/ Bs!CloseBus
    PROVE  NoReader
<1> USE ThreadsKnown, StepIsKnown
<1>0. NothingLeft'
  BY GroupStays DEF ReadingInv, Bs!Connect, Bs!PingBase, Bs!AllLimp, Bs!SetWheelMode,
     Bs!BaseHolds, Bs!Close, Bs!CloseBus
<1>1. ASSUME Bs!ToArms PROVE NoReader
  BY <1>0, <1>1, Beginning DEF Bs!ToArms, Bs!Readings
<1>2. CASE Bs!Connect \/ Bs!AllLimp \/ Bs!CloseBus
  <2>1. \E step \in {"ping base", "done", "wheel mode", "over"} : Bs!Moves("main", step)
    BY <1>2 DEF Bs!Connect, Bs!AllLimp, Bs!CloseBus
  <2> QED BY <2>1, <1>0, MovingOn
<1>3. CASE Bs!PingBase
  <2>1. Bs!Moves("main", "limp") \/ Bs!ToArms
    BY <1>3 DEF Bs!PingBase
  <2> QED BY <2>1, <1>0, <1>1, MovingOn
<1>4. CASE Bs!SetWheelMode
  <2>1. \/ \E step \in {"hold", "wheel mode"} : Bs!Moves("main", step)
        \/ UNCHANGED call
        \/ Bs!ToArms
    BY <1>4 DEF Bs!SetWheelMode
  <2> QED BY <2>1, <1>0, <1>1, MovingOn, NoCallMoves
<1>5. CASE Bs!BaseHolds
  BY <1>1, <1>5 DEF Bs!BaseHolds
<1>6. CASE Bs!Close
  <2>1. call' = [t \in Bs!Threads |-> IF t = "main" THEN Bs!Call("close arm", Arms, {}, {})
                                     ELSE [call[t] EXCEPT !.had = {}]]
    BY <1>6 DEF Bs!Close
  <2>2. Bs!Call("close arm", Arms, {}, {}) \in Calls
        /\ Bs!Call("close arm", Arms, {}, {}).step = "close arm"
    BY DEF Calls, Bs!Call, Bs!Readings
  <2>3. \A t \in Bs!Threads \ {"main"} :
          /\ call'[t] = [call[t] EXCEPT !.had = {}] /\ call'[t] \in Calls
          /\ call'[t].step = call[t].step /\ call'[t].arms = call[t].arms
    BY <2>1 DEF ReadingInv, Calls
  <2>4. call' \in [Bs!Threads -> Calls]
    BY <2>1, <2>2, <2>3
  <2> QED BY <1>0, <2>1, <2>2, <2>3, <2>4, CallsMove DEF ReadingInv
<1> QED BY <1>2, <1>3, <1>4, <1>5, <1>6

(* What a joint's thread does, and what start() and close() do with an arm.*)
LEMMA ArmsKeepReadings ==
    ASSUME NEW a \in Arms, ReadingInv,
           Bs!TypeOK,
           Bs!PingArm(a) \/ Bs!ArmReady(a) \/ Bs!HomeOnClose(a) \/ Bs!CloseArm(a)
           \/ Bs!SetJoints(a) \/ Bs!SetJointsDelta(a) \/ Bs!Status(a) \/ Bs!Joint(a)
    PROVE  NoReader
<1> USE ThreadsKnown, StepIsKnown
<1>1. CASE Bs!PingArm(a)
  <2>1. NothingLeft'
    BY <1>1, GroupStays DEF ReadingInv, Bs!PingArm
  <2>2. Bs!Moves("main", "arm holds") \/ Bs!NextArm("main", a, "ping arm", "done")
    BY <1>1 DEF Bs!PingArm
  <2> QED BY <2>1, <2>2, MovingOn, ToNextArm
<1>2. CASE Bs!ArmReady(a)
  <2>1. NothingLeft'
    BY <1>2, ReadIsFresh DEF ReadingInv, Bs!ArmReady
  <2>2. Bs!NextArm("main", a, "ping arm", "done")
    BY <1>2 DEF Bs!ArmReady
  <2> QED BY <2>1, <2>2, ToNextArm
<1>3. CASE Bs!CloseArm(a)
  <2>1. NothingLeft'
    BY <1>3, GroupStays DEF ReadingInv, Bs!CloseArm
  <2>2. Bs!NextArm("main", a, "close arm", "close bus")
    BY <1>3 DEF Bs!CloseArm
  <2> QED BY <2>1, <2>2, ToNextArm
<1>4. ASSUME NEW t \in Bs!Threads, NEW step \in Bs!Steps \ Answers, NEW got \in Bs!Readings,
             NEW had \in SUBSET Bs!Angles, Bs!Begin(t, a, step, got, had)
      PROVE  NoReader
  <2> DEFINE seen == IF Bs!At("main", "done") THEN had ELSE {}
  <2>1. NothingLeft'
    BY <1>4, GroupStays DEF ReadingInv, Bs!Begin
  <2>2. call' = [call EXCEPT ![t] = Bs!Call(step, {a}, got, seen)] /\ seen \in SUBSET Bs!Angles
    BY <1>4 DEF Bs!Begin
  <2>3. {a} \in SUBSET Arms /\ \E b \in Arms : {a} = {b}
    OBVIOUS
  <2> HIDE DEF seen
  <2> QED BY <2>1, <2>2, <2>3, Beginning
<1>5. CASE Bs!SetJoints(a) \/ Bs!SetJointsDelta(a) \/ Bs!Status(a)
  <2>1. {"write", "delta", "read"} \subseteq Bs!Steps \ Answers
    BY DEF Bs!Steps, Answers
  <2>2. {} \in Bs!Readings /\ \A p \in Bs!Angles : {p} \in Bs!Readings
    BY DEF Bs!Readings
  <2>3. {angle[a]} \in SUBSET Bs!Angles /\ {} \in SUBSET Bs!Angles
    BY DEF Bs!TypeOK
  <2> QED BY <1>4, <1>5, <2>1, <2>2, <2>3 DEF Bs!SetJoints, Bs!SetJointsDelta, Bs!Status
<1>6. CASE Bs!Joint(a)
  <2>1. PICK p \in Bs!Angles : call' =
            [t \in Bs!Threads |-> IF a \in call[t].arms /\ call[t].had # {}
                                 THEN [call[t] EXCEPT !.had = @ \cup {p}] ELSE call[t]]
    BY <1>6 DEF Bs!Joint
  <2>2. \A t \in Bs!Threads :
          /\ call'[t] \in Calls
          /\ call'[t].step = call[t].step /\ call'[t].arms = call[t].arms
    BY <2>1 DEF ReadingInv, Calls
  <2>3. call' \in [Bs!Threads -> Calls]
    BY <2>1, <2>2
  <2>4. NothingLeft'
    BY <1>6, GroupStays DEF ReadingInv, Bs!Joint
  <2> QED BY <2>2, <2>3, <2>4, CallsMove, StepIsKnown DEF ReadingInv
<1>7. CASE Bs!HomeOnClose(a)
  BY <1>7, GroupStays, NoCallMoves DEF ReadingInv, Bs!HomeOnClose
<1> QED BY <1>1, <1>2, <1>3, <1>5, <1>6, <1>7

(* A read that raises.                                                     *)
LEMMA FailedRead ==
    ASSUME NEW a \in Arms, NEW t \in Bs!Threads, ReadingInv, Bs!ReadFails(t, a)
    PROVE  NoReader
<1>1. group' = Bs!AskedWith(a)
  BY DEF Bs!ReadFails, Bs!ReadRaises
<1>2. NothingLeft'
  BY <1>1, AskedIsEmpty DEF ReadingInv, NothingLeft
<1> QED BY <1>2, Ending DEF Bs!ReadFails

(* A read that is served: its caller has what was measured just now, and   *)
(* no other caller is answered.                                            *)
AnswersTheRead(t, a) ==
    /\ ReadingInv' /\ call'[t].got \subseteq {angle[a]} /\ call[t].arms = {a}
    /\ \A s \in Bs!Threads \ {t} : call'[s] = call[s]

LEMMA ServedRead ==
    ASSUME NEW a \in Arms, NEW t \in Bs!Threads, ReadingInv, Bs!ReadPositions(t, a)
    PROVE  AnswersTheRead(t, a)
<1> USE StepIsKnown
<1>1. PICK got \in Bs!Readings :
        /\ Bs!SyncRead(a, got)
        /\ call' = [call EXCEPT ![t].step = "assign", ![t].got = got]
  BY DEF Bs!ReadPositions
<1>2. got \subseteq {angle[a]} /\ NothingLeft'
  BY <1>1, ReadIsFresh DEF ReadingInv
<1> DEFINE c == [call[t] EXCEPT !.step = "assign", !.got = got]
<1>3. c \in Calls /\ c.got = got
  BY StepIsKnown DEF ReadingInv, Calls, Answers
<1>4. c.step \notin Asks
  BY DEF ReadingInv, Asks, Calls
<1>5. call' = [call EXCEPT ![t] = c]
  BY <1>1 DEF ReadingInv
<1>6. a \in call[t].arms /\ call[t].step \in Asks
  BY DEF Bs!ReadPositions, Asks
<1>7. call[t].arms = {a}
  BY <1>6 DEF ReadingInv
<1> HIDE DEF c
<1>8. ReadingInv'
  BY <1>2, <1>3, <1>4, <1>5, OneCallMoves
<1>9. call'[t] = c /\ \A s \in Bs!Threads \ {t} : call'[s] = call[s]
  BY <1>5 DEF ReadingInv
<1> QED BY <1>2, <1>3, <1>7, <1>8, <1>9 DEF AnswersTheRead

(* The target of a relative motion is within the limits of its joint.      *)
LEMMA AimsAtAnAngle ==
    ASSUME Bs!TypeOK, NEW a \in Arms, NEW p \in Bs!Start(a), NEW d \in {-1, 1}
    PROVE  Bs!Clamped(p + d) \in Bs!Angles
<1>1. p \in Bs!Angles
  BY RobotHardwareAssumption DEF Bs!TypeOK, Bs!Start, Bs!Readings, Bs!Angles
<1> QED BY <1>1, RobotHardwareAssumption DEF Bs!Clamped, Bs!Angles

(* What is read is remembered, and what is commanded is written.           *)
LEMMA CommandsKeepReadings ==
    ASSUME NEW a \in Arms, ReadingInv, Bs!TypeOK,
           Bs!AssignStatus(a) \/ Bs!AssignDelta(a) \/ Bs!Target(a) \/ Bs!WritePositions(a)
    PROVE  NoReader
<1> USE ThreadsKnown, StepIsKnown
<1>1. NothingLeft'
  BY GroupStays DEF ReadingInv, Bs!AssignStatus, Bs!AssignDelta, Bs!Target,
     Bs!WritePositions, Bs!GroupWrite
<1>2. CASE Bs!AssignStatus(a)
  <2> DEFINE had == IF call["command"].arms = {a} /\ call["command"].had # {}
                    THEN call["command"].had \cup call["telemetry"].had
                    ELSE call["command"].had
             c == [call["command"] EXCEPT !.had = had]
  <2>1. call' = [call EXCEPT !["telemetry"] = Bs!Idle, !["command"] = c]
    BY <1>2 DEF Bs!AssignStatus, ReadingInv
  <2>2. /\ c \in Calls /\ c.step = call["command"].step /\ c.arms = call["command"].arms
    BY DEF ReadingInv, Calls
  <2>3. Bs!Idle \in Calls /\ Bs!Idle.step \notin Asks \cup Answers
    BY DEF Bs!Idle, Bs!Call, Calls, Bs!Readings
  <2> HIDE DEF c
  <2>4. \A t \in Bs!Threads :
          call'[t] = IF t = "telemetry" THEN Bs!Idle ELSE IF t = "command" THEN c ELSE call[t]
    BY <2>1 DEF ReadingInv
  <2>5. call' \in [Bs!Threads -> Calls]
    BY <2>1, <2>2, <2>3 DEF ReadingInv
  <2> QED BY <1>1, <2>2, <2>3, <2>4, <2>5, CallsMove DEF ReadingInv
<1>3. CASE Bs!AssignDelta(a)
  BY <1>1, <1>3, MovingOn DEF Bs!AssignDelta
<1>4. CASE Bs!Target(a)
  <2>1. CASE Bs!Ends("command")
    BY <1>1, <2>1, Ending
  <2>2. CASE \E aim \in Bs!Angles :
               call' = [call EXCEPT !["command"] = Bs!Call("write", {a}, {aim}, {})]
    <3>1. \A aim \in Bs!Angles : {aim} \in Bs!Readings
      BY DEF Bs!Readings
    <3>2. /\ "write" \in Bs!Steps /\ "write" \notin Answers /\ "write" \notin Asks
          /\ {a} \in SUBSET Arms /\ {} \in SUBSET Bs!Angles
      BY DEF Bs!Steps, Answers, Asks
    <3> QED BY <1>1, <2>2, <3>1, <3>2, Beginning
  <2> QED BY <1>4, <2>1, <2>2, AimsAtAnAngle DEF Bs!Target
<1>5. CASE Bs!WritePositions(a)
  BY <1>1, <1>5, Ending DEF Bs!WritePositions
<1> QED BY <1>2, <1>3, <1>4, <1>5

(* Every step is one or the other.                                         *)
LEMMA ReadingsKept == ASSUME ReadingInv, Bs!TypeOK, [Bs!Next]_(Bs!busVars)
    PROVE  NoReader \/ \E s \in Bs!Threads, b \in Arms : AnswersTheRead(s, b)
<1> USE ThreadsKnown, StepIsKnown
<1>1. CASE UNCHANGED Bs!busVars
  BY <1>1, GroupStays, NoCallMoves DEF ReadingInv, Bs!busVars
<1>2. CASE Bs!OnStopMotion \/ Bs!ArmStop
  <2>1. NothingLeft'
    BY <1>2, GroupStays DEF ReadingInv, Bs!ArmStop, Bs!OnStopMotion
  <2>2. CASE Bs!OnStopMotion
    BY <2>1, <2>2, MovingOn DEF Bs!OnStopMotion
  <2>3. CASE Bs!ArmStop
    BY <2>1, <2>3, Ending DEF Bs!ArmStop
  <2> QED BY <1>2, <2>2, <2>3
<1>3. ASSUME NEW t \in Bs!Threads, Bs!Raises(t) PROVE NoReader
  <2>1. NothingLeft'
    BY <1>3, GroupStays DEF ReadingInv, Bs!Raises
  <2>2. Bs!Moves(t, "over") \/ Bs!Ends(t)
    BY <1>3 DEF Bs!Raises
  <2> QED BY <2>1, <2>2, MovingOn, Ending
<1>4. CASE \E a \in Arms : \E t \in {"command", "telemetry"} :
             Bs!ReadPositions(t, a) \/ Bs!ReadFails(t, a)
  BY <1>4, ServedRead, FailedRead
<1>5. CASE \E a \in Arms : Bs!AssignStatus(a) \/ Bs!AssignDelta(a) \/ Bs!Target(a)
                          \/ Bs!WritePositions(a)
  BY <1>5, CommandsKeepReadings
<1> QED BY <1>1, <1>2, <1>3, <1>4, <1>5, MainKeepsReadings, ArmsKeepReadings DEF Bs!Next

-----------------------------------------------------------------------------
-----------------------------------------------------------------------------
(* The simulation. Whoever works, or unwinds, has the lock; a thread that  *)
(* steps belongs to an action that works, or has been told to stop.        *)
Holding == {"working", "unwinding"}
Stepping == {"check", "write"}

SimulationTypes ==
    /\ progress \in [SimActions -> {"new", "waiting", "working", "unwinding", "done"}]
    /\ stopEvent \in [SimActions -> BOOLEAN]
    /\ stepper \in [SimActions -> {"none", "check", "write", "ended"}]
    /\ latched \in BOOLEAN

LineInv ==
    /\ simulationLine \in Seq(SimActions) /\ Distinct(simulationLine)
    /\ \A a \in SimActions : Stands(simulationLine, a) => progress[a] # "new"
    /\ \A a \in SimActions : progress[a] \in Holding =>
         simulationLine # <<>> /\ Head(simulationLine) = a

ThreadInv ==
    \A a \in SimActions :
        /\ progress[a] = "unwinding" => stopEvent[a]
        /\ stepper[a] \in Stepping => progress[a] = "working" \/ stopEvent[a]

SimulationInv == SimulationTypes /\ LineInv /\ ThreadInv

(* The one that has the lock leaves; its thread, if it still steps, has    *)
(* been told to stop.                                                      *)
LEMMA LineLeavingKeeps ==
    ASSUME NEW a \in SimActions, SimulationInv, Sd!Done(a),
           simulationLine # <<>>, Head(simulationLine) = a,
           progress[a] # "new", stepper[a] \in Stepping => stopEvent[a],
           UNCHANGED <<stopEvent, stepper>>, latched' \in BOOLEAN
    PROVE  SimulationInv' /\ ~Stands(simulationLine', a)
<1>1. /\ progress' = [progress EXCEPT ![a] = "done"]
      /\ simulationLine' = Tail(simulationLine)
  BY DEF Sd!Done
<1>2. SimulationTypes'
  BY <1>1 DEF SimulationInv, SimulationTypes
<1>3. \A b \in SimActions : progress'[b] = IF b = a THEN "done" ELSE progress[b]
  BY <1>1 DEF SimulationInv, SimulationTypes
<1>4. /\ simulationLine' \in Seq(SimActions) /\ Distinct(simulationLine')
      /\ \A b : Stands(simulationLine', b) => Stands(simulationLine, b) /\ b # a
  BY <1>1, LineAdvances DEF SimulationInv, LineInv
<1>5. \A b \in SimActions : progress'[b] \notin Holding
  BY <1>3 DEF SimulationInv, LineInv, Holding
<1>6. LineInv'
  BY <1>3, <1>4, <1>5 DEF SimulationInv, LineInv
<1>7. ThreadInv'
  <2> SUFFICES ASSUME NEW b \in SimActions
               PROVE  /\ progress'[b] = "unwinding" => stopEvent'[b]
                      /\ stepper'[b] \in Stepping => progress'[b] = "working" \/ stopEvent'[b]
    BY DEF ThreadInv
  <2>1. CASE b = a
    BY <1>3, <2>1
  <2>2. CASE b # a
    BY <1>3, <2>2 DEF SimulationInv, ThreadInv
  <2> QED BY <2>1, <2>2
<1> QED BY <1>2, <1>4, <1>6, <1>7 DEF SimulationInv

(* An action is sent.                                                      *)
LEMMA LineSendingKeeps ==
    ASSUME NEW a \in SimActions, NEW k \in Sd!Kinds, SimulationInv, Sd!Send(a, k)
    PROVE  SimulationInv'
<1>1. /\ progress[a] = "new" /\ progress' = [progress EXCEPT ![a] = "waiting"]
      /\ simulationLine' = Append(simulationLine, a)
      /\ UNCHANGED <<stepper, latched>>
      /\ \/ stopEvent' = stopEvent
         \/ stopEvent' = [stopEvent EXCEPT ![activeStop] = TRUE]
  BY DEF Sd!Send, Sd!SetStop
<1>2. stopEvent' \in [SimActions -> BOOLEAN] /\ \A b \in SimActions : stopEvent[b] => stopEvent'[b]
  BY <1>1 DEF SimulationInv, SimulationTypes
<1>3. \A b \in SimActions : progress'[b] = IF b = a THEN "waiting" ELSE progress[b]
  BY <1>1 DEF SimulationInv, SimulationTypes
<1>4. SimulationTypes'
  BY <1>1, <1>2 DEF SimulationInv, SimulationTypes
<1>5. /\ simulationLine' \in Seq(SimActions) /\ Distinct(simulationLine')
      /\ simulationLine' # <<>>
      /\ \A b : Stands(simulationLine', b) => b = a \/ Stands(simulationLine, b)
      /\ simulationLine # <<>> => Head(simulationLine') = Head(simulationLine)
  <2>1. ~Stands(simulationLine, a)
    BY <1>1 DEF SimulationInv, LineInv
  <2>2. simulationLine \in Seq(SimActions) /\ Distinct(simulationLine)
    BY DEF SimulationInv, LineInv
  <2> QED BY <1>1, <2>1, <2>2, LineGrows
<1>6. LineInv'
  BY <1>3, <1>5 DEF SimulationInv, LineInv, Holding
<1>7. ThreadInv'
  BY <1>1, <1>2, <1>3 DEF SimulationInv, ThreadInv
<1> QED BY <1>4, <1>6, <1>7 DEF SimulationInv

(* A motion sets out, or is asked to unwind: it keeps its place.           *)
LEMMA WorkingKeeps ==
    ASSUME NEW a \in SimActions, SimulationInv, Sd!StartWork(a) \/ Sd!CancelWork(a)
    PROVE  SimulationInv'
<1>1. CASE Sd!StartWork(a)
  <2>1. /\ progress[a] = "waiting" /\ simulationLine # <<>> /\ Head(simulationLine) = a
        /\ progress' = [progress EXCEPT ![a] = "working"]
        /\ stepper' = [stepper EXCEPT ![a] = "check"]
        /\ latched' = FALSE /\ UNCHANGED <<simulationLine, stopEvent>>
    BY <1>1 DEF Sd!StartWork, Sd!Turn
  <2>2. SimulationTypes'
    BY <2>1 DEF SimulationInv, SimulationTypes
  <2>3. LineInv'
    BY <2>1 DEF SimulationInv, SimulationTypes, LineInv
  <2>4. \A b \in SimActions : /\ progress'[b] = IF b = a THEN "working" ELSE progress[b]
                              /\ stepper'[b] = IF b = a THEN "check" ELSE stepper[b]
    BY <2>1 DEF SimulationInv, SimulationTypes
  <2>5. ThreadInv'
    BY <2>1, <2>4 DEF SimulationInv, ThreadInv
  <2> QED BY <2>2, <2>3, <2>5 DEF SimulationInv
<1>2. CASE Sd!CancelWork(a)
  <2>1. /\ progress[a] = "working"
        /\ progress' = [progress EXCEPT ![a] = "unwinding"]
        /\ stopEvent' = stopEvent \/ stopEvent' = [stopEvent EXCEPT ![a] = TRUE]
        /\ a # NoAction => stopEvent' = [stopEvent EXCEPT ![a] = TRUE]
        /\ UNCHANGED <<simulationLine, stepper, latched>>
    BY <1>2 DEF Sd!CancelWork, Sd!SetStop
  <2>2. a # NoAction
    BY RobotHardwareAssumption
  <2>3. SimulationTypes'
    BY <2>1 DEF SimulationInv, SimulationTypes
  <2>4. LineInv'
    BY <2>1 DEF SimulationInv, SimulationTypes, LineInv, Holding
  <2>5. \A b \in SimActions :
          /\ progress'[b] = IF b = a THEN "unwinding" ELSE progress[b]
          /\ stopEvent'[b] = IF b = a THEN TRUE ELSE stopEvent[b]
    BY <2>1, <2>2 DEF SimulationInv, SimulationTypes
  <2>6. ThreadInv'
    BY <2>1, <2>5 DEF SimulationInv, ThreadInv
  <2> QED BY <2>3, <2>4, <2>6 DEF SimulationInv
<1> QED BY <1>1, <1>2

(* One that waits is cancelled.                                            *)
LEMMA WaitingKeeps ==
    ASSUME NEW a \in SimActions, SimulationInv, Sd!CancelWait(a) PROVE SimulationInv'
<1>1. PICK i \in 2..Len(simulationLine) :
        /\ progress[a] = "waiting" /\ simulationLine[i] = a
        /\ progress' = [progress EXCEPT ![a] = "done"]
        /\ simulationLine' = Sd!RemoveAt(simulationLine, i)
        /\ UNCHANGED <<stopEvent, stepper, latched>>
  BY DEF Sd!CancelWait
<1>2. SimulationTypes'
  BY <1>1 DEF SimulationInv, SimulationTypes
<1>3. \A b \in SimActions : progress'[b] = IF b = a THEN "done" ELSE progress[b]
  BY <1>1 DEF SimulationInv, SimulationTypes
<1>4. /\ simulationLine' \in Seq(SimActions) /\ Distinct(simulationLine')
      /\ simulationLine' # <<>> /\ Head(simulationLine') = Head(simulationLine)
      /\ \A b : Stands(simulationLine', b) => Stands(simulationLine, b)
  <2>1. /\ simulationLine \in Seq(SimActions) /\ Distinct(simulationLine)
        /\ i \in 1..Len(simulationLine) /\ i # 1
    BY <1>1, LenProperties DEF SimulationInv, LineInv
  <2>2. simulationLine' = Without(simulationLine, i)
    BY <1>1 DEF Sd!RemoveAt, Without
  <2> QED BY <2>1, <2>2, LineThins
<1>5. LineInv'
  BY <1>3, <1>4 DEF SimulationInv, LineInv, Holding
<1>6. ThreadInv'
  BY <1>1, <1>3 DEF SimulationInv, ThreadInv
<1> QED BY <1>2, <1>5, <1>6 DEF SimulationInv

(* A thread that steps goes on, or ends.                                   *)
LEMMA ThreadKeeps ==
    ASSUME NEW a \in SimActions, SimulationInv, Sd!CheckStop(a) \/ Sd!WriteStep(a)
    PROVE  SimulationInv'
<1>1. /\ stepper[a] \in Stepping
      /\ \E s \in {"check", "write", "ended"} : stepper' = [stepper EXCEPT ![a] = s]
      /\ UNCHANGED <<progress, simulationLine, stopEvent, latched>>
  BY DEF Sd!CheckStop, Sd!WriteStep, Stepping
<1>2. SimulationTypes' /\ LineInv'
  BY <1>1 DEF SimulationInv, SimulationTypes, LineInv
<1>3. \A b \in SimActions : stepper'[b] \in Stepping => stepper[b] \in Stepping
  BY <1>1 DEF SimulationInv, SimulationTypes
<1>4. ThreadInv'
  BY <1>1, <1>3 DEF SimulationInv, ThreadInv
<1> QED BY <1>2, <1>4 DEF SimulationInv

(* The turn of an action that does not work comes to an end at once.       *)
LEMMA TurnsKeep ==
    ASSUME NEW a \in SimActions, SimulationInv,
           Sd!Refuse(a) \/ Sd!Broken(a) \/ Sd!Dock(a) \/ Sd!StopMotion(a)
           \/ Sd!Reset(a) \/ Sd!Close(a)
    PROVE  SimulationInv' /\ ~Stands(simulationLine', a)
<1>1. /\ progress[a] = "waiting" /\ simulationLine # <<>> /\ Head(simulationLine) = a
      /\ Sd!Done(a) /\ UNCHANGED <<stopEvent, stepper>>
  BY DEF Sd!Refuse, Sd!Broken, Sd!Dock, Sd!StopMotion, Sd!Reset, Sd!Close, Sd!Turn
<1>2. latched' = latched \/ latched' = (kind[a] = "emergency")
  BY DEF Sd!Refuse, Sd!Broken, Sd!Dock, Sd!StopMotion, Sd!Reset, Sd!Close
<1>3. latched' \in BOOLEAN
  BY <1>2 DEF SimulationInv, SimulationTypes
<1>4. stepper[a] \in Stepping => stopEvent[a]
  BY <1>1 DEF SimulationInv, ThreadInv
<1> QED BY <1>1, <1>3, <1>4, LineLeavingKeeps

(* So does an action that worked.                                          *)
LEMMA EndsKeep ==
    ASSUME NEW a \in SimActions, SimulationInv,
           Sd!WorkDone(a) \/ Sd!Unwound(a) \/ Sd!CancelAgain(a)
    PROVE  SimulationInv'
<1>1. /\ progress[a] \in Holding /\ Sd!Done(a) /\ UNCHANGED <<stopEvent, stepper, latched>>
      /\ stepper[a] = "ended" \/ progress[a] = "unwinding"
  BY DEF Sd!WorkDone, Sd!Unwound, Sd!CancelAgain, Sd!Released, Holding
<1>2. simulationLine # <<>> /\ Head(simulationLine) = a
  BY <1>1 DEF SimulationInv, LineInv
<1>3. latched' \in BOOLEAN /\ progress[a] # "new"
  BY <1>1 DEF SimulationInv, SimulationTypes, Holding
<1>4. stepper[a] \in Stepping => stopEvent[a]
  BY <1>1 DEF SimulationInv, ThreadInv, Stepping
<1> QED BY <1>1, <1>2, <1>3, <1>4, LineLeavingKeeps

LEMMA SimulationKeeps ==
    ASSUME SimulationInv, [Sd!Next]_(Sd!simVars) PROVE SimulationInv'
<1>1. CASE UNCHANGED Sd!simVars
  BY <1>1 DEF Sd!simVars, SimulationInv, SimulationTypes, LineInv, ThreadInv
<1>2. CASE Sd!Next
  BY <1>2, LineSendingKeeps, TurnsKeep, WorkingKeeps, EndsKeep, WaitingKeeps, ThreadKeeps
     DEF Sd!Next, Sd!Serve
<1> QED BY <1>1, <1>2

(* The flag of an emergency stop is lowered by a plain stop alone.         *)
LEMMA OnlyAStopLowers ==
    ASSUME SimulationInv, [Sd!Next]_(Sd!simVars), latched, ~latched'
    PROVE  \E a \in SimActions : /\ kind[a] = "stop" /\ Head(simulationLine) = a
                                 /\ a \notin Sd!Range(simulationLine')
<1>1. PICK a \in SimActions : Sd!StopMotion(a) \/ Sd!StartWork(a)
  BY DEF Sd!Next, Sd!Serve, Sd!simVars, Sd!Send, Sd!Refuse, Sd!Broken, Sd!Dock, Sd!Reset,
     Sd!Close, Sd!WorkDone, Sd!Unwound, Sd!CancelAgain, Sd!Released, Sd!CancelWork,
     Sd!CancelWait, Sd!CheckStop, Sd!WriteStep
<1>2. ~Sd!StartWork(a)
  BY DEF Sd!StartWork, Sd!Admitted, Sd!Motions, Sd!Stops
<1>3. Sd!StopMotion(a)
  BY <1>1, <1>2
<1>4. kind[a] = "stop" /\ Head(simulationLine) = a
  BY <1>3 DEF Sd!StopMotion, Sd!Stops, Sd!Turn
<1>5. SimulationInv' /\ ~Stands(simulationLine', a)
  BY <1>3, TurnsKeep
<1>6. simulationLine' \in Seq(SimActions)
  BY <1>5 DEF SimulationInv, LineInv
<1>7. DOMAIN simulationLine' = 1..Len(simulationLine')
  BY <1>6, LenProperties
<1>8. a \notin Sd!Range(simulationLine')
  BY <1>5, <1>7 DEF Stands, Sd!Range
<1> QED BY <1>4, <1>8

LEMMA SimulationStarts == RobotHardwareInit => SimulationInv
<1> SUFFICES ASSUME RobotHardwareInit PROVE SimulationInv
  OBVIOUS
<1>1. SimulationTypes /\ ThreadInv
  BY DEF RobotHardwareInit, Sd!Init, SimulationTypes, ThreadInv, Stepping
<1>2. simulationLine = <<>> /\ \A a \in SimActions : progress[a] = "new"
  BY DEF RobotHardwareInit, Sd!Init
<1>3. <<>> \in Seq(SimActions) /\ 1..Len(<<>>) = {}
  BY EmptySeq
<1>4. LineInv
  BY <1>2, <1>3 DEF LineInv, Distinct, Stands, Holding
<1> QED BY <1>1, <1>4 DEF SimulationInv

(* After an emergency stop no queued motion sets out, and no thread steps  *)
(* the simulation beside the holder of the lock unless told to stop.       *)
THEOREM SimulationIsStopped == RobotHardwareSpec => SimulationStops
<1>1. RobotHardwareInit => SimulationInv
  BY SimulationStarts
<1>2. SimulationInv /\ [RobotHardwareNext]_robotVars => SimulationInv'
  BY SimulationKeeps, HardwareSteps
<1>3. SimulationInv => Sd!NoStrayWriter
  BY DEF SimulationInv, LineInv, ThreadInv, Sd!NoStrayWriter, Stepping, Holding
<1>4. SimulationInv /\ [RobotHardwareNext]_robotVars =>
        [latched /\ ~latched' =>
           \E a \in SimActions :
             kind[a] = "stop" /\ Head(simulationLine) = a
               /\ a \notin Sd!Range(simulationLine')]_(Sd!simVars)
  BY OnlyAStopLowers, HardwareSteps
<1> QED
  BY <1>1, <1>2, <1>3, <1>4, PTL
     DEF RobotHardwareSpec, SimulationStops, Sd!EmergencyHolds

-----------------------------------------------------------------------------
(* Types. The bus and its callers.                                         *)
LEMMA SyncReadTypes ==
    ASSUME Bs!TypeOK, NEW a \in Arms, NEW got, Bs!SyncRead(a, got)
    PROVE  /\ UNCHANGED bus
           /\ DOMAIN group' \subseteq Arms /\ \A b \in DOMAIN group' : group'[b] \subseteq Bs!Angles
BY DEF Bs!SyncRead, Bs!TypeOK, Bs!Cleared, Bs!NothingRead

LEMMA FaultTypes ==
    ASSUME Bs!TypeOK, NEW using \in BOOLEAN, Bs!Faulty(using)
    PROVE  bus' \in [open: BOOLEAN, using: BOOLEAN, hold: BOOLEAN, faults: 0..MaxFaults]
<1>1. bus.faults \in 0..MaxFaults /\ bus.faults < MaxFaults
  BY DEF Bs!Faulty, Bs!TypeOK
<1>2. bus.faults + 1 \in 0..MaxFaults
  BY <1>1, RobotHardwareAssumption
<1>3. bus' = [bus EXCEPT !.faults = bus.faults + 1, !.using = using]
  BY DEF Bs!Faulty
<1> QED BY <1>2, <1>3 DEF Bs!TypeOK

LEMMA WriteTypes ==
    ASSUME Bs!TypeOK, Bs!Reaches \/ Bs!Misses \/ \E on \in BOOLEAN : Bs!Switches(on)
    PROVE  bus' \in [open: BOOLEAN, using: BOOLEAN, hold: BOOLEAN, faults: 0..MaxFaults]
BY FaultTypes DEF Bs!Reaches, Bs!Misses, Bs!Switches, Bs!TypeOK

(* The call of a thread moves on with what it has, or is another one.      *)
CallsTyped == call \in [Bs!Threads -> Calls]

LEMMA MovingTypes ==
    ASSUME CallsTyped, NEW t \in Bs!Threads, NEW step \in Bs!Steps, Bs!Moves(t, step)
    PROVE  CallsTyped'
BY DEF CallsTyped, Calls, Bs!Moves

LEMMA CallTypes ==
    ASSUME CallsTyped, NEW t \in Bs!Threads, NEW step \in Bs!Steps, NEW todo \in SUBSET Arms,
           NEW got \in Bs!Readings, NEW had \in SUBSET Bs!Angles,
           call' = [call EXCEPT ![t] = Bs!Call(step, todo, got, had)]
    PROVE  CallsTyped'
BY DEF CallsTyped, Calls, Bs!Call

LEMMA EndingTypes == ASSUME CallsTyped, NEW t \in Bs!Threads, Bs!Ends(t) PROVE CallsTyped'
<1>1. "none" \in Bs!Steps /\ {} \in Bs!Readings /\ {} \in SUBSET Bs!Angles /\ {} \in SUBSET Arms
  BY DEF Bs!Steps, Bs!Readings
<1> QED BY <1>1, CallTypes DEF Bs!Ends, Bs!Idle

LEMMA NextArmTypes ==
    ASSUME CallsTyped, NEW t \in Bs!Threads, NEW a \in Arms, NEW step \in Bs!Steps,
           NEW end \in Bs!Steps, Bs!NextArm(t, a, step, end)
    PROVE  CallsTyped'
BY DEF CallsTyped, Calls, Bs!NextArm, Bs!Call, Bs!Readings

(* Everything but the call keeps its type.                                 *)
BusTyped ==
    /\ bus \in [open: BOOLEAN, using: BOOLEAN, hold: BOOLEAN, faults: 0..MaxFaults]
    /\ DOMAIN group \subseteq Arms /\ \A a \in DOMAIN group : group[a] \subseteq Bs!Angles
    /\ angle \in [Arms -> Bs!Angles] /\ wheelMode \subseteq Wheels
    /\ ready \subseteq Arms /\ recall \in [Arms -> Bs!Readings]
    /\ servoBase \in [ready: BOOLEAN, attempt: 0..3, left: SUBSET Wheels]

LEMMA MainTypes ==
    ASSUME Bs!TypeOK,
           \/ Bs!Connect \/ Bs!PingBase \/ Bs!AllLimp \/ Bs!SetWheelMode \/ Bs!BaseHolds
           \/ Bs!Close \/ Bs!CloseBus
    PROVE  Bs!TypeOK'
<1>1. BusTyped /\ CallsTyped
  BY DEF BusTyped, CallsTyped, Calls, Bs!TypeOK
<1>2. "main" \in Bs!Threads /\ {} \in Bs!Readings
  BY DEF Bs!Threads, Bs!Readings
<1>3. Bs!ToArms => CallsTyped'
  <2>1. "ping arm" \in Bs!Steps /\ {} \in SUBSET Bs!Angles /\ Arms \in SUBSET Arms
    BY DEF Bs!Steps
  <2> QED BY <1>1, <1>2, <2>1, CallTypes DEF Bs!ToArms
<1>4. (\E step \in Bs!Steps : Bs!Moves("main", step)) => CallsTyped'
  BY <1>1, <1>2, MovingTypes
<1>5. CASE Bs!Connect
  <2>1. BusTyped'
    BY <1>1, <1>5 DEF Bs!Connect, BusTyped, Bs!body, Bs!owners
  <2>2. CallsTyped'
    BY <1>4, <1>5 DEF Bs!Connect, Bs!Steps
  <2> QED BY <2>1, <2>2 DEF BusTyped, CallsTyped, Calls, Bs!TypeOK
<1>6. CASE Bs!PingBase
  <2>1. BusTyped'
    BY <1>1, <1>6, WriteTypes DEF Bs!PingBase, BusTyped, Bs!body, Bs!owners
  <2>2. CallsTyped'
    BY <1>3, <1>4, <1>6 DEF Bs!PingBase, Bs!Steps
  <2> QED BY <2>1, <2>2 DEF BusTyped, CallsTyped, Calls, Bs!TypeOK
<1>7. CASE Bs!AllLimp
  <2>1. BusTyped'
    BY <1>1, <1>7, WriteTypes DEF Bs!AllLimp, BusTyped, Bs!body, Bs!owners
  <2>2. CallsTyped'
    BY <1>4, <1>7 DEF Bs!AllLimp, Bs!Steps
  <2> QED BY <2>1, <2>2 DEF BusTyped, CallsTyped, Calls, Bs!TypeOK
<1>8. CASE Bs!SetWheelMode
  <2>1. PICK w \in servoBase.left :
          \/ /\ Bs!Reaches /\ wheelMode' = wheelMode \cup {w}
             /\ servoBase' = [servoBase EXCEPT !.left = @ \ {w}, !.attempt = 0]
             /\ Bs!Moves("main", IF servoBase.left = {w} THEN "hold" ELSE "wheel mode")
          \/ /\ Bs!Misses /\ wheelMode' \in {wheelMode, wheelMode \cup {w}}
             /\ \/ /\ servoBase.attempt < 2
                   /\ servoBase' = [servoBase EXCEPT !.attempt = @ + 1]
                   /\ UNCHANGED call
                \/ servoBase' = [servoBase EXCEPT !.attempt = 0] /\ Bs!ToArms
    BY <1>8 DEF Bs!SetWheelMode
  <2>2. wheelMode' \subseteq Wheels
    BY <1>1, <2>1 DEF BusTyped
  <2>3. servoBase' \in [ready: BOOLEAN, attempt: 0..3, left: SUBSET Wheels]
    <3>1. servoBase.attempt < 2 => servoBase.attempt + 1 \in 0..3
      BY <1>1 DEF BusTyped
    <3>2. servoBase.left \ {w} \subseteq Wheels /\ 0 \in 0..3
      BY <1>1 DEF BusTyped
    <3> QED BY <1>1, <2>1, <3>1, <3>2 DEF BusTyped
  <2>4. bus' \in [open: BOOLEAN, using: BOOLEAN, hold: BOOLEAN, faults: 0..MaxFaults]
    BY <2>1, WriteTypes
  <2>5. CallsTyped'
    <3>1. "hold" \in Bs!Steps /\ "wheel mode" \in Bs!Steps
      BY DEF Bs!Steps
    <3>2. UNCHANGED call => CallsTyped'
      BY <1>1 DEF CallsTyped
    <3> QED BY <1>3, <1>4, <2>1, <3>1, <3>2
  <2> QED BY <1>1, <1>8, <2>2, <2>3, <2>4, <2>5
          DEF Bs!SetWheelMode, BusTyped, CallsTyped, Calls, Bs!TypeOK
<1>9. CASE Bs!BaseHolds
  <2>1. BusTyped'
    BY <1>1, <1>9, WriteTypes DEF Bs!BaseHolds, BusTyped, Bs!body
  <2>2. CallsTyped'
    BY <1>3, <1>9 DEF Bs!BaseHolds
  <2> QED BY <2>1, <2>2 DEF BusTyped, CallsTyped, Calls, Bs!TypeOK
<1>10. CASE Bs!Close
  <2>1. BusTyped'
    BY <1>1, <1>10 DEF Bs!Close, BusTyped, Bs!body
  <2>2. call' = [t \in Bs!Threads |-> IF t = "main" THEN Bs!Call("close arm", Arms, {}, {})
                                     ELSE [call[t] EXCEPT !.had = {}]]
    BY <1>10 DEF Bs!Close
  <2>3. Bs!Call("close arm", Arms, {}, {}) \in Calls
    BY DEF Calls, Bs!Call, Bs!Readings, Bs!Steps
  <2>4. \A t \in Bs!Threads : [call[t] EXCEPT !.had = {}] \in Calls
    BY <1>1 DEF CallsTyped, Calls
  <2>5. CallsTyped'
    BY <2>2, <2>3, <2>4 DEF CallsTyped
  <2> QED BY <2>1, <2>5 DEF BusTyped, CallsTyped, Calls, Bs!TypeOK
<1>11. CASE Bs!CloseBus
  <2>1. BusTyped'
    BY <1>1, <1>11 DEF Bs!CloseBus, BusTyped, Bs!body, Bs!owners
  <2>2. CallsTyped'
    BY <1>4, <1>11 DEF Bs!CloseBus, Bs!Steps
  <2> QED BY <2>1, <2>2 DEF BusTyped, CallsTyped, Calls, Bs!TypeOK
<1> QED BY <1>5, <1>6, <1>7, <1>8, <1>9, <1>10, <1>11

LEMMA ThreadTypes ==
    ASSUME Bs!TypeOK,
           \/ Bs!OnStopMotion \/ Bs!ArmStop
           \/ \E t \in Bs!Threads : Bs!Raises(t)
    PROVE  Bs!TypeOK'
<1>1. BusTyped /\ CallsTyped
  BY DEF BusTyped, CallsTyped, Calls, Bs!TypeOK
<1>2. CASE Bs!OnStopMotion \/ Bs!ArmStop
  <2>1. BusTyped'
    BY <1>1, <1>2, WriteTypes DEF Bs!OnStopMotion, Bs!ArmStop, BusTyped, Bs!body, Bs!owners
  <2>2. CallsTyped'
    BY <1>1, <1>2, EndingTypes, MovingTypes DEF Bs!OnStopMotion, Bs!ArmStop, Bs!Threads, Bs!Steps
  <2> QED BY <2>1, <2>2 DEF BusTyped, CallsTyped, Calls, Bs!TypeOK
<1>3. ASSUME NEW t \in Bs!Threads, Bs!Raises(t) PROVE Bs!TypeOK'
  <2>1. BusTyped'
    BY <1>1, <1>3, FaultTypes DEF Bs!Raises, BusTyped, Bs!body, Bs!owners
  <2>2. Bs!Moves(t, "over") \/ Bs!Ends(t)
    BY <1>3 DEF Bs!Raises
  <2>3. "over" \in Bs!Steps
    BY DEF Bs!Steps
  <2>4. CallsTyped'
    BY <1>1, <2>2, <2>3, MovingTypes, EndingTypes
  <2> QED BY <2>1, <2>4 DEF BusTyped, CallsTyped, Calls, Bs!TypeOK
<1> QED BY <1>2, <1>3

(* What is remembered of an arm is an angle, read or commanded.            *)
LEMMA KnownTypes ==
    ASSUME recall \in [Arms -> Bs!Readings], NEW a \in Arms, NEW got \in Bs!Readings,
           Bs!Remembers(a, got) \/ Bs!GoesHome(a) \/ recall' = [recall EXCEPT ![a] = got]
    PROVE  recall' \in [Arms -> Bs!Readings]
<1>1. {0} \in Bs!Readings
  BY RobotHardwareAssumption DEF Bs!Readings, Bs!Angles
<1> QED BY <1>1 DEF Bs!Remembers, Bs!GoesHome

LEMMA ArmTypes ==
    ASSUME Bs!TypeOK, NEW a \in Arms,
           \/ Bs!PingArm(a) \/ Bs!ArmReady(a) \/ Bs!HomeOnClose(a) \/ Bs!CloseArm(a)
           \/ Bs!SetJoints(a) \/ Bs!SetJointsDelta(a) \/ Bs!Status(a) \/ Bs!Joint(a)
           \/ Bs!AssignStatus(a) \/ Bs!AssignDelta(a) \/ Bs!Target(a) \/ Bs!WritePositions(a)
           \/ \E t \in {"command", "telemetry"} : Bs!ReadPositions(t, a) \/ Bs!ReadFails(t, a)
    PROVE  Bs!TypeOK'
<1>1. BusTyped /\ CallsTyped
  BY DEF BusTyped, CallsTyped, Calls, Bs!TypeOK
<1>2. {"main", "command", "stop", "telemetry"} \subseteq Bs!Threads /\ {} \in Bs!Readings
  BY DEF Bs!Threads, Bs!Readings
<1>3. {"ping arm", "arm holds", "done", "close arm", "close bus", "read", "write", "delta",
       "stop arm", "assign", "target"} \subseteq Bs!Steps
  BY DEF Bs!Steps
<1>4. CASE Bs!PingArm(a)
  <2>1. BusTyped'
    BY <1>1, <1>4, WriteTypes DEF Bs!PingArm, BusTyped, Bs!body, Bs!owners
  <2>2. Bs!Moves("main", "arm holds") \/ Bs!NextArm("main", a, "ping arm", "done")
    BY <1>4 DEF Bs!PingArm
  <2>3. CallsTyped'
    BY <1>1, <1>2, <1>3, <2>2, MovingTypes, NextArmTypes
  <2> QED BY <2>1, <2>3 DEF BusTyped, CallsTyped, Calls, Bs!TypeOK
<1>5. CASE Bs!ArmReady(a)
  <2>0. recall' \in [Arms -> Bs!Readings]
    BY <1>1, <1>5, KnownTypes DEF Bs!ArmReady, BusTyped
  <2>1. BusTyped'
    BY <1>1, <1>5, <2>0, SyncReadTypes DEF Bs!ArmReady, BusTyped, Bs!body
  <2>2. Bs!NextArm("main", a, "ping arm", "done")
    BY <1>5 DEF Bs!ArmReady
  <2>3. CallsTyped'
    BY <1>1, <1>2, <1>3, <2>2, NextArmTypes
  <2> QED BY <2>1, <2>3 DEF BusTyped, CallsTyped, Calls, Bs!TypeOK
<1>6. CASE Bs!CloseArm(a)
  <2>1. BusTyped'
    BY <1>1, <1>6 DEF Bs!CloseArm, BusTyped, Bs!body
  <2>2. Bs!NextArm("main", a, "close arm", "close bus")
    BY <1>6 DEF Bs!CloseArm
  <2>3. CallsTyped'
    BY <1>1, <1>2, <1>3, <2>2, NextArmTypes
  <2> QED BY <2>1, <2>3 DEF BusTyped, CallsTyped, Calls, Bs!TypeOK
<1>7. ASSUME NEW t \in Bs!Threads, NEW step \in Bs!Steps, NEW got \in Bs!Readings,
             NEW had \in SUBSET Bs!Angles, Bs!Begin(t, a, step, got, had)
      PROVE  Bs!TypeOK'
  <2> DEFINE seen == IF Bs!At("main", "done") THEN had ELSE {}
  <2>1. BusTyped'
    BY <1>1, <1>7 DEF Bs!Begin, BusTyped, Bs!body, Bs!owners
  <2>2. call' = [call EXCEPT ![t] = Bs!Call(step, {a}, got, seen)] /\ seen \in SUBSET Bs!Angles
    BY <1>7 DEF Bs!Begin
  <2> HIDE DEF seen
  <2>3. CallsTyped'
    BY <1>1, <2>2, CallTypes
  <2> QED BY <2>1, <2>3 DEF BusTyped, CallsTyped, Calls, Bs!TypeOK
<1>8. CASE Bs!SetJoints(a) \/ Bs!SetJointsDelta(a) \/ Bs!Status(a)
  <2>1. \A p \in Bs!Angles : {p} \in Bs!Readings
    BY DEF Bs!Readings
  <2>2. {angle[a]} \in SUBSET Bs!Angles /\ {} \in SUBSET Bs!Angles
    BY <1>1 DEF BusTyped
  <2> QED BY <1>2, <1>3, <1>7, <1>8, <2>1, <2>2 DEF Bs!SetJoints, Bs!SetJointsDelta, Bs!Status
<1>9. CASE Bs!Joint(a)
  <2>1. PICK p \in Bs!Angles :
          /\ angle' = [angle EXCEPT ![a] = p]
          /\ call' = [t \in Bs!Threads |-> IF a \in call[t].arms /\ call[t].had # {}
                                            THEN [call[t] EXCEPT !.had = @ \cup {p}] ELSE call[t]]
    BY <1>9 DEF Bs!Joint
  <2>2. BusTyped'
    BY <1>1, <1>9, <2>1 DEF Bs!Joint, BusTyped, Bs!owners
  <2>3. \A t \in Bs!Threads : [call[t] EXCEPT !.had = @ \cup {p}] \in Calls /\ call[t] \in Calls
    BY <1>1 DEF CallsTyped, Calls
  <2>4. CallsTyped'
    BY <2>1, <2>3 DEF CallsTyped
  <2> QED BY <2>2, <2>4 DEF BusTyped, CallsTyped, Calls, Bs!TypeOK
<1>12. CASE Bs!HomeOnClose(a)
  <2>1. recall' \in [Arms -> Bs!Readings]
    BY <1>1, <1>2, <1>12, KnownTypes DEF Bs!HomeOnClose, BusTyped
  <2>2. BusTyped'
    BY <1>1, <1>12, <2>1 DEF Bs!HomeOnClose, BusTyped, Bs!body
  <2> QED BY <1>1, <1>12, <2>2 DEF Bs!HomeOnClose, BusTyped, CallsTyped, Calls, Bs!TypeOK
<1>13. CASE Bs!AssignStatus(a) \/ Bs!AssignDelta(a)
  <2>1. \A t \in Bs!Threads : call[t].got \in Bs!Readings /\ call[t].had \in SUBSET Bs!Angles
    BY <1>1 DEF CallsTyped, Calls
  <2>2. recall' \in [Arms -> Bs!Readings]
    BY <1>1, <1>2, <1>13, <2>1, KnownTypes DEF Bs!AssignStatus, Bs!AssignDelta, BusTyped
  <2>3. BusTyped'
    BY <1>1, <1>13, <2>2 DEF Bs!AssignStatus, Bs!AssignDelta, BusTyped, Bs!body
  <2>4. Bs!AssignDelta(a) => CallsTyped'
    BY <1>1, <1>2, <1>3, MovingTypes DEF Bs!AssignDelta
  <2>5. Bs!AssignStatus(a) => CallsTyped'
    <3> SUFFICES ASSUME Bs!AssignStatus(a) PROVE CallsTyped'
      OBVIOUS
    <3> DEFINE c == [call["command"] EXCEPT !.had =
                       IF call["command"].arms = {a} /\ call["command"].had # {}
                       THEN call["command"].had \cup call["telemetry"].had
                       ELSE call["command"].had]
    <3>1. call' = [call EXCEPT !["telemetry"] = Bs!Idle, !["command"] = c]
      BY <1>1 DEF Bs!AssignStatus, CallsTyped
    <3>2. c \in Calls /\ Bs!Idle \in Calls
      BY <1>1, <1>2 DEF CallsTyped, Calls, Bs!Idle, Bs!Call, Bs!Steps
    <3> HIDE DEF c
    <3>3. [call EXCEPT !["telemetry"] = Bs!Idle, !["command"] = c] \in [Bs!Threads -> Calls]
      BY <1>1, <3>2 DEF CallsTyped
    <3> QED BY <3>1, <3>3 DEF CallsTyped
  <2>6. CallsTyped'
    BY <1>13, <2>4, <2>5
  <2> QED BY <2>3, <2>6 DEF BusTyped, CallsTyped, Calls, Bs!TypeOK
<1>14. CASE Bs!Target(a)
  <2>1. BusTyped'
    BY <1>1, <1>14 DEF Bs!Target, BusTyped, Bs!body, Bs!owners
  <2>2. CASE Bs!Ends("command")
    BY <1>1, <1>2, <2>1, <2>2, EndingTypes DEF BusTyped, CallsTyped, Calls, Bs!TypeOK
  <2>3. CASE \E aim \in Bs!Angles :
               call' = [call EXCEPT !["command"] = Bs!Call("write", {a}, {aim}, {})]
    <3>1. \A aim \in Bs!Angles : {aim} \in Bs!Readings
      BY DEF Bs!Readings
    <3>2. CallsTyped'
      <4>1. {a} \in SUBSET Arms /\ {} \in SUBSET Bs!Angles
        OBVIOUS
      <4> QED BY <1>1, <1>2, <1>3, <2>3, <3>1, <4>1, CallTypes
    <3> QED BY <2>1, <3>2 DEF BusTyped, CallsTyped, Calls, Bs!TypeOK
  <2> QED BY <1>14, <2>2, <2>3, AimsAtAnAngle DEF Bs!Target
<1>15. CASE Bs!WritePositions(a)
  <2>1. recall' \in [Arms -> Bs!Readings]
    <3>1. call["command"].got \in Bs!Readings
      BY <1>1, <1>2 DEF CallsTyped, Calls
    <3> QED BY <1>1, <1>15, <3>1, KnownTypes DEF Bs!WritePositions, BusTyped
  <2>2. BusTyped'
    BY <1>1, <1>15, <2>1 DEF Bs!WritePositions, Bs!GroupWrite, BusTyped, Bs!body
  <2>3. CallsTyped'
    BY <1>1, <1>2, <1>15, EndingTypes DEF Bs!WritePositions
  <2> QED BY <2>2, <2>3 DEF BusTyped, CallsTyped, Calls, Bs!TypeOK
<1>10. ASSUME NEW t \in Bs!Threads, Bs!ReadPositions(t, a) PROVE Bs!TypeOK'
  <2>1. PICK got \in Bs!Readings :
          /\ Bs!SyncRead(a, got)
          /\ call' = [call EXCEPT ![t].step = "assign", ![t].got = got]
    BY <1>10 DEF Bs!ReadPositions
  <2>2. BusTyped'
    BY <1>1, <1>10, <2>1, SyncReadTypes DEF Bs!ReadPositions, BusTyped, Bs!body, Bs!owners
  <2>3. CallsTyped'
    BY <1>1, <1>3, <2>1 DEF CallsTyped, Calls
  <2> QED BY <2>2, <2>3 DEF BusTyped, CallsTyped, Calls, Bs!TypeOK
<1>11. ASSUME NEW t \in Bs!Threads, Bs!ReadFails(t, a) PROVE Bs!TypeOK'
  <2>1. group' = Bs!AskedWith(a) /\ Bs!Faulty(TRUE) /\ Bs!Ends(t)
    BY <1>11 DEF Bs!ReadFails, Bs!ReadRaises
  <2>2. BusTyped'
    BY <1>1, <1>11, <2>1, FaultTypes DEF Bs!ReadFails, Bs!AskedWith, BusTyped, Bs!body, Bs!owners
  <2>3. CallsTyped'
    BY <1>1, <2>1, EndingTypes
  <2> QED BY <2>2, <2>3 DEF BusTyped, CallsTyped, Calls, Bs!TypeOK
<1> QED BY <1>2, <1>4, <1>5, <1>6, <1>8, <1>9, <1>10, <1>11, <1>12, <1>13, <1>14, <1>15

LEMMA ServoTypes == ASSUME Bs!TypeOK, [Bs!Next]_(Bs!busVars) PROVE Bs!TypeOK'
<1>1. CASE UNCHANGED Bs!busVars
  BY <1>1 DEF Bs!busVars, Bs!TypeOK
<1>2. CASE Bs!Next
  BY <1>2, MainTypes, ThreadTypes, ArmTypes DEF Bs!Next
<1> QED BY <1>1, <1>2

LEMMA ServoTypesStart == RobotHardwareInit => Bs!TypeOK
<1> SUFFICES ASSUME RobotHardwareInit PROVE Bs!TypeOK
  OBVIOUS
<1>1. 0 \in Bs!Angles /\ 0 \in 0..MaxFaults /\ {} \in Bs!Readings
  BY RobotHardwareAssumption DEF Bs!Angles, Bs!Readings
<1>2. BusTyped
  BY <1>1 DEF RobotHardwareInit, Bs!Init, Bs!NothingRead, BusTyped
<1>3. Bs!Idle \in Calls
  BY DEF Bs!Idle, Bs!Call, Calls, Bs!Steps, Bs!Readings
<1>4. CallsTyped
  BY <1>3 DEF RobotHardwareInit, Bs!Init, CallsTyped
<1> QED BY <1>2, <1>4 DEF BusTyped, CallsTyped, Calls, Bs!TypeOK

-----------------------------------------------------------------------------
(* What a relative motion starts from. No call of an arm begins before     *)
(* start() is through; after it, a call that reads has its joint among     *)
(* what it has seen, what it read comes from there, and so does what the   *)
(* arm remembers when its target is computed.                              *)
Starting == {"none", "ping base", "limp", "wheel mode", "hold", "ping arm", "arm holds"}

Tracked(c, at) ==
    c.step \in {"read", "delta", "assign", "target"} =>
        \E a \in Arms : /\ c.arms = {a} /\ at[a] \in c.had
                        /\ c.step = "assign" => c.got \subseteq c.had

Aimed(c, remembered) ==
    c.step = "target" /\ c.got # {} =>
        \A a \in c.arms : remembered[a] # {} /\ remembered[a] \subseteq c.had

AimInv ==
    /\ call["main"].step \in Starting =>
          call["command"].step = "none" /\ call["telemetry"].step = "none"
    /\ call["main"].step = "done" =>
          /\ Tracked(call["command"], angle) /\ Tracked(call["telemetry"], angle)
          /\ Aimed(call["command"], recall)

ServoInv == Bs!TypeOK /\ ReadingInv /\ AimInv

LEMMA RestingAims ==
    ASSUME call'["command"].step = "none", call'["telemetry"].step = "none"
    PROVE  AimInv'
BY DEF AimInv, Tracked, Aimed

LEMMA ClosedAims ==
    ASSUME call'["main"].step \notin Starting \cup {"done"} PROVE AimInv'
BY DEF AimInv

LEMMA AimsMove ==
    ASSUME NEW cm, NEW tl, call'["command"] = cm, call'["telemetry"] = tl,
           call'["main"].step \notin Starting,
           Tracked(cm, angle'), Tracked(tl, angle'), Aimed(cm, recall')
    PROVE  AimInv'
BY DEF AimInv

(* start(): nothing else runs.                                             *)
LEMMA StartKeepsAims ==
    ASSUME ServoInv,
           \/ Bs!Connect \/ Bs!PingBase \/ Bs!AllLimp \/ Bs!SetWheelMode \/ Bs!BaseHolds
           \/ \E a \in Arms : Bs!PingArm(a) \/ Bs!ArmReady(a)
    PROVE  AimInv'
<1> USE ThreadsKnown
<1>1. call["main"].step \in Starting
  BY DEF Bs!Connect, Bs!PingBase, Bs!AllLimp, Bs!SetWheelMode, Bs!BaseHolds, Bs!PingArm,
     Bs!ArmReady, Bs!At, Starting
<1>2. \A c : call' = [call EXCEPT !["main"] = c] =>
          call'["command"] = call["command"] /\ call'["telemetry"] = call["telemetry"]
  BY DEF ServoInv, ReadingInv
<1>3. \E c : call' = [call EXCEPT !["main"] = c] \/ UNCHANGED call
  BY DEF Bs!Connect, Bs!PingBase, Bs!AllLimp, Bs!SetWheelMode, Bs!BaseHolds, Bs!PingArm,
     Bs!ArmReady, Bs!Moves, Bs!ToArms, Bs!NextArm
<1> QED BY <1>1, <1>2, <1>3, RestingAims DEF ServoInv, AimInv

(* close(): nothing is claimed any more.                                   *)
LEMMA CloseKeepsAims ==
    ASSUME ServoInv,
           \/ Bs!Close \/ Bs!CloseBus
           \/ \E a \in Arms : Bs!HomeOnClose(a) \/ Bs!CloseArm(a)
    PROVE  AimInv'
<1> USE ThreadsKnown
<1>1. call'["main"].step \in {"close arm", "close bus", "over"}
  <2>1. CASE Bs!Close
    BY <2>1 DEF Bs!Close, Bs!Call
  <2>2. CASE Bs!CloseBus
    BY <2>2 DEF Bs!CloseBus, Bs!Moves, ServoInv, ReadingInv, Calls
  <2>3. ASSUME NEW a \in Arms, Bs!HomeOnClose(a) PROVE call'["main"].step = "close arm"
    BY <2>3 DEF Bs!HomeOnClose, Bs!At
  <2>4. ASSUME NEW a \in Arms, Bs!CloseArm(a)
        PROVE  call'["main"].step \in {"close arm", "close bus"}
    BY <2>4 DEF Bs!CloseArm, Bs!NextArm, Bs!Call, ServoInv, ReadingInv
  <2> QED BY <2>1, <2>2, <2>3, <2>4
<1> QED BY <1>1, ClosedAims DEF Starting

(* The calls of the arms, the stop, and what moves a joint.                *)
ArmCall(a) ==
    \/ Bs!SetJoints(a) \/ Bs!SetJointsDelta(a) \/ Bs!Status(a) \/ Bs!Joint(a)
    \/ Bs!AssignStatus(a) \/ Bs!AssignDelta(a) \/ Bs!Target(a) \/ Bs!WritePositions(a)
    \/ \E t \in {"command", "telemetry"} : Bs!ReadPositions(t, a) \/ Bs!ReadFails(t, a)

LEMMA BeginKeepsAims ==
    ASSUME ServoInv, call["main"].step = "done",
           NEW t \in {"command", "telemetry"}, NEW a \in Arms, NEW step \in {"write", "delta", "read"},
           NEW got, NEW had, Bs!Begin(t, a, step, got, had),
           step # "write" => angle[a] \in had
    PROVE  AimInv'
<1> USE ThreadsKnown
<1> DEFINE c == Bs!Call(step, {a}, got, had)
<1>1. call' = [call EXCEPT ![t] = c] /\ UNCHANGED <<angle, recall>>
  BY DEF Bs!Begin, Bs!At, Bs!body, Bs!owners
<1>2. Tracked(c, angle) /\ Aimed(c, recall)
  BY DEF Tracked, Aimed, Bs!Call
<1> HIDE DEF c
<1>3. /\ call'["command"] = IF t = "command" THEN c ELSE call["command"]
      /\ call'["telemetry"] = IF t = "telemetry" THEN c ELSE call["telemetry"]
      /\ call'["main"] = call["main"]
  BY <1>1 DEF ServoInv, ReadingInv
<1> QED BY <1>1, <1>2, <1>3, AimsMove DEF ServoInv, AimInv, Starting

LEMMA EndKeepsAims ==
    ASSUME ServoInv, call["main"].step = "done",
           NEW t \in {"command", "telemetry"}, Bs!Ends(t), UNCHANGED angle,
           t = "telemetry" => UNCHANGED recall
    PROVE  AimInv'
<1> USE ThreadsKnown
<1>1. Bs!Idle.step = "none"
  BY DEF Bs!Idle, Bs!Call
<1>2. \A at, remembered : Tracked(Bs!Idle, at) /\ Aimed(Bs!Idle, remembered)
  BY <1>1 DEF Tracked, Aimed
<1>3. /\ call'["command"] = IF t = "command" THEN Bs!Idle ELSE call["command"]
      /\ call'["telemetry"] = IF t = "telemetry" THEN Bs!Idle ELSE call["telemetry"]
      /\ call'["main"] = call["main"]
  BY DEF ServoInv, ReadingInv, Bs!Ends
<1> QED BY <1>2, <1>3, AimsMove DEF ServoInv, AimInv, Starting

(* What a telemetry call remembers, a command that it overlaps has seen.   *)
LEMMA StatusKeepsAims ==
    ASSUME ServoInv, call["main"].step = "done", NEW a \in Arms, Bs!AssignStatus(a)
    PROVE  AimInv'
<1> USE ThreadsKnown
<1> DEFINE old == call["command"]
           had == IF old.arms = {a} /\ old.had # {} THEN old.had \cup call["telemetry"].had
                  ELSE old.had
           c == [old EXCEPT !.had = had]
<1>1. call' = [call EXCEPT !["telemetry"] = Bs!Idle, !["command"] = c] /\ UNCHANGED angle
  BY DEF Bs!AssignStatus, ServoInv, ReadingInv, Bs!body
<1>2. /\ c.step = old.step /\ c.arms = old.arms /\ c.got = old.got /\ c.had = had
      /\ old.had \subseteq had /\ old \in Calls
  BY DEF ServoInv, ReadingInv, Calls
<1>3. Tracked(old, angle) /\ Aimed(old, recall) /\ Tracked(call["telemetry"], angle)
  BY DEF ServoInv, AimInv
<1>4. Tracked(c, angle)
  BY <1>2, <1>3 DEF Tracked
<1>5. Aimed(c, recall')
  <2> SUFFICES ASSUME c.step = "target", c.got # {}, NEW b \in c.arms
               PROVE  recall'[b] # {} /\ recall'[b] \subseteq c.had
    BY DEF Aimed
  <2>1. b \in Arms /\ recall[b] # {} /\ recall[b] \subseteq old.had
    BY <1>2, <1>3 DEF Aimed, Calls
  <2>2. recall' = IF call["telemetry"].got = {} THEN recall
                 ELSE [recall EXCEPT ![a] = call["telemetry"].got]
    BY DEF Bs!AssignStatus, Bs!Remembers
  <2>3. CASE b # a \/ call["telemetry"].got = {}
    BY <1>2, <2>1, <2>2, <2>3 DEF ServoInv, Bs!TypeOK
  <2>4. CASE b = a /\ call["telemetry"].got # {}
    <3>1. recall'[b] = call["telemetry"].got
      BY <2>1, <2>2, <2>4 DEF ServoInv, Bs!TypeOK
    <3>2. call["telemetry"].got \subseteq call["telemetry"].had
      BY <1>3 DEF Tracked, Bs!AssignStatus, Bs!At
    <3>3. old.arms = {a} /\ old.had # {}
      BY <1>2, <1>3, <2>4 DEF Tracked
    <3> QED BY <1>2, <2>4, <3>1, <3>2, <3>3
  <2> QED BY <2>3, <2>4
<1>6. Tracked(Bs!Idle, angle)
  BY DEF Tracked, Bs!Idle, Bs!Call
<1> HIDE DEF c
<1>7. call'["command"] = c /\ call'["telemetry"] = Bs!Idle /\ call'["main"] = call["main"]
  BY <1>1 DEF ServoInv, ReadingInv
<1> QED BY <1>1, <1>4, <1>5, <1>6, <1>7, AimsMove DEF Starting

LEMMA DeltaKeepsAims ==
    ASSUME ServoInv, call["main"].step = "done", NEW a \in Arms, Bs!AssignDelta(a)
    PROVE  AimInv'
<1> USE ThreadsKnown
<1> DEFINE old == call["command"]  c == [old EXCEPT !.step = "target"]
<1>1. call' = [call EXCEPT !["command"] = c] /\ UNCHANGED angle
  BY DEF Bs!AssignDelta, Bs!Moves, Bs!body
<1>2. /\ c.step = "target" /\ c.arms = old.arms /\ c.got = old.got /\ c.had = old.had
      /\ old.arms = {a} /\ old.step = "assign"
  BY DEF ServoInv, ReadingInv, Calls, Bs!AssignDelta, Bs!At
<1>3. Tracked(old, angle) /\ Tracked(call["telemetry"], angle)
  BY DEF ServoInv, AimInv
<1>4. Tracked(c, angle)
  BY <1>2, <1>3 DEF Tracked
<1>5. Aimed(c, recall')
  <2>1. recall' = IF old.got = {} THEN recall ELSE [recall EXCEPT ![a] = old.got]
    BY DEF Bs!AssignDelta, Bs!Remembers
  <2>2. old.got # {} => recall'[a] = old.got
    BY <2>1 DEF ServoInv, Bs!TypeOK
  <2>3. old.got \subseteq old.had
    BY <1>2, <1>3 DEF Tracked
  <2> QED BY <1>2, <2>2, <2>3 DEF Aimed
<1> HIDE DEF c
<1>6. /\ call'["command"] = c /\ call'["telemetry"] = call["telemetry"]
      /\ call'["main"] = call["main"]
  BY <1>1 DEF ServoInv, ReadingInv
<1> QED BY <1>1, <1>3, <1>4, <1>5, <1>6, AimsMove DEF Starting

LEMMA TargetKeepsAims ==
    ASSUME ServoInv, call["main"].step = "done", NEW a \in Arms, Bs!Target(a)
    PROVE  AimInv'
<1> USE ThreadsKnown
<1>1. UNCHANGED <<angle, recall>>
  BY DEF Bs!Target, Bs!body, Bs!owners
<1>2. CASE Bs!Ends("command")
  BY <1>1, <1>2, EndKeepsAims
<1>3. ASSUME NEW p, call' = [call EXCEPT !["command"] = Bs!Call("write", {a}, p, {})]
      PROVE  AimInv'
  <2> DEFINE c == Bs!Call("write", {a}, p, {})
  <2>1. Tracked(c, angle) /\ Aimed(c, recall)
    BY DEF Tracked, Aimed, Bs!Call
  <2> HIDE DEF c
  <2>2. /\ call'["command"] = c /\ call'["telemetry"] = call["telemetry"]
        /\ call'["main"] = call["main"]
    BY <1>3 DEF ServoInv, ReadingInv, c
  <2> QED BY <1>1, <2>1, <2>2, AimsMove DEF ServoInv, AimInv, Starting
<1> QED BY <1>2, <1>3 DEF Bs!Target

(* A joint that moves is seen by the calls that read it.                   *)
LEMMA JointKeepsAims ==
    ASSUME ServoInv, call["main"].step = "done", NEW a \in Arms, Bs!Joint(a)
    PROVE  AimInv'
<1> USE ThreadsKnown
<1>1. PICK p \in Bs!Angles :
        /\ angle' = [angle EXCEPT ![a] = p]
        /\ call' = [t \in Bs!Threads |-> IF a \in call[t].arms /\ call[t].had # {}
                                        THEN [call[t] EXCEPT !.had = @ \cup {p}] ELSE call[t]]
  BY DEF Bs!Joint
<1>2. ASSUME NEW t \in Bs!Threads
      PROVE  /\ call'[t].step = call[t].step /\ call'[t].arms = call[t].arms
             /\ call'[t].got = call[t].got /\ call[t].had \subseteq call'[t].had
             /\ a \in call[t].arms /\ call[t].had # {} => p \in call'[t].had
  BY <1>1 DEF ServoInv, ReadingInv, Calls
<1>3. \A b \in Arms : angle'[b] = IF b = a THEN p ELSE angle[b]
  BY <1>1 DEF ServoInv, Bs!TypeOK
<1>4. ASSUME NEW t \in Bs!Threads, Tracked(call[t], angle) PROVE Tracked(call'[t], angle')
  BY <1>2, <1>3, <1>4 DEF Tracked
<1>5. Aimed(call'["command"], recall')
  <2>1. Aimed(call["command"], recall) /\ UNCHANGED recall
    BY DEF ServoInv, AimInv, Bs!Joint, Bs!owners
  <2> QED BY <1>2, <2>1 DEF Aimed
<1> QED BY <1>2, <1>4, <1>5, AimsMove DEF ServoInv, AimInv, Starting

LEMMA ReadKeepsAims ==
    ASSUME ServoInv, call["main"].step = "done", NEW a \in Arms,
           NEW t \in {"command", "telemetry"}, Bs!ReadPositions(t, a)
    PROVE  AimInv'
<1> USE ThreadsKnown
<1>1. AnswersTheRead(t, a)
  BY ServedRead DEF ServoInv
<1>2. /\ call'[t].step = "assign" /\ call'[t].arms = call[t].arms /\ call'[t].had = call[t].had
      /\ call[t].step \in Asks
  BY DEF Bs!ReadPositions, ServoInv, ReadingInv, Calls, Asks
<1>3. Tracked(call'[t], angle)
  BY <1>1, <1>2 DEF ServoInv, AimInv, Tracked, AnswersTheRead, Asks
<1>4. Aimed(call'[t], recall)
  BY <1>2 DEF Aimed
<1>5. UNCHANGED <<angle, recall>>
  BY DEF Bs!ReadPositions, Bs!body, Bs!owners
<1> QED BY <1>1, <1>3, <1>4, <1>5, AimsMove DEF ServoInv, AimInv, AnswersTheRead, Starting

LEMMA ArmCallKeepsAims ==
    ASSUME ServoInv, call["main"].step = "done", NEW a \in Arms, ArmCall(a)
    PROVE  AimInv'
<1>1. CASE Bs!SetJoints(a) \/ Bs!SetJointsDelta(a) \/ Bs!Status(a)
  BY <1>1, BeginKeepsAims DEF Bs!SetJoints, Bs!SetJointsDelta, Bs!Status
<1>2. CASE Bs!WritePositions(a)
  BY <1>2, EndKeepsAims DEF Bs!WritePositions, Bs!body
<1>3. ASSUME NEW t \in {"command", "telemetry"}, Bs!ReadFails(t, a) PROVE AimInv'
  BY <1>3, EndKeepsAims DEF Bs!ReadFails, Bs!body, Bs!owners
<1> QED BY <1>1, <1>2, <1>3, StatusKeepsAims, DeltaKeepsAims, TargetKeepsAims, JointKeepsAims,
           ReadKeepsAims DEF ArmCall

(* A call of an arm, or a motion of a joint, leaves start() and close()    *)
(* where they are; during start() there is no such call.                   *)
LEMMA MainStays ==
    ASSUME ServoInv, NEW a \in Arms, ArmCall(a)
    PROVE  /\ call'["main"].step = call["main"].step
           /\ call["main"].step \in Starting =>
                 call'["command"].step = "none" /\ call'["telemetry"].step = "none"
<1> USE ThreadsKnown
<1>1. CASE Bs!Joint(a)
  <2>1. \A t \in Bs!Threads : call'[t].step = call[t].step
    BY <1>1 DEF Bs!Joint, ServoInv, ReadingInv, Calls
  <2> QED BY <2>1 DEF ServoInv, AimInv
<1>2. CASE ~Bs!Joint(a)
  <2>1. call["command"].step # "none" \/ call["telemetry"].step # "none"
        \/ call["main"].step \in {"done", "close arm", "close bus"}
    BY <1>2 DEF ArmCall, Bs!SetJoints, Bs!SetJointsDelta, Bs!Status, Bs!Begin, Bs!AssignStatus,
       Bs!AssignDelta, Bs!Target, Bs!WritePositions, Bs!ReadPositions, Bs!ReadFails, Bs!At
  <2>2. call["main"].step \notin Starting
    BY <2>1 DEF ServoInv, AimInv, Starting
  <2>3. call'["main"] = call["main"]
    BY <1>2 DEF ArmCall, Bs!SetJoints, Bs!SetJointsDelta, Bs!Status, Bs!Begin, Bs!AssignStatus,
       Bs!AssignDelta, Bs!Target, Bs!WritePositions, Bs!ReadPositions, Bs!ReadFails,
       Bs!Moves, Bs!Ends, ServoInv, ReadingInv
  <2> QED BY <2>2, <2>3
<1> QED BY <1>1, <1>2

LEMMA AimsKept == ASSUME ServoInv, [Bs!Next]_(Bs!busVars) PROVE AimInv'
<1> USE ThreadsKnown
<1>1. CASE UNCHANGED Bs!busVars
  BY <1>1 DEF ServoInv, AimInv, Bs!busVars
<1>2. ASSUME NEW a \in Arms, ArmCall(a) PROVE AimInv'
  BY <1>2, MainStays, ArmCallKeepsAims, RestingAims DEF AimInv
<1>3. ASSUME Bs!OnStopMotion \/ Bs!ArmStop \/ Bs!Raises("stop") PROVE AimInv'
  <2>1. /\ \A t \in {"main", "command", "telemetry"} : call'[t] = call[t]
        /\ UNCHANGED <<angle, recall>>
    BY <1>3 DEF Bs!OnStopMotion, Bs!ArmStop, Bs!Raises, Bs!Moves, Bs!Ends, Bs!body, Bs!owners,
       ServoInv, ReadingInv
  <2> QED BY <2>1 DEF ServoInv, AimInv
<1>4. ASSUME NEW t \in {"command", "telemetry"}, Bs!Raises(t) PROVE AimInv'
  <2>1. Bs!Ends(t) /\ UNCHANGED <<angle, recall>>
    BY <1>4 DEF Bs!Raises, Bs!body, Bs!owners
  <2>2. call'["main"] = call["main"] /\ call[t].step # "none"
    BY <1>4, <2>1 DEF Bs!Ends, Bs!Raises, ServoInv, ReadingInv
  <2> QED BY <2>1, <2>2, EndKeepsAims DEF ServoInv, AimInv
<1>5. CASE Bs!Raises("main")
  BY <1>5, ClosedAims DEF Bs!Raises, Bs!Moves, ServoInv, ReadingInv, Calls, Starting
<1>6. ASSUME NEW t \in Bs!Threads, Bs!Raises(t) PROVE AimInv'
  BY <1>3, <1>4, <1>5, <1>6 DEF Bs!Threads
<1> QED BY <1>1, <1>2, <1>3, <1>6, StartKeepsAims, CloseKeepsAims DEF Bs!Next, ArmCall

(* An answer to a read of a joint is where the joint is now: no answer to  *)
(* an earlier read of the group, lost or cut short, is taken for it. And a *)
(* relative motion of a joint that answered starts where the joint was     *)
(* since the call began, or a telemetry call that overlapped it.           *)
THEOREM ReadingsAreOfNow == RobotHardwareSpec => MeasuredNow
<1>1. RobotHardwareInit => ServoInv
  <2> SUFFICES ASSUME RobotHardwareInit PROVE ServoInv
    OBVIOUS
  <2>1. Bs!Idle \in Calls /\ Bs!Idle.step = "none"
    BY StepIsKnown DEF Bs!Idle, Bs!Call, Bs!Readings, Calls
  <2>2. call = [t \in Bs!Threads |-> Bs!Idle] /\ group = Bs!NothingRead
    BY DEF RobotHardwareInit, Bs!Init
  <2>3. NothingLeft
    BY <2>2 DEF NothingLeft, Bs!NothingRead
  <2>4. ReadingInv
    BY <2>1, <2>2, <2>3 DEF ReadingInv, Asks
  <2>5. AimInv
    BY <2>1, <2>2, ThreadsKnown DEF AimInv, Starting
  <2> QED BY <2>4, <2>5, ServoTypesStart DEF ServoInv
<1>2. ServoInv /\ [RobotHardwareNext]_robotVars => ServoInv'
  BY ReadingsKept, AimsKept, ServoTypes, HardwareSteps DEF ServoInv, NoReader, AnswersTheRead
<1>3. ServoInv /\ [RobotHardwareNext]_robotVars =>
        [\A a \in Arms :
            /\ \A t \in Bs!Threads : Bs!Reads(t, a) => call'[t].got \subseteq {angle[a]}
            /\ Bs!Aims(a) => Bs!Start(a) \subseteq call["command"].had]_(Bs!busVars)
  <2> SUFFICES ASSUME ServoInv, [Bs!Next]_(Bs!busVars), ~UNCHANGED Bs!busVars, NEW a \in Arms
               PROVE  /\ \A t \in Bs!Threads : Bs!Reads(t, a) => call'[t].got \subseteq {angle[a]}
                      /\ Bs!Aims(a) => Bs!Start(a) \subseteq call["command"].had
    BY HardwareSteps
  <2>1. ASSUME NEW t \in Bs!Threads, Bs!Reads(t, a) PROVE call'[t].got \subseteq {angle[a]}
    <3>1. call[t].step \in Asks /\ a \in call[t].arms /\ call'[t].step \in Answers
      BY <2>1 DEF Bs!Reads, Asks, Answers
    <3>2. PICK s \in Bs!Threads, b \in Arms : AnswersTheRead(s, b)
      BY <3>1, ReadingsKept DEF NoReader, ServoInv
    <3>3. s = t
      BY <3>1, <3>2, StepIsKnown DEF AnswersTheRead
    <3> QED BY <3>1, <3>2, <3>3 DEF AnswersTheRead
  <2>2. ASSUME Bs!Aims(a) PROVE Bs!Start(a) \subseteq call["command"].had
    BY <2>2 DEF Bs!Aims, Bs!At, Bs!Start, ServoInv, AimInv, Aimed
  <2> QED BY <2>1, <2>2
<1> QED
  BY <1>1, <1>2, <1>3, PTL DEF RobotHardwareSpec, MeasuredNow, Bs!MeasuredNow

-----------------------------------------------------------------------------
(* Types. The docking of the arm: a skill that comes to move the hand has  *)
(* located its target, and it ends with its last call.                     *)
DockTypes ==
    /\ Dk!TypeOK
    /\ skill = "pick" => dockAt \in 1..10 /\ (dockAt >= 3 => target # Dk!NoPoint)
    /\ skill = "place" => dockAt \in 1..9 /\ (dockAt >= 2 => target # Dk!NoPoint)

Moving == {"open", "ik", "above", "on", "close", "posture"}

LEMMA PlanIs ==
    /\ \A i \in 1..10 : Dk!Plan["pick"][i] \in Moving => i < 10
    /\ \A i \in 1..10 : Dk!Plan["pick"][i] \in {"ik", "above", "on"} => i >= 3
    /\ \A i \in 1..9 : Dk!Plan["place"][i] \in Moving => i \in 2..8
    /\ Len(Dk!Plan["pick"]) = 10 /\ Len(Dk!Plan["place"]) = 9
    /\ \A i \in 1..10 : Dk!Plan["pick"][i] = "look" => i = 10
    /\ Dk!Plan["pick"][2] = "locate"
    /\ \A i \in 1..10 : Dk!Plan["pick"][i] = "locate" => i < 10
    /\ \A i \in 1..9 : Dk!Plan["place"][i] # "locate"
BY DEF Dk!Plan, Moving

LEMMA TargetTypes == ASSUME Dk!TypeOK PROVE Dk!ToBase(Dk!DockAt) \in Dk!Cells \X Dk!Cells
<1>1. dockBase.x \in -Room..Room /\ dockBase.y \in -Room..Room /\ dockBase.yaw \in 0..3
  BY DEF Dk!TypeOK
<1>2. (4 - dockBase.yaw) % 4 \in 0..3
  BY <1>1
<1> QED BY <1>1, <1>2, RobotHardwareAssumption
        DEF Dk!ToBase, Dk!DockAt, Dk!Turned, Dk!Cells

LEMMA GripTypes ==
    ASSUME Dk!TypeOK, Dk!OpenGripper \/ Dk!CloseGripper \/ Dk!ResetPosture
    PROVE  /\ UNCHANGED dockBase /\ dockHand' \in {dockHand, Dk!NoPoint}
           /\ dockActive' \in BOOLEAN /\ gripped' \in BOOLEAN /\ docked' \in BOOLEAN
BY DEF Dk!OpenGripper, Dk!Released, Dk!CloseGripper, Dk!ResetPosture, Dk!TypeOK, Dk!body, Dk!wand

(* A skill goes on to its next call.                                       *)
LEMMA ContinueTypes ==
    ASSUME DockTypes, skill # "none", Dk!Continue, UNCHANGED target,
           \E name \in Moving : Dk!Calls(name)
    PROVE  /\ skill' \in {"none", "pick", "place"} /\ dockAt' \in 0..10
           /\ target' \in {Dk!NoPoint} \cup (Dk!Cells \X Dk!Cells)
           /\ outcome' \in {"none", "picked", "placed", "failed"}
           /\ skill' = "pick" => dockAt' \in 1..10 /\ (dockAt' >= 3 => target' # Dk!NoPoint)
           /\ skill' = "place" => dockAt' \in 1..9 /\ target' # Dk!NoPoint
<1>1. CASE skill = "pick"
  <2>1. dockAt \in 1..10 /\ dockAt < 10 /\ dockAt # 2
    BY <1>1, PlanIs DEF DockTypes, Dk!Calls, Moving
  <2> QED BY <1>1, <2>1 DEF DockTypes, Dk!TypeOK, Dk!Continue
<1>2. CASE skill = "place"
  BY <1>2, PlanIs DEF DockTypes, Dk!TypeOK, Dk!Calls, Dk!Continue
<1> QED BY <1>1, <1>2 DEF DockTypes, Dk!TypeOK

LEMMA BaseTypes ==
    ASSUME DockTypes,
           \/ \E direction \in {"forward", "backward", "left", "right"} : Dk!MoveBase(direction)
           \/ \E quarter \in {1, 3} : Dk!TurnBase(quarter)
           \/ Dk!Reset \/ Dk!Reconnect \/ Dk!OtherSkill
           \/ \E s \in {"pick", "place"} : Dk!StartSkill(s)
    PROVE  DockTypes'
<1> USE DEF DockTypes, Dk!TypeOK, Dk!body, Dk!wand
<1>1. CASE \E direction \in {"forward", "backward", "left", "right"} : Dk!MoveBase(direction)
  BY <1>1 DEF Dk!MoveBase
<1>2. CASE \E quarter \in {1, 3} : Dk!TurnBase(quarter)
  BY <1>2 DEF Dk!TurnBase
<1>3. CASE Dk!Reset \/ Dk!Reconnect
  <2>1. Dk!Home \in [x : -Room..Room, y : -Room..Room, yaw : 0..3]
    BY RobotHardwareAssumption DEF Dk!Home
  <2>2. /\ dockBase' = Dk!Home /\ dockHand' = Dk!NoPoint /\ gripped' = FALSE /\ docked' = TRUE
        /\ dockActive' \in {dockActive, FALSE} /\ UNCHANGED <<skill, dockAt, target, outcome>>
    BY <1>3 DEF Dk!Reset, Dk!Reconnect, Dk!Fresh
  <2> QED BY <2>1, <2>2
<1>4. CASE Dk!OtherSkill
  BY <1>4, GripTypes DEF Dk!OtherSkill
<1>5. CASE \E s \in {"pick", "place"} : Dk!StartSkill(s)
  BY <1>5 DEF Dk!StartSkill
<1> QED BY <1>1, <1>2, <1>3, <1>4, <1>5

LEMMA DockSkillTypes ==
    ASSUME DockTypes,
           \/ Dk!CallOpen \/ Dk!CallClose \/ Dk!CallPosture \/ Dk!Locate \/ Dk!CallIk
           \/ Dk!CallAbove \/ Dk!CallOn \/ Dk!LookForTarget \/ Dk!LookAtResult \/ Dk!FailSkill
    PROVE  DockTypes'
<1>1. Dk!TypeOK
  BY DEF DockTypes
<1>2. ASSUME /\ dockBase' \in [x : -Room..Room, y : -Room..Room, yaw : 0..3]
             /\ dockHand' \in {Dk!NoPoint} \cup (Dk!Cells \X Dk!Cells \X {0, 1})
             /\ dockActive' \in BOOLEAN /\ gripped' \in BOOLEAN /\ docked' \in BOOLEAN,
             Dk!Continue, UNCHANGED target, NEW name \in Moving, Dk!Calls(name)
      PROVE  DockTypes'
  <2>1. skill # "none" /\ \E n \in Moving : Dk!Calls(n)
    BY <1>2 DEF Dk!Calls
  <2>2. /\ skill' \in {"none", "pick", "place"} /\ dockAt' \in 0..10
        /\ target' \in {Dk!NoPoint} \cup (Dk!Cells \X Dk!Cells)
        /\ outcome' \in {"none", "picked", "placed", "failed"}
        /\ skill' = "pick" => dockAt' \in 1..10 /\ (dockAt' >= 3 => target' # Dk!NoPoint)
        /\ skill' = "place" => dockAt' \in 1..9 /\ target' # Dk!NoPoint
    BY <1>2, <2>1, ContinueTypes
  <2> QED BY <1>2, <2>2 DEF DockTypes, Dk!TypeOK
<1>3. CASE Dk!CallOpen \/ Dk!CallClose \/ Dk!CallPosture
  <2>1. \E name \in Moving : Dk!Calls(name)
    BY <1>3 DEF Dk!CallOpen, Dk!CallClose, Dk!CallPosture, Moving
  <2>2. Dk!Continue /\ UNCHANGED target /\ (Dk!OpenGripper \/ Dk!CloseGripper \/ Dk!ResetPosture)
    BY <1>3 DEF Dk!CallOpen, Dk!CallClose, Dk!CallPosture
  <2> QED BY <1>1, <1>2, <2>1, <2>2, GripTypes DEF Dk!TypeOK
<1>4. CASE Dk!CallIk
  <2>1. Dk!Calls("ik") /\ "ik" \in Moving /\ Dk!Continue /\ UNCHANGED target
    BY <1>4 DEF Dk!CallIk, Moving
  <2>2. UNCHANGED <<dockBase, dockHand, gripped, docked>> /\ dockActive' \in BOOLEAN
    BY <1>4 DEF Dk!CallIk, Dk!SolveIk, Dk!body
  <2> QED BY <1>1, <1>2, <2>1, <2>2 DEF Dk!TypeOK
<1>5. CASE Dk!CallAbove \/ Dk!CallOn
  <2>1. PICK name \in {"above", "on"} : Dk!Calls(name)
    BY <1>5 DEF Dk!CallAbove, Dk!CallOn
  <2>2. target # Dk!NoPoint
    BY <1>1, <2>1, PlanIs DEF Dk!Calls, DockTypes, Moving, Dk!TypeOK
  <2>3. Dk!Above(target) \in Dk!Cells \X Dk!Cells \X {0, 1} /\ Dk!On(target) \in Dk!Cells \X Dk!Cells \X {0, 1}
    BY <1>1, <2>2 DEF Dk!TypeOK, Dk!Above, Dk!On
  <2>4. /\ dockHand' \in {Dk!Above(target), Dk!On(target)} /\ dockActive' = TRUE
        /\ UNCHANGED <<dockBase, gripped, docked, target>> /\ Dk!Continue
    BY <1>5 DEF Dk!CallAbove, Dk!CallOn, Dk!MoveArm
  <2>5. name \in Moving
    BY DEF Moving
  <2> QED BY <1>1, <1>2, <2>1, <2>3, <2>4, <2>5 DEF Dk!TypeOK
<1>6. CASE Dk!Locate \/ Dk!LookForTarget
  <2>1. /\ target' \in Dk!Cells \X Dk!Cells /\ dockAt' = dockAt + 1 /\ skill # "none"
        /\ UNCHANGED <<dockBase, dockHand, dockActive, gripped, docked, skill, outcome>>
    BY <1>1, <1>6, TargetTypes
       DEF Dk!Locate, Dk!LookForTarget, Dk!Continue, Dk!Calls, Dk!body, Dk!wand
  <2>2. target' # Dk!NoPoint
    BY <2>1 DEF Dk!NoPoint
  <2>3. CASE skill = "pick"
    <3>1. dockAt \in 1..10 /\ dockAt < 10
      BY <1>6, <2>3, PlanIs DEF Dk!Locate, Dk!LookForTarget, Dk!Calls, Dk!LastCall, DockTypes, Moving
    <3> QED BY <1>1, <2>1, <2>2, <2>3, <3>1 DEF DockTypes, Dk!TypeOK
  <2>4. CASE skill = "place"
    <3>1. dockAt \in 1..9 /\ dockAt < 9
      BY <1>6, <2>4, PlanIs DEF Dk!Locate, Dk!LookForTarget, Dk!Calls, Dk!LastCall, DockTypes, Moving
    <3> QED BY <1>1, <2>1, <2>2, <2>4, <3>1 DEF DockTypes, Dk!TypeOK
  <2> QED BY <1>1, <2>1, <2>3, <2>4 DEF Dk!TypeOK
<1>7. CASE Dk!LookAtResult \/ Dk!FailSkill
  <2>1. /\ skill' = "none" /\ dockAt' = 0 /\ target' = Dk!NoPoint
        /\ outcome' \in {"picked", "placed", "failed"}
        /\ UNCHANGED <<dockBase, dockHand, gripped, docked>> /\ dockActive' \in {dockActive, TRUE}
    BY <1>7 DEF Dk!LookAtResult, Dk!FailSkill, Dk!EndSkill, Dk!body, Dk!wand
  <2>2. Dk!TypeOK'
    <3>1. /\ dockBase' \in [x : -Room..Room, y : -Room..Room, yaw : 0..3]
          /\ dockHand' \in {Dk!NoPoint} \cup (Dk!Cells \X Dk!Cells \X {0, 1})
      BY <1>1, <2>1 DEF Dk!TypeOK
    <3>2. dockActive' \in BOOLEAN /\ gripped' \in BOOLEAN /\ docked' \in BOOLEAN
      BY <1>1, <2>1 DEF Dk!TypeOK
    <3>3. /\ skill' \in {"none", "pick", "place"} /\ dockAt' \in 0..10
          /\ target' \in {Dk!NoPoint} \cup (Dk!Cells \X Dk!Cells)
          /\ outcome' \in {"none", "picked", "placed", "failed"}
      BY <2>1
    <3> QED BY <3>1, <3>2, <3>3 DEF Dk!TypeOK
  <2> QED BY <2>1, <2>2 DEF DockTypes
<1> QED BY <1>3, <1>4, <1>5, <1>6, <1>7

LEMMA DockTypesKept == ASSUME DockTypes, [Dk!Next]_(Dk!dockVars) PROVE DockTypes'
<1>1. CASE UNCHANGED Dk!dockVars
  BY <1>1 DEF Dk!dockVars, DockTypes, Dk!TypeOK
<1>2. CASE Dk!Next
  BY <1>2, BaseTypes, DockSkillTypes DEF Dk!Next
<1> QED BY <1>1, <1>2

(* Types. The mock robot.                                                  *)
WorldTyped ==
    /\ opening \in Mk!Openings /\ rolling \in BOOLEAN
    /\ mockHeld \in Objects \cup {NoObject}
    /\ objects \in [Objects -> [held : BOOLEAN, visible : BOOLEAN, place : Mk!Places]]

LEMMA CappedIs ==
    ASSUME NEW top \in Nat, NEW n \in 0..top PROVE Mk!Capped(n, top) \in 0..top
BY DEF Mk!Capped

LEMMA CountTypes ==
    ASSUME Mk!TypeOK, Mk!Counted PROVE attempts' \in 0..(LastFault + 1)
<1>1. LastFault + 1 \in Nat
  BY RobotHardwareAssumption
<1> QED BY <1>1, CappedIs DEF Mk!TypeOK, Mk!Counted

(* An attempt changes the state, the count and perhaps the battery.        *)
LEMMA AttemptTypes ==
    ASSUME Mk!TypeOK, Mk!Counted, WorldTyped', mockBattery' \in Mk!Levels,
           mockState' \in {"created", "idle", "degraded", "skill_completed", "failed", "closed"},
           UNCHANGED <<settings, scans>>
    PROVE  Mk!TypeOK'
BY CountTypes DEF Mk!TypeOK, WorldTyped

LEMMA SuccessTypes ==
    ASSUME Mk!TypeOK, NEW action, Mk!Succeed(action), WorldTyped' PROVE Mk!TypeOK'
<1>1. mockBattery' \in Mk!Levels
  BY DEF Mk!TypeOK, Mk!Succeed, Mk!Drained, Mk!Below, Mk!Levels
<1> QED BY <1>1, AttemptTypes DEF Mk!Succeed

LEMMA FailureTypes ==
    ASSUME Mk!TypeOK, NEW notReady, Mk!Unsuccessful(notReady) PROVE Mk!TypeOK'
<1>1. WorldTyped'
  BY DEF Mk!TypeOK, Mk!Unsuccessful, Mk!world, WorldTyped
<1>2. mockBattery' \in Mk!Levels
  BY DEF Mk!TypeOK, Mk!Unsuccessful
<1>3. mockState' \in {"idle", "failed"}
  BY DEF Mk!Unsuccessful
<1> QED BY <1>1, <1>2, <1>3, AttemptTypes DEF Mk!Unsuccessful

LEMMA MockTypes == ASSUME Mk!TypeOK, [Mk!Next]_(Mk!mockVars) PROVE Mk!TypeOK'
<1>1. WorldTyped
  BY DEF Mk!TypeOK, WorldTyped
<1>2. CASE UNCHANGED Mk!mockVars
  BY <1>2 DEF Mk!mockVars, Mk!TypeOK
<1>3. CASE Mk!Start \/ Mk!Close
  BY <1>3 DEF Mk!Start, Mk!Close, Mk!world, Mk!TypeOK
<1>4. CASE Mk!Reset
  <2>1. settings \in Mk!Settings
    BY DEF Mk!TypeOK
  <2>2. settings.level \in Mk!Levels /\ settings.seen \in [Objects -> BOOLEAN]
    BY <2>1 DEF Mk!Settings, Mk!Levels
  <2>3. objects' \in [Objects -> [held : BOOLEAN, visible : BOOLEAN, place : Mk!Places]]
    BY <1>4, <2>2 DEF Mk!Reset, Mk!Places
  <2>4. attempts' \in 0..(LastFault + 1) /\ scans' \in [Objects -> 0..(MaxScans + 1)]
    BY <1>4, RobotHardwareAssumption DEF Mk!Reset
  <2> QED BY <1>4, <2>2, <2>3, <2>4 DEF Mk!Reset, Mk!TypeOK, Mk!Openings
<1>5. ASSUME NEW o \in Objects, Mk!Scan(o) PROVE Mk!TypeOK'
  <2>1. scans' \in [Objects -> 0..(MaxScans + 1)]
    <3>1. MaxScans + 1 \in Nat /\ scans[o] \in 0..(MaxScans + 1)
      BY RobotHardwareAssumption DEF Mk!TypeOK
    <3>2. Mk!Capped(scans[o], MaxScans + 1) \in 0..(MaxScans + 1)
      BY <3>1, CappedIs
    <3> QED BY <1>5, <3>2 DEF Mk!Scan, Mk!TypeOK
  <2>2. objects' \in [Objects -> [held : BOOLEAN, visible : BOOLEAN, place : Mk!Places]]
    BY <1>5 DEF Mk!Scan, Mk!TypeOK
  <2> QED BY <1>5, <2>1, <2>2 DEF Mk!Scan, Mk!TypeOK
<1>6. ASSUME NEW o \in Objects, Mk!Grasp(o) PROVE Mk!TypeOK'
  <2>1. WorldTyped'
    BY <1>1, <1>6 DEF Mk!Grasp, WorldTyped, Mk!Openings, Mk!Places
  <2> QED BY <1>6, <2>1, SuccessTypes DEF Mk!Grasp
<1>7. ASSUME NEW action \in Mk!Actions, NEW complete \in BOOLEAN,
             Mk!Refuse(action, complete) \/ Mk!Injected(action)
      PROVE  Mk!TypeOK'
  BY <1>7, FailureTypes DEF Mk!Refuse, Mk!Injected
<1>8. CASE Mk!BeyondLimit
  BY <1>8, FailureTypes DEF Mk!BeyondLimit
<1>9. CASE Mk!StopMotion \/ Mk!MoveBase \/ Mk!MoveArm \/ Mk!ResetPosture \/ Mk!HalfOpen
           \/ Mk!CloseOnNothing
  <2>1. WorldTyped'
    BY <1>1, <1>9 DEF Mk!StopMotion, Mk!MoveBase, Mk!MoveArm, Mk!ResetPosture, Mk!HalfOpen,
       Mk!CloseOnNothing, WorldTyped, Mk!Openings
  <2> QED BY <1>9, <2>1, SuccessTypes DEF Mk!StopMotion, Mk!MoveBase, Mk!MoveArm,
          Mk!ResetPosture, Mk!HalfOpen, Mk!CloseOnNothing
<1>10. CASE Mk!Open
  <2>1. mockHeld # NoObject => mockHeld \in Objects
    BY <1>1 DEF WorldTyped
  <2>2. objects' \in [Objects -> [held : BOOLEAN, visible : BOOLEAN, place : Mk!Places]]
    BY <1>1, <1>10, <2>1 DEF Mk!Open, Mk!LetGo, WorldTyped, Mk!Places
  <2>3. WorldTyped'
    BY <1>1, <1>10, <2>2 DEF Mk!Open, WorldTyped, Mk!Openings
  <2> QED BY <1>10, <2>3, SuccessTypes DEF Mk!Open
<1> QED BY <1>2, <1>3, <1>4, <1>5, <1>6, <1>7, <1>8, <1>9, <1>10 DEF Mk!Next

(* Types. The simulation, beside what SimulationInv says of it.            *)
DriverTypes ==
    /\ kind \in [SimActions -> Sd!Kinds \cup {"none"}]
    /\ activeStop \in SimActions \cup {NoAction}
    /\ moving \in BOOLEAN
    /\ driverState \in {"idle", "executing", "failed", "closed"}

LEMMA DriverTypesKept ==
    ASSUME DriverTypes, [Sd!Next]_(Sd!simVars) PROVE DriverTypes'
<1> USE DEF DriverTypes
<1>1. CASE UNCHANGED Sd!simVars
  BY <1>1 DEF Sd!simVars
<1>2. ASSUME NEW a \in SimActions, NEW k \in Sd!Kinds, Sd!Send(a, k) PROVE DriverTypes'
  BY <1>2 DEF Sd!Send
<1>3. ASSUME NEW a \in SimActions, Sd!Serve(a) PROVE DriverTypes'
  BY <1>3 DEF Sd!Serve, Sd!Refuse, Sd!Broken, Sd!Dock, Sd!StopMotion, Sd!StartWork, Sd!Reset,
     Sd!Close, Sd!WorkDone, Sd!Unwound, Sd!Released, Sd!ForgetStop
<1>4. ASSUME NEW a \in SimActions,
             Sd!CancelWork(a) \/ Sd!CancelAgain(a) \/ Sd!CancelWait(a) PROVE DriverTypes'
  BY <1>4 DEF Sd!CancelWork, Sd!CancelAgain, Sd!CancelWait, Sd!Released, Sd!ForgetStop
<1>5. ASSUME NEW a \in SimActions, Sd!CheckStop(a) \/ Sd!WriteStep(a) PROVE DriverTypes'
  BY <1>5 DEF Sd!CheckStop, Sd!WriteStep
<1> QED BY <1>1, <1>2, <1>3, <1>4, <1>5 DEF Sd!Next

LEMMA SimulationTyped == SimulationInv /\ DriverTypes => Sd!TypeOK
BY DEF SimulationInv, SimulationTypes, LineInv, DriverTypes, Sd!TypeOK

(* Types. The trials: a trial that goes on has a frame left, the benchmark *)
(* asks for no step.                                                       *)
Replies == [trial: 0..MaxTrials, frame: Ct!Frames, over: BOOLEAN, ok: BOOLEAN]
Queries == [op: Ct!Ops \cup {"none"}, by: {"driver", "bench", "none"}, expects: Ct!Frames,
             at: {"unsent", "sent", "locked", "late", "lost", "answered", "closed"},
             reply: Replies]

RpcTypes ==
    /\ rpcs \in [Ct!Rpcs -> Queries]
    /\ \A i \in Ct!Rpcs : rpcs[i].by = "bench" => rpcs[i].op \in Ct!Ops \ {"step"}

EnvironmentTypes ==
    /\ trial \in 0..MaxTrials /\ begun \in 0..MaxTrials
    /\ frame \in Ct!Frames /\ over \in BOOLEAN /\ trialHeld \in BOOLEAN
    /\ ~over => frame < TrialFrames

ActedTypes == acted \in [Ct!Trials -> [Ct!Frames -> Acts]]

ClientTypes ==
    /\ trialDriver \in [episode: 0..MaxTrials, frame: Ct!Frames, done: BOOLEAN, seen: BOOLEAN,
                        state: {"created", "idle", "executing", "completed", "error"},
                        resetting: {"no", "end", "begin"}]
    /\ bench \in {"ready", "trial", "judged", "over"}

TrialTypes == RpcTypes /\ EnvironmentTypes /\ ActedTypes /\ ClientTypes

LEMMA NoReplyTyped == Ct!NoReply \in Replies
BY RobotHardwareAssumption DEF Ct!NoReply, Replies, Ct!Frames

LEMMA ViewTyped ==
    ASSUME EnvironmentTypes
    PROVE  Ct!View \in Replies /\ [Ct!View EXCEPT !.ok = TRUE] \in Replies
BY DEF EnvironmentTypes, Ct!View, Replies

(* What happens to one request.                                            *)
LEMMA AnswerTypes ==
    ASSUME RpcTypes, NEW i \in Ct!Rpcs, NEW r \in Replies, Ct!Answer(i, r)
    PROVE  RpcTypes'
BY ZenonT(60) DEF RpcTypes, Ct!Answer, Queries

LEMMA CloseTypes == ASSUME RpcTypes, NEW i \in Ct!Rpcs, Ct!Close(i) PROVE RpcTypes'
BY NoReplyTyped, ZenonT(60) DEF RpcTypes, Ct!Close, Queries

LEMMA ExpireTypes == ASSUME RpcTypes, NEW i \in Ct!Rpcs, Ct!Expire(i) PROVE RpcTypes'
<1>1. CASE Ct!Close(i)
  BY <1>1, CloseTypes
<1>2. CASE rpcs' = [rpcs EXCEPT ![i].at = "late"]
  BY <1>2 DEF RpcTypes, Queries
<1> QED BY <1>1, <1>2 DEF Ct!Expire

LEMMA WorkTypes == ASSUME RpcTypes, NEW i \in Ct!Rpcs, Ct!Work(i) PROVE RpcTypes'
BY DEF RpcTypes, Ct!Work, Queries

LEMMA EndWorkTypes ==
    ASSUME RpcTypes, NEW i \in Ct!Rpcs, NEW r \in Replies, Ct!EndWork(i, r)
    PROVE  RpcTypes'
<1>1. CASE Ct!Answer(i, r)
  BY <1>1, AnswerTypes
<1>2. CASE rpcs' = [rpcs EXCEPT ![i].at = "lost"]
  BY <1>2 DEF RpcTypes, Queries
<1> QED BY <1>1, <1>2 DEF Ct!EndWork

LEMMA SentTypes ==
    ASSUME RpcTypes, NEW by \in {"driver", "bench"}, NEW op \in Ct!Ops, NEW expects \in Ct!Frames,
           by = "bench" => op # "step", Ct!Sent(by, op, expects)
    PROVE  RpcTypes'
<1>1. PICK i \in Ct!Rpcs : rpcs' = [rpcs EXCEPT ![i] =
            [op |-> op, by |-> by, expects |-> expects, at |-> "sent", reply |-> Ct!NoReply]]
  BY DEF Ct!Sent
<1>2. [op |-> op, by |-> by, expects |-> expects, at |-> "sent", reply |-> Ct!NoReply] \in Queries
  BY NoReplyTyped DEF Queries
<1> QED BY <1>1, <1>2 DEF RpcTypes

(* The service and its threads.                                            *)
LEMMA ServeTypes ==
    ASSUME TrialTypes, NEW i \in Ct!Rpcs, Ct!Serve(i) PROVE TrialTypes'
<1>1. RpcTypes /\ EnvironmentTypes /\ ActedTypes /\ ClientTypes
  BY DEF TrialTypes
<1>2. UNCHANGED <<trial, begun, frame, over, acted, trialDriver, bench>>
  BY DEF Ct!Serve, Ct!Observe, Ct!BeginTrial, Ct!Step, Ct!EndTrial, Ct!environment
<1>3. trialHeld' \in {trialHeld, TRUE}
  BY DEF Ct!Serve, Ct!Observe, Ct!BeginTrial, Ct!Step, Ct!EndTrial, Ct!environment
<1>4. Ct!Work(i) \/ \E r \in Replies : Ct!Answer(i, r)
  BY <1>1, NoReplyTyped, ViewTyped
     DEF Ct!Serve, Ct!Observe, Ct!BeginTrial, Ct!Step, Ct!EndTrial, Ct!Refused
<1>5. RpcTypes'
  BY <1>1, <1>4, AnswerTypes, WorkTypes
<1>6. EnvironmentTypes' /\ ActedTypes' /\ ClientTypes'
  BY <1>1, <1>2, <1>3 DEF EnvironmentTypes, ActedTypes, ClientTypes
<1> QED BY <1>5, <1>6 DEF TrialTypes

LEMMA StepTypes ==
    ASSUME TrialInv, TrialInv', TrialTypes, NEW i \in Ct!Rpcs, Ct!Stepped(i) PROVE TrialTypes'
<1>1. RpcTypes /\ EnvironmentTypes /\ ActedTypes /\ ClientTypes
  BY DEF TrialTypes
<1>2. /\ frame < TrialFrames /\ frame' = frame + 1 /\ over' \in {frame + 1 = TrialFrames, TRUE}
      /\ UNCHANGED <<trial, begun, trialHeld, trialDriver, bench>>
  BY <1>1 DEF Ct!Stepped, Ct!Accepts, EnvironmentTypes
<1>3. over' \in BOOLEAN
  BY <1>2
<1>4. frame' \in Ct!Frames
  BY <1>1, <1>2, RobotHardwareAssumption DEF EnvironmentTypes, Ct!Frames
<1>5. ~over' => frame' < TrialFrames
  <2>1. ~over' => frame + 1 # TrialFrames
    BY <1>2
  <2> QED BY <1>1, <1>2, <2>1, RobotHardwareAssumption DEF EnvironmentTypes, Ct!Frames
<1>6. EnvironmentTypes'
  BY <1>1, <1>2, <1>3, <1>4, <1>5 DEF EnvironmentTypes
<1>7. ActedTypes'
  BY DEF TrialInv, ActedTypes
<1>8. RpcTypes'
  <2>1. [trial |-> trial, frame |-> frame', over |-> over', ok |-> TRUE] \in Replies
    BY <1>1, <1>3, <1>4 DEF EnvironmentTypes, Replies
  <2> QED BY <1>1, <2>1, EndWorkTypes DEF Ct!Stepped
<1>9. ClientTypes'
  BY <1>1, <1>2 DEF ClientTypes
<1> QED BY <1>6, <1>7, <1>8, <1>9 DEF TrialTypes

LEMMA WorkerTypes ==
    ASSUME TrialInv, TrialInv', TrialTypes, NEW i \in Ct!Rpcs, Ct!Thread(i) PROVE TrialTypes'
<1>1. RpcTypes /\ EnvironmentTypes /\ ActedTypes /\ ClientTypes
  BY DEF TrialTypes
<1>2. CASE Ct!Created(i)
  <2>1. /\ trial' = begun + 1 /\ begun' = begun + 1 /\ frame' = 0 /\ over' = FALSE
        /\ begun < MaxTrials /\ UNCHANGED <<trialHeld, acted, trialDriver, bench>>
    BY <1>2 DEF Ct!Created
  <2>2. begun + 1 \in 0..MaxTrials /\ 0 \in Ct!Frames /\ 0 < TrialFrames
    BY <1>1, <2>1, RobotHardwareAssumption DEF EnvironmentTypes, Ct!Frames
  <2>3. [trial |-> trial', frame |-> 0, over |-> FALSE, ok |-> TRUE] \in Replies
    BY <2>1, <2>2 DEF Replies
  <2>4. RpcTypes'
    BY <1>1, <1>2, <2>3, EndWorkTypes DEF Ct!Created
  <2> QED BY <1>1, <2>1, <2>2, <2>4 DEF TrialTypes, EnvironmentTypes, ActedTypes, ClientTypes
<1>3. CASE Ct!CreationFails(i)
  <2>1. /\ trial' \in {trial, 0} /\ trialHeld' \in {trialHeld, FALSE}
        /\ UNCHANGED <<begun, frame, over, acted, trialDriver, bench>>
    BY <1>3 DEF Ct!CreationFails
  <2>2. RpcTypes'
    BY <1>1, <1>3, NoReplyTyped, EndWorkTypes DEF Ct!CreationFails
  <2>3. EnvironmentTypes'
    <3>1. trialHeld' \in BOOLEAN
      BY <1>1, <2>1 DEF EnvironmentTypes
    <3>2. trial' \in 0..MaxTrials
      BY <1>1, <2>1, RobotHardwareAssumption DEF EnvironmentTypes
    <3> QED BY <1>1, <2>1, <3>1, <3>2 DEF EnvironmentTypes
  <2> QED BY <1>1, <2>1, <2>2, <2>3 DEF TrialTypes, ActedTypes, ClientTypes
<1>4. CASE Ct!Stepped(i)
  BY <1>4, StepTypes
<1>5. CASE Ct!StepRefused(i)
  <2>1. RpcTypes'
    BY <1>1, <1>5, NoReplyTyped, EndWorkTypes DEF Ct!StepRefused
  <2> QED BY <1>1, <1>5, <2>1
          DEF Ct!StepRefused, Ct!environment, TrialTypes, EnvironmentTypes, ActedTypes, ClientTypes
<1>6. CASE Ct!Ended(i)
  <2>1. /\ trial' = 0 /\ trialHeld' = (trialHeld /\ ~Ct!Handled(i))
        /\ UNCHANGED <<begun, frame, over, acted, trialDriver, bench>>
    BY <1>6 DEF Ct!Ended
  <2>2. trialHeld' \in BOOLEAN
    BY <2>1
  <2>3. RpcTypes'
    BY <1>1, <1>6, ViewTyped, EndWorkTypes DEF Ct!Ended
  <2>4. EnvironmentTypes'
    BY <1>1, <2>1, <2>2, RobotHardwareAssumption DEF EnvironmentTypes
  <2> QED BY <1>1, <2>1, <2>3, <2>4 DEF TrialTypes, ActedTypes, ClientTypes
<1>7. CASE Ct!StepBreaks(i)
  <2>1. RpcTypes'
    BY <1>1, <1>7, NoReplyTyped, EndWorkTypes DEF Ct!StepBreaks
  <2>2. UNCHANGED <<trial, begun, frame, over, trialHeld, trialDriver, bench>>
    BY <1>7 DEF Ct!StepBreaks
  <2>3. ActedTypes'
    BY DEF TrialInv, ActedTypes
  <2> QED BY <1>1, <2>1, <2>2, <2>3 DEF TrialTypes, EnvironmentTypes, ClientTypes
<1> QED BY <1>2, <1>3, <1>4, <1>5, <1>6, <1>7 DEF Ct!Thread

(* The two clients.                                                        *)
DriverTyped ==
    trialDriver \in [episode: 0..MaxTrials, frame: Ct!Frames, done: BOOLEAN, seen: BOOLEAN,
                     state: {"created", "idle", "executing", "completed", "error"},
                     resetting: {"no", "end", "begin"}]

LEMMA AcceptedTyped ==
    ASSUME DriverTyped, NEW r \in Replies, NEW d, d = Ct!Accepted(r)
    PROVE  d \in [episode: 0..MaxTrials, frame: Ct!Frames, done: BOOLEAN, seen: BOOLEAN,
                  state: {"created", "idle", "executing", "completed", "error"},
                  resetting: {"no", "end", "begin"}]
BY DEF DriverTyped, Ct!Accepted, Replies

LEMMA ReplyTyped ==
    ASSUME RpcTypes, NEW i \in Ct!Rpcs PROVE rpcs[i] \in Queries /\ rpcs[i].reply \in Replies
BY DEF RpcTypes, Queries

LEMMA ObservedTypes ==
    ASSUME RpcTypes, DriverTyped, NEW i \in Ct!Rpcs, Ct!Observed(i) PROVE DriverTyped'
<1>1. rpcs[i].reply \in Replies
  BY ReplyTyped
<1>2. trialDriver' = trialDriver \/ trialDriver' = Ct!Accepted(rpcs[i].reply)
  BY DEF Ct!Observed
<1> QED BY <1>1, <1>2, AcceptedTyped DEF DriverTyped

LEMMA AppliedTypes ==
    ASSUME RpcTypes, DriverTyped, NEW i \in Ct!Rpcs, Ct!Applied(i) PROVE DriverTyped'
<1> DEFINE r == rpcs[i].reply
           d == Ct!Accepted(r)
<1>1. r \in Replies
  BY ReplyTyped
<1>2. d \in [episode: 0..MaxTrials, frame: Ct!Frames, done: BOOLEAN, seen: BOOLEAN,
             state: {"created", "idle", "executing", "completed", "error"},
             resetting: {"no", "end", "begin"}]
  BY <1>1, AcceptedTyped
<1>3. \/ trialDriver' = [d EXCEPT !.state = IF r.over THEN "completed" ELSE "idle"]
      \/ trialDriver' = [trialDriver EXCEPT !.state = "error",
                                            !.done = IF r.ok THEN r.over ELSE @]
  BY DEF Ct!Applied
<1>4. r.over \in BOOLEAN /\ r.ok \in BOOLEAN
  BY <1>1 DEF Replies
<1> HIDE DEF d, r
<1> QED BY <1>2, <1>3, <1>4 DEF DriverTyped

LEMMA BegunTypes ==
    ASSUME RpcTypes, DriverTyped, NEW i \in Ct!Rpcs, Ct!ResetBegun(i) PROVE DriverTyped'
<1> DEFINE r == rpcs[i].reply
           d == Ct!Accepted(r)
<1>1. r \in Replies
  BY ReplyTyped
<1>2. d \in [episode: 0..MaxTrials, frame: Ct!Frames, done: BOOLEAN, seen: BOOLEAN,
             state: {"created", "idle", "executing", "completed", "error"},
             resetting: {"no", "end", "begin"}]
  BY <1>1, AcceptedTyped
<1>3. \/ trialDriver' = [d EXCEPT !.state = "idle", !.done = FALSE, !.resetting = "no"]
      \/ trialDriver' = [trialDriver EXCEPT !.state = "error", !.resetting = "no"]
  BY DEF Ct!ResetBegun
<1> HIDE DEF d, r
<1> QED BY <1>2, <1>3 DEF DriverTyped

LEMMA EndedTypes ==
    ASSUME RpcTypes, DriverTyped, NEW i \in Ct!Rpcs, Ct!ResetEnded(i)
    PROVE  RpcTypes' /\ DriverTyped'
<1>0. 0 \in 0..MaxTrials
  BY RobotHardwareAssumption
<1>1. DriverTyped'
  BY <1>0 DEF Ct!ResetEnded, DriverTyped
<1>2. PICK j \in Ct!Rpcs :
        /\ rpcs[j].at = "unsent"
        /\ rpcs' = [rpcs EXCEPT ![i].at = "closed", ![i].reply = Ct!NoReply,
               ![j] = [Ct!Unsent EXCEPT !.op = "begin", !.by = "driver", !.at = "sent"]]
  BY DEF Ct!ResetEnded
<1>3. i # j
  BY <1>2 DEF Ct!ResetEnded
<1>4. rpcs'[j] = [Ct!Unsent EXCEPT !.op = "begin", !.by = "driver", !.at = "sent"]
  BY <1>2 DEF RpcTypes
<1>5. rpcs'[j] \in Queries /\ rpcs'[j].by = "driver"
  <2>1. Ct!Unsent \in Queries
    BY NoReplyTyped, RobotHardwareAssumption DEF Ct!Unsent, Queries, Ct!Frames
  <2> QED BY <1>4, <2>1 DEF Queries, Ct!Ops
<1>6. rpcs'[i] = [rpcs[i] EXCEPT !.at = "closed", !.reply = Ct!NoReply]
  BY <1>2, <1>3 DEF RpcTypes
<1>7. rpcs'[i] \in Queries /\ rpcs'[i].by = "driver"
  BY <1>6, NoReplyTyped, ReplyTyped DEF Queries, Ct!ResetEnded
<1>8. \A k \in Ct!Rpcs \ {i, j} : rpcs'[k] = rpcs[k]
  BY <1>2 DEF RpcTypes
<1>9. DOMAIN rpcs' = Ct!Rpcs /\ rpcs' = [k \in Ct!Rpcs |-> rpcs'[k]]
  BY <1>2 DEF RpcTypes
<1>10. rpcs' \in [Ct!Rpcs -> Queries]
  BY <1>5, <1>7, <1>8, <1>9 DEF RpcTypes
<1> QED BY <1>1, <1>5, <1>7, <1>8, <1>10 DEF RpcTypes

LEMMA BenchTyped ==
    ASSUME RpcTypes, NEW i \in Ct!Rpcs, rpcs[i].by = "bench", NEW ok
    PROVE  Ct!BenchAfter(rpcs[i].op, ok) \in {"ready", "trial", "judged", "over"}
<1>1. rpcs[i].op \in {"observe", "begin", "end", "truth"}
  BY DEF RpcTypes, Ct!Ops
<1> QED BY <1>1 DEF Ct!BenchAfter

LEMMA ReceiveTypes ==
    ASSUME TrialTypes, NEW i \in Ct!Rpcs, Ct!Receive(i) PROVE TrialTypes'
<1>1. RpcTypes /\ EnvironmentTypes /\ ActedTypes /\ ClientTypes /\ DriverTyped
  BY DEF TrialTypes, ClientTypes, DriverTyped
<1>2. UNCHANGED Ct!environment
  BY DEF Ct!Receive, Ct!Observed, Ct!Applied, Ct!ResetEnded, Ct!ResetBegun,
     Ct!DriverGivesUp, Ct!BenchReceives, Ct!BenchGivesUp
<1>3. EnvironmentTypes' /\ ActedTypes'
  BY <1>1, <1>2 DEF Ct!environment, EnvironmentTypes, ActedTypes
<1>4. RpcTypes'
  BY <1>1, CloseTypes, ExpireTypes, EndedTypes
     DEF Ct!Receive, Ct!Observed, Ct!Applied, Ct!ResetBegun, Ct!DriverGivesUp,
         Ct!BenchReceives, Ct!BenchGivesUp
<1>5. CASE Ct!Observed(i) \/ Ct!Applied(i) \/ Ct!ResetEnded(i) \/ Ct!ResetBegun(i)
  <2>1. DriverTyped'
    BY <1>1, <1>5, ObservedTypes, AppliedTypes, EndedTypes, BegunTypes
  <2>2. UNCHANGED bench
    BY <1>5 DEF Ct!Observed, Ct!Applied, Ct!ResetEnded, Ct!ResetBegun
  <2> QED BY <1>1, <1>3, <1>4, <2>1, <2>2 DEF TrialTypes, ClientTypes, DriverTyped
<1>6. CASE Ct!DriverGivesUp(i)
  <2>1. DriverTyped' /\ UNCHANGED bench
    BY <1>1, <1>6 DEF Ct!DriverGivesUp, DriverTyped
  <2> QED BY <1>1, <1>3, <1>4, <2>1 DEF TrialTypes, ClientTypes, DriverTyped
<1>7. CASE Ct!BenchReceives(i) \/ Ct!BenchGivesUp(i)
  <2>1. bench' \in {"ready", "trial", "judged", "over"} /\ UNCHANGED trialDriver
    BY <1>1, <1>7, BenchTyped DEF Ct!BenchReceives, Ct!BenchGivesUp
  <2> QED BY <1>1, <1>3, <1>4, <2>1 DEF TrialTypes, ClientTypes
<1> QED BY <1>5, <1>6, <1>7 DEF Ct!Receive

LEMMA SendingTypes ==
    ASSUME TrialTypes,
           \/ Ct!DriverStart \/ Ct!DriverObserve \/ Ct!Reset
           \/ \E f \in Ct!Frames : Ct!ApplyAction(f)
           \/ \E op \in Ct!Ops : Ct!BenchSends(op)
    PROVE  TrialTypes'
<1>1. RpcTypes /\ EnvironmentTypes /\ ActedTypes /\ ClientTypes /\ DriverTyped
  BY DEF TrialTypes, ClientTypes, DriverTyped
<1>2. UNCHANGED Ct!environment /\ UNCHANGED bench
  BY DEF Ct!DriverStart, Ct!DriverObserve, Ct!Reset, Ct!ApplyAction, Ct!BenchSends
<1>3. EnvironmentTypes' /\ ActedTypes'
  BY <1>1, <1>2 DEF Ct!environment, EnvironmentTypes, ActedTypes
<1>4. DriverTyped'
  BY <1>1 DEF Ct!DriverStart, Ct!DriverObserve, Ct!Reset, Ct!ApplyAction, Ct!BenchSends, DriverTyped
<1>5. 0 \in Ct!Frames /\ trialDriver.frame \in Ct!Frames
  BY <1>1, RobotHardwareAssumption DEF Ct!Frames, DriverTyped
<1>6. UNCHANGED rpcs => RpcTypes'
  BY <1>1 DEF RpcTypes
<1>7. \/ UNCHANGED rpcs
      \/ \E op \in Ct!Ops, e \in Ct!Frames : Ct!Sent("driver", op, e)
      \/ \E op \in Ct!Ops \ {"step"} : Ct!Sent("bench", op, 0)
  BY <1>5 DEF Ct!DriverStart, Ct!DriverObserve, Ct!Reset, Ct!ApplyAction, Ct!BenchSends, Ct!Ops
<1>8. RpcTypes'
  BY <1>1, <1>5, <1>6, <1>7, SentTypes
<1> QED BY <1>1, <1>2, <1>3, <1>4, <1>8 DEF TrialTypes, ClientTypes, DriverTyped

LEMMA TrialTypesKept ==
    ASSUME TrialInv, TrialInv', TrialTypes, [Ct!Next]_(Ct!casaVars) PROVE TrialTypes'
<1>1. CASE UNCHANGED Ct!casaVars
  BY <1>1 DEF Ct!casaVars, TrialTypes, RpcTypes, EnvironmentTypes, ActedTypes, ClientTypes
<1>2. CASE Ct!Next
  BY <1>2, ServeTypes, WorkerTypes, ReceiveTypes, SendingTypes DEF Ct!Next
<1> QED BY <1>1, <1>2

LEMMA TrialTyped == TrialTypes => Ct!TypeOK
BY DEF TrialTypes, RpcTypes, EnvironmentTypes, ActedTypes, Acts, ClientTypes, Queries, Replies,
   Ct!TypeOK

(* What keeps the types of the robots: the skills of the docking arm know  *)
(* their target, the trials have a frame left, and what holds the lines,   *)
(* the threads and the actions of a trial together.                        *)
TypesInv ==
    /\ Bs!TypeOK /\ DockTypes /\ Mk!TypeOK
    /\ SimulationInv /\ DriverTypes
    /\ TrialInv /\ TrialTypes

LEMMA DockTypesStart == RobotHardwareInit => DockTypes
<1> SUFFICES ASSUME RobotHardwareInit PROVE DockTypes
  OBVIOUS
<1>1. Dk!Home \in [x : -Room..Room, y : -Room..Room, yaw : 0..3]
  BY RobotHardwareAssumption DEF Dk!Home
<1>2. dockActive \in BOOLEAN /\ gripped \in BOOLEAN /\ docked \in BOOLEAN
  BY DEF RobotHardwareInit, Dk!Init
<1>3. /\ dockBase = Dk!Home /\ dockHand = Dk!NoPoint /\ skill = "none" /\ dockAt = 0
      /\ target = Dk!NoPoint /\ outcome = "none"
  BY DEF RobotHardwareInit, Dk!Init
<1> QED BY <1>1, <1>2, <1>3 DEF DockTypes, Dk!TypeOK

LEMMA MockTypesStart == RobotHardwareInit => Mk!TypeOK
<1> SUFFICES ASSUME RobotHardwareInit PROVE Mk!TypeOK
  OBVIOUS
<1>1. settings \in Deployments /\ settings \in Mk!Settings
  BY RobotHardwareAssumption DEF RobotHardwareInit, Mk!Init
<1>2. settings.level \in Mk!Levels /\ settings.seen \in [Objects -> BOOLEAN]
  BY <1>1 DEF Mk!Settings, Mk!Levels
<1>3. objects \in [Objects -> [held : BOOLEAN, visible : BOOLEAN, place : Mk!Places]]
  BY <1>2 DEF RobotHardwareInit, Mk!Init, Mk!Places
<1>4. attempts \in 0..(LastFault + 1) /\ scans \in [Objects -> 0..(MaxScans + 1)]
  BY RobotHardwareAssumption DEF RobotHardwareInit, Mk!Init
<1> QED BY <1>1, <1>2, <1>3, <1>4 DEF RobotHardwareInit, Mk!Init, Mk!TypeOK, Mk!Openings

LEMMA DriverTypesStart == RobotHardwareInit => DriverTypes
BY DEF RobotHardwareInit, Sd!Init, DriverTypes

LEMMA TrialTypesStart == RobotHardwareInit => TrialInv /\ TrialTypes
<1> SUFFICES ASSUME RobotHardwareInit PROVE TrialInv /\ TrialTypes
  OBVIOUS
<1>1. TrialInv
  BY DEF RobotHardwareInit, Ct!Init, TrialInv, Acts, Behind, Ct!Trials, Ct!Frames
<1>2. 0 \in 0..MaxTrials /\ 0 \in Ct!Frames /\ 0 < TrialFrames /\ 0 \in 0..MaxRpcs
  BY RobotHardwareAssumption DEF Ct!Frames
<1>3. EnvironmentTypes /\ ClientTypes /\ ActedTypes
  BY <1>2 DEF RobotHardwareInit, Ct!Init, EnvironmentTypes, ClientTypes, ActedTypes, Acts
<1>4. Ct!Unsent \in Queries /\ Ct!Unsent.by # "bench"
  BY <1>2, NoReplyTyped DEF Ct!Unsent, Queries
<1>5. RpcTypes
  BY <1>4 DEF RobotHardwareInit, Ct!Init, RpcTypes
<1> QED BY <1>1, <1>3, <1>5 DEF TrialTypes

(* Every part of the robots keeps its types.                               *)
THEOREM HardwareTypesAreKept == RobotHardwareSpec => []HardwareTypes
<1>1. RobotHardwareInit => TypesInv
  BY ServoTypesStart, DockTypesStart, MockTypesStart, SimulationStarts, DriverTypesStart,
     TrialTypesStart DEF TypesInv
<1>2. TypesInv /\ [RobotHardwareNext]_robotVars => TypesInv'
  BY HardwareSteps, ServoTypes, DockTypesKept, MockTypes, SimulationKeeps, DriverTypesKept,
     TrialKeeps, TrialTypesKept DEF TypesInv
<1>3. TypesInv => HardwareTypes
  BY SimulationTyped, TrialTyped DEF TypesInv, DockTypes, HardwareTypes
<1> QED BY <1>1, <1>2, <1>3, PTL DEF RobotHardwareSpec
=============================================================================
