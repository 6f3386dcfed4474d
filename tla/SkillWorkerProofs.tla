-------------------------- MODULE SkillWorkerProofs --------------------------
(***************************************************************************)
(* Theorems about SkillWorker for every set of runs, robots and resource   *)
(* keys and every bound.                                                   *)
(***************************************************************************)
EXTENDS SkillWorker, TLAPS

\* The phase of an event and its result agree.
Agree(phase, result) ==
    /\ result = "success" <=> phase = "completed"
    /\ result = "none" <=> phase \notin Terminals

\* An event of the runner has the shape of a persisted event.
LEMMA EventShape ==
    ASSUME NEW n \in Nat, NEW phase \in Phases, NEW result \in Results,
           Agree(phase, result)
    PROVE  /\ Event(n, phase, result) \in [sequence : Nat, phase : Phases, result : Results]
           /\ EventOK(Event(n, phase, result))
BY DEF Event, EventOK, Agree, Terminal

\* Emitting keeps the latest events well formed.
LEMMA EmitType ==
    ASSUME TypeOK, NEW r \in Run, NEW n \in Nat,
           NEW phase \in Phases, NEW result \in Results,
           Agree(phase, result),
           Emit(r, n, phase, result)
    PROVE  /\ latest' \in [Run -> [sequence : Nat, phase : Phases, result : Results]]
           /\ \A x \in Run : EventOK(latest'[x])
<1>1. sequences[r] + n \in Nat
  BY DEF TypeOK
<1>2. /\ Event(sequences[r] + n, phase, result)
              \in [sequence : Nat, phase : Phases, result : Results]
      /\ EventOK(Event(sequences[r] + n, phase, result))
  BY <1>1, EventShape
<1> QED
  BY <1>2 DEF TypeOK, Emit

\* Finishing a run keeps the types, for every outcome a run can have.
LEMMA FinishType ==
    ASSUME TypeOK, NEW r \in Run, NEW n \in Nat,
           NEW phase \in Terminals, NEW result \in Results,
           Agree(phase, result),
           Finish(r, n, phase, result),
           UNCHANGED <<submitted, worker, commands, control, crashes>>
    PROVE  TypeOK'
<1>1. phase \in Phases
  BY DEF Phases
<1>2. /\ latest' \in [Run -> [sequence : Nat, phase : Phases, result : Results]]
      /\ \A x \in Run : EventOK(latest'[x])
  BY <1>1, EmitType DEF Agree, Results, Finish
<1>3. /\ pc' \in [Run -> TaskStates] /\ sequences' \in [Run -> Nat]
      /\ holder' \in [Key -> Run \cup {None}] /\ ahead' \in [Run -> SUBSET Run]
  BY DEF TypeOK, Finish, TaskStates
<1>4. /\ pending' \in SUBSET Run /\ interrupt' \in SUBSET Run
      /\ cancelled' \in SUBSET Run
  BY DEF TypeOK, Finish
<1> QED
  BY <1>2, <1>3, <1>4 DEF TypeOK, Finish, control

\* Proceeding through acquire() keeps the types.
LEMMA ProceedType ==
    ASSUME TypeOK, NEW r \in Run, NEW n \in Nat, NEW granted \in SUBSET Key,
           Proceed(r, n, granted),
           UNCHANGED <<submitted, worker, commands, control, crashes>>
    PROVE  TypeOK'
<1> DEFINE got  == Obtained(r, Remaining(r), granted)
           rest == Remaining(r) \ got
           Taken == [k \in Key |-> IF k \in got THEN r ELSE holder[k]]
           Moves(state) ==
               /\ holder' = Taken
               /\ pc' = [pc EXCEPT ![r] = state]
               /\ sequences' = [sequences EXCEPT ![r] = @ + n]
               /\ IF n = 0 THEN UNCHANGED latest ELSE Emit(r, n, "running", "none")
               /\ UNCHANGED <<pending, interrupt, cancelled>>
<1>1. ASSUME NEW state \in TaskStates, Moves(state),
             ahead' \in [Run -> SUBSET Run], handled' \in [Run -> Nat]
      PROVE  TypeOK'
  <2>1. /\ latest' \in [Run -> [sequence : Nat, phase : Phases, result : Results]]
        /\ \A x \in Run : EventOK(latest'[x])
    <3>1. CASE n = 0
      BY <1>1, <3>1 DEF TypeOK
    <3>2. CASE n # 0
      BY <1>1, <3>2, EmitType DEF Agree, Results, Phases, Terminals
    <3> QED BY <3>1, <3>2
  <2>2. holder' \in [Key -> Run \cup {None}]
    BY <1>1 DEF TypeOK
  <2>3. pc' \in [Run -> TaskStates] /\ sequences' \in [Run -> Nat]
    BY <1>1 DEF TypeOK
  <2> QED
    BY <1>1, <2>1, <2>2, <2>3 DEF TypeOK, control
<1>2. CASE \E k \in rest :
              /\ Moves("waiting")
              /\ ahead' = [ahead EXCEPT ![r] = {x \in Run \ {r} : WaitsFor(x, k)}]
              /\ UNCHANGED handled
  <2>1. ahead' \in [Run -> SUBSET Run] /\ handled' \in [Run -> Nat]
    BY <1>2 DEF TypeOK
  <2> QED
    BY <1>1, <1>2, <2>1 DEF TaskStates
<1>3. CASE /\ Moves("handler")
           /\ ahead' = [x \in Run |-> IF x = r THEN {} ELSE ahead[x] \ {r}]
           /\ handled' = [handled EXCEPT ![r] = @ + 1]
  <2>1. ahead' \in [Run -> SUBSET Run] /\ handled' \in [Run -> Nat]
    BY <1>3 DEF TypeOK
  <2> QED
    BY <1>1, <1>3, <2>1 DEF TaskStates
<1>4. CASE Finish(r, n + 1, "cancelled", "failure")
  BY <1>4, FinishType DEF Agree, Results, Terminals
<1> QED
  BY <1>2, <1>3, <1>4 DEF Proceed

\* A new worker over any store is well typed.
LEMMA FreshType ==
    ASSUME FreshWorker
    PROVE  /\ worker' \in {"stopped", "running", "closing", "draining", "closed"}
           /\ commands' \in Seq(Run) /\ pending' \in SUBSET Run
           /\ pc' \in [Run -> TaskStates] /\ interrupt' \in SUBSET Run
           /\ cancelled' \in SUBSET Run /\ cancelling' \in SUBSET Run
           /\ stopping' \in SUBSET Run /\ sequences' \in [Run -> Nat]
           /\ holder' \in [Key -> Run \cup {None}]
           /\ ahead' \in [Run -> SUBSET Run]
BY DEF FreshWorker, TaskStates

\* Every step of a run's task keeps the types.
LEMMA TaskStepType ==
    ASSUME TypeOK, NEW r \in Run, TaskStep(r)
    PROVE  TypeOK'
<1>1. CASE Begin(r)
  BY <1>1, ProceedType DEF Begin
<1>2. CASE Reject(r)
  BY <1>2, FinishType DEF Agree, Results, Reject, Terminals
<1>3. CASE DieUnstarted(r)
  BY <1>3 DEF DieUnstarted, TypeOK, TaskStates, durable, control, locks, history
<1>4. CASE Wake(r)
  <2>1. PICK k \in Key : Proceed(r, 0, {k})
    BY <1>4 DEF Wake
  <2> QED
    BY <1>4, <2>1, ProceedType DEF Wake
<1>5. CASE AbortWait(r)
  BY <1>5, FinishType DEF Agree, Results, AbortWait, Terminals
<1>6. CASE Progress(r)
  <2>1. /\ latest' \in [Run -> [sequence : Nat, phase : Phases, result : Results]]
        /\ \A x \in Run : EventOK(latest'[x])
    BY <1>6, EmitType DEF Agree, Results, Progress, Phases, Terminals
  <2>2. sequences' \in [Run -> Nat]
    BY <1>6 DEF Progress, TypeOK
  <2> QED
    BY <1>6, <2>1, <2>2 DEF Progress, TypeOK, control, locks, history
<1>7. CASE Return(r)
  <2>1. PICK success \in BOOLEAN, status \in Terminals :
          Finish(r, 1, NormalPhase(success, status),
                 IF success THEN "success" ELSE "failure")
    BY <1>7 DEF Return
  <2>2. CASE success
    <3>1. Finish(r, 1, "completed", "success")
      BY <2>1, <2>2 DEF NormalPhase
    <3> QED
      BY <1>7, <3>1, FinishType DEF Agree, Results, Return, Terminals
  <2>3. CASE ~success
    <3> DEFINE phase == IF status = "completed" THEN "failed" ELSE status
    <3>1. Finish(r, 1, phase, "failure") /\ phase \in {"failed", "cancelled"}
      BY <2>1, <2>3 DEF NormalPhase, Terminals
    <3> HIDE DEF phase
    <3> QED
      BY <1>7, <3>1, FinishType DEF Agree, Results, Return, Terminals
  <2> QED BY <2>2, <2>3
<1>8. CASE Raise(r)
  BY <1>8, FinishType DEF Agree, Results, Raise, Terminals
<1>9. CASE Timeout(r)
  BY <1>9 DEF Timeout, TypeOK, TaskStates, InHandler, durable, control, locks, history
<1>10. CASE Interrupt(r)
  BY <1>10 DEF Interrupt, TypeOK, TaskStates, InHandler, durable, control, locks,
               history
<1>11. CASE Unwind(r)
  BY <1>11, FinishType DEF Agree, Results, Unwind, Terminals
<1> QED
  BY <1>1, <1>2, <1>3, <1>4, <1>5, <1>6, <1>7, <1>8, <1>9, <1>10, <1>11 DEF TaskStep

\* The types hold of every run set, resource assignment and bound: in particular a
\* run is persisted as completed exactly when its result is a success, whatever
\* status its handler returned (_normalize_result).
THEOREM TypeCorrect == Spec => []TypeOK
<1>1. Init => TypeOK
  BY DEF Init, TypeOK, EventOK, NoEvent, Event, Phases, Results, Terminal, Terminals,
         TaskStates
<1>2. TypeOK /\ [Next]_vars => TypeOK'
  <2> SUFFICES ASSUME TypeOK, [Next]_vars PROVE TypeOK'
    OBVIOUS
  <2> USE DEF durable, control, locks, history
  <2>1. CASE Start
    BY <2>1 DEF Start, TypeOK
  <2>2. CASE Consume
    <3>1. /\ commands' \in Seq(Run)
          /\ pc' \in [Run -> TaskStates]
      BY <2>2 DEF Consume, TypeOK, TaskStates
    <3> QED BY <2>2, <3>1 DEF Consume, TypeOK
  <2>3. ASSUME NEW r \in Run, Submit(r) PROVE TypeOK'
    BY <2>3 DEF Submit, TypeOK
  <2>4. ASSUME NEW r \in Run, TaskStep(r) PROVE TypeOK'
    BY <2>4, TaskStepType
  <2>5. ASSUME NEW r \in Run, Cancel(r) PROVE TypeOK'
    BY <2>5 DEF Cancel, CancelRuns, TypeOK
  <2>6. ASSUME NEW r \in Run, CancelReturns(r) PROVE TypeOK'
    BY <2>6 DEF CancelReturns, TypeOK
  <2>7. ASSUME NEW r \in Run, CancelForStop(r) PROVE TypeOK'
    BY <2>7 DEF CancelForStop, CancelRuns, TypeOK
  <2>8. ASSUME NEW r \in Run, Status(r) PROVE TypeOK'
    <3>1. latest[r].sequence + 1 \in Nat
      BY DEF TypeOK
    <3>2. /\ Event(latest[r].sequence + 1, "failed", "failure")
               \in [sequence : Nat, phase : Phases, result : Results]
          /\ EventOK(Event(latest[r].sequence + 1, "failed", "failure"))
      BY <3>1, EventShape DEF Agree, Results, Phases, Terminals
    <3> QED BY <2>8, <3>2 DEF Status, TypeOK
  <2>9. ASSUME NEW r \in Run, CrashInBegin(r) PROVE TypeOK'
    <3>1. /\ latest' \in [Run -> [sequence : Nat, phase : Phases, result : Results]]
          /\ \A x \in Run : EventOK(latest'[x])
      BY <2>9, EmitType DEF Agree, Results, CrashInBegin, Phases, Terminals
    <3> QED BY <2>9, <3>1, FreshType DEF CrashInBegin, TypeOK
  <2>10. ASSUME NEW b \in Robot, CollectForStop(b) PROVE TypeOK'
    BY <2>10 DEF CollectForStop, TypeOK
  <2>11. CASE CloseBegin
    BY <2>11 DEF CloseBegin, TypeOK
  <2>12. CASE CloseTasks
    BY <2>12 DEF CloseTasks, CancelRuns, TypeOK
  <2>13. CASE CloseEnd
    BY <2>13 DEF CloseEnd, TypeOK, TaskStates
  <2>14. CASE Crash
    BY <2>14, FreshType DEF Crash, TypeOK
  <2>15. CASE UNCHANGED vars
    BY <2>15 DEF vars, TypeOK
  <2> QED
    BY <2>1, <2>2, <2>3, <2>4, <2>5, <2>6, <2>7, <2>8, <2>9, <2>10, <2>11, <2>12,
       <2>13, <2>14, <2>15 DEF Next
<1> QED
  BY <1>1, <1>2, PTL DEF Spec

-----------------------------------------------------------------------------
\* ResourceSafety is inductive together with the types.  Its first and third parts
\* speak of one run each, and the second of one key.
HandlerHolds(r) == pc[r] \in InHandler => Needs[r] \subseteq Held(r)
WaitIsOrdered(r) == pc[r] = "waiting" =>
                        \E k \in Key : WaitsFor(r, k) /\ \A j \in Held(r) : j < k
HolderLives(k) == holder[k] # None =>
                      /\ k \in Needs[holder[k]]
                      /\ pc[holder[k]] \in {"waiting"} \cup InHandler

LEMMA SafetyParts ==
    ResourceSafety <=> /\ \A r \in Run : HandlerHolds(r) /\ WaitIsOrdered(r)
                       /\ \A k \in Key : HolderLives(k)
BY DEF ResourceSafety, HandlerHolds, WaitIsOrdered, HolderLives

LEMMA NextSafetyParts ==
    ResourceSafety' <=> /\ \A r \in Run : HandlerHolds(r)' /\ WaitIsOrdered(r)'
                        /\ \A k \in Key : HolderLives(k)'
BY DEF ResourceSafety, HandlerHolds, WaitIsOrdered, HolderLives

\* What ResourceSafety says of a run depends on its task's state and the keys it
\* holds only.
LEMMA SafetyLocal ==
    ASSUME NEW x \in Run, HandlerHolds(x), WaitIsOrdered(x),
           pc'[x] = pc[x], Held(x)' = Held(x)
    PROVE  HandlerHolds(x)' /\ WaitIsOrdered(x)'
BY DEF HandlerHolds, WaitIsOrdered, WaitsFor, Remaining

\* A step that leaves the locks alone, and moves no task that waits or is inside its
\* handler elsewhere, keeps ResourceSafety.
LEMMA SafetyKept ==
    ASSUME TypeOK, ResourceSafety, UNCHANGED holder,
           \A x \in Run :
              \/ pc'[x] = pc[x]
              \/ pc[x] \in InHandler /\ pc'[x] \in InHandler
              \/ /\ pc[x] \notin {"waiting"} \cup InHandler
                 /\ pc'[x] \notin {"waiting"} \cup InHandler
    PROVE  ResourceSafety'
<1>1. ASSUME NEW x \in Run PROVE HandlerHolds(x)' /\ WaitIsOrdered(x)'
  <2>1. Held(x)' = Held(x)
    BY DEF Held
  <2>2. HandlerHolds(x) /\ WaitIsOrdered(x)
    BY SafetyParts
  <2>3. CASE pc'[x] = pc[x]
    BY <2>1, <2>2, <2>3, SafetyLocal
  <2>4. CASE pc'[x] # pc[x]
    BY <2>1, <2>2, <2>4 DEF HandlerHolds, WaitIsOrdered, InHandler
  <2> QED BY <2>3, <2>4
<1>2. ASSUME NEW k \in Key PROVE HolderLives(k)'
  BY SafetyParts DEF HolderLives, InHandler, TypeOK
<1> QED BY <1>1, <1>2, NextSafetyParts

\* The end of a run gives back all it holds and touches nobody else's keys.
LEMMA SafetyFinish ==
    ASSUME TypeOK, ResourceSafety, NEW r \in Run,
           holder' = [k \in Key |-> IF holder[k] = r THEN None ELSE holder[k]],
           pc' = [pc EXCEPT ![r] = "none"]
    PROVE  ResourceSafety'
<1>1. ASSUME NEW x \in Run PROVE HandlerHolds(x)' /\ WaitIsOrdered(x)'
  <2>1. HandlerHolds(x) /\ WaitIsOrdered(x)
    BY SafetyParts
  <2>2. CASE x = r
    BY <2>2 DEF HandlerHolds, WaitIsOrdered, InHandler, TypeOK
  <2>3. CASE x # r
    <3>1. Held(x)' = Held(x)
      BY <2>3, WorkerAssumption DEF Held
    <3>2. pc'[x] = pc[x]
      BY <2>3 DEF TypeOK
    <3> QED BY <2>1, <3>1, <3>2, SafetyLocal
  <2> QED BY <2>2, <2>3
<1>2. ASSUME NEW k \in Key PROVE HolderLives(k)'
  <2>1. HolderLives(k)
    BY SafetyParts
  <2>2. holder'[k] # None => holder'[k] = holder[k] /\ holder[k] # r
    OBVIOUS
  <2>3. holder'[k] # None => holder[k] \in Run /\ pc'[holder[k]] = pc[holder[k]]
    BY <2>2 DEF TypeOK
  <2> QED BY <2>1, <2>2, <2>3 DEF HolderLives
<1> QED BY <1>1, <1>2, NextSafetyParts

\* acquire() takes free keys only, each before any key it then waits for.
LEMMA ObtainedFree ==
    ASSUME NEW r \in Run, NEW S \in SUBSET Key, NEW granted \in SUBSET Key,
           \A k \in granted : holder[k] = None
    PROVE  /\ Obtained(r, S, granted) \subseteq S
           /\ \A k \in Obtained(r, S, granted) : holder[k] = None
           /\ \A k \in S \ Obtained(r, S, granted) :
                 \A j \in Obtained(r, S, granted) : j < k
<1>1. Key \subseteq Nat
  BY WorkerAssumption
<1>2. \A k \in Obtained(r, S, granted) : holder[k] = None
  BY <1>1 DEF Obtained, Free
<1>3. ASSUME NEW k \in S \ Obtained(r, S, granted), NEW j \in Obtained(r, S, granted),
             ~(j < k)
      PROVE  FALSE
  <2>1. k <= j /\ j \in S /\ k \in Nat /\ j \in Nat
    BY <1>1, <1>3 DEF Obtained
  <2>2. \A i \in S : i <= k => i <= j
    BY <1>1, <2>1
  <2>3. k \in Obtained(r, S, granted)
    BY <2>1, <2>2 DEF Obtained
  <2> QED BY <2>3
<1> QED BY <1>2, <1>3 DEF Obtained

\* Going on through acquire(): the run waits for a key behind all it holds, enters its
\* handler with all it needs, or ends.
LEMMA SafetyProceed ==
    ASSUME TypeOK, ResourceSafety, NEW r \in Run, NEW n \in Nat,
           NEW granted \in SUBSET Key, \A k \in granted : holder[k] = None,
           pc[r] \in {"created", "waiting"}, Proceed(r, n, granted)
    PROVE  ResourceSafety'
<1> DEFINE S    == Remaining(r)
           got  == Obtained(r, S, granted)
           rest == S \ got
           Taken == [k \in Key |-> IF k \in got THEN r ELSE holder[k]]
<1>1. S \in SUBSET Key /\ S = Needs[r] \ Held(r)
  BY WorkerAssumption DEF Remaining
<1>2. /\ got \subseteq S /\ \A k \in got : holder[k] = None
      /\ \A k \in rest : \A j \in got : j < k
  BY <1>1, ObtainedFree
<1>3. \A k \in rest, j \in Held(r) : (\A i \in rest : k <= i) => j < k
  <2>1. CASE pc[r] = "created"
    <3>1. Held(r) = {}
      BY <2>1, SafetyParts, WorkerAssumption DEF HolderLives, Held, InHandler
    <3> QED BY <3>1
  <2>2. CASE pc[r] = "waiting"
    <3>1. PICK w \in Key : WaitsFor(r, w) /\ \A j \in Held(r) : j < w
      BY <2>2, SafetyParts DEF WaitIsOrdered
    <3>2. \A k \in S : w <= k
      BY <3>1 DEF WaitsFor
    <3> QED
      BY <1>1, <3>1, <3>2, WorkerAssumption DEF Held
  <2> QED BY <2>1, <2>2
<1>4. CASE /\ holder' = Taken
           /\ \/ /\ pc' = [pc EXCEPT ![r] = "waiting"]
                 /\ \E k \in rest : \A j \in rest : k <= j
              \/ /\ pc' = [pc EXCEPT ![r] = "handler"]
                 /\ rest = {}
  <2>1. Held(r)' = Held(r) \cup got
    BY <1>1, <1>2, <1>4 DEF Held
  <2>2. /\ pc'[r] \in {"waiting", "handler"}
        /\ \A x \in Run \ {r} : pc'[x] = pc[x]
    BY <1>4 DEF TypeOK
  <2>3. ASSUME NEW x \in Run PROVE HandlerHolds(x)' /\ WaitIsOrdered(x)'
    <3>1. CASE x # r
      <4>1. Held(x)' = Held(x)
        BY <1>1, <1>2, <1>4, <3>1, WorkerAssumption DEF Held
      <4> QED
        BY <2>2, <3>1, <4>1, SafetyParts, SafetyLocal
    <3>2. CASE x = r /\ pc'[r] = "handler"
      <4>1. rest = {}
        BY <1>4, <3>2 DEF TypeOK
      <4>2. Needs[r] \subseteq Held(r)'
        BY <1>1, <2>1, <4>1
      <4> QED
        BY <3>2, <4>2 DEF HandlerHolds, WaitIsOrdered
    <3>3. CASE x = r /\ pc'[r] = "waiting"
      <4>1. PICK k \in rest : \A j \in rest : k <= j
        BY <1>4, <3>3 DEF TypeOK
      <4>2. Remaining(r)' = rest
        BY <1>1, <2>1 DEF Remaining
      <4>3. WaitsFor(r, k)'
        BY <3>3, <4>1, <4>2 DEF WaitsFor
      <4>4. \A j \in Held(r)' : j < k
        BY <1>2, <1>3, <2>1, <4>1
      <4>5. k \in Key
        BY <1>1, <4>1
      <4> QED
        BY <3>3, <4>3, <4>4, <4>5 DEF HandlerHolds, WaitIsOrdered, InHandler
    <3> QED BY <2>2, <3>1, <3>2, <3>3
  <2>4. ASSUME NEW k \in Key PROVE HolderLives(k)'
    <3>1. HolderLives(k)
      BY SafetyParts
    <3>2. CASE k \in got
      BY <1>1, <1>2, <1>4, <2>2, <3>2 DEF HolderLives, InHandler
    <3>3. CASE k \notin got
      <4>1. holder'[k] = holder[k] /\ holder[k] \in Run \cup {None}
        BY <1>4, <3>3 DEF TypeOK
      <4> QED
        BY <2>2, <3>1, <4>1 DEF HolderLives, InHandler
    <3> QED BY <3>2, <3>3
  <2> QED BY <2>3, <2>4, NextSafetyParts
<1>5. CASE Finish(r, n + 1, "cancelled", "failure")
  BY <1>5, SafetyFinish DEF Finish
<1> QED
  BY <1>4, <1>5 DEF Proceed

\* A worker that starts afresh holds nothing.
LEMMA SafetyFresh ==
    ASSUME FreshWorker
    PROVE  ResourceSafety'
BY NextSafetyParts DEF FreshWorker, HandlerHolds, WaitIsOrdered, HolderLives, InHandler

\* Every step of a run's task keeps ResourceSafety.
LEMMA TaskStepSafety ==
    ASSUME TypeOK, ResourceSafety, NEW r \in Run, TaskStep(r)
    PROVE  ResourceSafety'
<1>1. CASE Begin(r)
  BY <1>1, SafetyProceed DEF Begin
<1>2. CASE Reject(r)
  BY <1>2, SafetyFinish DEF Reject, Finish
<1>3. CASE DieUnstarted(r)
  BY <1>3, SafetyKept DEF DieUnstarted, TypeOK, InHandler, locks
<1>4. CASE Wake(r)
  <2>1. PICK k \in Key : holder[k] = None /\ Proceed(r, 0, {k})
    BY <1>4 DEF Wake
  <2> QED
    BY <1>4, <2>1, SafetyProceed DEF Wake
<1>5. CASE AbortWait(r)
  BY <1>5, SafetyFinish DEF AbortWait, Finish
<1>6. CASE Progress(r)
  BY <1>6, SafetyKept DEF Progress, locks
<1>7. CASE Return(r)
  BY <1>7, SafetyFinish DEF Return, Finish
<1>8. CASE Raise(r)
  BY <1>8, SafetyFinish DEF Raise, Finish
<1>9. CASE Timeout(r)
  BY <1>9, SafetyKept DEF Timeout, TypeOK, InHandler, locks
<1>10. CASE Interrupt(r)
  BY <1>10, SafetyKept DEF Interrupt, TypeOK, InHandler, locks
<1>11. CASE Unwind(r)
  BY <1>11, SafetyFinish DEF Unwind, Finish
<1> QED
  BY <1>1, <1>2, <1>3, <1>4, <1>5, <1>6, <1>7, <1>8, <1>9, <1>10, <1>11 DEF TaskStep

\* However many runs compete for however many resources, are cancelled, time out or
\* die: a handler, its clean-up included, has all its resources to itself, no lock is
\* leaked, and the ordered acquisition leaves no cycle of runs waiting for each other.
THEOREM ResourcesExclude == Spec => []ResourceSafety
<1>1. Init => ResourceSafety
  BY SafetyParts DEF Init, HandlerHolds, WaitIsOrdered, HolderLives, InHandler
<1>2. TypeOK /\ ResourceSafety /\ [Next]_vars => ResourceSafety'
  <2> SUFFICES ASSUME TypeOK, ResourceSafety, [Next]_vars PROVE ResourceSafety'
    OBVIOUS
  <2>1. CASE Start
    BY <2>1, SafetyKept DEF Start, locks
  <2>2. CASE Consume
    BY <2>2, SafetyKept DEF Consume, TypeOK, InHandler, locks
  <2>3. ASSUME NEW r \in Run, TaskStep(r) PROVE ResourceSafety'
    BY <2>3, TaskStepSafety
  <2>4. ASSUME NEW r \in Run,
               \/ Submit(r) \/ Cancel(r) \/ CancelReturns(r) \/ CancelForStop(r)
               \/ Status(r)
        PROVE  ResourceSafety'
    BY <2>4, SafetyKept DEF Submit, Cancel, CancelReturns, CancelForStop, Status, locks
  <2>5. ASSUME NEW r \in Run, CrashInBegin(r) PROVE ResourceSafety'
    BY <2>5, SafetyFresh DEF CrashInBegin
  <2>6. ASSUME NEW b \in Robot, CollectForStop(b) PROVE ResourceSafety'
    BY <2>6, SafetyKept DEF CollectForStop, locks
  <2>7. CASE CloseBegin \/ CloseTasks
    BY <2>7, SafetyKept DEF CloseBegin, CloseTasks, locks
  <2>8. CASE CloseEnd
    BY <2>8, SafetyKept DEF CloseEnd, InHandler, locks
  <2>9. CASE Crash
    BY <2>9, SafetyFresh DEF Crash
  <2>10. CASE UNCHANGED vars
    BY <2>10, SafetyKept DEF vars
  <2> QED
    BY <2>1, <2>2, <2>3, <2>4, <2>5, <2>6, <2>7, <2>8, <2>9, <2>10 DEF Next
<1> QED
  BY <1>1, <1>2, TypeCorrect, PTL DEF Spec

-----------------------------------------------------------------------------
\* Where the events of a run are: a run the worker has not seen has none, and one it
\* executes or has queued has as many as the runner has counted, none of them last.
Queued == {commands[i] : i \in 1..Len(commands)}
InStep(r) == ~Terminal(latest[r]) /\ latest[r].sequence = sequences[r]

QueueInv ==
    worker # "closed" =>
        /\ \A i, j \in 1..Len(commands) : commands[i] = commands[j] => i = j
        /\ \A r \in Queued : r \in pending /\ pc[r] = "none"

RunInv(r) ==
    /\ r \in pending => r \in submitted
    /\ pc[r] # "none" => r \in pending
    /\ r \notin submitted => latest[r] = NoEvent /\ sequences[r] = 0
    /\ pc[r] \notin {"none", "dead"} => InStep(r)
    /\ worker # "closed" /\ r \in Queued => InStep(r)

EventInv == QueueInv /\ \A r \in Run : RunInv(r)

\* RunInv speaks of the run's own fields only.
LEMMA RunInvLocal ==
    ASSUME NEW x \in Run, RunInv(x), x \in submitted <=> x \in submitted',
           x \in pending <=> x \in pending', x \in Queued' => x \in Queued,
           worker' # "closed" => worker # "closed",
           pc'[x] = pc[x], latest'[x] = latest[x], sequences'[x] = sequences[x]
    PROVE  RunInv(x)'
BY DEF RunInv, InStep, Terminal

\* A step of one run's task that leaves the worker's queue alone.
LEMMA TaskKeepsEvents ==
    ASSUME TypeOK, EventInv, NEW r \in Run, pc[r] \notin {"none", "dead"},
           UNCHANGED <<submitted, worker, commands>>,
           \A x \in Run \ {r} :
              /\ pc'[x] = pc[x] /\ latest'[x] = latest[x]
              /\ sequences'[x] = sequences[x] /\ (x \in pending <=> x \in pending'),
           \/ pc'[r] = "none" /\ r \notin pending'
           \/ pc'[r] = "dead" /\ r \in pending'
           \/ pc'[r] \notin {"none", "dead"} /\ r \in pending' /\ InStep(r)'
    PROVE  EventInv'
<1>1. RunInv(r) /\ QueueInv
  BY DEF EventInv
<1>2. Queued' = Queued
  BY DEF Queued
<1>3. worker # "closed" => r \notin Queued
  BY <1>1 DEF QueueInv
<1>4. RunInv(r)'
  BY <1>1, <1>2, <1>3 DEF RunInv
<1>5. ASSUME NEW x \in Run \ {r} PROVE RunInv(x)'
  BY <1>2, RunInvLocal DEF EventInv
<1>6. QueueInv'
  <2> SUFFICES ASSUME worker # "closed", NEW x \in Queued
               PROVE  x \in pending' /\ pc'[x] = "none"
    BY <1>1, <1>2 DEF QueueInv
  <2>1. x \in Run \ {r}
    BY <1>3 DEF Queued, TypeOK
  <2> QED BY <1>1, <2>1 DEF QueueInv
<1> QED BY <1>4, <1>5, <1>6 DEF EventInv

\* What EventsOnlyAppend says of one step and one run.
Appends(x) == latest'[x] # latest[x] =>
                  /\ latest'[x].sequence > latest[x].sequence
                  /\ ~Terminal(latest[x])

LEMMA EmitAppends ==
    ASSUME TypeOK, NEW r \in Run, InStep(r), NEW n \in Nat \ {0}, NEW phase, NEW result,
           Emit(r, n, phase, result)
    PROVE  /\ \A x \in Run : Appends(x)
           /\ \A x \in Run \ {r} : latest'[x] = latest[x]
           /\ latest'[r] = Event(sequences[r] + n, phase, result)
<1>1. sequences[r] \in Nat /\ latest[r].sequence = sequences[r]
  BY DEF TypeOK, InStep
<1>2. /\ latest'[r] = Event(sequences[r] + n, phase, result)
      /\ \A x \in Run \ {r} : latest'[x] = latest[x]
  BY DEF Emit, TypeOK
<1>3. latest'[r].sequence = sequences[r] + n
  BY <1>2 DEF Event
<1>4. \A x \in Run : Appends(x)
  BY <1>1, <1>2, <1>3 DEF Appends, InStep
<1> QED BY <1>2, <1>4

LEMMA FinishEvents ==
    ASSUME TypeOK, EventInv, NEW r \in Run, pc[r] \notin {"none", "dead"},
           NEW n \in Nat \ {0}, NEW phase, NEW result, Finish(r, n, phase, result),
           UNCHANGED <<submitted, worker, commands, control, crashes>>
    PROVE  EventInv' /\ \A x \in Run : Appends(x)
<1>1. InStep(r)
  BY DEF EventInv, RunInv
<1>2. /\ \A x \in Run : Appends(x)
      /\ \A x \in Run \ {r} : latest'[x] = latest[x]
  BY <1>1, EmitAppends DEF Finish
<1>3. /\ pc'[r] = "none" /\ r \notin pending'
      /\ \A x \in Run \ {r} : /\ pc'[x] = pc[x] /\ sequences'[x] = sequences[x]
                              /\ (x \in pending <=> x \in pending')
  BY DEF Finish, TypeOK
<1> QED
  BY <1>2, <1>3, TaskKeepsEvents

LEMMA ProceedEvents ==
    ASSUME TypeOK, EventInv, NEW r \in Run, pc[r] \notin {"none", "dead"},
           NEW n \in Nat, NEW granted, Proceed(r, n, granted),
           UNCHANGED <<submitted, worker, commands, control, crashes>>
    PROVE  EventInv' /\ \A x \in Run : Appends(x)
<1>1. InStep(r) /\ r \in pending
  BY DEF EventInv, RunInv
<1>2. CASE Finish(r, n + 1, "cancelled", "failure")
  BY <1>2, FinishEvents
<1>3. ASSUME NEW state \in {"waiting", "handler"},
             pc' = [pc EXCEPT ![r] = state],
             sequences' = [sequences EXCEPT ![r] = @ + n],
             IF n = 0 THEN UNCHANGED latest ELSE Emit(r, n, "running", "none"),
             UNCHANGED <<pending, interrupt, cancelled>>
      PROVE  EventInv' /\ \A x \in Run : Appends(x)
  <2>1. /\ \A x \in Run : Appends(x)
        /\ \A x \in Run \ {r} : latest'[x] = latest[x]
        /\ InStep(r)'
    <3>1. sequences'[r] = sequences[r] + n /\ sequences[r] \in Nat
      BY <1>3 DEF TypeOK
    <3>2. CASE n = 0
      BY <1>1, <1>3, <3>1, <3>2 DEF Appends, InStep, Terminal
    <3>3. CASE n # 0
      <4>1. Emit(r, n, "running", "none") /\ n \in Nat \ {0}
        BY <1>3, <3>3
      <4>2. /\ \A x \in Run : Appends(x)
            /\ \A x \in Run \ {r} : latest'[x] = latest[x]
            /\ latest'[r] = Event(sequences[r] + n, "running", "none")
        BY <1>1, <4>1, EmitAppends
      <4>3. InStep(r)'
        BY <3>1, <4>2 DEF InStep, Event, Terminal, Terminals
      <4> QED BY <4>2, <4>3
    <3> QED BY <3>2, <3>3
  <2>2. /\ pc'[r] = state
        /\ \A x \in Run \ {r} : pc'[x] = pc[x] /\ sequences'[x] = sequences[x]
    BY <1>3 DEF TypeOK
  <2> QED
    BY <1>1, <1>3, <2>1, <2>2, TaskKeepsEvents
<1> QED
  BY <1>2, <1>3 DEF Proceed

LEMMA TaskStepEvents ==
    ASSUME TypeOK, EventInv, NEW r \in Run, TaskStep(r)
    PROVE  EventInv' /\ \A x \in Run : Appends(x)
<1>0. pc[r] # "none" => r \in pending
  BY DEF EventInv, RunInv
<1>1. CASE Begin(r)
  BY <1>1, ProceedEvents DEF Begin
<1>2. CASE Reject(r)
  BY <1>2, FinishEvents DEF Reject
<1>3. CASE DieUnstarted(r)
  <2>1. pc'[r] = "dead" /\ \A x \in Run \ {r} : pc'[x] = pc[x]
    BY <1>3 DEF DieUnstarted, TypeOK
  <2>2. EventInv'
    BY <1>0, <1>3, <2>1, TaskKeepsEvents DEF DieUnstarted, durable
  <2> QED
    BY <1>3, <2>2 DEF DieUnstarted, durable, Appends
<1>4. CASE Wake(r)
  <2>1. PICK k \in Key : Proceed(r, 0, {k})
    BY <1>4 DEF Wake
  <2> QED
    BY <1>4, <2>1, ProceedEvents DEF Wake
<1>5. CASE AbortWait(r)
  BY <1>5, FinishEvents DEF AbortWait
<1>6. CASE Progress(r)
  <2>1. InStep(r)
    BY <1>6 DEF Progress, EventInv, RunInv
  <2>2. Emit(r, 1, "progress", "none")
    BY <1>6 DEF Progress
  <2>3. /\ \A x \in Run : Appends(x)
        /\ \A x \in Run \ {r} : latest'[x] = latest[x]
        /\ latest'[r] = Event(sequences[r] + 1, "progress", "none")
    BY <2>1, <2>2, EmitAppends
  <2>4. /\ sequences'[r] = sequences[r] + 1
        /\ \A x \in Run \ {r} : sequences'[x] = sequences[x]
    BY <1>6 DEF Progress, TypeOK
  <2>5. InStep(r)'
    BY <2>3, <2>4 DEF InStep, Event, Terminal, Terminals
  <2>6. EventInv'
    BY <1>0, <1>6, <2>3, <2>4, <2>5, TaskKeepsEvents DEF Progress
  <2> QED BY <2>3, <2>6
<1>7. CASE Return(r)
  <2>1. PICK success \in BOOLEAN, status \in Terminals :
          Finish(r, 1, NormalPhase(success, status),
                 IF success THEN "success" ELSE "failure")
    BY <1>7 DEF Return
  <2> QED
    BY <1>7, <2>1, FinishEvents DEF Return
<1>8. CASE Raise(r)
  <2>1. pc[r] \notin {"none", "dead"}
    BY <1>8 DEF Raise, InHandler
  <2> QED BY <1>8, <2>1, FinishEvents DEF Raise
<1>9. CASE Timeout(r) \/ Interrupt(r)
  <2>1. /\ pc[r] \notin {"none", "dead"} /\ pc'[r] \notin {"none", "dead"}
        /\ \A x \in Run \ {r} : pc'[x] = pc[x]
    BY <1>9 DEF Timeout, Interrupt, InHandler, TypeOK
  <2>2. UNCHANGED <<submitted, latest, worker, commands, pending, sequences>>
    BY <1>9 DEF Timeout, Interrupt, durable
  <2>3. InStep(r)'
    BY <2>1, <2>2 DEF EventInv, RunInv, InStep, Terminal
  <2>4. EventInv'
    BY <1>0, <2>1, <2>2, <2>3, TaskKeepsEvents
  <2> QED BY <2>2, <2>4 DEF Appends
<1>10. CASE Unwind(r)
  BY <1>10, FinishEvents DEF Unwind
<1> QED
  BY <1>1, <1>2, <1>3, <1>4, <1>5, <1>6, <1>7, <1>8, <1>9, <1>10 DEF TaskStep

\* A process that starts again knows of no run in its queue.
LEMMA FreshEvents ==
    ASSUME TypeOK, EventInv, FreshWorker, UNCHANGED submitted,
           \A x \in Run : x \notin submitted => latest'[x] = latest[x]
    PROVE  EventInv'
BY DEF FreshWorker, EventInv, RunInv, QueueInv, Queued

\* The inductive step of EventInv, and what the step does to the events.
LEMMA NextEvents ==
    ASSUME TypeOK, EventInv, [Next]_vars
    PROVE  EventInv' /\ \A x \in Run : Appends(x)
<1> USE DEF durable, control, locks, history
<1>1. CASE UNCHANGED <<submitted, latest, commands, pending, pc, sequences>>
           /\ (worker' # "closed" => worker # "closed")
  <2>1. Queued' = Queued
    BY <1>1 DEF Queued
  <2> QED
    BY <1>1, <2>1, RunInvLocal DEF EventInv, QueueInv, Appends
<1>2. CASE Consume
  <2>1. /\ commands \in Seq(Run) /\ commands # <<>>
        /\ Len(commands') = Len(commands) - 1 /\ Len(commands) \in Nat
        /\ \A i \in 1..Len(commands') : commands'[i] = commands[i + 1]
        /\ Head(commands) = commands[1] /\ 1 \in 1..Len(commands)
    BY <1>2 DEF Consume, TypeOK
  <2>2. QueueInv /\ worker # "closed"
    BY <1>2 DEF Consume, EventInv
  <2>3. Queued' \subseteq Queued /\ Head(commands) \notin Queued'
    BY <2>1, <2>2 DEF Queued, QueueInv
  <2>4. Head(commands) \in Queued /\ Head(commands) \in Run
    BY <2>1 DEF Queued
  <2>5. pc' = [pc EXCEPT ![Head(commands)] = "created"]
    BY <1>2, <2>2, <2>4 DEF Consume, QueueInv
  <2>6. QueueInv'
    <3>1. \A i, j \in 1..Len(commands') : commands'[i] = commands'[j] => i = j
      BY <2>1, <2>2 DEF QueueInv
    <3>2. ASSUME NEW x \in Queued' PROVE x \in pending' /\ pc'[x] = "none"
      BY <1>2, <2>2, <2>3, <2>5, <3>2 DEF Consume, QueueInv, TypeOK
    <3> QED BY <3>1, <3>2 DEF QueueInv
  <2>7. ASSUME NEW x \in Run PROVE RunInv(x)'
    <3>1. RunInv(x)
      BY DEF EventInv
    <3>2. CASE x = Head(commands)
      BY <1>2, <2>2, <2>3, <2>4, <2>5, <3>1, <3>2
         DEF Consume, QueueInv, RunInv, InStep, Terminal, TypeOK
    <3>3. CASE x # Head(commands)
      <4>1. pc'[x] = pc[x]
        BY <2>5, <3>3 DEF TypeOK
      <4> QED
        BY <1>2, <2>3, <3>1, <4>1, RunInvLocal DEF Consume
    <3> QED BY <3>2, <3>3
  <2> QED
    BY <1>2, <2>6, <2>7 DEF EventInv, Consume, Appends
<1>3. ASSUME NEW r \in Run, Submit(r) PROVE EventInv' /\ \A x \in Run : Appends(x)
  <2>1. /\ commands \in Seq(Run) /\ Len(commands) \in Nat
        /\ Len(commands') = Len(commands) + 1
        /\ \A i \in 1..Len(commands) : commands'[i] = commands[i]
        /\ commands'[Len(commands) + 1] = r
    BY <1>3 DEF Submit, TypeOK
  <2>2. Queued' = Queued \cup {r}
    <3>1. Queued' \subseteq Queued \cup {r}
      BY <2>1 DEF Queued
    <3>2. ASSUME NEW x \in Queued PROVE x \in Queued'
      BY <2>1 DEF Queued
    <3>3. r \in Queued'
      BY <2>1 DEF Queued
    <3> QED BY <3>1, <3>2, <3>3
  <2>3. QueueInv /\ worker # "closed" /\ RunInv(r) /\ r \notin pending
    BY <1>3 DEF Submit, EventInv
  <2>4. r \notin Queued
    BY <2>3 DEF QueueInv
  <2>5. QueueInv'
    <3>1. \A i, j \in 1..Len(commands') : commands'[i] = commands'[j] => i = j
      BY <2>1, <2>3, <2>4 DEF QueueInv, Queued
    <3>2. \A x \in Queued' : x \in pending' /\ pc'[x] = "none"
      BY <1>3, <2>2, <2>3 DEF Submit, QueueInv, RunInv
    <3> QED BY <3>1, <3>2 DEF QueueInv
  <2>6. RunInv(r)'
    BY <1>3, <2>3 DEF Submit, RunInv, InStep, NoEvent, Event, Terminal, Terminals
  <2>7. ASSUME NEW x \in Run \ {r} PROVE RunInv(x)'
    BY <1>3, <2>2, RunInvLocal DEF Submit, EventInv
  <2> QED
    BY <1>3, <2>5, <2>6, <2>7 DEF EventInv, Submit, Appends
<1>4. ASSUME NEW r \in Run, TaskStep(r) PROVE EventInv' /\ \A x \in Run : Appends(x)
  BY <1>4, TaskStepEvents
<1>5. ASSUME NEW r \in Run, Status(r) PROVE EventInv' /\ \A x \in Run : Appends(x)
  <2>1. /\ latest'[r].sequence = latest[r].sequence + 1
        /\ \A x \in Run \ {r} : latest'[x] = latest[x]
        /\ latest[r].sequence \in Nat
    BY <1>5 DEF Status, Event, TypeOK
  <2>2. \A x \in Run : Appends(x)
    BY <1>5, <2>1 DEF Status, Appends
  <2>3. Queued' = Queued
    BY <1>5 DEF Status, Queued
  <2>4. RunInv(r)'
    BY <1>5, <2>3 DEF Status, Active, EventInv, RunInv, QueueInv
  <2>5. ASSUME NEW x \in Run \ {r} PROVE RunInv(x)'
    BY <1>5, <2>1, <2>3, RunInvLocal DEF Status, EventInv
  <2>6. QueueInv'
    BY <1>5, <2>3 DEF Status, EventInv, QueueInv
  <2> QED BY <2>2, <2>4, <2>5, <2>6 DEF EventInv
<1>6. ASSUME NEW r \in Run, CrashInBegin(r)
      PROVE  EventInv' /\ \A x \in Run : Appends(x)
  <2>1. InStep(r) /\ r \in submitted
    BY <1>6 DEF CrashInBegin, EventInv, RunInv
  <2>2. Emit(r, 1, "accepted", "none")
    BY <1>6 DEF CrashInBegin
  <2>3. /\ \A x \in Run : Appends(x)
        /\ \A x \in Run \ {r} : latest'[x] = latest[x]
    BY <2>1, <2>2, EmitAppends
  <2> QED BY <1>6, <2>1, <2>3, FreshEvents DEF CrashInBegin
<1>7. CASE Crash
  BY <1>7, FreshEvents DEF Crash, Appends
<1>8. CASE CloseEnd
  BY <1>8 DEF CloseEnd, EventInv, RunInv, QueueInv, Appends
<1> QED
  <2>1. ASSUME NEW r \in Run,
               Cancel(r) \/ CancelReturns(r) \/ CancelForStop(r)
        PROVE  EventInv' /\ \A x \in Run : Appends(x)
    BY <1>1, <2>1 DEF Cancel, CancelReturns, CancelForStop
  <2>2. ASSUME NEW b \in Robot, CollectForStop(b)
        PROVE  EventInv' /\ \A x \in Run : Appends(x)
    BY <1>1, <2>2 DEF CollectForStop
  <2>3. CASE Start \/ CloseBegin \/ CloseTasks \/ UNCHANGED vars
    BY <1>1, <2>3 DEF Start, CloseBegin, CloseTasks, vars
  <2> QED
    BY <1>2, <1>3, <1>4, <1>5, <1>6, <1>7, <1>8, <2>1, <2>2, <2>3 DEF Next

LEMMA EventInvHolds == Spec => []EventInv
<1>1. Init => EventInv
  BY DEF Init, EventInv, RunInv, QueueInv, Queued
<1>2. TypeOK /\ EventInv /\ [Next]_vars => EventInv'
  BY NextEvents
<1> QED
  BY <1>1, <1>2, TypeCorrect, PTL DEF Spec

\* Whatever runs, status queries, closings and restarts interleave, the sequence of
\* every event appended exceeds the one before, and nothing follows a terminal event:
\* FileRunStore.append_event never refuses one.
THEOREM EventsAppend == Spec => EventsOnlyAppend
<1>1. TypeOK /\ EventInv /\ [Next]_vars
        => [\A r \in Run : latest'[r] # latest[r] =>
               /\ latest'[r].sequence > latest[r].sequence
               /\ ~Terminal(latest[r])]_latest
  BY NextEvents DEF Appends
<1> QED
  BY <1>1, TypeCorrect, EventInvHolds, PTL DEF Spec, EventsOnlyAppend

-----------------------------------------------------------------------------
\* A cancelled run that is still inside its handler has the cancellation under way.
CancelInv == \A r \in Run : r \in cancelled /\ pc[r] = "handler" => r \in interrupt

\* What CancelledNeverCompletes says of one step and one run.
NotCompleted(x) ==
    x \in cancelled /\ latest'[x] # latest[x] => latest'[x].phase # "completed"

LEMMA FinishCancel ==
    ASSUME TypeOK, CancelInv, NEW r \in Run, NEW n \in Nat, NEW phase, NEW result,
           phase # "completed" \/ r \notin cancelled, Finish(r, n, phase, result)
    PROVE  CancelInv' /\ \A x \in Run : NotCompleted(x)
<1>1. /\ latest'[r].phase = phase
      /\ \A x \in Run \ {r} : latest'[x] = latest[x] /\ pc'[x] = pc[x]
      /\ pc'[r] = "none"
  BY DEF Finish, Emit, Event, TypeOK
<1>2. \A x \in Run \ {r} : /\ x \in interrupt' <=> x \in interrupt
                           /\ x \in cancelled' <=> x \in cancelled
  BY DEF Finish
<1> QED BY <1>1, <1>2 DEF CancelInv, NotCompleted

LEMMA ProceedCancel ==
    ASSUME TypeOK, CancelInv, NEW r \in Run, NEW n \in Nat, NEW granted,
           Proceed(r, n, granted)
    PROVE  CancelInv' /\ \A x \in Run : NotCompleted(x)
<1>1. CASE Finish(r, n + 1, "cancelled", "failure")
  BY <1>1, FinishCancel
<1>2. ASSUME NEW state \in {"waiting", "handler"},
             state = "handler" => r \notin cancelled,
             pc' = [pc EXCEPT ![r] = state],
             IF n = 0 THEN UNCHANGED latest ELSE Emit(r, n, "running", "none"),
             UNCHANGED <<interrupt, cancelled>>
      PROVE  CancelInv' /\ \A x \in Run : NotCompleted(x)
  <2>1. \A x \in Run : latest'[x] # latest[x] => latest'[x].phase # "completed"
    BY <1>2 DEF Emit, Event, TypeOK
  <2>2. CancelInv'
    BY <1>2 DEF CancelInv, TypeOK
  <2> QED BY <2>1, <2>2 DEF NotCompleted
<1> QED BY <1>1, <1>2 DEF Proceed

\* The inductive step of CancelInv, and what the step reports of cancelled runs.
LEMMA NextCancel ==
    ASSUME TypeOK, CancelInv, [Next]_vars
    PROVE  CancelInv' /\ \A x \in Run : NotCompleted(x)
<1> USE DEF durable, control, locks, history
<1>1. ASSUME NEW r \in Run, TaskStep(r) PROVE CancelInv' /\ \A x \in Run : NotCompleted(x)
  <2>1. CASE Begin(r)
    BY <2>1, ProceedCancel DEF Begin
  <2>2. CASE Reject(r)
    BY <2>2, FinishCancel DEF Reject
  <2>3. CASE DieUnstarted(r)
    BY <2>3 DEF DieUnstarted, CancelInv, NotCompleted, TypeOK
  <2>4. CASE Wake(r)
    BY <2>4, ProceedCancel DEF Wake
  <2>5. CASE AbortWait(r)
    BY <2>5, FinishCancel DEF AbortWait
  <2>6. CASE Progress(r)
    <3>1. \A x \in Run : latest'[x] # latest[x] => latest'[x].phase # "completed"
      BY <2>6 DEF Progress, Emit, Event, TypeOK
    <3> QED BY <2>6, <3>1 DEF Progress, CancelInv, NotCompleted
  <2>7. CASE Return(r)
    <3>1. r \notin cancelled
      BY <2>7 DEF Return, CancelInv
    <3> QED BY <2>7, <3>1, FinishCancel DEF Return
  <2>8. CASE Raise(r)
    BY <2>8, FinishCancel DEF Raise
  <2>9. CASE Timeout(r) \/ Interrupt(r)
    BY <2>9 DEF Timeout, Interrupt, CancelInv, NotCompleted, TypeOK
  <2>10. CASE Unwind(r)
    BY <2>10, FinishCancel DEF Unwind
  <2> QED
    BY <1>1, <2>1, <2>2, <2>3, <2>4, <2>5, <2>6, <2>7, <2>8, <2>9, <2>10 DEF TaskStep
<1>2. ASSUME NEW r \in Run, Status(r) \/ CrashInBegin(r)
      PROVE  CancelInv' /\ \A x \in Run : NotCompleted(x)
  <2>1. \A x \in Run : latest'[x] # latest[x] => latest'[x].phase # "completed"
    BY <1>2 DEF Status, CrashInBegin, Emit, Event, TypeOK
  <2> QED
    BY <1>2, <2>1 DEF Status, CrashInBegin, FreshWorker, CancelInv, NotCompleted
<1>3. CASE Start \/ CloseBegin \/ CloseTasks \/ CloseEnd \/ Crash \/ UNCHANGED vars
  BY <1>3 DEF Start, CloseBegin, CloseTasks, CloseEnd, Crash, FreshWorker, vars,
              CancelRuns, Suspended, InHandler, CancelInv, NotCompleted
<1>4. CASE Consume
  BY <1>4 DEF Consume, CancelInv, NotCompleted, TypeOK
<1>5. ASSUME NEW r \in Run,
             Submit(r) \/ Cancel(r) \/ CancelReturns(r) \/ CancelForStop(r)
      PROVE  CancelInv' /\ \A x \in Run : NotCompleted(x)
  BY <1>5 DEF Submit, Cancel, CancelReturns, CancelForStop, CancelRuns, Suspended,
              InHandler, CancelInv, NotCompleted
<1>6. ASSUME NEW b \in Robot, CollectForStop(b)
      PROVE  CancelInv' /\ \A x \in Run : NotCompleted(x)
  BY <1>6 DEF CollectForStop, CancelInv, NotCompleted
<1> QED
  BY <1>1, <1>2, <1>3, <1>4, <1>5, <1>6 DEF Next

\* A run that cancel(), an emergency stop or close() has flagged while it is live does
\* not report completion any more, whatever state the cancellation found it in.
THEOREM CancelledStaysCancelled == Spec => CancelledNeverCompletes
<1>1. Init => CancelInv
  BY DEF Init, CancelInv
<1>2. TypeOK /\ CancelInv /\ [Next]_vars
        => CancelInv' /\ [\A r \in Run : r \in cancelled /\ latest'[r] # latest[r] =>
                             latest'[r].phase # "completed"]_latest
  BY NextCancel DEF NotCompleted
<1> QED
  BY <1>1, <1>2, TypeCorrect, PTL DEF Spec, CancelledNeverCompletes

-----------------------------------------------------------------------------
\* The handler of a run is entered after its submission, once: a run that is queued or
\* still on its way has not been in its handler, over restarts.
OnceInv ==
    \A r \in Run :
        /\ \/ r \notin submitted \/ pc[r] \in {"created", "waiting"}
           \/ worker # "closed" /\ r \in Queued
           => handled[r] = 0
        /\ pc[r] \in InHandler => handled[r] > 0

WorkerInv == TypeOK /\ ResourceSafety /\ EventInv /\ OnceInv

\* Same, for the stages of two states: a step that leaves what Stage reads alone.
LEMMA StageLocal ==
    ASSUME NEW x \in Run, pc'[x] = pc[x], latest'[x] = latest[x],
           handled'[x] = handled[x], x \in submitted <=> x \in submitted'
    PROVE  Stage(x)' = Stage(x)
BY DEF Stage, Terminal

\* The stage a live run is in.
LEMMA LiveStage ==
    ASSUME WorkerInv, NEW r \in Run, pc[r] \notin {"none", "dead"}
    PROVE  /\ pc[r] \in {"created", "waiting"} => Stage(r) = "submitted"
           /\ pc[r] \in InHandler => Stage(r) = "executing"
           /\ Stage(r) \in {"submitted", "executing"}
           /\ r \in submitted /\ InStep(r)
<1>1. r \in submitted /\ InStep(r)
  BY DEF WorkerInv, EventInv, RunInv
<1>2. pc[r] \in {"created", "waiting"} \cup InHandler
  BY DEF WorkerInv, TypeOK, TaskStates, InHandler
<1>3. pc[r] \in {"created", "waiting"} => handled[r] = 0 /\ pc[r] \notin InHandler
  BY DEF WorkerInv, OnceInv, InHandler
<1> QED
  BY <1>1, <1>2, <1>3 DEF Stage, InStep

StageOf == [r \in Run |-> Stage(r)]

\* The end of a run's task is the end of the run.
LEMMA FinishEnds ==
    ASSUME WorkerInv, NEW r \in Run, pc[r] \notin {"none", "dead"},
           NEW n \in Nat, NEW phase \in Terminals, NEW result,
           Finish(r, n, phase, result), UNCHANGED submitted
    PROVE  Lifecycle!End(r)
<1>1. Stage(r) \in {"submitted", "executing"}
  BY LiveStage
<1>2. /\ latest'[r].phase = phase
      /\ \A x \in Run \ {r} : latest'[x] = latest[x] /\ pc'[x] = pc[x]
  BY DEF Finish, Emit, Event, WorkerInv, TypeOK
<1>3. Stage(r)' = "ended"
  BY <1>2 DEF Stage, Terminal
<1>4. \A x \in Run \ {r} : Stage(x)' = Stage(x)
  BY <1>2, StageLocal DEF Finish
<1> QED
  BY <1>1, <1>3, <1>4 DEF Lifecycle!End

\* Going on through acquire() executes the run, ends it, or changes nothing yet.
LEMMA ProceedStage ==
    ASSUME WorkerInv, ResourceSafety', NEW r \in Run, pc[r] \in {"created", "waiting"},
           NEW n \in Nat, NEW granted, Proceed(r, n, granted), UNCHANGED submitted
    PROVE  [Lifecycle!Next]_StageOf
<1>1. /\ pc[r] \notin {"none", "dead"} /\ Stage(r) = "submitted"
      /\ r \in submitted /\ InStep(r)
  BY LiveStage
<1>2. CASE Finish(r, n + 1, "cancelled", "failure")
  BY <1>1, <1>2, FinishEnds DEF Terminals, Lifecycle!Next
<1>3. ASSUME NEW state, pc' = [pc EXCEPT ![r] = state],
             IF n = 0 THEN UNCHANGED latest ELSE Emit(r, n, "running", "none")
      PROVE  /\ ~Terminal(latest'[r]) /\ pc'[r] = state
             /\ \A x \in Run \ {r} : latest'[x] = latest[x] /\ pc'[x] = pc[x]
  <2>1. /\ pc'[r] = state
        /\ \A x \in Run \ {r} : latest'[x] = latest[x] /\ pc'[x] = pc[x]
    BY <1>3 DEF Emit, WorkerInv, TypeOK
  <2>2. CASE n = 0
    BY <1>1, <1>3, <2>1, <2>2 DEF InStep, Terminal
  <2>3. CASE n # 0
    BY <1>3, <2>1, <2>3 DEF Emit, Event, Terminal, Terminals, WorkerInv, TypeOK
  <2> QED BY <2>1, <2>2, <2>3
<1>4. CASE /\ pc' = [pc EXCEPT ![r] = "waiting"]
           /\ IF n = 0 THEN UNCHANGED latest ELSE Emit(r, n, "running", "none")
           /\ UNCHANGED handled
  <2>1. handled[r] = 0
    BY DEF WorkerInv, OnceInv
  <2>2. Stage(r)' = Stage(r)
    BY <1>1, <1>3, <1>4, <2>1 DEF Stage, InHandler
  <2>3. \A x \in Run \ {r} : Stage(x)' = Stage(x)
    BY <1>3, <1>4, StageLocal
  <2> QED
    BY <2>2, <2>3 DEF StageOf
<1>5. CASE /\ pc' = [pc EXCEPT ![r] = "handler"]
           /\ IF n = 0 THEN UNCHANGED latest ELSE Emit(r, n, "running", "none")
           /\ handled' = [handled EXCEPT ![r] = @ + 1]
  <2>1. Stage(r)' = "executing"
    BY <1>3, <1>5 DEF Stage, InHandler
  <2>2. \A x \in Run \ {r} : /\ Stage(x)' = Stage(x) /\ pc'[x] = pc[x]
    BY <1>3, <1>5, StageLocal DEF WorkerInv, TypeOK
  <2>3. ASSUME NEW x \in Run \ {r}, Stage(x) = "executing"
        PROVE  ~Lifecycle!Conflict(r, x)
    <3>1. pc'[x] \in InHandler /\ pc'[r] \in InHandler
      BY <1>3, <1>5, <2>2, <2>3 DEF Stage, InHandler
    <3>2. Needs[x] \subseteq Held(x)' /\ Needs[r] \subseteq Held(r)'
      BY <3>1 DEF ResourceSafety
    <3> QED
      BY <3>2 DEF Held, Lifecycle!Conflict
  <2>4. Lifecycle!Execute(r)
    BY <1>1, <2>1, <2>2, <2>3 DEF Lifecycle!Execute
  <2> QED BY <2>4 DEF Lifecycle!Next
<1> QED
  BY <1>2, <1>4, <1>5 DEF Proceed

\* A stage changes only with the run's outcome, its presence in the handler, its
\* submission or its entries into the handler.
LEMMA StageSame ==
    ASSUME NEW x \in Run, pc'[x] \in InHandler <=> pc[x] \in InHandler,
           Terminal(latest[x])' <=> Terminal(latest[x]), handled'[x] = handled[x],
           x \in submitted <=> x \in submitted'
    PROVE  Stage(x)' = Stage(x)
BY DEF Stage

LEMMA TaskStepStage ==
    ASSUME WorkerInv, ResourceSafety', NEW r \in Run, TaskStep(r)
    PROVE  [Lifecycle!Next]_StageOf
<1> USE DEF durable, control, locks, history
<1>1. CASE Begin(r)
  BY <1>1, ProceedStage DEF Begin
<1>2. CASE Reject(r)
  BY <1>2, FinishEnds DEF Reject, Terminals, Lifecycle!Next
<1>3. CASE DieUnstarted(r)
  BY <1>3, StageSame DEF DieUnstarted, WorkerInv, TypeOK, InHandler, StageOf
<1>4. CASE Wake(r)
  BY <1>4, ProceedStage DEF Wake
<1>5. CASE AbortWait(r)
  BY <1>5, FinishEnds DEF AbortWait, Terminals, Lifecycle!Next
<1>6. CASE Progress(r)
  <2>1. ~Terminal(latest[r]) /\ ~Terminal(latest[r])'
    BY <1>6, LiveStage
       DEF Progress, InStep, Emit, Event, Terminal, Terminals, WorkerInv, TypeOK
  <2>2. \A x \in Run \ {r} : latest'[x] = latest[x]
    BY <1>6 DEF Progress, Emit, WorkerInv, TypeOK
  <2> QED
    BY <1>6, <2>1, <2>2, StageSame, StageLocal DEF Progress, StageOf
<1>7. CASE Return(r)
  <2>1. PICK success \in BOOLEAN, status \in Terminals :
          Finish(r, 1, NormalPhase(success, status),
                 IF success THEN "success" ELSE "failure")
    BY <1>7 DEF Return
  <2>2. NormalPhase(success, status) \in Terminals
    BY DEF NormalPhase, Terminals
  <2> QED
    BY <1>7, <2>1, <2>2, FinishEnds DEF Return, Lifecycle!Next
<1>8. CASE Raise(r)
  <2>1. pc[r] \notin {"none", "dead"}
    BY <1>8 DEF Raise, InHandler
  <2> QED
    BY <1>8, <2>1, FinishEnds DEF Raise, Terminals, Lifecycle!Next
<1>9. CASE Timeout(r) \/ Interrupt(r)
  BY <1>9, StageSame DEF Timeout, Interrupt, InHandler, WorkerInv, TypeOK, StageOf
<1>10. CASE Unwind(r)
  BY <1>10, FinishEnds DEF Unwind, Terminals, Lifecycle!Next
<1> QED
  BY <1>1, <1>2, <1>3, <1>4, <1>5, <1>6, <1>7, <1>8, <1>9, <1>10 DEF TaskStep

\* A death of the process abandons what was executing, and nothing else.
LEMMA CrashAbandons ==
    ASSUME WorkerInv, FreshWorker, UNCHANGED <<submitted, handled>>,
           \A x \in Run : Terminal(latest[x])' <=> Terminal(latest[x])
    PROVE  [Lifecycle!Next]_StageOf
<1>1. \A x \in Run : pc'[x] \notin InHandler
  BY DEF FreshWorker, InHandler
<1>2. \A x \in Run : Stage(x)' = IF Stage(x) = "executing" THEN "abandoned" ELSE Stage(x)
  BY <1>1 DEF Stage, WorkerInv, OnceInv
<1>3. CASE \E x \in Run : Stage(x) = "executing"
  BY <1>2, <1>3 DEF Lifecycle!Next, Lifecycle!Abandon
<1>4. CASE ~\E x \in Run : Stage(x) = "executing"
  BY <1>2, <1>4 DEF StageOf
<1> QED BY <1>3, <1>4

LEMMA NextStage ==
    ASSUME WorkerInv, ResourceSafety', [Next]_vars
    PROVE  [Lifecycle!Next]_StageOf
<1> USE DEF durable, control, locks, history
<1>1. CASE /\ UNCHANGED <<submitted, latest, handled>>
           /\ \A x \in Run : pc'[x] \in InHandler <=> pc[x] \in InHandler
  BY <1>1, StageSame DEF StageOf, Terminal
<1>2. ASSUME NEW r \in Run, Submit(r) PROVE [Lifecycle!Next]_StageOf
  <2>1. pc[r] = "none" /\ latest[r] = NoEvent /\ handled[r] = 0
    BY <1>2 DEF Submit, WorkerInv, EventInv, RunInv, OnceInv
  <2>2. Stage(r) = "new" /\ Stage(r)' = "submitted"
    BY <1>2, <2>1 DEF Submit, Stage, InHandler, NoEvent, Event, Terminal, Terminals
  <2>3. \A x \in Run \ {r} : Stage(x)' = Stage(x)
    BY <1>2, StageLocal DEF Submit
  <2> QED
    BY <2>2, <2>3 DEF Lifecycle!Next, Lifecycle!Accept
<1>3. ASSUME NEW r \in Run, TaskStep(r) PROVE [Lifecycle!Next]_StageOf
  BY <1>3, TaskStepStage
<1>4. ASSUME NEW r \in Run, Status(r) PROVE [Lifecycle!Next]_StageOf
  <2>1. /\ latest'[r].phase = "failed"
        /\ \A x \in Run \ {r} : latest'[x] = latest[x]
    BY <1>4 DEF Status, Event, WorkerInv, TypeOK
  <2>2. Stage(r) \in {"submitted", "abandoned"}
    BY <1>4 DEF Status, Active, Stage, InHandler
  <2>3. Stage(r)' = "ended"
    BY <2>1 DEF Stage, Terminal, Terminals
  <2>4. \A x \in Run \ {r} : Stage(x)' = Stage(x)
    BY <1>4, <2>1, StageLocal DEF Status
  <2> QED
    BY <2>2, <2>3, <2>4 DEF Lifecycle!Next, Lifecycle!End
<1>5. ASSUME NEW r \in Run, CrashInBegin(r) PROVE [Lifecycle!Next]_StageOf
  <2>1. ~Terminal(latest[r]) /\ ~Terminal(latest[r])'
    BY <1>5, LiveStage
       DEF CrashInBegin, InStep, Emit, Event, Terminal, Terminals, WorkerInv, TypeOK
  <2>2. \A x \in Run \ {r} : latest'[x] = latest[x]
    BY <1>5 DEF CrashInBegin, Emit, WorkerInv, TypeOK
  <2> QED
    BY <1>5, <2>1, <2>2, CrashAbandons DEF CrashInBegin, Terminal
<1>6. CASE Crash
  BY <1>6, CrashAbandons DEF Crash, Terminal
<1>7. CASE Consume \/ CloseEnd
  BY <1>1, <1>7 DEF Consume, CloseEnd, InHandler, WorkerInv, TypeOK
<1>8. ASSUME NEW r \in Run, Cancel(r) \/ CancelReturns(r) \/ CancelForStop(r)
      PROVE  [Lifecycle!Next]_StageOf
  BY <1>1, <1>8 DEF Cancel, CancelReturns, CancelForStop
<1>9. ASSUME NEW b \in Robot, CollectForStop(b) PROVE [Lifecycle!Next]_StageOf
  BY <1>1, <1>9 DEF CollectForStop
<1>10. CASE Start \/ CloseBegin \/ CloseTasks \/ UNCHANGED vars
  BY <1>1, <1>10 DEF Start, CloseBegin, CloseTasks, vars
<1> QED
  BY <1>2, <1>3, <1>4, <1>5, <1>6, <1>7, <1>8, <1>9, <1>10 DEF Next

\* OnceInv is inductive, given where the queued runs are.
LEMMA NextOnce ==
    ASSUME WorkerInv, EventInv', [Next]_vars
    PROVE  OnceInv'
<1> USE DEF durable, control, locks, history
<1>1. ASSUME NEW r \in Run, TaskStep(r) PROVE OnceInv'
  <2>1. /\ UNCHANGED <<submitted, worker, commands>> /\ pc[r] \notin {"none", "dead"}
        /\ \A x \in Run \ {r} : pc'[x] = pc[x] /\ handled'[x] = handled[x]
    BY <1>1 DEF TaskStep, Begin, Reject, DieUnstarted, Wake, AbortWait, Progress,
                Return, Raise, Timeout, Interrupt, Unwind, Proceed, Finish,
                InHandler, WorkerInv, TypeOK
  <2>2. /\ pc'[r] \in {"created", "waiting"} =>
               pc[r] \in {"created", "waiting"} /\ handled'[r] = handled[r]
        /\ pc'[r] \in InHandler => handled'[r] > 0
    <3>1. CASE Begin(r) \/ Wake(r)
      <4>1. /\ pc[r] \in {"created", "waiting"}
            /\ handled[r] \in Nat /\ r \in DOMAIN pc /\ r \in DOMAIN handled
        BY <3>1 DEF Begin, Wake, WorkerInv, TypeOK
      <4>2. \/ pc'[r] = "waiting" /\ handled'[r] = handled[r]
            \/ pc'[r] = "handler" /\ handled'[r] = handled[r] + 1
            \/ pc'[r] = "none"
        BY <3>1, <4>1 DEF Begin, Wake, Proceed, Finish
      <4> QED BY <4>1, <4>2 DEF InHandler
    <3>2. CASE Reject(r) \/ AbortWait(r) \/ Return(r) \/ Raise(r) \/ Unwind(r)
      BY <3>2 DEF Reject, AbortWait, Return, Raise, Unwind, Finish, InHandler,
                  WorkerInv, TypeOK
    <3>3. CASE DieUnstarted(r) \/ Progress(r) \/ Timeout(r) \/ Interrupt(r)
      BY <3>3 DEF DieUnstarted, Progress, Timeout, Interrupt, InHandler, OnceInv,
                  WorkerInv, TypeOK
    <3> QED
      BY <1>1, <3>1, <3>2, <3>3 DEF TaskStep
  <2>3. r \in submitted /\ (worker # "closed" => r \notin Queued)
    BY <2>1, LiveStage DEF WorkerInv, EventInv, QueueInv
  <2>4. Queued' = Queued
    BY <2>1 DEF Queued
  <2> QED
    BY <2>1, <2>2, <2>3, <2>4 DEF OnceInv, WorkerInv
<1>2. CASE Consume
  <2>1. /\ commands \in Seq(Run) /\ commands # <<>>
        /\ Len(commands') = Len(commands) - 1 /\ Len(commands) \in Nat
        /\ \A i \in 1..Len(commands') : commands'[i] = commands[i + 1]
        /\ Head(commands) = commands[1] /\ 1 \in 1..Len(commands)
    BY <1>2 DEF Consume, WorkerInv, TypeOK
  <2>2. Queued' \subseteq Queued /\ Head(commands) \in Queued
    BY <2>1 DEF Queued
  <2>3. \A x \in Run : \/ pc'[x] = pc[x]
                       \/ x = Head(commands) /\ pc'[x] = "created"
    BY <1>2 DEF Consume, WorkerInv, TypeOK
  <2> QED
    BY <1>2, <2>2, <2>3 DEF Consume, OnceInv, WorkerInv, InHandler
<1>3. ASSUME NEW r \in Run, Submit(r) PROVE OnceInv'
  <2>1. Queued' \subseteq Queued \cup {r}
    <3>1. /\ commands \in Seq(Run) /\ Len(commands) \in Nat
          /\ Len(commands') = Len(commands) + 1
          /\ \A i \in 1..Len(commands) : commands'[i] = commands[i]
          /\ commands'[Len(commands) + 1] = r
      BY <1>3 DEF Submit, WorkerInv, TypeOK
    <3> QED BY <3>1 DEF Queued
  <2> QED
    BY <1>3, <2>1 DEF Submit, OnceInv, WorkerInv
<1>4. CASE \/ Crash
           \/ \E r \in Run : CrashInBegin(r)
  <2>1. FreshWorker /\ UNCHANGED <<submitted, handled>>
    BY <1>4 DEF Crash, CrashInBegin
  <2> QED
    BY <2>1 DEF FreshWorker, Queued, OnceInv, WorkerInv, InHandler
<1>5. CASE CloseEnd
  BY <1>5 DEF CloseEnd, OnceInv, WorkerInv, InHandler
<1>6. CASE /\ UNCHANGED <<submitted, pc, commands, handled>>
           /\ worker' # "closed" => worker # "closed"
  BY <1>6 DEF OnceInv, WorkerInv, Queued
<1> QED
  <2>1. ASSUME NEW r \in Run,
               Cancel(r) \/ CancelReturns(r) \/ CancelForStop(r) \/ Status(r)
        PROVE  OnceInv'
    BY <1>6, <2>1 DEF Cancel, CancelReturns, CancelForStop, Status
  <2>2. ASSUME NEW b \in Robot, CollectForStop(b) PROVE OnceInv'
    BY <1>6, <2>2 DEF CollectForStop
  <2>3. CASE Start \/ CloseBegin \/ CloseTasks \/ UNCHANGED vars
    BY <1>6, <2>3 DEF Start, CloseBegin, CloseTasks, vars
  <2> QED
    BY <1>1, <1>2, <1>3, <1>4, <1>5, <2>1, <2>2, <2>3 DEF Next

\* The worker implements RunLifecycle: whatever is submitted, cancelled, stopped,
\* closed or lost, a run's handler is entered at most once over all restarts, never
\* while a run that shares a resource is inside its own, and an ended run stays ended.
THEOREM ImplementsLifecycle == Spec => KeepsLifecycle
<1>1. Init => Lifecycle!Init /\ OnceInv
  BY DEF Init, Lifecycle!Init, Stage, OnceInv, NoEvent, Event, Terminal, Terminals,
         InHandler
<1>2. OnceInv /\ TypeOK /\ ResourceSafety /\ EventInv /\ EventInv' /\ [Next]_vars
        => OnceInv'
  BY NextOnce DEF WorkerInv
<1>3. OnceInv /\ TypeOK /\ ResourceSafety /\ EventInv /\ ResourceSafety' /\ [Next]_vars
        => [Lifecycle!Next]_[r \in Run |-> Stage(r)]
  BY NextStage DEF WorkerInv, StageOf
<1> QED
  BY <1>1, <1>2, <1>3, TypeCorrect, ResourcesExclude, EventInvHolds, PTL
     DEF Spec, KeepsLifecycle, Lifecycle!Spec
=============================================================================
