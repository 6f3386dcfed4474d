---------------------------- MODULE AgentTaskProofs ----------------------------
(***************************************************************************)
(* Theorems about AgentTask for every number of tasks, runs, model turns,   *)
(* skills and process deaths.                                               *)
(*                                                                          *)
(* Three invariants carry them.  Rows: one task is open.  Runs: the worker  *)
(* reports that a run runs in its first event only and nothing after its    *)
(* outcome, and a step that has its result belongs to no live run; so no    *)
(* event reopens a step, and a task never has a second run.  Quiet: until   *)
(* the user speaks there is nothing that could start a drive, neither a     *)
(* live run nor an event of one.                                            *)
(*                                                                          *)
(* From them follow that a task keeps its budget of actions (a new task has *)
(* no steps, and a step is added only where the budget was asked), and that *)
(* the worker's interface implements RunLifecycle, a run at a time.         *)
(***************************************************************************)
EXTENDS AgentTask, WellFoundedInduction, FiniteSetTheorems, SequenceTheorems, TLAPS

TaskRows == [status : [Task -> TaskStates], wake : SUBSET Task]
IsOpen(ts, t) == ts.status[t] \in {"active", "paused"}

\* What OneOpenTaskOneRun says of the task rows ts.
Rows(ts) ==
    /\ ts \in TaskRows
    /\ \A t, x \in Task : IsOpen(ts, t) /\ IsOpen(ts, x) => t = x
    /\ \A t \in ts.wake : ts.status[t] = "active"

StepRow == [task : Task \cup {None}, status : {"none", "open"} \cup StepEnds, last : Nat]
EventRow == [sequence : Nat, phase : {"none", "running"} \cup Terminals]
Queued == Run \X EventRow

RunTypes ==
    /\ steps \in [Run -> StepRow] /\ latest \in [Run -> EventRow]
    /\ submitted \in SUBSET Run /\ live \in SUBSET submitted /\ flagged \in SUBSET live
    /\ queue \in Seq(Queued)

AgentTypes ==
    /\ consumer \in {"starting", "off", "idle", "waiting", "dead"}
    /\ drive \in [pc : {"none", "created", "model", "cancel", "aborting"},
                  turns : 0..(MaxTurns - 1), task : Task \cup {None}]
    /\ turn \in {"idle", "previous", "aborting", "launch", "driving"}
    /\ control \in [pc : {"idle", "awaiting", "driving"},
                    action : {"none", "pause", "cancel", "emergency_stop"},
                    task : Task \cup {None}]
    /\ mandate \in {"none", "given", "stopped"}
    /\ crashes \in Nat

\* The events of run r: the worker's own, and those in the queue.
Reported(r) ==
    /\ latest[r].phase = "none" <=> latest[r].sequence = 0
    /\ latest[r].phase = "running" => latest[r].sequence = 1
    /\ latest[r].phase \in Terminals => r \notin live
    /\ r \notin submitted => latest[r].sequence = 0

Queues(r, e) ==
    /\ r \in submitted
    /\ e.sequence \in 1 .. latest[r].sequence
    /\ e.phase = "running" => e.sequence = 1
    /\ e.phase # "running" => e.phase \in Terminals /\ e = latest[r]

Stepped(r) ==
    /\ steps[r].task = None <=> steps[r].status = "none"
    /\ r \in submitted => steps[r].task # None
    /\ steps[r].status = "none" => steps[r].last = 0
    /\ steps[r].status \in StepEnds =>
          r \notin live /\ steps[r].last >= 1 /\ latest[r].sequence <= steps[r].last

OneRun ==
    \A r, s \in Run :
        steps[r].status = "open" /\ steps[s].status = "open" /\ steps[r].task = steps[s].task
            => r = s

Runs ==
    /\ RunTypes /\ OneRun
    /\ \A r \in Run : Reported(r) /\ Stepped(r)
    /\ \A i \in 1 .. Len(queue) : Queues(queue[i][1], queue[i][2])

\* Nothing that starts a drive by itself.
Quiet == live = {} /\ queue = <<>> /\ drive.pc = "none" /\ turn = "idle"

IInv ==
    /\ Rows(tasks) /\ Runs /\ AgentTypes
    /\ mandate = "none" => Quiet
    /\ CompletedMeansDone

-----------------------------------------------------------------------------
LEMMA LeastExists ==
    ASSUME NEW S, S \subseteq Nat, S # {} PROVE \E n \in S : \A m \in S : n <= m
<1> DEFINE R == {ss \in Nat \X Nat : ss[1] < ss[2]}
<1>1. IsWellFoundedOn(R, Nat)
  BY NatLessThanWellFounded DEF OpToRel
<1>2. PICK n \in S : \A m \in S : ~(<<m, n>> \in R)
  <2> HIDE DEF R
  <2> QED
    BY <1>1, WFMin
<1>3. ASSUME NEW m \in S PROVE n <= m
  <2>1. <<m, n>> \in Nat \X Nat /\ <<m, n>>[1] = m /\ <<m, n>>[2] = n
    OBVIOUS
  <2>2. ~(m < n)
    BY <1>2, <2>1
  <2> QED
    BY <2>2
<1> QED
  BY <1>3

\* create_task() takes a row that is new, add_pending_step() a row without a task.
LEMMA NewTaskIsNew == ASSUME MoreTasks PROVE NewTask \in Task /\ tasks.status[NewTask] = "new"
<1> DEFINE S == {t \in Task : tasks.status[t] = "new"}
<1>0. S \subseteq Nat /\ S # {}
  BY AgentAssumption DEF MoreTasks, Task
<1>1. PICK n \in S : \A m \in S : n <= m
  BY <1>0, LeastExists
<1>2. \E t \in Task : tasks.status[t] = "new" /\ \A x \in Task : tasks.status[x] = "new" => t <= x
  BY <1>1
<1> QED
  BY <1>2 DEF NewTask

LEMMA FreshRunIsFresh == ASSUME MoreRuns PROVE FreshRun \in Run /\ steps[FreshRun].task = None
<1> DEFINE S == {r \in Run : steps[r].task = None}
<1>0. S \subseteq Nat /\ S # {}
  BY AgentAssumption DEF MoreRuns, Run
<1>1. PICK n \in S : \A m \in S : n <= m
  BY <1>0, LeastExists
<1>2. \E r \in Run : steps[r].task = None /\ \A x \in Run : steps[x].task = None => r <= x
  BY <1>1
<1> QED
  BY <1>2 DEF FreshRun

\* active_task() and current_task() find the open task if there is one.
LEMMA TaskInFinds ==
    ASSUME NEW ts, NEW S
    PROVE  /\ TaskIn(ts, S) \in Task \cup {None}
           /\ TaskIn(ts, S) # None => ts.status[TaskIn(ts, S)] \in S
           /\ TaskIn(ts, S) = None => \A t \in Task : ts.status[t] \notin S
           /\ None \notin Task
<1>1. None \notin Task
  BY DEF None, Task
<1>2. CASE \E t \in Task : ts.status[t] \in S
  BY <1>1, <1>2 DEF TaskIn
<1>3. CASE ~\E t \in Task : ts.status[t] \in S
  BY <1>1, <1>3 DEF TaskIn
<1> QED
  BY <1>1, <1>2, <1>3

\* An update of an open task's row leaves one open task.
LEMMA SetStatusKeeps ==
    ASSUME NEW ts, Rows(ts), NEW t \in Task \cup {None}, NEW from \in {"active", "paused"},
           NEW to \in TaskStates \ {"new"}, NEW wake \in BOOLEAN, wake => to = "active"
    PROVE  /\ Rows(SetStatus(ts, t, from, to, wake))
           /\ \A x \in Task : SetStatus(ts, t, from, to, wake).status[x] = "completed" =>
                                  \/ ts.status[x] = "completed"
                                  \/ to = "completed" /\ x = t
<1> DEFINE new == SetStatus(ts, t, from, to, wake)
<1>1. CASE t # None /\ ts.status[t] = from
  <2>1. t \in Task
    BY <1>1
  <2>2. new = [status |-> [ts.status EXCEPT ![t] = to],
               wake |-> IF wake THEN ts.wake \cup {t} ELSE ts.wake \ {t}]
    BY <1>1 DEF SetStatus
  <2>3. /\ ts.status \in [Task -> TaskStates] /\ ts.wake \in SUBSET Task
        /\ IsOpen(ts, t) /\ \A x \in Task \ {t} : ~IsOpen(ts, x)
    BY <1>1, <2>1 DEF Rows, TaskRows, IsOpen
  <2>4. new.status = [ts.status EXCEPT ![t] = to]
    BY <2>2
  <2>5. new.wake = IF wake THEN ts.wake \cup {t} ELSE ts.wake \ {t}
    BY <2>2
  <2>6. new \in TaskRows
    BY <2>1, <2>2, <2>3 DEF TaskRows
  <2> HIDE DEF new
  <2>7. \A x \in Task \ {t} : new.status[x] = ts.status[x]
    BY <2>3, <2>4
  <2>8. new.status[t] = to
    BY <2>1, <2>3, <2>4
  <2>9. \A x \in Task : IsOpen(new, x) => x = t
    BY <2>3, <2>7 DEF IsOpen
  <2>10. \A x \in new.wake : new.status[x] = "active"
    <3> SUFFICES ASSUME NEW x \in new.wake PROVE new.status[x] = "active"
      OBVIOUS
    <3>1. CASE x = t
      BY <2>5, <2>8, <3>1
    <3>2. CASE x # t
      BY <2>3, <2>5, <2>7, <3>2 DEF Rows
    <3> QED
      BY <3>1, <3>2
  <2>11. Rows(new)
    BY <2>6, <2>9, <2>10 DEF Rows
  <2>12. \A x \in Task : new.status[x] = "completed" =>
                            ts.status[x] = "completed" \/ (to = "completed" /\ x = t)
    <3> SUFFICES ASSUME NEW x \in Task, new.status[x] = "completed", x # t
                 PROVE  ts.status[x] = "completed"
      BY <2>8
    <3> QED
      BY <2>7
  <2> QED
    BY <2>11, <2>12 DEF new
<1>2. CASE ~(t # None /\ ts.status[t] = from)
  <2>1. new = ts
    BY <1>2 DEF SetStatus
  <2> QED
    BY <2>1
<1> QED
  BY <1>1, <1>2

\* What an update that completes no task makes of the rows ts.
Kept(ts, new) ==
    Rows(new) /\ \A x \in Task : new.status[x] = "completed" => ts.status[x] = "completed"

LEMMA UpdatesKeep ==
    ASSUME NEW ts, Rows(ts), NEW t \in Task \cup {None}
    PROVE  /\ Kept(ts, ts) /\ Kept(ts, Pause(ts, t)) /\ Kept(ts, Resume(ts, t))
           /\ Kept(ts, Woken(ts, t)) /\ Kept(ts, Unwoken(ts, t))
           /\ Kept(ts, Finish(ts, t, "closed")) /\ Kept(ts, Finish(ts, t, "declared"))
<1>1. {"active", "paused", "closed", "declared"} \subseteq TaskStates \ {"new"}
  BY DEF TaskStates, Closed
<1>2. \A from \in {"active", "paused"}, to \in {"active", "paused", "closed", "declared"},
         wake \in BOOLEAN :
         (wake => to = "active") => Kept(ts, SetStatus(ts, t, from, to, wake))
  <2> SUFFICES ASSUME NEW from \in {"active", "paused"},
                      NEW to \in {"active", "paused", "closed", "declared"},
                      NEW wake \in BOOLEAN, wake => to = "active"
               PROVE  Kept(ts, SetStatus(ts, t, from, to, wake))
    OBVIOUS
  <2>1. to \in TaskStates \ {"new"} /\ to # "completed"
    BY <1>1
  <2> QED
    BY <2>1, SetStatusKeeps DEF Kept
<1>3. Kept(ts, ts)
  BY DEF Kept
<1>4. Kept(ts, Unwoken(ts, t))
  <2>1. Unwoken(ts, t) \in TaskRows /\ Unwoken(ts, t).status = ts.status
        /\ Unwoken(ts, t).wake \subseteq ts.wake
    BY DEF Unwoken, Rows, TaskRows
  <2> QED
    BY <2>1 DEF Kept, Rows, IsOpen
<1> QED
  BY <1>2, <1>3, <1>4 DEF Pause, Resume, Woken, Finish

\* close_task() completes no other task.
LEMMA FinishKeeps ==
    ASSUME NEW ts, Rows(ts), NEW t \in Task, NEW status \in TaskStates \ {"new"}
    PROVE  /\ Rows(Finish(ts, t, status))
           /\ \A x \in Task : Finish(ts, t, status).status[x] = "completed" =>
                                  ts.status[x] = "completed" \/ x = t
<1>1. \A wake \in BOOLEAN : (wake => status = "active") =>
        /\ Rows(SetStatus(ts, t, "active", status, wake))
        /\ \A x \in Task : SetStatus(ts, t, "active", status, wake).status[x] = "completed" =>
                               ts.status[x] = "completed" \/ x = t
  BY SetStatusKeeps
<1> QED
  BY <1>1 DEF Finish

LEMMA KeptTwice ==
    ASSUME NEW a, NEW b, NEW c, Kept(a, b), Kept(b, c) PROVE Kept(a, c)
BY DEF Kept

\* create_task(), where no task is open.
LEMMA CreatedKeeps ==
    ASSUME Rows(tasks), CanCreate, MoreTasks
    PROVE  Kept(tasks, Created(tasks)) /\ NewTask \in Task /\ tasks.status[NewTask] = "new"
<1>1. NewTask \in Task /\ tasks.status[NewTask] = "new"
  BY NewTaskIsNew
<1>2. \A t \in Task : ~IsOpen(tasks, t)
  BY TaskInFinds DEF CanCreate, CurrentTask, IsOpen
<1>3. /\ Created(tasks).status = [tasks.status EXCEPT ![NewTask] = "active"]
      /\ Created(tasks).wake = tasks.wake /\ Created(tasks) \in TaskRows
  BY <1>1 DEF Created, Rows, TaskRows, TaskStates
<1>4. /\ Created(tasks).status[NewTask] = "active"
      /\ \A t \in Task \ {NewTask} : Created(tasks).status[t] = tasks.status[t]
  BY <1>1, <1>3 DEF Rows, TaskRows
<1>5. \A t \in Task : IsOpen(Created(tasks), t) => t = NewTask
  BY <1>2, <1>4 DEF IsOpen
<1>6. \A t \in tasks.wake : FALSE
  BY <1>2 DEF Rows, TaskRows, IsOpen
<1> QED
  BY <1>1, <1>3, <1>4, <1>5, <1>6 DEF Kept, Rows

-----------------------------------------------------------------------------
Agent == <<consumer, drive, turn, control, mandate, crashes>>

\* EndDrive() answers whatever awaits the drive.
LEMMA EndDriveKeeps ==
    ASSUME AgentTypes, NEW outcome, EndDrive(outcome), UNCHANGED history
    PROVE  AgentTypes' /\ drive'.pc = "none" /\ (turn = "idle" => turn' = "idle")
<1>1. drive' \in [pc : {"none", "created", "model", "cancel", "aborting"},
                 turns : 0..(MaxTurns - 1), task : Task \cup {None}] /\ drive'.pc = "none"
  BY AgentAssumption DEF EndDrive, NoDrive, None
<1>2. consumer' \in {"starting", "off", "idle", "waiting", "dead"}
  BY DEF EndDrive, AgentTypes
<1>3. turn' \in {"idle", "previous", "aborting", "launch", "driving"} /\ (turn = "idle" => turn' = "idle")
  <2>1. turn' = CASE turn = "driving" -> "idle"
                  [] turn \in {"previous", "aborting"} ->
                        IF outcome = "raised" THEN "idle" ELSE "launch"
                  [] OTHER -> turn
    BY DEF EndDrive, TurnAfter
  <2> QED
    BY <2>1 DEF AgentTypes
<1>4. NoControl \in [pc : {"idle", "awaiting", "driving"},
                    action : {"none", "pause", "cancel", "emergency_stop"},
                    task : Task \cup {None}]
  BY DEF NoControl, None
<1>5. control' \in [pc : {"idle", "awaiting", "driving"},
                   action : {"none", "pause", "cancel", "emergency_stop"},
                   task : Task \cup {None}]
  BY <1>4 DEF EndDrive, AgentTypes
<1> QED
  BY <1>1, <1>2, <1>3, <1>5 DEF AgentTypes, history

LEMMA LoopHeadKeeps ==
    ASSUME AgentTypes, NEW ts, Rows(ts), NEW n \in 0 .. MaxTurns, LoopHead(n, ts), UNCHANGED history
    PROVE  AgentTypes' /\ Kept(ts, tasks') /\ (turn = "idle" => turn' = "idle")
<1> DEFINE t == TaskIn(ts, {"active"})
<1>1. t \in Task \cup {None}
  BY TaskInFinds
<1>2. CASE tasks' = Finish(ts, t, "closed") /\ EndDrive("done")
  BY <1>1, <1>2, UpdatesKeep, EndDriveKeeps
<1>3. CASE tasks' = Pause(ts, t) /\ EndDrive("done")
  BY <1>1, <1>3, UpdatesKeep, EndDriveKeeps
<1>4. CASE /\ ~Exhausted(n) /\ tasks' = ts
           /\ drive' = [pc |-> "model", turns |-> n, task |-> None]
           /\ UNCHANGED <<consumer, turn, control>>
  <2>1. n \in 0 .. (MaxTurns - 1)
    BY <1>4, AgentAssumption DEF Exhausted
  <2>2. AgentTypes'
    BY <1>4, <2>1 DEF AgentTypes, history
  <2> QED
    BY <1>1, <1>4, <2>2, UpdatesKeep
<1> QED
  BY <1>2, <1>3, <1>4 DEF LoopHead

\* Runs, where no step, run or event changes.
LEMMA RunsStay ==
    ASSUME Runs, UNCHANGED <<steps, submitted, latest, live, queue>>, flagged' \in SUBSET live
    PROVE  Runs'
BY DEF Runs, RunTypes, OneRun, Reported, Stepped, Queues

\* A completed task stays as it was completed.
LEMMA DoneStays ==
    ASSUME CompletedMeansDone, Kept(tasks, tasks'), UNCHANGED <<steps, live>>
    PROVE  CompletedMeansDone'
BY DEF CompletedMeansDone, Kept, StepsOf

\* Steps of the agent that leave steps and runs alone.
LEMMA AgentStep ==
    ASSUME IInv, Kept(tasks, tasks'), UNCHANGED <<steps, submitted, latest, live, queue>>,
           flagged' \in SUBSET live, AgentTypes',
           mandate' = "none" => mandate = "none" /\ drive'.pc = "none" /\ turn' = "idle"
    PROVE  IInv'
<1>1. Rows(tasks')
  BY DEF Kept
<1>2. Runs' /\ CompletedMeansDone'
  BY RunsStay, DoneStays DEF IInv
<1> QED
  BY <1>1, <1>2 DEF IInv, Quiet

LEMMA InitIInv == Init => IInv
<1> SUFFICES ASSUME Init PROVE IInv
  OBVIOUS
<1>1. tasks \in TaskRows /\ tasks.wake = {} /\ \A t \in Task : tasks.status[t] = "new"
  BY DEF Init, TaskRows, TaskStates
<1>2. Rows(tasks) /\ CompletedMeansDone
  BY <1>1 DEF Rows, IsOpen, CompletedMeansDone
<1>3. NoStep \in StepRow /\ NoEvent \in EventRow
  BY DEF NoStep, StepRow, NoEvent, EventRow, Event, None
<1>4. /\ steps = [r \in Run |-> NoStep] /\ latest = [r \in Run |-> NoEvent] /\ submitted = {}
      /\ live = {} /\ flagged = {} /\ queue = <<>>
  BY DEF Init
<1>5. RunTypes /\ queue \in Seq(Queued) /\ Len(queue) = 0
  BY <1>3, <1>4 DEF RunTypes
<1>6. \A r \in Run : Reported(r) /\ Stepped(r)
  BY <1>4 DEF Reported, Stepped, NoEvent, Event, NoStep, Terminals, StepEnds, None
<1>7. Runs
  <2>1. OneRun
    <3>1. \A r \in Run : steps[r].status = "none"
      BY <1>4 DEF NoStep
    <3> QED
      BY <3>1 DEF OneRun
  <2>2. \A i \in 1 .. Len(queue) : FALSE
    BY <1>5
  <2> QED
    BY <1>5, <1>6, <2>1, <2>2 DEF Runs
<1>8. AgentTypes
  BY AgentAssumption DEF Init, AgentTypes, NoDrive, NoControl, None
<1> QED
  BY <1>2, <1>7, <1>8 DEF IInv, Init, Quiet, NoDrive

-----------------------------------------------------------------------------
LEMMA DriveIsAsked == ASSUME IInv, drive.pc # "none" \/ turn # "idle" PROVE mandate # "none"
BY DEF IInv, Quiet

LEMMA ActiveIsTask ==
    /\ ActiveTask \in Task \cup {None} /\ CurrentTask \in Task \cup {None}
    /\ ActiveTask # None => ActiveTask \in Task /\ tasks.status[ActiveTask] = "active"
    /\ CurrentTask # None => CurrentTask \in Task /\ IsOpen(tasks, CurrentTask)
BY TaskInFinds DEF ActiveTask, CurrentTask, IsOpen

LEMMA ControlResultKeeps ==
    ASSUME Rows(tasks), NEW action, NEW t \in Task \cup {None}
    PROVE  Kept(tasks, ControlResult(action, t))
BY UpdatesKeep DEF ControlResult

\* The drive goes round the loop.
LEMMA RoundKeeps ==
    ASSUME IInv, drive.pc # "none", NEW n \in 0 .. MaxTurns, LoopHead(n, tasks),
           UNCHANGED <<steps, skills, history>>
    PROVE  IInv'
<1>1. AgentTypes' /\ Kept(tasks, tasks')
  BY LoopHeadKeeps DEF IInv
<1>2. mandate' # "none"
  BY DriveIsAsked DEF history
<1> QED
  BY <1>1, <1>2, AgentStep DEF skills, IInv, Runs, RunTypes

\* The drive ends, and the tasks are updated so that none is completed.
LEMMA EndKeeps ==
    ASSUME IInv, drive.pc # "none", NEW outcome, EndDrive(outcome), Kept(tasks, tasks'),
           UNCHANGED <<steps, skills, history>>
    PROVE  IInv'
<1>1. AgentTypes'
  BY EndDriveKeeps DEF IInv
<1>2. mandate' # "none"
  BY DriveIsAsked DEF history
<1> QED
  BY <1>1, <1>2, AgentStep DEF skills, IInv, Runs, RunTypes

LEMMA ModelTurns == ASSUME AgentTypes PROVE drive.turns + 1 \in 0 .. MaxTurns /\ 0 \in 0 .. MaxTurns
<1>1. drive.turns \in 0 .. (MaxTurns - 1)
  BY DEF AgentTypes
<1> QED
  BY <1>1, AgentAssumption

LEMMA TalkKeeps ==
    ASSUME IInv,
           \/ DriveBegin \/ DecideFailure \/ DecideContinue \/ RespondNone \/ RespondWait
           \/ RespondCancelReturns \/ AbortDelivered
    PROVE  IInv'
<1> USE ModelTurns DEF IInv
<1>1. CASE DriveBegin \/ DecideContinue
  BY <1>1, RoundKeeps DEF DriveBegin, DecideContinue
<1>2. CASE DecideFailure \/ AbortDelivered
  BY <1>2, EndKeeps, UpdatesKeep DEF DecideFailure, AbortDelivered, store, None
<1>3. CASE RespondNone
  BY <1>3, RoundKeeps, EndKeeps, UpdatesKeep DEF RespondNone, None
<1>4. CASE RespondWait
  BY <1>4, EndKeeps, CreatedKeeps, UpdatesKeep DEF RespondWait, None
<1>5. CASE RespondCancelReturns
  <2>1. drive.task \in Task \cup {None}
    BY DEF AgentTypes
  <2> QED
    BY <1>5, <2>1, EndKeeps, ControlResultKeeps DEF RespondCancelReturns
<1> QED
  BY <1>1, <1>2, <1>3, <1>4, <1>5

\* respond "complete": no run of the task is open, so none of its runs is live.
LEMMA RespondCompleteKeeps == ASSUME IInv, RespondComplete PROVE IInv'
<1>1. CASE ~MayComplete(ActiveTask)
  BY <1>1, EndKeeps, UpdatesKeep DEF RespondComplete, None, IInv
<1>2. CASE MayComplete(ActiveTask)
  <2> DEFINE t == ActiveTask
  <2>1. /\ t \in Task /\ ActiveRuns(t) = {} /\ \E r \in StepsOf(t) : steps[r].status = "completed"
        /\ EndDrive("done") /\ UNCHANGED <<steps, skills, history>>
        /\ tasks' = Finish(tasks, t, CloseStatus(t))
    BY <1>2, ActiveIsTask DEF RespondComplete, MayComplete
  <2>2. PICK status \in TaskStates \ {"new"} : tasks' = Finish(tasks, t, status)
    BY <2>1 DEF CloseStatus, TaskStates, Closed
  <2>3. /\ Rows(tasks')
        /\ \A x \in Task : tasks'.status[x] = "completed" => tasks.status[x] = "completed" \/ x = t
    BY <2>1, <2>2, FinishKeeps DEF IInv
  <2>4. AgentTypes' /\ mandate' # "none"
    <3>1. AgentTypes'
      BY <2>1, EndDriveKeeps DEF IInv
    <3>2. mandate # "none"
      BY DriveIsAsked DEF RespondComplete
    <3> QED
      BY <2>1, <3>1, <3>2 DEF history
  <2>5. Runs'
    BY <2>1, RunsStay DEF skills, IInv, Runs, RunTypes
  <2>6. StepsOf(t) \cap live = {}
    BY <2>1 DEF StepsOf, ActiveRuns, IInv, Runs, RunTypes, StepRow, Stepped, None, Task, StepEnds
  <2>7. CompletedMeansDone'
    BY <2>1, <2>3, <2>6 DEF IInv, CompletedMeansDone, StepsOf, skills
  <2> QED
    BY <2>3, <2>4, <2>5, <2>7 DEF IInv
<1> QED
  BY <1>1, <1>2

\* Control commands and turns.
LEMMA ControlKeeps ==
    ASSUME IInv,
           \/ RespondCancel \/ EmergencyStop \/ EmergencyStopFails \/ ControlReturns \/ ControlResume
           \/ \E action \in {"pause", "cancel"} : ControlTask(action)
    PROVE  IInv'
<1>1. CASE RespondCancel
  <2>1. CASE ActiveTask # None /\ ActiveRuns(ActiveTask) # {}
    <3>1. /\ drive' = [drive EXCEPT !.pc = "cancel", !.task = ActiveTask] /\ drive.pc = "model"
          /\ flagged' \in SUBSET live /\ tasks' = tasks
          /\ UNCHANGED <<consumer, turn, control, steps, submitted, latest, live, queue, history>>
      BY <1>1, <2>1 DEF RespondCancel, IInv, Runs, RunTypes
    <3>2. AgentTypes'
      BY <3>1, ActiveIsTask DEF IInv, AgentTypes, history
    <3>3. mandate' # "none" /\ Kept(tasks, tasks')
      BY <3>1, DriveIsAsked, UpdatesKeep DEF history, IInv, None
    <3> QED
      BY <3>1, <3>2, <3>3, AgentStep
  <2>2. CASE ~(ActiveTask # None /\ ActiveRuns(ActiveTask) # {})
    <3>1. /\ drive.pc # "none" /\ EndDrive("done") /\ tasks' = ControlResult("cancel", ActiveTask)
          /\ UNCHANGED <<steps, skills, history>>
      BY <1>1, <2>2 DEF RespondCancel, skills
    <3>2. Kept(tasks, tasks')
      BY <3>1, ActiveIsTask, ControlResultKeeps DEF IInv
    <3> QED
      BY <3>1, <3>2, EndKeeps
  <2> QED
    BY <2>1, <2>2
<1>2. CASE EmergencyStop
  <2>1. /\ flagged' \in SUBSET live /\ tasks' = tasks
        /\ control' = [pc |-> "awaiting", action |-> "emergency_stop", task |-> CurrentTask]
        /\ UNCHANGED <<steps, submitted, latest, live, queue, consumer, drive, turn, history>>
    BY <1>2 DEF EmergencyStop, store, IInv, Runs, RunTypes
  <2>2. AgentTypes'
    BY <2>1, ActiveIsTask DEF IInv, AgentTypes, history
  <2>3. Kept(tasks, tasks') /\ (mandate' = "none" => mandate = "none" /\ drive'.pc = "none" /\ turn' = "idle")
    BY <2>1, UpdatesKeep DEF history, IInv, Quiet, None
  <2> QED
    BY <2>1, <2>2, <2>3, AgentStep
<1>3. CASE \E action \in {"pause", "cancel"} : ControlTask(action)
  <2>1. PICK action \in {"pause", "cancel"} : ControlTask(action)
    BY <1>3
  <2>2. /\ flagged' \in SUBSET live
        /\ tasks' \in {tasks, ControlResult(action, CurrentTask)}
        /\ control' \in {control, [pc |-> "awaiting", action |-> action, task |-> CurrentTask]}
        /\ UNCHANGED <<steps, submitted, latest, live, queue, consumer, drive, turn, history>>
    BY <2>1 DEF ControlTask, IInv, Runs, RunTypes
  <2>3. AgentTypes'
    BY <2>2, ActiveIsTask DEF IInv, AgentTypes, history
  <2>4. Kept(tasks, tasks')
    BY <2>2, ActiveIsTask, UpdatesKeep, ControlResultKeeps DEF IInv
  <2>5. mandate' = "none" => mandate = "none" /\ drive'.pc = "none" /\ turn' = "idle"
    BY <2>2 DEF history, IInv, Quiet
  <2> QED
    BY <2>2, <2>3, <2>4, <2>5, AgentStep
<1>4. CASE ControlReturns \/ EmergencyStopFails
  <2>1. /\ tasks' \in {tasks, ControlResult(control.action, control.task)} /\ control' = NoControl
        /\ mandate' \in {mandate, "stopped"} /\ crashes' = crashes
        /\ UNCHANGED <<steps, skills, consumer, drive, turn>>
    BY <1>4 DEF ControlReturns, EmergencyStopFails, store, history
  <2>2. AgentTypes'
    BY <2>1 DEF IInv, AgentTypes, NoControl, None
  <2>3. control.task \in Task \cup {None}
    BY DEF IInv, AgentTypes
  <2>4. Kept(tasks, tasks')
    BY <2>1, <2>3, UpdatesKeep, ControlResultKeeps DEF IInv
  <2>5. mandate' = "none" => mandate = "none" /\ drive'.pc = "none" /\ turn' = "idle"
    BY <2>1 DEF IInv, Quiet
  <2> QED
    BY <2>1, <2>2, <2>4, <2>5, AgentStep DEF skills, IInv, Runs, RunTypes
<1>5. CASE ControlResume
  <2>1. /\ tasks' = Resume(tasks, CurrentTask) /\ mandate' = "given" /\ crashes' = crashes
        /\ drive' \in {drive, [NoDrive EXCEPT !.pc = "created"]}
        /\ control' \in {control, [NoControl EXCEPT !.pc = "driving"]}
        /\ UNCHANGED <<steps, skills, consumer, turn>>
    BY <1>5 DEF ControlResume, LaunchDrive
  <2>2. AgentTypes'
    BY <2>1, AgentAssumption DEF IInv, AgentTypes, NoControl, NoDrive, None
  <2>3. Kept(tasks, tasks')
    BY <2>1, ActiveIsTask, UpdatesKeep DEF IInv
  <2> QED
    BY <2>1, <2>2, <2>3, AgentStep DEF skills, IInv, Runs, RunTypes
<1> QED
  BY <1>1, <1>2, <1>3, <1>4, <1>5

LEMMA TurnKeeps ==
    ASSUME IInv, LaunchTurn \/ Subscribe \/ (\E kind \in {"prompt", "steer"} : Turn(kind))
    PROVE  IInv'
<1>1. CASE LaunchTurn \/ \E kind \in {"prompt", "steer"} : Turn(kind)
  <2>1. /\ tasks' = tasks /\ crashes' = crashes /\ UNCHANGED <<steps, skills, consumer, control>>
        /\ drive' \in {drive, [NoDrive EXCEPT !.pc = "created"], [drive EXCEPT !.pc = "aborting"]}
        /\ turn' \in {turn, "driving", "previous", "aborting"} /\ mandate' \in {mandate, "given"}
    BY <1>1 DEF LaunchTurn, Turn, LaunchDrive, store, history
  <2>2. AgentTypes'
    BY <2>1, AgentAssumption DEF IInv, AgentTypes, NoDrive, None
  <2>3. mandate' # "none"
    <3>1. CASE LaunchTurn
      BY <3>1, DriveIsAsked DEF LaunchTurn, history
    <3>2. CASE \E kind \in {"prompt", "steer"} : Turn(kind)
      BY <3>2 DEF Turn
    <3> QED
      BY <1>1, <3>1, <3>2
  <2>4. Kept(tasks, tasks')
    BY <2>1, UpdatesKeep DEF IInv, None
  <2> QED
    BY <2>1, <2>2, <2>3, <2>4, AgentStep DEF skills, IInv, Runs, RunTypes
<1>2. CASE Subscribe
  <2>1. /\ tasks' = tasks /\ consumer' = "idle" /\ UNCHANGED <<steps, skills, drive, turn, control, history>>
    BY <1>2 DEF Subscribe, store
  <2>2. AgentTypes'
    BY <2>1 DEF IInv, AgentTypes, history
  <2>3. Kept(tasks, tasks')
    BY <2>1, UpdatesKeep DEF IInv, None
  <2>4. mandate' = "none" => mandate = "none" /\ drive'.pc = "none" /\ turn' = "idle"
    BY <2>1 DEF history, IInv, Quiet
  <2> QED
    BY <2>1, <2>2, <2>3, <2>4, AgentStep DEF skills, IInv, Runs, RunTypes
<1> QED
  BY <1>1, <1>2

LEMMA EnvironmentKeeps == ASSUME IInv, NEW t \in Task, EnvironmentCompletes(t) PROVE IInv'
<1>1. Kept(tasks, tasks')
  BY UpdatesKeep DEF EnvironmentCompletes, IInv
<1>2. AgentTypes' /\ (mandate' = "none" => mandate = "none" /\ drive'.pc = "none" /\ turn' = "idle")
  BY DEF EnvironmentCompletes, IInv, AgentTypes, Quiet, history
<1> QED
  BY <1>1, <1>2, AgentStep DEF EnvironmentCompletes, skills, IInv, Runs, RunTypes

-----------------------------------------------------------------------------
LEMMA QueueEntry ==
    ASSUME Runs, NEW i \in 1 .. Len(queue)
    PROVE  queue[i][1] \in Run /\ queue[i][2] \in EventRow /\ Queues(queue[i][1], queue[i][2])
<1>1. queue[i] \in Queued
  BY ElementOfSeq DEF Runs, RunTypes
<1> QED
  BY <1>1 DEF Runs, Queued

\* The worker reports on a live run.
LEMMA WorkerEventKeeps == ASSUME IInv, NEW r \in Run, WorkerEvent(r) PROVE IInv'
<1>1. PICK phase \in Phases(r) :
        LET e == Event(latest[r].sequence + 1, phase)
            over == IF phase \in Terminals THEN {r} ELSE {}
        IN  /\ latest' = [latest EXCEPT ![r] = e]
            /\ live' = live \ over
            /\ flagged' = flagged \ over
            /\ queue' = IF consumer \in {"idle", "waiting"} THEN Append(queue, <<r, e>>) ELSE queue
  BY DEF WorkerEvent
<1>0. PICK e : e = Event(latest[r].sequence + 1, phase)
  OBVIOUS
<1> DEFINE over == IF phase \in Terminals THEN {r} ELSE {}
<1>2. /\ latest' = [latest EXCEPT ![r] = e] /\ live' = live \ over /\ flagged' = flagged \ over
      /\ queue' \in {queue, Append(queue, <<r, e>>)}
      /\ UNCHANGED <<tasks, steps, submitted, consumer, drive, turn, control, mandate, crashes>>
  BY <1>0, <1>1 DEF WorkerEvent, store, history
<1>3. /\ RunTypes /\ r \in live /\ r \in submitted /\ latest[r] \in EventRow
      /\ latest[r].phase \notin Terminals /\ steps[r].status \notin StepEnds
  BY DEF WorkerEvent, IInv, Runs, RunTypes, Reported, Stepped
<1>4. /\ e.sequence = latest[r].sequence + 1 /\ e.phase = phase /\ e \in EventRow
      /\ e.sequence \in Nat /\ e.sequence >= 1
      /\ phase \in {"running"} \cup Terminals /\ (phase = "running" => e.sequence = 1)
  BY <1>0, <1>3 DEF Phases, Event, EventRow, Terminals
<1>5. latest'[r] = e /\ \A x \in Run \ {r} : latest'[x] = latest[x]
  BY <1>2, <1>3 DEF RunTypes
<1>6. live' \subseteq live /\ (phase \in Terminals => r \notin live')
  BY <1>2
<1>7. RunTypes'
  <2>1. queue' \in Seq(Queued)
    <3>1. <<r, e>> \in Queued
      BY <1>4 DEF Queued
    <3>2. queue \in Seq(Queued) /\ Append(queue, <<r, e>>) \in Seq(Queued)
      BY <1>3, <3>1, AppendProperties DEF RunTypes
    <3> QED
      BY <1>2, <3>2
  <2> QED
    BY <1>2, <1>3, <1>4, <2>1 DEF RunTypes
<1>8. \A x \in Run : Reported(x)' /\ Stepped(x)'
  <2>1. Reported(r)' /\ Stepped(r)'
    BY <1>2, <1>3, <1>4, <1>5, <1>6 DEF IInv, Runs, Reported, Stepped, Terminals
  <2>2. \A x \in Run \ {r} : Reported(x)' /\ Stepped(x)'
    BY <1>2, <1>5, <1>6 DEF IInv, Runs, Reported, Stepped
  <2> QED
    BY <2>1, <2>2
<1>9. \A i \in 1 .. Len(queue) : \A x, f : x = queue[i][1] /\ f = queue[i][2] => Queues(x, f)'
  BY QueueEntry, <1>2, <1>3, <1>4, <1>5 DEF IInv, Queues, EventRow
<1>10. (\A i \in 1 .. Len(queue) : Queues(queue[i][1], queue[i][2]))'
  <2>1. CASE queue' = queue
    BY <1>9, <2>1
  <2>2. CASE queue' = Append(queue, <<r, e>>)
    <3>1. /\ Len(queue') = Len(queue) + 1 /\ Len(queue) \in Nat /\ queue'[Len(queue) + 1] = <<r, e>>
          /\ \A i \in 1 .. Len(queue) : queue'[i] = queue[i]
      BY <1>3, <2>2, AppendProperties, LenProperties DEF RunTypes
    <3>2. Queues(r, e)'
      BY <1>2, <1>3, <1>4, <1>5 DEF Queues, EventRow
    <3>3. ASSUME NEW i \in 1 .. Len(queue) + 1, NEW x, NEW f, x = queue'[i][1], f = queue'[i][2]
          PROVE  Queues(x, f)'
      <4>1. CASE i = Len(queue) + 1
        <5>1. x = r /\ f = e
          BY <3>1, <3>3, <4>1
        <5> QED
          BY <3>2, <5>1 DEF Queues
      <4>2. CASE i # Len(queue) + 1
        <5>1. i \in 1 .. Len(queue)
          BY <3>1, <4>2
        <5> QED
          BY <1>9, <3>1, <3>3, <5>1
      <4> QED
        BY <4>1, <4>2
    <3> QED
      BY <3>1, <3>3
  <2> QED
    BY <1>2, <2>1, <2>2
<1>11. CompletedMeansDone'
  BY <1>2, <1>6 DEF IInv, CompletedMeansDone, StepsOf
<1>12. OneRun'
  BY <1>2 DEF IInv, Runs, OneRun
<1>13. Runs'
  BY <1>7, <1>8, <1>10, <1>12 DEF Runs
<1>14. mandate' # "none" /\ Rows(tasks') /\ AgentTypes'
  BY <1>2, <1>3 DEF IInv, Quiet, AgentTypes
<1> QED
  BY <1>11, <1>13, <1>14 DEF IInv

-----------------------------------------------------------------------------
\* add_pending_step(), and what its process does with the run; or dies.
LEMMA NewStepKeeps ==
    ASSUME IInv, MoreRuns, NEW t \in Task, ActiveRuns(t) = {}, tasks.status[t] # "completed",
           NEW row \in {[task |-> t, status |-> "open", last |-> 0],
                       [task |-> t, status |-> "failed", last |-> 1]},
           steps' = [steps EXCEPT ![FreshRun] = row],
           submitted' \in {submitted, submitted \cup {FreshRun}},
           live' \in SUBSET (live \cup {FreshRun}), live' \subseteq submitted',
           FreshRun \in live' => row.status = "open",
           flagged' \in SUBSET live', queue' \in {queue, <<>>}, UNCHANGED latest,
           Kept(tasks, tasks')
    PROVE  Runs' /\ CompletedMeansDone'
<1>1. PICK r : r = FreshRun
  OBVIOUS
<1>2. /\ RunTypes /\ r \in Run /\ steps[r].task = None /\ steps[r].status = "none" /\ r \notin submitted
      /\ latest[r].sequence = 0
  BY <1>1, FreshRunIsFresh DEF IInv, Runs, Stepped, Reported
<1>3. /\ row \in StepRow /\ row.task = t /\ t # None /\ row.status \in {"open", "failed"}
      /\ row.status = "failed" => row.last = 1
  BY DEF StepRow, StepEnds, None, Task
<1>4. steps'[r] = row /\ \A x \in Run \ {r} : steps'[x] = steps[x]
  BY <1>1, <1>2 DEF RunTypes
<1>5. /\ r \in submitted' => steps'[r].task # None
      /\ \A x \in Run \ {r} : (x \in submitted' <=> x \in submitted) /\ (x \in live' => x \in live)
  BY <1>1, <1>3, <1>4
<1>6. RunTypes'
  <2>1. steps' \in [Run -> StepRow]
    BY <1>1, <1>2, <1>3 DEF RunTypes
  <2>2. queue' \in Seq(Queued)
    <3>1. <<>> \in Seq(Queued) /\ queue \in Seq(Queued)
      BY <1>2 DEF RunTypes
    <3> QED
      BY <3>1
  <2> QED
    BY <1>1, <1>2, <2>1, <2>2 DEF RunTypes
<1>7. \A s \in Run \ {r} : ~(steps[s].status = "open" /\ steps[s].task = t)
  BY DEF ActiveRuns, StepsOf
<1>8. OneRun'
  BY <1>3, <1>4, <1>7 DEF IInv, Runs, OneRun
<1>9. \A x \in Run : Reported(x)' /\ Stepped(x)'
  <2>1. Reported(r)' /\ Stepped(r)'
    BY <1>1, <1>2, <1>3, <1>4, <1>5 DEF IInv, Runs, Reported, Stepped, Terminals, StepEnds
  <2>2. \A x \in Run \ {r} : Reported(x)' /\ Stepped(x)'
    BY <1>4, <1>5 DEF IInv, Runs, Reported, Stepped
  <2> QED
    BY <2>1, <2>2
<1>10. (\A i \in 1 .. Len(queue) : Queues(queue[i][1], queue[i][2]))'
  <2>1. CASE queue' = queue
    BY <2>1 DEF IInv, Runs, Queues
  <2>2. CASE queue' = <<>>
    BY <2>2
  <2> QED
    BY <2>1, <2>2
<1>11. CompletedMeansDone'
  <2> SUFFICES ASSUME NEW x \in Task, tasks'.status[x] = "completed"
               PROVE  /\ \E s \in StepsOf(x)' : steps'[s].status = "completed"
                      /\ StepsOf(x)' \cap live' = {}
    BY DEF CompletedMeansDone
  <2>1. x # t /\ tasks.status[x] = "completed" /\ x # None
    BY DEF Kept, None, Task
  <2>2. StepsOf(x)' = StepsOf(x) /\ r \notin StepsOf(x) /\ StepsOf(x) \subseteq Run
    BY <1>2, <1>3, <1>4, <2>1 DEF StepsOf
  <2> QED
    BY <1>4, <1>5, <2>1, <2>2 DEF IInv, CompletedMeansDone
<1> QED
  BY <1>6, <1>8, <1>9, <1>10, <1>11 DEF Runs

LEMMA ActKeeps ==
    ASSUME IInv, drive.pc = "model", NEW t \in Task, tasks.status[t] # "completed",
           NEW ts, Kept(tasks, ts), Act(t, ts), UNCHANGED <<latest, flagged, queue, history>>
    PROVE  IInv'
<1>0. mandate' # "none"
  BY DriveIsAsked DEF history
<1>1. Rows(ts) /\ AgentTypes /\ RunTypes
  BY DEF Kept, IInv, Runs
<1>2. CASE tasks' = ts /\ EndDrive("raised") /\ UNCHANGED <<steps, submitted, live>>
  BY <1>2, EndKeeps DEF skills
<1>3. CASE /\ ActiveRuns(t) = {} /\ MoreRuns
           /\ steps' = Step(t, "open", 0)
           /\ tasks' = Unwoken(ts, t)
           /\ submitted' = submitted \cup {FreshRun}
           /\ live' = live \cup {FreshRun}
           /\ EndDrive("done")
  <2>1. Kept(tasks, tasks') /\ AgentTypes'
    BY <1>1, <1>3, UpdatesKeep, KeptTwice, EndDriveKeeps
  <2>2. Runs' /\ CompletedMeansDone'
    <3> DEFINE row == [task |-> t, status |-> "open", last |-> 0]
    <3>1. row.status = "open" /\ steps' = [steps EXCEPT ![FreshRun] = row]
      BY <1>3 DEF Step
    <3>2. live' \subseteq submitted' /\ flagged' \in SUBSET live'
      BY <1>1, <1>3 DEF RunTypes
    <3> HIDE DEF row
    <3> QED
      BY <1>3, <2>1, <3>1, <3>2, NewStepKeeps DEF row
  <2> QED
    BY <1>0, <2>1, <2>2 DEF IInv, Kept
<1>4. CASE /\ ActiveRuns(t) = {} /\ MoreRuns
           /\ steps' = Step(t, "failed", 1)
           /\ LoopHead(drive.turns + 1, Woken(ts, t))
           /\ UNCHANGED <<submitted, live>>
  <2>1. Kept(tasks, Woken(ts, t))
    BY <1>1, UpdatesKeep, KeptTwice
  <2>2. Kept(tasks, tasks') /\ AgentTypes'
    <3>1. Rows(Woken(ts, t)) /\ drive.turns + 1 \in 0 .. MaxTurns
      BY <1>1, <2>1, ModelTurns DEF Kept
    <3>2. Kept(Woken(ts, t), tasks') /\ AgentTypes'
      BY <1>1, <1>4, <3>1, LoopHeadKeeps
    <3> QED
      BY <2>1, <3>2, KeptTwice
  <2>3. Runs' /\ CompletedMeansDone'
    <3> DEFINE row == [task |-> t, status |-> "failed", last |-> 1]
    <3>1. steps' = [steps EXCEPT ![FreshRun] = row] /\ FreshRun \notin live'
      BY <1>1, <1>4, FreshRunIsFresh DEF Step, RunTypes, IInv, Runs, Stepped
    <3>2. live' \subseteq submitted' /\ flagged' \in SUBSET live'
      BY <1>1, <1>4 DEF RunTypes
    <3> HIDE DEF row
    <3> QED
      BY <1>4, <2>2, <3>1, <3>2, NewStepKeeps DEF row
  <2> QED
    BY <1>0, <2>2, <2>3 DEF IInv, Kept
<1> QED
  BY <1>2, <1>3, <1>4 DEF Act

LEMMA ActsKeep == ASSUME IInv, ActForActive \/ ActForNew PROVE IInv'
<1>1. CASE ActForActive
  <2>1. ActiveTask \in Task /\ tasks.status[ActiveTask] = "active" /\ Kept(tasks, tasks)
        /\ drive.pc = "model"
    BY <1>1, ActiveIsTask, UpdatesKeep DEF ActForActive, IInv, None
  <2>2. CASE /\ tasks' = Finish(tasks, ActiveTask, "closed") /\ EndDrive("done")
             /\ UNCHANGED <<steps, submitted, live>>
    BY <1>1, <2>1, <2>2, EndKeeps, UpdatesKeep DEF ActForActive, skills, IInv
  <2>3. CASE Act(ActiveTask, tasks)
    <3>1. PICK t \in Task : t = ActiveTask
      BY <2>1
    <3> QED
      BY <1>1, <2>1, <2>3, <3>1, ActKeeps DEF ActForActive
  <2> QED
    BY <1>1, <2>2, <2>3 DEF ActForActive
<1>2. CASE ActForNew
  <2>1. CASE EndDrive("raised") /\ UNCHANGED <<tasks, steps, submitted, live>>
    BY <1>2, <2>1, EndKeeps, UpdatesKeep DEF ActForNew, skills, IInv, None
  <2>2. CASE CanCreate /\ MoreTasks /\ Act(NewTask, Created(tasks))
    <3>1. Kept(tasks, Created(tasks)) /\ NewTask \in Task /\ tasks.status[NewTask] = "new"
      BY <2>2, CreatedKeeps DEF IInv
    <3> QED
      BY <1>2, <2>2, <3>1, ActKeeps DEF ActForNew
  <2> QED
    BY <1>2, <2>1, <2>2 DEF ActForNew
<1> QED
  BY <1>1, <1>2

-----------------------------------------------------------------------------
\* An event in the queue that is newer than its step finds the step open.
LEMMA AppliesToOpen ==
    ASSUME Runs, NEW r \in submitted, NEW e, e.sequence <= latest[r].sequence, e.sequence \in Nat,
           Applies(r, e)
    PROVE  r \in Run /\ steps[r].status = "open" /\ steps[r].task \in Task
<1>1. r \in Run /\ steps[r] \in StepRow /\ latest[r] \in EventRow
  BY DEF Runs, RunTypes
<1>2. Stepped(r) /\ steps[r].task # None /\ steps[r].last < e.sequence
  BY <1>1 DEF Runs, Applies
<1> QED
  BY <1>1, <1>2 DEF Stepped, StepRow, EventRow, StepEnds

\* resolve_pending_step(), from an event of the queue or from status().
LEMMA ApplyKeeps ==
    ASSUME IInv, NEW r \in submitted, NEW e \in EventRow, steps[r].status = "open",
           e.sequence >= 1, e.phase \in {"running"} \cup Terminals,
           e.phase = "running" => e.sequence = 1,
           latest' \in {latest, [latest EXCEPT ![r] = e]},
           e.phase \in Terminals => latest'[r] = e /\ r \notin live,
           latest[r].sequence <= latest'[r].sequence,
           latest[r].phase \in Terminals => latest'[r] = latest[r],
           \/ steps' = steps
           \/ Applies(r, e) /\ steps' = AppliedSteps(r, e),
           queue' \in Seq(Queued),
           \A i \in 1 .. Len(queue') : \E j \in 1 .. Len(queue) : queue'[i] = queue[j],
           UNCHANGED <<submitted, live, flagged>>, Kept(tasks, tasks')
    PROVE  Runs' /\ CompletedMeansDone'
<1>1. /\ RunTypes /\ r \in Run /\ steps[r] \in StepRow /\ latest[r] \in EventRow
      /\ latest'[r] \in {latest[r], e} /\ \A x \in Run \ {r} : latest'[x] = latest[x]
  BY DEF IInv, Runs, RunTypes
<1>2. steps[r].task # None /\ Stepped(r) /\ Reported(r)
  BY <1>1 DEF IInv, Runs, Stepped
<1>3. /\ steps' \in [Run -> StepRow] /\ steps'[r].task = steps[r].task
      /\ steps'[r].status \in {"open"} \cup StepEnds
      /\ steps'[r].status \in StepEnds =>
            r \notin live /\ steps'[r].last >= 1 /\ latest'[r].sequence <= steps'[r].last
      /\ \A x \in Run \ {r} : steps'[x] = steps[x]
  <2>1. CASE steps' = steps
    BY <1>1, <2>1 DEF RunTypes, StepEnds
  <2>2. CASE steps' = AppliedSteps(r, e)
    <3>1. StepStatus(e.phase) = (IF e.phase = "running" THEN "open"
                                 ELSE IF e.phase = "failed" THEN "failed" ELSE "completed")
      BY DEF StepStatus
    <3>2. /\ e.sequence \in Nat /\ StepStatus(e.phase) \in {"open"} \cup StepEnds
          /\ StepStatus(e.phase) \in StepEnds => e.phase \in Terminals
      BY <3>1 DEF EventRow, StepEnds, Terminals
    <3>3. /\ \A x \in Run \ {r} : steps'[x] = steps[x]
          /\ steps'[r] = [steps[r] EXCEPT !.status = StepStatus(e.phase), !.last = e.sequence]
          /\ DOMAIN steps' = Run /\ steps' = [x \in Run |-> steps'[x]]
      BY <1>1, <2>2 DEF AppliedSteps, RunTypes
    <3>4. /\ steps'[r].task = steps[r].task /\ steps'[r].status = StepStatus(e.phase)
          /\ steps'[r].last = e.sequence /\ steps'[r] \in StepRow
      BY <1>1, <3>2, <3>3 DEF StepRow
    <3>5. steps' \in [Run -> StepRow]
      BY <1>1, <3>3, <3>4 DEF RunTypes
    <3> QED
      BY <1>1, <3>2, <3>3, <3>4, <3>5
  <2> QED
    BY <2>1, <2>2
<1>4. RunTypes'
  BY <1>1, <1>3 DEF RunTypes
<1>5. OneRun'
  BY <1>3 DEF IInv, Runs, OneRun
<1>6. \A x \in Run : Reported(x)' /\ Stepped(x)'
  <2>1. Reported(r)'
    BY <1>1, <1>2 DEF Reported, EventRow, Terminals
  <2>2. Stepped(r)'
    BY <1>1, <1>2, <1>3 DEF Stepped, StepEnds
  <2>3. \A x \in Run \ {r} : Reported(x)' /\ Stepped(x)'
    BY <1>1, <1>3 DEF IInv, Runs, Reported, Stepped
  <2> QED
    BY <2>1, <2>2, <2>3
<1>7. \A j \in 1 .. Len(queue) : \A x, f : x = queue[j][1] /\ f = queue[j][2] => Queues(x, f)'
  <2> SUFFICES ASSUME NEW j \in 1 .. Len(queue), NEW x, NEW f, x = queue[j][1], f = queue[j][2]
               PROVE  Queues(x, f)'
    OBVIOUS
  <2>1. x \in Run /\ f \in EventRow /\ Queues(x, f)
    BY QueueEntry DEF IInv
  <2>2. CASE x # r
    BY <1>1, <2>1, <2>2 DEF Queues
  <2>3. CASE x = r
    <3>1. f.sequence \in 1 .. latest'[r].sequence
      BY <1>1, <2>1, <2>3 DEF Queues, EventRow
    <3>2. f.phase # "running" => f.phase \in Terminals /\ f = latest'[r]
      BY <2>1, <2>3 DEF Queues
    <3> QED
      BY <2>1, <2>3, <3>1, <3>2 DEF Queues
  <2> QED
    BY <2>2, <2>3
<1>8. (\A i \in 1 .. Len(queue) : Queues(queue[i][1], queue[i][2]))'
  <2> SUFFICES ASSUME NEW i \in 1 .. Len(queue'), NEW x, NEW f, x = queue'[i][1], f = queue'[i][2]
               PROVE  Queues(x, f)'
    OBVIOUS
  <2>1. PICK j \in 1 .. Len(queue) : queue'[i] = queue[j]
    OBVIOUS
  <2> QED
    BY <1>7, <2>1
<1>9. CompletedMeansDone'
  <2>1. \A t \in Task : StepsOf(t)' = StepsOf(t)
    BY <1>3 DEF StepsOf
  <2>2. \A s \in Run : steps[s].status = "completed" => steps'[s].status = "completed"
    BY <1>3
  <2>3. \A t \in Task : tasks'.status[t] = "completed" => tasks.status[t] = "completed"
    BY DEF Kept
  <2> SUFFICES ASSUME NEW t \in Task, tasks'.status[t] = "completed"
               PROVE  /\ \E s \in StepsOf(t)' : steps'[s].status = "completed"
                      /\ StepsOf(t)' \cap live' = {}
    BY DEF CompletedMeansDone
  <2>4. /\ \E s \in StepsOf(t) : steps[s].status = "completed" /\ s \in Run
        /\ StepsOf(t) \cap live = {}
    BY <2>3 DEF IInv, CompletedMeansDone, StepsOf
  <2> QED
    BY <2>1, <2>2, <2>4
<1> QED
  BY <1>4, <1>5, <1>6, <1>8, <1>9 DEF Runs

LEMMA AppliedTasksKeep ==
    ASSUME Rows(tasks), NEW r, NEW e, steps[r].task \in Task \cup {None}
    PROVE  Kept(tasks, AppliedTasks(r, e))
BY UpdatesKeep DEF AppliedTasks

LEMMA HandleEventKeeps == ASSUME IInv, HandleEvent PROVE IInv'
<1>1. PICK r, e : r = Head(queue)[1] /\ e = Head(queue)[2]
  OBVIOUS
<1>2. /\ Len(queue) \in Nat \ {0} /\ Head(queue) = queue[1] /\ Tail(queue) \in Seq(Queued)
      /\ Len(Tail(queue)) = Len(queue) - 1
      /\ \A i \in 1 .. Len(Tail(queue)) : Tail(queue)[i] = queue[i + 1]
      /\ queue # <<>> /\ queue' = Tail(queue)
  BY HeadTailProperties, LenProperties, EmptySeq DEF HandleEvent, IInv, Runs, RunTypes
<1>3. \A i \in 1 .. Len(queue') : i + 1 \in 1 .. Len(queue) /\ queue'[i] = queue[i + 1]
  BY <1>2
<1>4. r \in Run /\ e \in EventRow /\ Queues(r, e)
  BY <1>1, <1>2, QueueEntry DEF IInv
<1>5. /\ UNCHANGED <<submitted, latest, live, flagged, turn, control, mandate, crashes>>
      /\ consumer' \in {consumer, "waiting"} /\ drive' \in {drive, [NoDrive EXCEPT !.pc = "created"]}
      /\ \/ UNCHANGED <<tasks, steps>>
         \/ Applies(r, e) /\ steps' = AppliedSteps(r, e) /\ tasks' = AppliedTasks(r, e)
  BY <1>1 DEF HandleEvent, LaunchDrive, store, history
<1>6. AgentTypes' /\ mandate' # "none"
  BY <1>2, <1>5, AgentAssumption DEF IInv, AgentTypes, Quiet, NoDrive, None
<1>7. CASE UNCHANGED <<tasks, steps>>
  <2>1. RunTypes' /\ OneRun' /\ (\A x \in Run : Reported(x)' /\ Stepped(x)') /\ CompletedMeansDone'
    BY <1>2, <1>5, <1>7 DEF IInv, Runs, RunTypes, OneRun, Reported, Stepped, CompletedMeansDone, StepsOf
  <2>2. (\A i \in 1 .. Len(queue) : Queues(queue[i][1], queue[i][2]))'
    <3> SUFFICES ASSUME NEW i \in 1 .. Len(queue'), NEW x, NEW f, x = queue'[i][1], f = queue'[i][2]
                 PROVE  Queues(x, f)'
      OBVIOUS
    <3>1. Queues(x, f)
      BY <1>3, QueueEntry DEF IInv
    <3> QED
      BY <1>5, <3>1 DEF Queues
  <2>3. Rows(tasks')
    BY <1>7 DEF IInv
  <2> QED
    BY <1>6, <2>1, <2>2, <2>3 DEF IInv, Runs
<1>8. CASE Applies(r, e) /\ steps' = AppliedSteps(r, e) /\ tasks' = AppliedTasks(r, e)
  <2>1. r \in submitted /\ e.sequence <= latest[r].sequence /\ e.sequence \in Nat /\ e.sequence >= 1
    BY <1>4 DEF Queues, EventRow, IInv, Runs, RunTypes
  <2>2. steps[r].status = "open" /\ steps[r].task \in Task
    BY <1>8, <2>1, AppliesToOpen DEF IInv
  <2>3. Kept(tasks, tasks')
    BY <1>8, <2>2, AppliedTasksKeep DEF IInv
  <2>4. /\ e.phase \in {"running"} \cup Terminals /\ (e.phase = "running" => e.sequence = 1)
        /\ e.phase \in Terminals => latest[r] = e /\ r \notin live
    BY <1>4, <2>1 DEF Queues, IInv, Runs, Reported, Terminals
  <2>5. latest[r].sequence <= latest[r].sequence
    BY <1>4 DEF IInv, Runs, RunTypes, EventRow
  <2>6. Runs' /\ CompletedMeansDone'
    BY <1>2, <1>3, <1>4, <1>5, <1>8, <2>1, <2>2, <2>3, <2>4, <2>5, ApplyKeeps
  <2> QED
    BY <1>6, <2>3, <2>6 DEF IInv, Kept
<1> QED
  BY <1>5, <1>7, <1>8

\* _recover_tasks(): status() is the last event, or declares the run lost.
LEMMA KnownIs ==
    ASSUME Runs, NEW r \in submitted, Known(r).sequence > 0
    PROVE  /\ Known(r) \in EventRow /\ Known(r).sequence >= 1
           /\ Known(r).phase \in {"running"} \cup Terminals
           /\ Known(r).phase = "running" => Known(r).sequence = 1
           /\ Known(r).phase \in Terminals => r \notin live
           /\ latest[r].sequence <= Known(r).sequence
           /\ latest[r].phase \in Terminals => Known(r) = latest[r]
<1>1. r \in Run /\ latest[r] \in EventRow /\ Reported(r) /\ latest[r].sequence \in Nat
      /\ latest[r].phase \in {"none", "running"} \cup Terminals
  BY DEF Runs, RunTypes, EventRow
<1>2. CASE Known(r) = latest[r]
  BY <1>1, <1>2 DEF Reported
<1>3. CASE Known(r) = Event(latest[r].sequence + 1, "failed") /\ r \notin live
           /\ latest[r].phase \notin Terminals
  <2>1. /\ Known(r).sequence = latest[r].sequence + 1 /\ Known(r).phase = "failed"
        /\ Known(r) \in EventRow
    BY <1>1, <1>3 DEF Event, EventRow, Terminals
  <2> QED
    BY <1>1, <1>3, <2>1 DEF Terminals
<1> QED
  BY <1>2, <1>3 DEF Known

LEMMA PausedKeeps == ASSUME NEW ts, Rows(ts) PROVE Kept(ts, Paused(ts))
<1>1. TaskIn(ts, {"active"}) \in Task \cup {None}
  BY TaskInFinds
<1> QED
  BY <1>1, UpdatesKeep DEF Paused

LEMMA RecoverKeeps == ASSUME IInv, Recover PROVE IInv'
<1>1. AgentTypes' /\ UNCHANGED <<submitted, live, flagged, queue, drive, turn, mandate>>
  BY DEF Recover, IInv, AgentTypes, history
<1>2. mandate' = "none" => Quiet'
  BY <1>1 DEF IInv, Quiet
<1>3. CASE tasks' = Paused(tasks) /\ UNCHANGED <<steps, latest>>
  <2>1. Kept(tasks, tasks')
    BY <1>3, PausedKeeps DEF IInv
  <2>2. Runs' /\ CompletedMeansDone'
    BY <1>1, <1>3, <2>1, RunsStay, DoneStays DEF IInv, Runs, RunTypes
  <2> QED
    BY <1>1, <1>2, <2>1, <2>2 DEF IInv, Kept
<1>4. CASE \E r \in submitted :
              /\ ActiveTask # None /\ r \in ActiveRuns(ActiveTask) /\ Known(r).sequence > 0
              /\ latest' = [latest EXCEPT ![r] = Known(r)]
              /\ IF Applies(r, Known(r))
                 THEN /\ steps' = AppliedSteps(r, Known(r))
                      /\ tasks' = Paused(AppliedTasks(r, Known(r)))
                 ELSE UNCHANGED steps /\ tasks' = Paused(tasks)
  <2>1. PICK r \in submitted :
              /\ ActiveTask # None /\ r \in ActiveRuns(ActiveTask) /\ Known(r).sequence > 0
              /\ latest' = [latest EXCEPT ![r] = Known(r)]
              /\ IF Applies(r, Known(r))
                 THEN /\ steps' = AppliedSteps(r, Known(r))
                      /\ tasks' = Paused(AppliedTasks(r, Known(r)))
                 ELSE UNCHANGED steps /\ tasks' = Paused(tasks)
    BY <1>4
  <2>2. PICK e : e = Known(r)
    OBVIOUS
  <2>3. /\ e \in EventRow /\ e.sequence >= 1 /\ e.phase \in {"running"} \cup Terminals
        /\ e.phase = "running" => e.sequence = 1
        /\ e.phase \in Terminals => r \notin live
        /\ latest[r].sequence <= e.sequence
        /\ latest[r].phase \in Terminals => e = latest[r]
    BY <2>1, <2>2, KnownIs DEF IInv
  <2>4. steps[r].status = "open" /\ steps[r].task \in Task /\ r \in Run
    BY <2>1, ActiveIsTask DEF ActiveRuns, StepsOf
  <2>5. latest' = [latest EXCEPT ![r] = e] /\ latest'[r] = e
    BY <2>1, <2>2, <2>4 DEF IInv, Runs, RunTypes
  <2>6. Kept(tasks, tasks')
    <3>1. CASE Applies(r, e)
      <4>1. Kept(tasks, AppliedTasks(r, e)) /\ tasks' = Paused(AppliedTasks(r, e))
        BY <2>1, <2>2, <2>4, <3>1, AppliedTasksKeep DEF IInv
      <4>2. Kept(AppliedTasks(r, e), tasks')
        BY <4>1, PausedKeeps DEF Kept
      <4> QED
        BY <4>1, <4>2, KeptTwice
    <3>2. CASE ~Applies(r, e)
      BY <2>1, <2>2, <3>2, PausedKeeps DEF IInv
    <3> QED
      BY <3>1, <3>2
  <2>7. steps' = steps \/ (Applies(r, e) /\ steps' = AppliedSteps(r, e))
    BY <2>1, <2>2
  <2>8. queue' \in Seq(Queued) /\ \A i \in 1 .. Len(queue') : \E j \in 1 .. Len(queue) : queue'[i] = queue[j]
    BY <1>1 DEF IInv, Runs, RunTypes
  <2>9. Runs' /\ CompletedMeansDone'
    BY <1>1, <2>3, <2>4, <2>5, <2>6, <2>7, <2>8, ApplyKeeps
  <2> QED
    BY <1>1, <1>2, <2>6, <2>9 DEF IInv, Kept
<1> QED
  BY <1>3, <1>4 DEF Recover

-----------------------------------------------------------------------------
LEMMA RestartQuiets ==
    ASSUME AgentTypes, Restart
    PROVE  /\ AgentTypes' /\ Quiet' /\ mandate' = "none" /\ live' = {} /\ flagged' = {} /\ queue' = <<>>
           /\ UNCHANGED <<submitted, latest>>
<1>1. NoDrive \in [pc : {"none", "created", "model", "cancel", "aborting"},
                  turns : 0..(MaxTurns - 1), task : Task \cup {None}]
  BY AgentAssumption DEF NoDrive, None
<1> QED
  BY <1>1 DEF Restart, AgentTypes, Quiet, NoDrive, NoControl, None

LEMMA CrashKeeps == ASSUME IInv, Crash PROVE IInv'
<1>1. /\ AgentTypes' /\ Quiet' /\ live' = {} /\ flagged' = {} /\ queue' = <<>>
      /\ UNCHANGED <<tasks, steps, submitted, latest>>
  BY RestartQuiets DEF IInv, Crash, store
<1>2. RunTypes' /\ OneRun'
  <2>1. <<>> \in Seq(Queued)
    OBVIOUS
  <2> QED
    BY <1>1, <2>1 DEF IInv, Runs, RunTypes, OneRun
<1>3. \A r \in Run : Reported(r)' /\ Stepped(r)'
  BY <1>1 DEF IInv, Runs, Reported, Stepped
<1>4. Runs'
  BY <1>1, <1>2, <1>3 DEF Runs
<1>5. CompletedMeansDone' /\ Rows(tasks')
  BY <1>1 DEF IInv, CompletedMeansDone, StepsOf
<1> QED
  BY <1>1, <1>4, <1>5 DEF IInv

LEMMA CrashInSubmitKeeps == ASSUME IInv, CrashInSubmit PROVE IInv'
<1>1. /\ AgentTypes' /\ Quiet' /\ live' = {} /\ flagged' = {} /\ queue' = <<>>
      /\ UNCHANGED <<submitted, latest>>
  BY RestartQuiets DEF IInv, CrashInSubmit
<1>2. ActiveTask \in Task /\ tasks.status[ActiveTask] = "active"
  BY ActiveIsTask DEF CrashInSubmit
<1>3. Kept(tasks, tasks')
  BY <1>2, UpdatesKeep DEF CrashInSubmit, IInv
<1>4. Runs' /\ CompletedMeansDone'
  <2>1. PICK t \in Task : t = ActiveTask
    BY <1>2
  <2> DEFINE row == [task |-> t, status |-> "open", last |-> 0]
  <2>2. /\ steps' = [steps EXCEPT ![FreshRun] = row] /\ row.status = "open"
        /\ ActiveRuns(t) = {} /\ MoreRuns
    BY <2>1 DEF CrashInSubmit, Step
  <2>3. row \in {[task |-> t, status |-> "open", last |-> 0], [task |-> t, status |-> "failed", last |-> 1]}
    OBVIOUS
  <2> HIDE DEF row
  <2> QED
    BY <1>1, <1>2, <1>3, <2>1, <2>2, <2>3, NewStepKeeps
<1> QED
  BY <1>1, <1>3, <1>4 DEF IInv, Kept

LEMMA NextKeepsIInv == ASSUME IInv, [Next]_vars PROVE IInv'
<1>1. CASE UNCHANGED vars
  <2>1. Kept(tasks, tasks') /\ UNCHANGED <<steps, submitted, latest, live, queue>> /\ flagged' \in SUBSET live
    BY <1>1, UpdatesKeep DEF vars, IInv, Runs, RunTypes, None
  <2>2. AgentTypes' /\ (mandate' = "none" => mandate = "none" /\ drive'.pc = "none" /\ turn' = "idle")
    BY <1>1 DEF vars, IInv, AgentTypes, Quiet
  <2> QED
    BY <2>1, <2>2, AgentStep
<1>2. CASE DriveBegin \/ Decide \/ RespondCancelReturns \/ AbortDelivered
  BY <1>2, TalkKeeps, RespondCompleteKeeps, ControlKeeps, ActsKeep DEF Decide
<1>3. CASE \/ LaunchTurn \/ Subscribe \/ EmergencyStop \/ EmergencyStopFails \/ ControlReturns
           \/ ControlResume \/ (\E kind \in {"prompt", "steer"} : Turn(kind))
           \/ (\E action \in {"pause", "cancel"} : ControlTask(action))
  BY <1>3, TurnKeeps, ControlKeeps
<1>4. CASE HandleEvent \/ Recover \/ Crash \/ CrashInSubmit
  BY <1>4, HandleEventKeeps, RecoverKeeps, CrashKeeps, CrashInSubmitKeeps
<1>5. CASE (\E r \in Run : WorkerEvent(r)) \/ (\E t \in Task : EnvironmentCompletes(t))
  BY <1>5, WorkerEventKeeps, EnvironmentKeeps
<1> QED
  BY <1>1, <1>2, <1>3, <1>4, <1>5 DEF Next

THEOREM Inductive == Spec => []IInv
BY InitIInv, NextKeepsIInv, PTL DEF Spec

(***************************************************************************)
(* The rows of the store, the worker's events and the state of the agent    *)
(* service keep their types (agent_task_store.py, agent.py).                *)
(***************************************************************************)
THEOREM TypeCorrect == Spec => []TypeOK
<1>1. IInv => TypeOK
  BY DEF IInv, Rows, TaskRows, Runs, RunTypes, StepRow, EventRow, AgentTypes, TypeOK
<1> QED
  BY Inductive, <1>1, PTL

(***************************************************************************)
(* However turns, drives, events, controls and deaths of the process        *)
(* interleave, a session has one open task and that task one run            *)
(* (agent_task_store.py create_task, task_coordinator.py submit).           *)
(***************************************************************************)
THEOREM OneTaskAtATime == Spec => []OneOpenTaskOneRun
<1>1. IInv => OneOpenTaskOneRun
  <2> SUFFICES ASSUME IInv PROVE OneOpenTaskOneRun
    OBVIOUS
  <2>1. \A t, x \in Task : {tasks.status[t], tasks.status[x]} \subseteq {"active", "paused"} => t = x
    BY DEF IInv, Rows, IsOpen
  <2>2. \A t \in tasks.wake : tasks.status[t] = "active"
    BY DEF IInv, Rows
  <2>3. ASSUME NEW t \in Task PROVE Cardinality(ActiveRuns(t)) <= 1
    <3>1. \A r, s \in ActiveRuns(t) : r = s
      BY DEF ActiveRuns, StepsOf, IInv, Runs, OneRun
    <3>2. CASE ActiveRuns(t) = {}
      BY <3>2, FS_EmptySet
    <3>3. CASE ActiveRuns(t) # {}
      <4>1. PICK r \in ActiveRuns(t) : TRUE
        BY <3>3
      <4>2. ActiveRuns(t) = {r}
        BY <3>1
      <4>3. Cardinality({r}) = 1
        BY FS_Singleton, Zenon
      <4>4. Cardinality(ActiveRuns(t)) = 1
        BY <4>2, <4>3
      <4> QED
        BY <4>4
    <3> QED
      BY <3>2, <3>3
  <2> QED
    BY <2>1, <2>2, <2>3 DEF OneOpenTaskOneRun
<1> QED
  BY Inductive, <1>1, PTL

(***************************************************************************)
(* What the agent calls completed rests on a step that succeeded, and no    *)
(* run of the task is live (executor.py respond, close_task).               *)
(***************************************************************************)
THEOREM CompletionIsEarned == Spec => []CompletedMeansDone
<1>1. IInv => CompletedMeansDone
  BY DEF IInv
<1> QED
  BY Inductive, <1>1, PTL

\* No event, status or new step reaches a step that has its result.
LEMMA SettledStays ==
    ASSUME IInv, Next, NEW r \in Run, steps[r].status \in StepEnds PROVE steps'[r] = steps[r]
<1>1. RunTypes /\ Stepped(r) /\ steps[r].task # None /\ steps[r].status # "open"
  BY DEF IInv, Runs, Stepped, StepEnds
<1>2. ASSUME NEW t, NEW status, NEW n, MoreRuns, steps' = Step(t, status, n) PROVE steps'[r] = steps[r]
  BY <1>1, <1>2, FreshRunIsFresh DEF Step, RunTypes
<1>3. CASE UNCHANGED steps
  BY <1>3
<1>4. CASE ActForActive \/ ActForNew \/ CrashInSubmit
  BY <1>2, <1>4 DEF ActForActive, ActForNew, CrashInSubmit, Act
<1>5. CASE HandleEvent
  <2>1. PICK x, e : x = Head(queue)[1] /\ e = Head(queue)[2]
    OBVIOUS
  <2>2. 1 \in 1 .. Len(queue) /\ Head(queue) = queue[1]
    BY <1>1, <1>5, HeadTailProperties, LenProperties, EmptySeq DEF HandleEvent, RunTypes
  <2>3. x \in Run /\ e \in EventRow /\ Queues(x, e)
    BY <2>1, <2>2, QueueEntry DEF IInv
  <2>4. CASE Applies(x, e) /\ steps' = AppliedSteps(x, e)
    <3>1. x \in submitted /\ e.sequence <= latest[x].sequence /\ e.sequence \in Nat
      BY <1>1, <2>3 DEF Queues, EventRow, RunTypes
    <3>2. x # r
      BY <1>1, <2>4, <3>1, AppliesToOpen DEF IInv
    <3> QED
      BY <1>1, <2>3, <2>4, <3>2 DEF AppliedSteps, RunTypes
  <2> QED
    BY <1>3, <1>5, <2>1, <2>4 DEF HandleEvent, store
<1>6. CASE Recover
  <2>1. \/ UNCHANGED steps
        \/ \E x \in submitted : /\ ActiveTask # None /\ x \in ActiveRuns(ActiveTask)
                                /\ steps' = AppliedSteps(x, Known(x))
    BY <1>6 DEF Recover
  <2> QED
    BY <1>1, <2>1 DEF AppliedSteps, RunTypes, ActiveRuns, StepsOf
<1> QED
  <2>1. CASE DriveBegin \/ Decide \/ RespondCancelReturns \/ AbortDelivered \/ LaunchTurn
    BY <1>4, <2>1 DEF DriveBegin, Decide, DecideFailure, DecideContinue, RespondNone, RespondWait,
                      RespondComplete, RespondCancel, RespondCancelReturns, AbortDelivered,
                      LaunchTurn, store
  <2>2. CASE \/ Subscribe \/ EmergencyStop \/ EmergencyStopFails \/ ControlReturns \/ ControlResume
             \/ (\E kind \in {"prompt", "steer"} : Turn(kind))
             \/ (\E action \in {"pause", "cancel"} : ControlTask(action))
    BY <2>2 DEF Subscribe, EmergencyStop, EmergencyStopFails, ControlReturns, ControlResume, Turn,
                ControlTask, store
  <2>3. CASE \/ (\E x \in Run : WorkerEvent(x)) \/ (\E t \in Task : EnvironmentCompletes(t)) \/ Crash
    BY <2>3 DEF WorkerEvent, EnvironmentCompletes, Crash, store
  <2> QED
    BY <1>4, <1>5, <1>6, <2>1, <2>2, <2>3 DEF Next

-----------------------------------------------------------------------------
\* Task rows move onward: none becomes new again, and a verdict stays.
Onward(ts, new) ==
    \A t \in Task : /\ ts.status[t] # "new" => new.status[t] # "new"
                    /\ ts.status[t] \in Closed => new.status[t] = ts.status[t]

LEMMA OnwardTwice ==
    ASSUME NEW a, NEW b, NEW c, Onward(a, b), Onward(b, c) PROVE Onward(a, c)
<1> SUFFICES ASSUME NEW t \in Task
             PROVE  /\ a.status[t] # "new" => c.status[t] # "new"
                    /\ a.status[t] \in Closed => c.status[t] = a.status[t]
  BY DEF Onward
<1>1. /\ a.status[t] # "new" => b.status[t] # "new"
      /\ a.status[t] \in Closed => b.status[t] = a.status[t]
      /\ b.status[t] # "new" => c.status[t] # "new"
      /\ b.status[t] \in Closed => c.status[t] = b.status[t]
  BY DEF Onward
<1> QED
  BY <1>1

LEMMA UpdatesGoOnward ==
    ASSUME NEW ts, Rows(ts), NEW t \in Task \cup {None}
    PROVE  /\ Onward(ts, ts) /\ Onward(ts, Pause(ts, t)) /\ Onward(ts, Resume(ts, t))
           /\ Onward(ts, Woken(ts, t)) /\ Onward(ts, Unwoken(ts, t))
           /\ \A status \in Closed : Onward(ts, Finish(ts, t, status))
<1>1. ASSUME NEW from \in {"active", "paused"}, NEW to \in TaskStates \ {"new"}, NEW wake
      PROVE  Onward(ts, SetStatus(ts, t, from, to, wake))
  <2>1. CASE t # None /\ ts.status[t] = from
    <3>1. /\ ts.status \in [Task -> TaskStates] /\ t \in Task /\ from \notin Closed
          /\ SetStatus(ts, t, from, to, wake).status = [ts.status EXCEPT ![t] = to]
      BY <2>1 DEF Rows, TaskRows, SetStatus, Closed
    <3> QED
      BY <2>1, <3>1 DEF Onward
  <2>2. CASE ~(t # None /\ ts.status[t] = from)
    BY <2>2 DEF SetStatus, Onward
  <2> QED
    BY <2>1, <2>2
<1>2. "active" \in TaskStates \ {"new"} /\ "paused" \in TaskStates \ {"new"}
      /\ Closed \subseteq TaskStates \ {"new"}
  BY DEF TaskStates, Closed
<1>3. Onward(ts, ts) /\ Onward(ts, Unwoken(ts, t))
  BY DEF Onward, Unwoken, Rows, TaskRows
<1> QED
  BY <1>1, <1>2, <1>3 DEF Pause, Resume, Woken, Finish

LEMMA CreatedGoesOnward ==
    ASSUME Rows(tasks), CanCreate, MoreTasks
    PROVE  Onward(tasks, Created(tasks)) /\ Created(tasks).status[NewTask] = "active"
<1>1. /\ NewTask \in Task /\ tasks.status[NewTask] = "new" /\ tasks \in TaskRows
      /\ Created(tasks).status = [tasks.status EXCEPT ![NewTask] = "active"]
  BY NewTaskIsNew DEF Rows, Created, TaskRows
<1> QED
  BY <1>1 DEF Onward, TaskRows, Closed

LEMMA LoopHeadGoesOnward ==
    ASSUME NEW ts, Rows(ts), NEW n, LoopHead(n, ts) PROVE Onward(ts, tasks')
<1>1. TaskIn(ts, {"active"}) \in Task \cup {None} /\ "closed" \in Closed
  BY TaskInFinds DEF Closed
<1> QED
  BY <1>1, UpdatesGoOnward DEF LoopHead

LEMMA ControlGoesOnward ==
    ASSUME Rows(tasks), NEW action, NEW t \in Task \cup {None}
    PROVE  Onward(tasks, ControlResult(action, t))
BY UpdatesGoOnward DEF ControlResult, Closed

\* A physical action, on the rows ts of an open task.
LEMMA ActGoesOnward ==
    ASSUME NEW ts, Rows(ts), NEW t \in Task, Act(t, ts) PROVE Onward(ts, tasks')
<1>1. Rows(Woken(ts, t)) /\ Onward(ts, Woken(ts, t)) /\ Onward(ts, Unwoken(ts, t)) /\ Onward(ts, ts)
  BY UpdatesKeep, UpdatesGoOnward DEF Kept
<1>2. CASE tasks' = ts \/ tasks' = Unwoken(ts, t)
  BY <1>1, <1>2
<1>3. CASE LoopHead(drive.turns + 1, Woken(ts, t))
  BY <1>1, <1>3, LoopHeadGoesOnward, OnwardTwice
<1> QED
  BY <1>2, <1>3 DEF Act

LEMMA TasksGoOnward == ASSUME IInv, Next PROVE Onward(tasks, tasks')
<1>0. /\ Rows(tasks) /\ Onward(tasks, tasks) /\ {"completed", "declared", "closed"} \subseteq Closed
      /\ ActiveTask \in Task \cup {None} /\ CurrentTask \in Task \cup {None}
      /\ None \in Task \cup {None}
  BY UpdatesGoOnward, ActiveIsTask DEF IInv, Closed
<1>1. CASE UNCHANGED tasks
  BY <1>0, <1>1
<1>2. CASE DriveBegin \/ DecideContinue \/ RespondNone
  BY <1>0, <1>1, <1>2, LoopHeadGoesOnward DEF DriveBegin, DecideContinue, RespondNone
<1>3. CASE RespondWait \/ RespondComplete
  <2>1. CloseStatus(ActiveTask) \in Closed
    BY DEF CloseStatus, Closed
  <2> QED
    BY <1>0, <1>1, <1>3, <2>1, CreatedGoesOnward, UpdatesGoOnward DEF RespondWait, RespondComplete
<1>4. CASE RespondCancel \/ RespondCancelReturns \/ ControlReturns \/ EmergencyStop
           \/ (\E action \in {"pause", "cancel"} : ControlTask(action))
  <2>1. drive.task \in Task \cup {None} /\ control.task \in Task \cup {None}
    BY DEF IInv, AgentTypes
  <2> QED
    BY <1>0, <1>1, <1>4, <2>1, ControlGoesOnward
       DEF RespondCancel, RespondCancelReturns, ControlReturns, EmergencyStop, ControlTask, store
<1>5. CASE ControlResume
  BY <1>0, <1>5, UpdatesGoOnward DEF ControlResume
<1>6. CASE ActForActive
  <2>1. ActiveTask \in Task
    BY <1>6, ActiveIsTask DEF ActForActive
  <2> QED
    BY <1>0, <1>6, <2>1, UpdatesGoOnward, ActGoesOnward DEF ActForActive
<1>7. CASE ActForNew
  <2>1. CASE ~CanCreate
    BY <1>1, <1>7, <2>1 DEF ActForNew
  <2>2. CASE CanCreate
    <3>1. MoreTasks /\ Act(NewTask, Created(tasks))
      BY <1>7, <2>2 DEF ActForNew
    <3>2. Rows(Created(tasks)) /\ NewTask \in Task /\ Onward(tasks, Created(tasks))
      BY <1>0, <2>2, <3>1, CreatedKeeps, CreatedGoesOnward DEF Kept
    <3>3. Onward(Created(tasks), tasks')
      BY <3>1, <3>2, ActGoesOnward
    <3> QED
      BY <3>2, <3>3, OnwardTwice
  <2> QED
    BY <2>1, <2>2
<1>8. ASSUME NEW r \in Run, NEW e PROVE Onward(tasks, AppliedTasks(r, e)) /\ Rows(AppliedTasks(r, e))
  <2>1. steps[r].task \in Task \cup {None}
    BY DEF IInv, Runs, RunTypes, StepRow
  <2> QED
    BY <1>0, <2>1, UpdatesGoOnward, UpdatesKeep DEF AppliedTasks, Kept
<1>9. CASE HandleEvent
  <2>1. Head(queue)[1] \in Run
    <3>1. queue \in Seq(Queued) /\ queue # <<>>
      BY <1>9 DEF HandleEvent, IInv, Runs, RunTypes
    <3>2. Head(queue) \in Queued
      BY <3>1, HeadTailProperties
    <3> QED
      BY <3>2 DEF Queued
  <2> QED
    BY <1>1, <1>8, <1>9, <2>1 DEF HandleEvent, store
<1>10. ASSUME NEW ts, Rows(ts) PROVE Onward(ts, Paused(ts))
  <2>1. TaskIn(ts, {"active"}) \in Task \cup {None}
    BY TaskInFinds
  <2> QED
    BY <1>10, <2>1, UpdatesGoOnward DEF Paused
<1>11. CASE Recover
  <2>1. \/ tasks' = Paused(tasks)
        \/ \E r \in Run : tasks' = Paused(AppliedTasks(r, Known(r)))
    BY <1>11 DEF Recover, IInv, Runs, RunTypes
  <2>2. CASE tasks' = Paused(tasks)
    BY <1>0, <1>10, <2>2
  <2>3. CASE \E r \in Run : tasks' = Paused(AppliedTasks(r, Known(r)))
    <3>1. PICK r \in Run : tasks' = Paused(AppliedTasks(r, Known(r)))
      BY <2>3
    <3>2. Onward(AppliedTasks(r, Known(r)), tasks')
      BY <1>8, <1>10, <3>1
    <3> QED
      BY <1>8, <3>2, OnwardTwice
  <2> QED
    BY <2>1, <2>2, <2>3
<1>12. CASE CrashInSubmit
  BY <1>0, <1>12, UpdatesGoOnward DEF CrashInSubmit
<1>13. CASE \E t \in Task : EnvironmentCompletes(t)
  BY <1>0, <1>13, UpdatesGoOnward DEF EnvironmentCompletes
<1>14. CASE \/ DecideFailure \/ AbortDelivered \/ LaunchTurn \/ Subscribe \/ EmergencyStopFails
            \/ (\E kind \in {"prompt", "steer"} : Turn(kind))
            \/ (\E r \in Run : WorkerEvent(r)) \/ Crash
  BY <1>1, <1>14 DEF DecideFailure, AbortDelivered, LaunchTurn, Subscribe, EmergencyStopFails, Turn,
                    WorkerEvent, Crash, store
<1> QED
  BY <1>2, <1>3, <1>4, <1>5, <1>6, <1>7, <1>9, <1>11, <1>12, <1>13, <1>14 DEF Next, Decide

-----------------------------------------------------------------------------
\* A row that was never a task's has no steps.
NewIsEmpty == \A r \in Run : steps[r].task # None => tasks.status[steps[r].task] # "new"
BudgetInv == NewIsEmpty /\ StepsWithinBudget

\* What a step of the agent does to the steps: it adds one to a task that has room, or
\* changes none's task.
Adds(t) ==
    /\ MoreRuns /\ \E status, n : steps' = Step(t, status, n)
    /\ tasks'.status[t] # "new" /\ Cardinality(StepsOf(t)) < MaxSkills

LEMMA StepsAreAdded ==
    ASSUME IInv, BudgetInv, Next
    PROVE  \/ \A r \in Run : steps'[r].task = steps[r].task
           \/ \E t \in Task : Adds(t)
<1>0. /\ steps \in [Run -> StepRow] /\ Rows(tasks) /\ MaxSkills \in Nat \ {0} /\ Onward(tasks, tasks')
      /\ \A t \in Task : Cardinality(StepsOf(t)) \in Nat
  <2>1. ASSUME NEW t \in Task PROVE Cardinality(StepsOf(t)) \in Nat
    <3>1. IsFiniteSet(Run)
      BY FS_Interval, AgentAssumption DEF Run
    <3>2. StepsOf(t) \subseteq Run
      BY DEF StepsOf
    <3> QED
      BY <3>1, <3>2, FS_Subset, FS_CardinalityType
  <2> QED
    BY <2>1, AgentAssumption, TasksGoOnward DEF IInv, Runs, RunTypes
<1>1. CASE UNCHANGED steps
  BY <1>1
<1>2. ASSUME NEW x, NEW e, steps' = AppliedSteps(x, e)
      PROVE  \A r \in Run : steps'[r].task = steps[r].task
  BY <1>0, <1>2 DEF AppliedSteps, StepRow
<1>3. CASE HandleEvent \/ Recover
  BY <1>1, <1>2, <1>3 DEF HandleEvent, Recover, store
<1>4. CASE ActForActive \/ CrashInSubmit
  <2>1. ActiveTask \in Task /\ tasks.status[ActiveTask] = "active"
    BY <1>4, ActiveIsTask DEF ActForActive, CrashInSubmit
  <2>2. tasks'.status[ActiveTask] # "new"
    BY <1>0, <2>1 DEF Onward
  <2>3. \/ UNCHANGED steps
        \/ /\ MoreRuns /\ Cardinality(StepsOf(ActiveTask)) < MaxSkills
           /\ \E status, n : steps' = Step(ActiveTask, status, n)
    BY <1>0, <1>4, <2>1 DEF ActForActive, CrashInSubmit, Act
  <2> QED
    BY <1>1, <2>1, <2>2, <2>3 DEF Adds
<1>5. CASE ActForNew
  <2>1. CASE ~CanCreate
    BY <1>1, <1>5, <2>1 DEF ActForNew
  <2>2. CASE CanCreate
    <3>1. /\ MoreTasks /\ Act(NewTask, Created(tasks)) /\ NewTask \in Task
          /\ tasks.status[NewTask] = "new" /\ Rows(Created(tasks))
          /\ Created(tasks).status[NewTask] = "active"
      BY <1>0, <1>5, <2>2, CreatedKeeps, CreatedGoesOnward DEF ActForNew, Kept
    <3>2. tasks'.status[NewTask] # "new"
      BY <3>1, ActGoesOnward DEF Onward
    <3>3. StepsOf(NewTask) = {}
      BY <3>1 DEF BudgetInv, NewIsEmpty, StepsOf, None, Task
    <3>4. Cardinality(StepsOf(NewTask)) < MaxSkills
      BY <1>0, <3>3, FS_EmptySet
    <3>5. UNCHANGED steps \/ (MoreRuns /\ \E status, n : steps' = Step(NewTask, status, n))
      BY <3>1 DEF Act
    <3> QED
      BY <1>1, <3>1, <3>2, <3>4, <3>5 DEF Adds
  <2> QED
    BY <2>1, <2>2
<1>6. CASE \/ DriveBegin \/ DecideFailure \/ DecideContinue \/ RespondNone \/ RespondWait
           \/ RespondComplete \/ RespondCancel \/ RespondCancelReturns \/ AbortDelivered \/ LaunchTurn
  BY <1>1, <1>6 DEF DriveBegin, DecideFailure, DecideContinue, RespondNone, RespondWait,
                    RespondComplete, RespondCancel, RespondCancelReturns, AbortDelivered,
                    LaunchTurn, store
<1>7. CASE \/ Subscribe \/ EmergencyStop \/ EmergencyStopFails \/ ControlReturns \/ ControlResume
           \/ (\E kind \in {"prompt", "steer"} : Turn(kind))
           \/ (\E action \in {"pause", "cancel"} : ControlTask(action))
  BY <1>1, <1>7 DEF Subscribe, EmergencyStop, EmergencyStopFails, ControlReturns, ControlResume, Turn,
                    ControlTask, store
<1>8. CASE \/ (\E x \in Run : WorkerEvent(x)) \/ (\E t \in Task : EnvironmentCompletes(t)) \/ Crash
  BY <1>1, <1>8 DEF WorkerEvent, EnvironmentCompletes, Crash, store
<1> QED
  BY <1>3, <1>4, <1>5, <1>6, <1>7, <1>8 DEF Next, Decide

LEMMA BudgetKept == ASSUME IInv, BudgetInv, [Next]_vars PROVE BudgetInv'
<1>0. steps \in [Run -> StepRow] /\ MaxSkills \in Nat
  BY AgentAssumption DEF IInv, Runs, RunTypes
<1>1. CASE UNCHANGED vars
  BY <1>1 DEF vars, BudgetInv, NewIsEmpty, StepsWithinBudget, StepsOf
<1>2. CASE Next /\ \A r \in Run : steps'[r].task = steps[r].task
  <2>1. \A t : StepsOf(t)' = StepsOf(t)
    BY <1>2 DEF StepsOf
  <2>2. Onward(tasks, tasks')
    BY <1>2, TasksGoOnward
  <2>3. \A r \in Run : steps[r].task \in Task \cup {None}
    BY <1>0 DEF StepRow
  <2> QED
    BY <1>2, <2>1, <2>2, <2>3 DEF BudgetInv, NewIsEmpty, StepsWithinBudget, Onward
<1>3. ASSUME NEW t \in Task, Adds(t), Next PROVE BudgetInv'
  <2>1. PICK status, n : steps' = Step(t, status, n)
    BY <1>3 DEF Adds
  <2>2. PICK f \in Run : f = FreshRun /\ steps[f].task = None
    BY <1>3, FreshRunIsFresh DEF Adds
  <2>3. steps'[f].task = t /\ \A r \in Run \ {f} : steps'[r] = steps[r]
    BY <1>0, <2>1, <2>2 DEF Step
  <2>4. t # None /\ Onward(tasks, tasks')
    BY <1>3, TasksGoOnward DEF None, Task
  <2>5. NewIsEmpty'
    <3>1. \A r \in Run : steps[r].task \in Task \cup {None}
      BY <1>0 DEF StepRow
    <3> QED
      BY <1>3, <2>3, <2>4, <3>1 DEF Adds, BudgetInv, NewIsEmpty, Onward
  <2>6. ASSUME NEW x \in Task PROVE Cardinality(StepsOf(x))' <= MaxSkills
    <3>1. CASE x # t
      <4>1. StepsOf(x)' = StepsOf(x)
        BY <2>2, <2>3, <3>1 DEF StepsOf, None, Task
      <4> QED
        BY <4>1 DEF BudgetInv, StepsWithinBudget
    <3>2. CASE x = t
      <4>1. StepsOf(x)' = StepsOf(x) \cup {f} /\ StepsOf(x) \subseteq Run
        BY <2>2, <2>3, <3>2 DEF StepsOf
      <4>2. IsFiniteSet(StepsOf(x))
        <5>1. IsFiniteSet(Run)
          BY FS_Interval, AgentAssumption DEF Run
        <5> QED
          BY <4>1, <5>1, FS_Subset
      <4>3. f \notin StepsOf(x)
        BY <2>2, <2>4, <3>2 DEF StepsOf
      <4>4. Cardinality(StepsOf(x) \cup {f}) = Cardinality(StepsOf(x)) + 1
            /\ Cardinality(StepsOf(x)) \in Nat
        BY <4>2, <4>3, FS_AddElement, FS_CardinalityType
      <4>5. Cardinality(StepsOf(x)) < MaxSkills
        BY <1>3, <3>2 DEF Adds
      <4>6. Cardinality(StepsOf(x))' = Cardinality(StepsOf(x)) + 1
        BY <4>1, <4>4
      <4> QED
        BY <1>0, <4>4, <4>5, <4>6
    <3> QED
      BY <3>1, <3>2
  <2> QED
    BY <2>5, <2>6 DEF BudgetInv, StepsWithinBudget
<1> QED
  BY <1>1, <1>2, <1>3, StepsAreAdded

(***************************************************************************)
(* A task never gets more steps than hard_max_skills, whatever is refused,  *)
(* paused, resumed or lost with the process (executor.py _execute_skill).   *)
(***************************************************************************)
THEOREM BudgetIsKept == Spec => []StepsWithinBudget
<1>1. Init => BudgetInv
  <2> SUFFICES ASSUME Init PROVE BudgetInv
    OBVIOUS
  <2>1. \A r \in Run : steps[r].task = None
    BY DEF Init, NoStep
  <2>2. \A t \in Task : StepsOf(t) = {}
    BY <2>1 DEF StepsOf, None, Task
  <2>3. \A t \in Task : Cardinality(StepsOf(t)) = 0
    BY <2>2, FS_EmptySet
  <2> QED
    BY <2>1, <2>3, AgentAssumption DEF BudgetInv, NewIsEmpty, StepsWithinBudget
<1>2. BudgetInv => StepsWithinBudget
  BY DEF BudgetInv
<1> QED
  BY <1>1, <1>2, Inductive, BudgetKept, PTL DEF Spec

-----------------------------------------------------------------------------
\* The worker's part in a step: one run moves on, or the process dies.
StageOf == [r \in Run |-> Stage(r)]

\* The stage of run r becomes n and no other changes: a step of the lifecycle.
LEMMA OneRunMoves ==
    ASSUME NEW r \in Run, NEW n, \A x \in Run \ {r} : Stage(x)' = Stage(x), Stage(r)' = n,
           \/ Stage(r) = "new" /\ n = "submitted"
           \/ Stage(r) = "submitted" /\ n = "executing"
           \/ Stage(r) \in {"submitted", "executing", "abandoned"} /\ n = "ended"
           \/ Stage(r) = n
    PROVE  [Lifecycle!Next]_StageOf
<1>1. StageOf' = [StageOf EXCEPT ![r] = n] /\ StageOf[r] = Stage(r)
  BY DEF StageOf
<1>2. \A x \in Run : ~Lifecycle!Conflict(r, x)
  BY DEF Lifecycle!Conflict
<1>3. CASE Stage(r) = n
  BY <1>1, <1>3 DEF StageOf
<1>4. CASE Stage(r) = "new" /\ n = "submitted"
  BY <1>1, <1>4 DEF Lifecycle!Next, Lifecycle!Accept, StageOf
<1>5. CASE Stage(r) = "submitted" /\ n = "executing"
  BY <1>1, <1>2, <1>5 DEF Lifecycle!Next, Lifecycle!Execute, StageOf
<1>6. CASE Stage(r) \in {"submitted", "executing", "abandoned"} /\ n = "ended"
  BY <1>1, <1>6 DEF Lifecycle!Next, Lifecycle!End, StageOf
<1> QED
  BY <1>3, <1>4, <1>5, <1>6

LEMMA WorkerMovesOneRun ==
    ASSUME IInv, NEW r \in Run, WorkerEvent(r) PROVE [Lifecycle!Next]_StageOf
<1>1. PICK phase \in Phases(r) :
          /\ latest' = [latest EXCEPT ![r] = Event(latest[r].sequence + 1, phase)]
          /\ live' = live \ (IF phase \in Terminals THEN {r} ELSE {})
          /\ UNCHANGED submitted
  BY DEF WorkerEvent
<1>2. /\ latest \in [Run -> EventRow] /\ r \in submitted /\ r \in live /\ Reported(r)
      /\ latest[r].sequence \in Nat
  BY DEF WorkerEvent, IInv, Runs, RunTypes, EventRow
<1>3. /\ latest'[r].sequence = latest[r].sequence + 1 /\ latest'[r].phase = phase
      /\ \A x \in Run \ {r} : latest'[x] = latest[x]
  BY <1>1, <1>2 DEF Event
<1>4. \A x \in Run \ {r} : Stage(x)' = Stage(x)
  BY <1>1, <1>3 DEF Stage
<1>5. Stage(r) = IF latest[r].sequence > 0 THEN "executing" ELSE "submitted"
  BY <1>2 DEF Stage, Reported
<1>6. Stage(r)' = IF phase \in Terminals THEN "ended" ELSE "executing"
  BY <1>1, <1>2, <1>3 DEF Stage
<1>7. phase \notin Terminals => latest[r].sequence = 0
  BY <1>1 DEF Phases, Terminals
<1> QED
  BY <1>2, <1>4, <1>5, <1>6, <1>7, OneRunMoves

\* The agent hands the worker a run it has not seen.
LEMMA SubmissionMovesOneRun ==
    ASSUME IInv, MoreRuns, submitted' = submitted \cup {FreshRun}, live' = live \cup {FreshRun},
           UNCHANGED latest
    PROVE  [Lifecycle!Next]_StageOf
<1>1. PICK r \in Run : r = FreshRun /\ r \notin submitted
  BY FreshRunIsFresh DEF IInv, Runs, Stepped
<1>2. latest[r].sequence = 0 /\ latest[r].phase = "none"
  BY <1>1 DEF IInv, Runs, Reported
<1>3. \A x \in Run \ {r} : Stage(x)' = Stage(x)
  BY <1>1 DEF Stage
<1>4. Stage(r) = "new" /\ Stage(r)' = "submitted"
  BY <1>1, <1>2 DEF Stage, Terminals
<1> QED
  BY <1>3, <1>4, OneRunMoves

\* status() ends what nobody executes any more, and changes nothing else.
LEMMA RecoveryMovesOneRun == ASSUME IInv, Recover PROVE [Lifecycle!Next]_StageOf
<1>1. CASE UNCHANGED <<submitted, latest, live>>
  BY <1>1 DEF StageOf, Stage
<1>2. ASSUME NEW r \in submitted, latest' = [latest EXCEPT ![r] = Known(r)],
             UNCHANGED <<submitted, live>>
      PROVE  [Lifecycle!Next]_StageOf
  <2>1. latest \in [Run -> EventRow] /\ r \in Run /\ latest[r].sequence \in Nat
    BY DEF IInv, Runs, RunTypes, EventRow
  <2>2. latest'[r] = Known(r) /\ \A x \in Run \ {r} : latest'[x] = latest[x]
    BY <1>2, <2>1
  <2>3. \A x \in Run \ {r} : Stage(x)' = Stage(x)
    BY <1>2, <2>2 DEF Stage
  <2>4. CASE Known(r) = latest[r]
    <3>1. Stage(r)' = Stage(r)
      BY <1>2, <2>2, <2>4 DEF Stage
    <3> QED
      BY <2>1, <2>3, <3>1, OneRunMoves
  <2>5. CASE r \notin live /\ latest[r].phase \notin Terminals
    <3>1. Known(r).phase = "failed"
      BY <2>5 DEF Known, Event
    <3>2. Stage(r)' = "ended"
      BY <2>2, <3>1 DEF Stage, Terminals
    <3>3. Stage(r) \in {"submitted", "abandoned"}
      BY <2>1, <2>5 DEF Stage
    <3> QED
      BY <2>1, <2>3, <3>2, <3>3, OneRunMoves
  <2> QED
    BY <2>4, <2>5 DEF Known
<1>3. UNCHANGED <<submitted, live>>
  BY DEF Recover
<1>4. \/ UNCHANGED latest
      \/ \E r \in submitted : latest' = [latest EXCEPT ![r] = Known(r)]
  BY DEF Recover
<1> QED
  BY <1>1, <1>2, <1>3, <1>4

\* A death abandons what was executing; nothing of it is started again.
LEMMA RestartAbandons == ASSUME IInv, Restart PROVE [Lifecycle!Next]_StageOf
<1>1. UNCHANGED <<submitted, latest>> /\ live' = {}
  BY DEF Restart
<1>2. \A r \in Run : Stage(r)' = IF Stage(r) = "executing" THEN "abandoned" ELSE Stage(r)
  BY <1>1 DEF Stage
<1>3. CASE \E r \in Run : Stage(r) = "executing"
  <2>1. \E r \in Run : StageOf[r] = "executing"
    BY <1>3 DEF StageOf
  <2>2. StageOf' = [r \in Run |-> IF StageOf[r] = "executing" THEN "abandoned" ELSE StageOf[r]]
    BY <1>2 DEF StageOf
  <2> QED
    BY <2>1, <2>2 DEF Lifecycle!Next, Lifecycle!Abandon, StageOf
<1>4. CASE ~\E r \in Run : Stage(r) = "executing"
  BY <1>2, <1>4 DEF StageOf
<1> QED
  BY <1>3, <1>4

LEMMA NextStage == ASSUME IInv, [Next]_vars PROVE [Lifecycle!Next]_StageOf
<1>1. CASE UNCHANGED <<submitted, latest, live>>
  BY <1>1 DEF StageOf, Stage
<1>2. CASE ActForActive \/ ActForNew
  <2>1. \/ UNCHANGED <<submitted, latest, live>>
        \/ /\ MoreRuns /\ submitted' = submitted \cup {FreshRun} /\ live' = live \cup {FreshRun}
           /\ UNCHANGED latest
    BY <1>2 DEF ActForActive, ActForNew, Act
  <2> QED
    BY <1>1, <2>1, SubmissionMovesOneRun
<1>3. CASE Crash \/ CrashInSubmit
  BY <1>3, RestartAbandons DEF Crash, CrashInSubmit
<1>4. CASE \/ DriveBegin \/ DecideFailure \/ DecideContinue \/ RespondNone \/ RespondWait
           \/ RespondComplete \/ RespondCancel \/ RespondCancelReturns \/ AbortDelivered \/ LaunchTurn
           \/ UNCHANGED vars
  BY <1>1, <1>4 DEF DriveBegin, DecideFailure, DecideContinue, RespondNone, RespondWait,
                    RespondComplete, RespondCancel, RespondCancelReturns, AbortDelivered,
                    LaunchTurn, skills, vars
<1>5. CASE \/ Subscribe \/ EmergencyStop \/ EmergencyStopFails \/ ControlReturns \/ ControlResume
           \/ HandleEvent \/ (\E kind \in {"prompt", "steer"} : Turn(kind))
           \/ (\E action \in {"pause", "cancel"} : ControlTask(action))
           \/ (\E t \in Task : EnvironmentCompletes(t))
  BY <1>1, <1>5 DEF Subscribe, EmergencyStop, EmergencyStopFails, ControlReturns, ControlResume, Turn,
                    ControlTask, HandleEvent, EnvironmentCompletes, skills
<1> QED
  BY <1>2, <1>3, <1>4, <1>5, WorkerMovesOneRun, RecoveryMovesOneRun DEF Next, Decide

(***************************************************************************)
(* The worker as the agent knows it implements RunLifecycle: over every     *)
(* death of the process a run executes at most once, and reconciliation     *)
(* ends for good what was cut off (skills SkillWorker.status).              *)
(***************************************************************************)
THEOREM WorkerKeepsLifecycle == Spec => KeepsLifecycle
<1>1. Init => Lifecycle!Init
  BY DEF Init, Lifecycle!Init, Stage, NoEvent, Event, Terminals
<1>2. IInv /\ [Next]_vars => [Lifecycle!Next]_[r \in Run |-> Stage(r)]
  BY NextStage DEF StageOf
<1> QED
  BY <1>1, <1>2, Inductive, PTL DEF Spec, KeepsLifecycle, Lifecycle!Spec

(***************************************************************************)
(* A step's result is written once, whatever the event queue, status() and  *)
(* a restart report of its run (agent_task_store.py resolve_pending_step);  *)
(* a closed task keeps its verdict; and a run of the worker ends once.      *)
(***************************************************************************)
THEOREM ResultsAreFinal == Spec => OutcomesSettleOnce
<1>1. IInv /\ [Next]_vars =>
        [/\ \A r \in Run : steps[r].status \in StepEnds => steps'[r] = steps[r]
         /\ \A t \in Task : tasks.status[t] \in Closed => tasks'.status[t] = tasks.status[t]]_store
  <2> SUFFICES ASSUME IInv, [Next]_vars, store' # store
               PROVE  /\ \A r \in Run : steps[r].status \in StepEnds => steps'[r] = steps[r]
                      /\ \A t \in Task : tasks.status[t] \in Closed =>
                                             tasks'.status[t] = tasks.status[t]
    BY DEF store
  <2>1. Next
    BY DEF vars, store
  <2> QED
    BY <2>1, SettledStays, TasksGoOnward DEF Onward
<1> QED
  BY Inductive, WorkerKeepsLifecycle, <1>1, PTL DEF Spec, OutcomesSettleOnce, ResultsStay

\* Only an action of the model submits a run.
LEMMA SubmissionIsDecided ==
    ASSUME Next, submitted' # submitted PROVE drive.pc = "model"
<1>1. CASE DriveBegin \/ Decide \/ RespondCancelReturns \/ AbortDelivered \/ LaunchTurn
  BY <1>1 DEF DriveBegin, Decide, DecideFailure, DecideContinue, RespondNone, RespondWait,
              RespondComplete, RespondCancel, RespondCancelReturns, AbortDelivered, LaunchTurn,
              ActForActive, ActForNew, skills
<1>2. CASE \/ Subscribe \/ EmergencyStop \/ EmergencyStopFails \/ ControlReturns \/ ControlResume
           \/ (\E kind \in {"prompt", "steer"} : Turn(kind))
           \/ (\E action \in {"pause", "cancel"} : ControlTask(action))
  BY <1>2 DEF Subscribe, EmergencyStop, EmergencyStopFails, ControlReturns, ControlResume, Turn,
              ControlTask, skills
<1>3. CASE \/ (\E x \in Run : WorkerEvent(x)) \/ (\E t \in Task : EnvironmentCompletes(t)) \/ Crash
           \/ CrashInSubmit \/ HandleEvent \/ Recover
  BY <1>3 DEF WorkerEvent, EnvironmentCompletes, Crash, CrashInSubmit, Restart, HandleEvent, Recover,
              skills
<1> QED
  BY <1>1, <1>2, <1>3 DEF Next

(***************************************************************************)
(* From a (re)start to the user's first word no run is dispatched: neither  *)
(* recovery nor an event of an earlier run starts a drive (service.py       *)
(* _recover_tasks).                                                         *)
(***************************************************************************)
THEOREM RestartIsQuiet == Spec => RestartWaitsForUser
<1>1. IInv /\ [Next]_vars => [submitted' # submitted => mandate # "none"]_submitted
  <2> SUFFICES ASSUME IInv, [Next]_vars, submitted' # submitted PROVE mandate # "none"
    OBVIOUS
  <2>1. drive.pc = "model"
    BY SubmissionIsDecided DEF vars
  <2> QED
    BY <2>1, DriveIsAsked
<1> QED
  BY Inductive, <1>1, PTL DEF Spec, RestartWaitsForUser

=============================================================================
