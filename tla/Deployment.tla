------------------------------ MODULE Deployment ------------------------------
(***************************************************************************)
(* DeploymentRunner with a managed RoboCasa backend: two child processes   *)
(* are started and have to answer before the services start; whatever ends *)
(* the run, the tasks are cancelled, the processes terminated and then the *)
(* services stopped.  A cancellation (Ctrl-C) may come at any await, also  *)
(* while the run is stopping already.  What a service does is not here.    *)
(***************************************************************************)
EXTENDS Naturals

CONSTANTS
    Services,
    MaxCancels      \* how often the run is cancelled

VARIABLES
    run,            \* where DeploymentRunner.run is
    proc,           \* the child processes
    task,           \* _tasks; "backend" is ManagedRoboCasaBackend.wait
    credentials,    \* the credentials file exists
    cancels,
    hit             \* a cancellation has come while the run was stopping

deploymentVars == <<run, proc, task, credentials, cancels, hit>>

Processes == {"runtime", "model"}
Tasks == Services \cup {"backend"}
Alive == {"up", "loaded", "terminated", "killed"}

TypeOK ==
    /\ run \in {"new", "runtime", "model", "gate", "undo", "serving", "unwind",
                "cancelling", "stopping", "closing", "over"}
    /\ proc \in [Processes -> Alive \cup {"none", "exited"}]
    /\ task \in [Tasks -> {"none", "starting", "serving", "cancelled", "ended", "returned"}]
    /\ credentials \in BOOLEAN /\ cancels \in 0..MaxCancels /\ hit \in BOOLEAN

Init ==
    /\ run = "new"
    /\ proc = [p \in Processes |-> "none"] /\ task = [t \in Tasks |-> "none"]
    /\ credentials = FALSE /\ cancels = 0 /\ hit = FALSE

-----------------------------------------------------------------------------
(* The configuration is invalid, or the two targets are.                   *)
Reject ==
    /\ run = "new" /\ run' = "over"
    /\ UNCHANGED <<proc, task, credentials, cancels, hit>>

(* ManagedRoboCasaBackend.start()                                          *)
Prepare ==
    /\ run = "new" /\ run' = "runtime" /\ credentials' = TRUE
    /\ UNCHANGED <<proc, task, cancels, hit>>

Created ==
    /\ run \in Processes
    /\ proc' = [proc EXCEPT ![run] = "up"]
    /\ run' = IF run = "runtime" THEN "model" ELSE "gate"
    /\ UNCHANGED <<task, credentials, cancels, hit>>

(* stop() of the backend, up to its first wait.                            *)
Terminated ==
    [p \in Processes |-> IF proc[p] \in {"up", "loaded"} THEN "terminated" ELSE proc[p]]

\* mutant: the backend does not stop what it has started
JustRaises == run' = "over" /\ UNCHANGED proc

Undone == run' = "undo" /\ proc' = Terminated

(* The first process is created before the try: its failure is not undone, *)
(* and the credentials stay.                                               *)
StartFails ==
    /\ \/ run = "runtime" /\ run' = "over" /\ UNCHANGED proc
       \/ run \in {"model", "gate"} /\ Undone
    /\ UNCHANGED <<task, credentials, hit>>

Fails == StartFails /\ UNCHANGED cancels

(* _wait_ready(): both answer and are loaded.                              *)
GatePasses ==
    /\ run = "gate" /\ \A p \in Processes : proc[p] = "loaded"
    /\ run' = "serving" /\ task' = [t \in Tasks |-> "starting"]
    /\ UNCHANGED <<proc, credentials, cancels, hit>>

-----------------------------------------------------------------------------
Load(p) ==
    /\ proc[p] = "up" /\ proc' = [proc EXCEPT ![p] = "loaded"]
    /\ UNCHANGED <<run, task, credentials, cancels, hit>>

Exit(p) ==
    /\ proc[p] \in Alive /\ proc' = [proc EXCEPT ![p] = "exited"]
    /\ UNCHANGED <<run, task, credentials, cancels, hit>>

TaskTo(t, next) ==
    /\ task' = [task EXCEPT ![t] = next]
    /\ UNCHANGED <<run, proc, credentials, cancels, hit>>

(* RobotService.start() and its like serve; SkillWorker.start() returns.   *)
Serve(s) ==
    \/ task[s] = "starting" /\ TaskTo(s, "serving")
    \/ task[s] = "starting" /\ TaskTo(s, "returned")
    \/ task[s] \in {"starting", "serving"} /\ TaskTo(s, "ended")

(* wait() raises when a process is gone.                                   *)
Watch ==
    /\ task["backend"] = "starting" /\ \E p \in Processes : proc[p] = "exited"
    /\ TaskTo("backend", "ended")

EndCancelled(t) == task[t] = "cancelled" /\ TaskTo(t, "ended")

-----------------------------------------------------------------------------
Cancelled ==
    [t \in Tasks |-> IF task[t] \in {"starting", "serving"} THEN "cancelled" ELSE task[t]]

(* gather() raises with the first task that does.                          *)
GatherEnds ==
    /\ run \in {"serving", "unwind"}
    /\ \/ \E t \in Tasks : task[t] = "ended"
       \/ \A t \in Tasks : task[t] = "returned"
    /\ run' = "cancelling" /\ task' = Cancelled
    /\ UNCHANGED <<proc, credentials, cancels, hit>>

(* stop(): the tasks have five seconds to end.                             *)
StopBackend ==
    /\ run = "cancelling" /\ run' = "stopping" /\ proc' = Terminated
    /\ UNCHANGED <<task, credentials, cancels, hit>>

\* mutant: a process that ignores its termination is waited for
NeverKills(p) == FALSE /\ UNCHANGED deploymentVars

(* The model service is waited for first, each for ten seconds.            *)
Kill(p) ==
    /\ run \in {"undo", "stopping"} /\ proc[p] = "terminated"
    /\ p = "runtime" => proc["model"] \notin Alive
    /\ proc' = [proc EXCEPT ![p] = "killed"]
    /\ UNCHANGED <<run, task, credentials, cancels, hit>>

BackendStopped ==
    /\ run \in {"undo", "stopping"} /\ \A p \in Processes : proc[p] \notin Alive
    /\ run' = IF run = "undo" THEN "over" ELSE "closing"
    /\ credentials' = FALSE /\ UNCHANGED <<proc, task, cancels, hit>>

(* All services stop at once; they have five seconds.                      *)
CloseServices ==
    /\ run = "closing" /\ run' = "over"
    /\ UNCHANGED <<proc, task, credentials, cancels, hit>>

-----------------------------------------------------------------------------
(* A cancellation that hits stop() ends it where it is.                    *)
Cancel ==
    /\ cancels < MaxCancels /\ cancels' = cancels + 1
    /\ \/ StartFails
       \/ /\ run \in {"serving", "unwind"} /\ run' = "unwind" /\ task' = Cancelled
          /\ UNCHANGED <<proc, credentials, hit>>
       \/ /\ run \in {"undo", "cancelling", "stopping", "closing"}
          /\ run' = "over" /\ hit' = TRUE /\ UNCHANGED <<proc, task, credentials>>

RunStep ==
    Prepare \/ Created \/ GatePasses \/ GatherEnds \/ StopBackend \/ BackendStopped \/ CloseServices

Next ==
    \/ RunStep \/ Reject \/ Fails \/ Watch \/ Cancel
    \/ \E p \in Processes : Load(p) \/ Exit(p) \/ Kill(p)
    \/ \E s \in Services : Serve(s)
    \/ \E t \in Tasks : EndCancelled(t)

(* The event loop serves the run and its tasks; a killed process is gone,  *)
(* and the health gate times out at last.                                  *)
Fairness ==
    /\ WF_deploymentVars(RunStep /\ run # "new") /\ WF_deploymentVars(Fails /\ run = "gate")
    /\ WF_deploymentVars(\E p \in Processes : Kill(p) \/ (proc[p] = "killed" /\ Exit(p)))
    /\ WF_deploymentVars(\E t \in Tasks : EndCancelled(t))

Spec == Init /\ [][Next]_deploymentVars /\ Fairness

-----------------------------------------------------------------------------
(* Whatever ends a run - a failed start, a service, a child process, one   *)
(* cancellation - no child process outlives it, nor do the credentials,    *)
(* unless a cancellation hits the stopping itself.                         *)
NoProcessIsLeft ==
    run = "over" /\ ~hit =>
       /\ \A p \in Processes : proc[p] \notin Alive
       /\ proc["runtime"] = "none" \/ ~credentials

(* A run that is cancelled ends, even if its children ignore the signal.   *)
CancelledIsOver == cancels > 0 => run = "over"

CancelledRunEnds == <>[]CancelledIsOver
=============================================================================
