--------------------------- MODULE PolicyService ---------------------------
(***************************************************************************)
(* One model service: its gRPC servicer, the LeRobot executor behind it,   *)
(* the isolated policy process the executor talks to over a pipe, and the  *)
(* skill runs that call it, one inference at a time.                       *)
(*                                                                         *)
(* An inference runs in a thread. When its caller gives up (its deadline,  *)
(* its cancellation) the servicer's handler ends and takes back `busy`,    *)
(* but the thread goes on. A request that times out leaves its reply in    *)
(* the pipe, to be read as the answer of a later one. Observations, tasks  *)
(* and actions are left out, but whose they are is not.                    *)
(***************************************************************************)
EXTENDS Naturals, Sequences

CONSTANTS
    Callers,   \* skill runs that use the service; each is a policy session
    NoCaller,
    MaxLoads,  \* policy processes that can be loaded before loading fails
    MaxCalls,  \* bound: inferences of one run
    MaxCancels \* bound: cancellations sent

VARIABLES
    server,       \* "loading", "serving", "stopped"
    rpc,          \* each run's call: "idle", "waiting", "over" (run ended)
    calls,        \* inferences each run has asked for
    busy,         \* the servicer is executing
    awaited,      \* each run's thread: does a handler await it?
    work,         \* what each run's executor thread does
    model,        \* the policy process each thread has taken, 0: none
    runtime,      \* the executor's policy process, 0: none
    loads,        \* policy processes started so far
    health,       \* each process: "up", "hung", "dead"
    toPolicy,     \* requests in each process's pipe
    fromPolicy,   \* replies in each process's pipe
    cancelEvent,  \* the executor's _cancel_event
    policySession,\* the run the policy was last reset for
    canceller,    \* the event loop in executor.cancel(): waits for the lock
    cancels,      \* cancellations sent so far
    actions,      \* whose inference each action handed to a run was
    overlapped,   \* two executor threads have run at the same time
    unanswered    \* requests that have timed out, counted up to two

policyVars == <<server, rpc, calls, busy, awaited, work, model, runtime, loads,
                health, toPolicy, fromPolicy, cancelEvent, policySession,
                canceller, cancels, actions, overlapped, unanswered>>
callVars == <<server, rpc, calls, cancels, actions>>
pipeVars == <<health, toPolicy, fromPolicy, loads>>

Processes == 1..MaxLoads
Message == [of : Callers, kind : {"reset", "select"}]
Results == {"action", "failed", "cancelled"}
InThread == {"runtime", "load", "session", "reset", "check", "select"}
Working == {c \in Callers : work[c] # "none"}

TypeOK ==
    /\ server \in {"loading", "serving", "stopped"}
    /\ rpc \in [Callers -> {"idle", "waiting", "over"}]
    /\ calls \in [Callers -> 0..MaxCalls]
    /\ busy \in BOOLEAN /\ awaited \in [Callers -> BOOLEAN]
    /\ work \in [Callers -> InThread \cup Results \cup {"none"}]
    /\ model \in [Callers -> 0..MaxLoads]
    /\ runtime \in 0..MaxLoads /\ loads \in 0..MaxLoads
    /\ health \in [Processes -> {"up", "hung", "dead"}]
    /\ toPolicy \in [Processes -> Seq(Message)]
    /\ fromPolicy \in [Processes -> Seq(Message)]
    /\ cancelEvent \in BOOLEAN
    /\ policySession \in Callers \cup {NoCaller}
    /\ canceller \in {"none", "lock"} /\ cancels \in 0..MaxCancels
    /\ actions \in [Callers -> SUBSET Callers]
    /\ overlapped \in BOOLEAN /\ unanswered \in 0..2

Init ==
    /\ server = "loading"
    /\ rpc = [c \in Callers |-> "idle"] /\ calls = [c \in Callers |-> 0]
    /\ busy = FALSE /\ awaited = [c \in Callers |-> FALSE]
    /\ work = [c \in Callers |-> "none"] /\ model = [c \in Callers |-> 0]
    /\ runtime = 0 /\ loads = 0
    /\ health = [p \in Processes |-> "dead"]
    /\ toPolicy = [p \in Processes |-> <<>>]
    /\ fromPolicy = [p \in Processes |-> <<>>]
    /\ cancelEvent = FALSE /\ policySession = NoCaller
    /\ canceller = "none" /\ cancels = 0
    /\ actions = [c \in Callers |-> {}] /\ overlapped = FALSE /\ unanswered = 0

LockFree == \A c \in Callers : work[c] # "load"
LoopFree == canceller = "none"

Spawn == /\ loads < MaxLoads
         /\ loads' = loads + 1 /\ runtime' = loads + 1
         /\ health' = [health EXCEPT ![loads + 1] = "up"]

(* The policy is loaded before the service accepts traffic.                *)
Serve ==
    /\ server = "loading"
    /\ Spawn
    /\ server' = "serving"
    /\ UNCHANGED <<rpc, calls, busy, awaited, work, model, toPolicy, fromPolicy,
                   cancelEvent, policySession, canceller, cancels, actions,
                   overlapped, unanswered>>

-----------------------------------------------------------------------------
(* The servicer, on the event loop.                                        *)
Execute(c) ==
    /\ server = "serving" /\ LoopFree
    /\ rpc[c] = "idle" /\ calls[c] < MaxCalls
    /\ calls' = [calls EXCEPT ![c] = @ + 1]
    /\ IF busy
       THEN /\ rpc' = [rpc EXCEPT ![c] = "over"]
            /\ UNCHANGED <<busy, awaited, work, overlapped>>
       ELSE /\ rpc' = [rpc EXCEPT ![c] = "waiting"]
            /\ busy' = TRUE
            /\ awaited' = [awaited EXCEPT ![c] = TRUE]
            /\ work' = [work EXCEPT ![c] = "runtime"]
            /\ overlapped' = (overlapped \/ Working # {})
    /\ UNCHANGED <<server, model, runtime, pipeVars, cancelEvent, policySession,
                   canceller, cancels, actions, unanswered>>

(* The thread is done and its handler answers: a run goes on only with an  *)
(* action.                                                                 *)
Answer(c) ==
    /\ LoopFree /\ awaited[c]
    /\ work[c] \in Results
    /\ rpc' = [rpc EXCEPT ![c] = IF work[c] = "action" THEN "idle" ELSE "over"]
    /\ busy' = FALSE
    /\ awaited' = [awaited EXCEPT ![c] = FALSE]
    /\ work' = [work EXCEPT ![c] = "none"]
    /\ UNCHANGED <<server, calls, model, runtime, pipeVars, cancelEvent, policySession,
                   canceller, cancels, actions, overlapped, unanswered>>

(* The caller's deadline passes or the caller is cancelled: the handler is *)
(* cancelled in its `await to_thread`, the thread is not.                  *)
GiveUp(c) ==
    /\ LoopFree /\ awaited[c]
    /\ rpc' = [rpc EXCEPT ![c] = "over"]
    /\ busy' = FALSE
    /\ awaited' = [awaited EXCEPT ![c] = FALSE]
    /\ work' = [work EXCEPT ![c] = IF @ \in Results THEN "none" ELSE @]
    /\ UNCHANGED <<server, calls, model, runtime, pipeVars, cancelEvent,
                   policySession, canceller, cancels, actions,
                   overlapped, unanswered>>

(* CancelSkill of whatever run, or of a run of another service: the router *)
(* sends it to every model service and the servicer does not look at whose *)
(* it is. The event is set, then the event loop waits for the lock, which  *)
(* a thread holds while it loads.                                          *)
CancelSkill ==
    /\ server = "serving" /\ LoopFree /\ cancels < MaxCancels
    /\ cancels' = cancels + 1
    /\ cancelEvent' = TRUE
    /\ canceller' = "lock"
    /\ UNCHANGED <<server, rpc, calls, busy, awaited, work, model, runtime, pipeVars,
                   policySession, actions, overlapped, unanswered>>

Terminate(p) == [health EXCEPT ![p] = "dead"]

Release ==
    /\ canceller = "lock" /\ LockFree
    /\ health' = IF runtime = 0 THEN health ELSE Terminate(runtime)
    /\ runtime' = 0 /\ policySession' = NoCaller /\ canceller' = "none"
    /\ UNCHANGED <<callVars, busy, awaited, work, model, loads, toPolicy, fromPolicy,
                   cancelEvent, overlapped, unanswered>>

(* stop() cancels, closes and stops the server.                            *)
Stop ==
    /\ server = "serving" /\ LoopFree /\ LockFree
    /\ server' = "stopped"
    /\ cancelEvent' = TRUE
    /\ health' = IF runtime = 0 THEN health ELSE Terminate(runtime)
    /\ runtime' = 0 /\ policySession' = NoCaller
    /\ UNCHANGED <<rpc, calls, busy, awaited, work, model, loads, toPolicy, fromPolicy,
                   canceller, cancels, actions, overlapped, unanswered>>

-----------------------------------------------------------------------------
(* The executor's thread of a run.                                         *)
Step(c, from, to) == work[c] = from /\ work' = [work EXCEPT ![c] = to]

(* The result of a thread nobody waits for any more is dropped.            *)
Return(c, result) ==
    work' = [work EXCEPT ![c] = IF awaited[c] THEN result ELSE "none"]

OnlyWork == UNCHANGED <<callVars, busy, awaited, model, runtime, pipeVars, cancelEvent,
                        policySession, canceller, overlapped, unanswered>>

(* The request is validated.                                               *)
RejectRequest(c) == work[c] = "runtime" /\ Return(c, "failed") /\ OnlyWork

GetRuntime(c) ==
    /\ LockFree
    /\ IF runtime # 0
       THEN /\ Step(c, "runtime", "session")
            /\ model' = [model EXCEPT ![c] = runtime]
       ELSE Step(c, "runtime", "load") /\ UNCHANGED model
    /\ UNCHANGED <<callVars, busy, awaited, runtime, pipeVars, cancelEvent,
                   policySession, canceller, overlapped, unanswered>>

Load(c) ==
    /\ Step(c, "load", "session")
    /\ Spawn
    /\ model' = [model EXCEPT ![c] = loads + 1]
    /\ UNCHANGED <<callVars, busy, awaited, toPolicy, fromPolicy, cancelEvent,
                   policySession, canceller, overlapped, unanswered>>

LoadFails(c) == work[c] = "load" /\ Return(c, "failed") /\ OnlyWork

(* Send, if the process is alive; _request raises otherwise.               *)
Send(c, kind) ==
    /\ health[model[c]] # "dead"
    /\ toPolicy' = [toPolicy EXCEPT ![model[c]] = Append(@, [of |-> c, kind |-> kind])]
    /\ UNCHANGED <<callVars, busy, awaited, model, runtime, loads, health, fromPolicy,
                   cancelEvent, policySession, canceller, overlapped, unanswered>>

\* mutant: the policy is reset once, not for each session
NewSessionOnce(c) == policySession = NoCaller

NewSession(c) == policySession # c

Reset(c) == NewSession(c) /\ Step(c, "session", "reset") /\ Send(c, "reset")
SameSession(c) == ~NewSession(c) /\ Step(c, "session", "check") /\ OnlyWork

Check(c) ==
    /\ work[c] = "check"
    /\ IF cancelEvent
       THEN Return(c, "cancelled") /\ cancelEvent' = FALSE /\ UNCHANGED toPolicy
       ELSE /\ Step(c, "check", "select")
            /\ health[model[c]] # "dead"
            /\ toPolicy' = [toPolicy EXCEPT
                              ![model[c]] = Append(@, [of |-> c, kind |-> "select"])]
            /\ UNCHANGED cancelEvent
    /\ UNCHANGED <<callVars, busy, awaited, model, runtime, loads, health, fromPolicy,
                   policySession, canceller, overlapped, unanswered>>

ProcessGone(c) ==
    /\ work[c] \in {"session", "check"} /\ health[model[c]] = "dead"
    /\ work[c] = "session" => NewSession(c)
    /\ work[c] = "check" => ~cancelEvent
    /\ Return(c, "failed")
    /\ OnlyWork

Receive(c) == /\ fromPolicy[model[c]] # <<>>
              /\ fromPolicy' = [fromPolicy EXCEPT ![model[c]] = Tail(@)]

(* Whatever reply comes first is taken for the answer of the reset.        *)
ResetDone(c) ==
    /\ Step(c, "reset", "check")
    /\ Receive(c)
    /\ policySession' = c
    /\ UNCHANGED <<callVars, busy, awaited, model, runtime, loads, health, toPolicy,
                   cancelEvent, canceller, overlapped, unanswered>>

(* A reply without an action of the right shape is refused; then the       *)
(* cancel event is read for the second time.                               *)
Selected(c) ==
    /\ work[c] = "select"
    /\ Receive(c)
    /\ LET reply == Head(fromPolicy[model[c]])
           answer == IF reply.kind # "select" THEN "failed"
                     ELSE IF cancelEvent THEN "cancelled" ELSE "action"
       IN /\ Return(c, answer)
          /\ cancelEvent' = (cancelEvent /\ answer # "cancelled")
          /\ actions' = IF answer = "action" /\ awaited[c]
                        THEN [actions EXCEPT ![c] = @ \cup {reply.of}] ELSE actions
    /\ UNCHANGED <<server, rpc, calls, cancels, busy, awaited, model, runtime, loads,
                   health, toPolicy, policySession, canceller,
                   overlapped, unanswered>>

(* poll() times out, or the pipe is closed by the other end.               *)
NoReply(c) ==
    /\ work[c] \in {"reset", "select"}
    /\ Return(c, "failed")
    /\ unanswered' = IF unanswered = 2 THEN 2 ELSE unanswered + 1
    /\ UNCHANGED <<callVars, busy, awaited, model, runtime, pipeVars, cancelEvent,
                   policySession, canceller, overlapped>>

-----------------------------------------------------------------------------
(* The policy process: it answers in order, hangs, or dies of an error     *)
(* that it still reports.                                                  *)
Reply(p) ==
    /\ health[p] = "up" /\ toPolicy[p] # <<>>
    /\ fromPolicy' = [fromPolicy EXCEPT ![p] = Append(@, Head(toPolicy[p]))]
    /\ toPolicy' = [toPolicy EXCEPT ![p] = Tail(@)]
    /\ UNCHANGED <<callVars, busy, awaited, work, model, runtime, loads, health,
                   cancelEvent, policySession, canceller, overlapped, unanswered>>

Hang(p) ==
    /\ health[p] = "up" /\ toPolicy[p] # <<>>
    /\ health' = [health EXCEPT ![p] = "hung"]
    /\ UNCHANGED <<callVars, busy, awaited, work, model, runtime, loads, toPolicy,
                   fromPolicy, cancelEvent, policySession, canceller,
                   overlapped, unanswered>>

PolicyRaises(p) ==
    /\ health[p] = "up" /\ toPolicy[p] # <<>>
    /\ health' = Terminate(p)
    /\ UNCHANGED <<callVars, busy, awaited, work, model, runtime, loads, toPolicy,
                   fromPolicy, cancelEvent, policySession, canceller,
                   overlapped, unanswered>>

-----------------------------------------------------------------------------
Thread(c) ==
    \/ RejectRequest(c) \/ GetRuntime(c) \/ Load(c) \/ LoadFails(c)
    \/ Reset(c) \/ SameSession(c) \/ Check(c) \/ ProcessGone(c)
    \/ ResetDone(c) \/ Selected(c) \/ NoReply(c)

Next ==
    \/ Serve \/ CancelSkill \/ Release \/ Stop
    \/ \E c \in Callers : Execute(c) \/ Answer(c) \/ GiveUp(c) \/ Thread(c)
    \/ \E p \in Processes : Reply(p) \/ Hang(p) \/ PolicyRaises(p)

Spec == Init /\ [][Next]_policyVars

-----------------------------------------------------------------------------
(* A run is only ever handed actions inferred from its own observations,   *)
(* as long as the threads of two calls have not overlapped and one request *)
(* at most has gone unanswered: its late reply is taken by the reset of    *)
(* the next run, whose inference is then refused. After two, the reset and *)
(* the inference of a third run take the replies of a second.              *)
NoForeignAction ==
    ~overlapped /\ unanswered < 2 => \A c \in Callers : actions[c] \subseteq {c}

(* docs/architecture/model-service-rpc-proto.md: one servicer executes one *)
(* request at a time.                                                      *)
OneExecution == \A c, d \in Working : c = d
=============================================================================
