------------------------------ MODULE AgentDrive ------------------------------
(***************************************************************************)
(* Who drives the model of a session: Agent.prompt, steer and resume are   *)
(* called by the turn handler, by the skill events and by the control      *)
(* handler, each in its own task; a drive asks AgentRunner for decisions   *)
(* and runs the tools they name.  AgentTask.tla has what the tools do to   *)
(* tasks and runs and relies on there being one drive; here are the        *)
(* callers, who join, wait for or abort a drive, and the messages the      *)
(* model is sent: "text" is the assistant's, "call" and "result" a tool's. *)
(***************************************************************************)
EXTENDS Naturals, Sequences, FiniteSets, SequencesExt

CONSTANTS
    MaxTurns,   \* MAX_MODEL_TURNS_PER_WAKEUP
    Recent      \* messages of the conversation a context holds, 16 in the code

VARIABLES
    caller,     \* where each caller is, and the drive it waits for
    drive,      \* the tasks of _drive()
    current,    \* _run_task
    talk        \* the end of the conversation

driveVars == <<caller, drive, current, talk>>

Callers == {"turn", "event", "control"}
Drives == 1..4      \* one more than there are callers: one is always free
Roles == {"system", "user", "text", "call", "result"}
Idle == [at |-> "idle", on |-> 0]
Unused == [at |-> "none", turns |-> 0, cancelled |-> FALSE, messages |-> <<>>]
Ended == {"none", "replied", "waiting", "aborted"}

TypeOK ==
    /\ caller \in [Callers -> [at : {"idle", "queued", "aborting", "joined"},
                               on : Drives \cup {0}]]
    /\ \A d \in Drives :
          /\ drive[d].at \in Ended \cup {"model", "tool"}
          /\ drive[d].turns \in 0..MaxTurns /\ drive[d].cancelled \in BOOLEAN
          /\ Range(drive[d].messages) \subseteq Roles
    /\ current \in Drives \cup {0}
    /\ Range(talk) \subseteq {"user", "text"} /\ Len(talk) <= Recent

Init ==
    /\ caller = [c \in Callers |-> Idle]
    /\ drive = [d \in Drives |-> Unused]
    /\ current = 0 /\ talk = <<>>

Running(d) == d # 0 /\ drive[d].at \in {"model", "tool"}

-----------------------------------------------------------------------------
(* ConversationStore: append(), and recent() with its limit.               *)
Said(role) == LET all == Append(talk, role)
              IN  SubSeq(all, IF Len(all) > Recent THEN 2 ELSE 1, Len(all))

(* AgentContextBuilder                                                     *)
ForCommand == <<"system">> \o talk \o <<"user">>

ForResume == <<"system">> \o talk \o <<"call", "result">>

ToolResult == <<"call", "result">>

(* _launch_drive(): a drive that runs is joined, with its own messages.    *)
\* mutant: every launch creates a task of its own
NeverJoins(d) == FALSE

Joins(d) == Running(d)

Free == CHOOSE d \in Drives :
            /\ d # current /\ ~Running(d) /\ \A c \in Callers : caller[c].on # d

LaunchDrive(c, messages) ==
    IF Joins(current)
    THEN /\ caller' = [caller EXCEPT ![c] = [at |-> "joined", on |-> current]]
         /\ UNCHANGED <<drive, current>>
    ELSE /\ caller' = [caller EXCEPT ![c] = [at |-> "joined", on |-> Free]]
         /\ drive' = [drive EXCEPT ![Free] =
                        [Unused EXCEPT !.at = "model", !.messages = messages]]
         /\ current' = Free

(* _launch(): wait for the drive of an earlier command, then start.        *)
Launch(c) ==
    IF Running(current)
    THEN /\ caller' = [caller EXCEPT ![c] = [at |-> "queued", on |-> current]]
         /\ UNCHANGED <<drive, current, talk>>
    ELSE LaunchDrive(c, ForCommand) /\ talk' = Said("user")

Prompt == caller["turn"] = Idle /\ Launch("turn")

(* steer() while a run of the task is active: only the words are kept.     *)
Note ==
    /\ caller["turn"] = Idle /\ talk' = Said("user")
    /\ UNCHANGED <<caller, drive, current>>

(* steer(), abort_inference()                                              *)
Steer ==
    /\ caller["turn"] = Idle
    /\ IF Running(current)
       THEN /\ drive' = [drive EXCEPT ![current].cancelled = TRUE]
            /\ caller' = [caller EXCEPT !["turn"] = [at |-> "aborting", on |-> current]]
            /\ UNCHANGED <<current, talk>>
       ELSE Launch("turn")

(* What the caller waited for is over; another drive may run by now.       *)
Aborted ==
    /\ caller["turn"].at = "aborting" /\ ~Running(caller["turn"].on)
    /\ Launch("turn")

Queued ==
    /\ caller["turn"].at = "queued" /\ ~Running(caller["turn"].on)
    /\ LaunchDrive("turn", ForCommand) /\ talk' = Said("user")

(* resume(); an unknown or closed task returns at once.                    *)
Resume(c) ==
    /\ c # "turn" /\ caller[c] = Idle
    /\ LaunchDrive(c, ForResume) /\ UNCHANGED talk

(* The first caller to come back clears _run_task; each records the reply. *)
(* The task of _drive() is gone with the last one.                         *)
Return(c) ==
    /\ caller[c].at = "joined" /\ ~Running(caller[c].on)
    /\ current' = IF current = caller[c].on THEN 0 ELSE current
    /\ talk' = IF drive[caller[c].on].at = "replied" THEN Said("text") ELSE talk
    /\ caller' = [caller EXCEPT ![c] = Idle]
    /\ drive' = IF \E b \in Callers \ {c} : caller[b].on = caller[c].on THEN drive
                ELSE [drive EXCEPT ![caller[c].on] = Unused]

-----------------------------------------------------------------------------
DriveTo(d, at, more, turns) ==
    /\ drive' = [drive EXCEPT ![d] =
                    IF at \in Ended THEN [Unused EXCEPT !.at = at]
                    ELSE [drive[d] EXCEPT !.at = at, !.turns = turns,
                                          !.messages = drive[d].messages \o more]]
    /\ UNCHANGED <<caller, current, talk>>

(* The loop of _drive() goes on, unless the turns are used up.             *)
GoOn(d, more, turns) ==
    DriveTo(d, IF turns < MaxTurns THEN "model" ELSE "replied", more, turns)

Deciding(d) == drive[d].at = "model" /\ ~drive[d].cancelled

(* ModelClient.chat(): what a completion comes to; a request that fails    *)
(* is a response too.                                                      *)
Responses == {"error", "one call", "several calls", "words", "nothing"}

(* ToolRegistry.prepare() may refuse a call's name or arguments.           *)
Prepared(response) == response = "one call"

(* AgentRunner.run()                                                       *)
Decision(response, refused) ==
    IF Prepared(response) /\ ~refused THEN "proposed"
    ELSE IF response = "words" THEN "returned" ELSE "failed"

Decided(d, decision) ==
    /\ Deciding(d)
    /\ \E response \in Responses, refused \in BOOLEAN :
          Decision(response, refused) = decision

(* The task's deadline is over before the model is asked, or the model     *)
(* does not answer in time.                                                *)
TimesOut(d) == Deciding(d) /\ DriveTo(d, "replied", <<>>, drive[d].turns)

Fails(d) == Decided(d, "failed") /\ DriveTo(d, "replied", <<>>, drive[d].turns)

Proposes(d) == Decided(d, "proposed") /\ DriveTo(d, "tool", <<>>, drive[d].turns + 1)

(* Plain text is no answer: the model is told so.                          *)
Chats(d) ==
    Decided(d, "returned") /\ GoOn(d, <<"text", "user">>, drive[d].turns + 1)

(* AgentToolExecutor is done; its directive decides.                       *)
Acts(d) ==
    /\ drive[d].at = "tool" /\ ~drive[d].cancelled
    /\ \/ GoOn(d, ToolResult, drive[d].turns)
       \/ \E at \in {"waiting", "replied"} : DriveTo(d, at, ToolResult, drive[d].turns)

(* A cancellation takes effect wherever the drive awaits.                  *)
Aborts(d) ==
    /\ Running(d) /\ drive[d].cancelled
    /\ DriveTo(d, "aborted", <<>>, drive[d].turns)

Next ==
    \/ Prompt \/ Note \/ Steer \/ Aborted \/ Queued
    \/ \E c \in Callers : Resume(c) \/ Return(c)
    \/ \E d \in Drives : TimesOut(d) \/ Fails(d) \/ Proposes(d) \/ Chats(d) \/ Acts(d) \/ Aborts(d)

Spec == Init /\ [][Next]_driveVars

-----------------------------------------------------------------------------
(* However turns, events and controls meet, one drive of the session runs  *)
(* at most, and some caller waits for it: its reply is not lost.           *)
OneDrive ==
    \A d \in Drives :
        Running(d) => /\ \A e \in Drives : Running(e) => e = d
                      /\ \E c \in Callers : caller[c] = [at |-> "joined", on |-> d]

(* Every request to the model begins with the policy and asks for          *)
(* something, and every tool call in it is followed by its result.         *)
RequestsAreWhole ==
    \A d \in Drives :
        drive[d].at = "model" =>
            LET asked == drive[d].messages
            IN  /\ asked[1] = "system" /\ Last(asked) \in {"user", "result"}
                /\ \A i \in 2..Len(asked) : (asked[i] = "result") <=> (asked[i - 1] = "call")
=============================================================================
