------------------------------ MODULE Gateway ------------------------------
(***************************************************************************)
(* The gateway: a channel whose upstream redelivers (Feishu) turns         *)
(* messages into conversation turns, controls or identity bindings; the    *)
(* agent's results come back over the bus and are handed to the channel.   *)
(* Receipts (sqlite) and identity bindings (a json file) survive a crash   *)
(* of the gateway; the channel's memory of processed messages, the turns   *)
(* being routed and what the bus had queued for the gateway do not.        *)
(*                                                                         *)
(* Each delivery is a coroutine of its own; it can be overtaken at its     *)
(* awaits: the download of an attachment and the publication on the bus.   *)
(***************************************************************************)
EXTENDS Naturals, Sequences, FiniteSets, SequencesExt

CONSTANTS
    Msgs,           \* upstream messages
    Kind,           \* [Msgs -> {"prompt", "control", "bind"}]
    Sender,         \* [Msgs -> senders]
    WithMedia,      \* the messages whose attachment is downloaded first
    User,           \* the user id a binding code stands for
    Account,        \* the key of the channel's account, shared by its senders
    None,
    MaxSeen,        \* processed message ids the channel remembers (1000 in the code)
    MaxDeliveries,  \* bound: [Msgs -> deliveries of the message]
    MaxCrashes,     \* bound: crashes of the gateway
    MaxAnswers      \* bound: results the agent publishes for one interaction

VARIABLES
    up,         \* the gateway process is subscribed and its channel runs
    agentUp,    \* the agent service has subscribed to its topics
    pc,         \* coroutine of each delivery
    claim,      \* the interaction each delivery has claimed
    seen,       \* FeishuChannel._processed_message_ids, oldest first
    keys,       \* IdentityResolver._dynamic_bindings
    pending,    \* the binding code is pending
    saved,      \* bindings.json: [keys, pending], or None when torn or absent
    receipts,   \* interaction_receipts
    history,    \* episode records <<role, interaction>>
    turns,      \* conversation_turn messages on their way to the agent
    controls,   \* agent_control messages on their way to the agent
    results,    \* conversation_result messages on their way to the gateway
    replies,    \* agent_reply messages on their way to the gateway
    sending,    \* the reply in the hands of the channel
    answers,    \* number of results the agent has published
    open,       \* interactions whose task the agent still owns
    published,  \* history: turns and controls published, per interaction
    answered,   \* history: interactions whose final reply was handed to the channel
    claims,     \* history: successful claims of the binding code
    crashes

durable == <<keys, pending, saved, receipts, history>>
agent == <<turns, controls, answers, open, agentUp>>
outbound == <<results, replies, sending, answered>>
ghosts == <<published, claims>>
vars == <<up, pc, claim, seen, durable, agent, outbound, ghosts, crashes>>

Senders == {Sender[m] : m \in Msgs}
Deliveries == UNION {{m} \X (1..MaxDeliveries[m]) : m \in Msgs}
Key == Senders \cup {Account}
Interaction == {i \in [who : Senders \cup {User}, msg : Msgs] :
                    i.who \in {Sender[i.msg], User} /\ Kind[i.msg] # "bind"}
Identity == [keys : [Key -> {User, None}], pending : BOOLEAN]
Result == [id : Interaction, final : BOOLEAN]

Live == {"new", "download", "publish", "complete"}

TypeOK ==
    /\ up \in BOOLEAN /\ agentUp \in BOOLEAN
    /\ pc \in [Deliveries -> {"none", "done"} \cup Live]
    /\ claim \in [Deliveries -> Interaction \cup {None}]
    /\ seen \in Seq(Msgs) /\ Len(seen) <= MaxSeen
    /\ keys \in [Key -> {User, None}] /\ pending \in BOOLEAN
    /\ saved \in Identity \cup {None}
    /\ receipts \in [Interaction -> {"none", "processing", "completed"}]
    /\ history \subseteq {"user", "assistant"} \X Interaction
    /\ turns \in Seq(Interaction) /\ controls \in Seq(Interaction)
    /\ results \in Seq(Result) /\ replies \in Seq(Result)
    /\ sending \in Result \cup {None}
    /\ answers \in [Interaction -> 0..MaxAnswers]
    /\ open \subseteq Interaction
    /\ published \in [Interaction -> Nat]
    /\ answered \subseteq Interaction
    /\ claims \in Nat /\ crashes \in 0..MaxCrashes

NoKeys == [k \in Key |-> None]

Init ==
    /\ up = TRUE /\ agentUp = FALSE /\ crashes = 0
    /\ pc = [d \in Deliveries |-> "none"] /\ seen = <<>>
    /\ claim = [d \in Deliveries |-> None]
    /\ keys = NoKeys /\ pending = FALSE /\ saved = None
    /\ receipts = [i \in Interaction |-> "none"] /\ history = {}
    /\ turns = <<>> /\ controls = <<>> /\ results = <<>> /\ replies = <<>>
    /\ sending = None /\ open = {}
    /\ answers = [i \in Interaction |-> 0]
    /\ published = [i \in Interaction |-> 0]
    /\ answered = {} /\ claims = 0

-----------------------------------------------------------------------------
(* Identity. A binding is recorded under the sender's key and under the    *)
(* key of the channel account; the sender's own key is looked up first.    *)

Resolve(s) == IF keys[s] # None THEN keys[s] ELSE keys[Account]

Bind(s) == [keys EXCEPT ![s] = User, ![Account] = User]

InteractionOf(m) ==
    LET s == Sender[m]
    IN  [who |-> IF Resolve(s) # None THEN Resolve(s) ELSE s, msg |-> m]

(* A web client asks for a binding code; the web side's own keys are not   *)
(* ones a Feishu message looks up.                                         *)
CreateBinding ==
    /\ up /\ ~pending /\ claims = 0
    /\ pending' = TRUE
    /\ saved' = [keys |-> keys, pending |-> TRUE]
    /\ UNCHANGED <<up, pc, claim, seen, keys, receipts, history, agent, outbound, ghosts, crashes>>

(* The code reaches its expiry: whoever looks it up next drops it, and the *)
(* file is written again.                                                  *)
ExpireBinding ==
    /\ up /\ pending
    /\ pending' = FALSE
    /\ saved' = [keys |-> keys, pending |-> FALSE]
    /\ UNCHANGED <<up, pc, claim, seen, keys, receipts, history, agent, outbound, ghosts, crashes>>

-----------------------------------------------------------------------------
(* Inbound.                                                                *)

(* The upstream delivers or redelivers m: the websocket thread schedules a *)
(* coroutine on the gateway's loop.                                        *)
Deliver(d) ==
    /\ up /\ pc[d] = "none"
    /\ \A e \in Deliveries : e[1] = d[1] /\ e[2] < d[2] => pc[e] # "none"
    /\ pc' = [pc EXCEPT ![d] = "new"]
    /\ UNCHANGED <<up, claim, seen, durable, agent, outbound, ghosts, crashes>>

Remember(m) ==
    LET grown == Append(seen, m)
    IN  IF Len(grown) > MaxSeen THEN Tail(grown) ELSE grown

(* GatewayService._on_user_turn up to its first await.                     *)
ClaimBinding(d) ==
    LET m == d[1] IN
    /\ Kind[m] = "bind"
    /\ pc' = [pc EXCEPT ![d] = "done"]
    /\ IF pending
       THEN /\ keys' = Bind(Sender[m])
            /\ pending' = FALSE
            /\ saved' = [keys |-> keys', pending |-> FALSE]
            /\ claims' = claims + 1
       ELSE UNCHANGED <<keys, pending, saved, claims>>
    /\ UNCHANGED <<claim, receipts, history, published>>

\* mutant: the receipt is written when the turn is done with
ClaimReceiptLater(d) ==
    LET i == InteractionOf(d[1]) IN
    /\ Kind[d[1]] # "bind"
    /\ receipts[i] = "none"
    /\ history' = history \cup {<<"user", i>>}
    /\ pc' = [pc EXCEPT ![d] = "publish"]
    /\ claim' = [claim EXCEPT ![d] = i]
    /\ UNCHANGED <<keys, pending, saved, receipts, claims, published>>

ClaimReceipt(d) ==
    LET i == InteractionOf(d[1]) IN
    /\ Kind[d[1]] # "bind"
    /\ receipts[i] = "none"
    /\ receipts' = [receipts EXCEPT ![i] = "processing"]
    /\ history' = history \cup {<<"user", i>>}
    /\ pc' = [pc EXCEPT ![d] = "publish"]
    /\ claim' = [claim EXCEPT ![d] = i]
    /\ UNCHANGED <<keys, pending, saved, claims, published>>

IgnoreReplay(d) ==
    /\ Kind[d[1]] # "bind"
    /\ receipts[InteractionOf(d[1])] # "none"
    /\ pc' = [pc EXCEPT ![d] = "done"]
    /\ UNCHANGED <<claim, keys, pending, saved, receipts, history, ghosts>>

OnUserTurn(d) == ClaimBinding(d) \/ ClaimReceipt(d) \/ IgnoreReplay(d)

(* FeishuChannel._on_message: the message is remembered before anything is *)
(* done with it.                                                           *)
ReceiveDuplicate(d) ==
    /\ up /\ pc[d] = "new" /\ d[1] \in ToSet(seen)
    /\ pc' = [pc EXCEPT ![d] = "done"]
    /\ UNCHANGED <<up, claim, seen, durable, agent, outbound, ghosts, crashes>>

Receive(d) ==
    /\ up /\ pc[d] = "new" /\ d[1] \notin ToSet(seen)
    /\ seen' = Remember(d[1])
    /\ IF d[1] \in WithMedia
       THEN /\ pc' = [pc EXCEPT ![d] = "download"]
            /\ UNCHANGED <<claim, durable, ghosts>>
       ELSE OnUserTurn(d)
    /\ UNCHANGED <<up, agent, outbound, crashes>>

Downloaded(d) ==
    /\ up /\ pc[d] = "download"
    /\ OnUserTurn(d)
    /\ UNCHANGED <<up, seen, agent, outbound, crashes>>

DownloadFails(d) ==
    /\ up /\ pc[d] = "download"
    /\ pc' = [pc EXCEPT ![d] = "done"]
    /\ UNCHANGED <<up, claim, seen, durable, agent, outbound, ghosts, crashes>>

(* The turn or the control is published; the bus keeps nothing for an      *)
(* agent that has not subscribed yet.                                      *)
Publish(d) ==
    /\ up /\ pc[d] = "publish"
    /\ LET i == claim[d] IN
        /\ published' = [published EXCEPT ![i] = @ + 1]
        /\ IF Kind[d[1]] = "control"
           THEN /\ controls' = IF agentUp THEN Append(controls, i) ELSE controls
                /\ pc' = [pc EXCEPT ![d] = "complete"]
                /\ UNCHANGED <<turns, claim>>
           ELSE /\ turns' = IF agentUp THEN Append(turns, i) ELSE turns
                /\ pc' = [pc EXCEPT ![d] = "done"]
                /\ claim' = [claim EXCEPT ![d] = None]
                /\ UNCHANGED controls
    /\ UNCHANGED <<up, seen, durable, answers, open, agentUp, outbound, claims, crashes>>

(* InteractionReceiptStore.complete.                                       *)
Completed(i) == receipts' = [receipts EXCEPT ![i] = "completed"]

(* A safety command's receipt is completed once the control is out.        *)
CompleteControl(d) ==
    /\ up /\ pc[d] = "complete"
    /\ pc' = [pc EXCEPT ![d] = "done"]
    /\ Completed(claim[d])
    /\ claim' = [claim EXCEPT ![d] = None]
    /\ UNCHANGED <<up, seen, keys, pending, saved, history, agent, outbound, ghosts, crashes>>

-----------------------------------------------------------------------------
(* The agent service, as the gateway sees it: an answer is nothing (the    *)
(* turn was cancelled or failed), a final text, or a text that is not      *)
(* final while a task goes on. Results for a gateway that is down are lost.*)

AgentSubscribes ==
    /\ ~agentUp /\ agentUp' = TRUE
    /\ UNCHANGED <<up, pc, claim, seen, durable, turns, controls, answers, open, outbound, ghosts, crashes>>

PublishResult(i, final) ==
    /\ answers[i] < MaxAnswers
    /\ answers' = [answers EXCEPT ![i] = @ + 1]
    /\ results' = IF up THEN Append(results, [id |-> i, final |-> final]) ELSE results

AnswerTurn ==
    /\ turns # <<>> /\ turns' = Tail(turns)
    /\ LET i == Head(turns) IN
        \/ UNCHANGED <<answers, results, open>>
        \/ PublishResult(i, TRUE) /\ UNCHANGED open
        \/ PublishResult(i, FALSE) /\ open' = open \cup {i}
    /\ UNCHANGED <<up, pc, claim, seen, durable, controls, agentUp, replies, sending, answered, ghosts, crashes>>

AnswerControl ==
    /\ controls # <<>> /\ controls' = Tail(controls)
    /\ PublishResult(Head(controls), TRUE)
    /\ UNCHANGED <<up, pc, claim, seen, durable, turns, open, agentUp, replies, sending, answered, ghosts, crashes>>

(* A skill of the interaction's task ended and the agent was resumed.      *)
ResumeTask(i) ==
    /\ i \in open
    /\ \/ PublishResult(i, TRUE) /\ open' = open \ {i}
       \/ PublishResult(i, FALSE) /\ UNCHANGED open
    /\ UNCHANGED <<up, pc, claim, seen, durable, turns, controls, agentUp, replies, sending, answered, ghosts, crashes>>

-----------------------------------------------------------------------------
(* Outbound. A subscription hands over one message at a time.              *)

OnConversationResult ==
    /\ up /\ results # <<>>
    /\ results' = Tail(results)
    /\ replies' = Append(replies, Head(results))
    /\ UNCHANGED <<up, pc, claim, seen, durable, agent, sending, answered, ghosts, crashes>>

OnAgentReply ==
    /\ up /\ replies # <<>> /\ sending = None
    /\ sending' = Head(replies) /\ replies' = Tail(replies)
    /\ history' = IF sending'.final THEN history \cup {<<"assistant", sending'.id>>}
                                    ELSE history
    /\ UNCHANGED <<up, pc, claim, seen, keys, pending, saved, receipts, agent, results, answered, ghosts, crashes>>

ReplySent ==
    /\ up /\ sending # None /\ sending' = None
    /\ IF sending.final
       THEN /\ answered' = answered \cup {sending.id}
            /\ Completed(sending.id)
       ELSE UNCHANGED <<answered, receipts>>
    /\ UNCHANGED <<up, pc, claim, seen, keys, pending, saved, history, agent, results, replies, ghosts, crashes>>

(* The channel raises (an attachment cannot be uploaded): the handler is   *)
(* left before the receipt is completed.                                   *)
ReplyFails ==
    /\ up /\ sending # None /\ sending' = None
    /\ UNCHANGED <<up, pc, claim, seen, durable, agent, results, replies, answered, ghosts, crashes>>

-----------------------------------------------------------------------------
(* Crash and restart of the gateway.                                       *)

LoseMemory ==
    /\ up /\ crashes < MaxCrashes
    /\ crashes' = crashes + 1
    /\ up' = FALSE
    /\ pc' = [d \in Deliveries |-> IF pc[d] \in Live THEN "done" ELSE pc[d]]
    /\ claim' = [d \in Deliveries |-> None]
    /\ seen' = <<>>
    /\ results' = <<>> /\ replies' = <<>> /\ sending' = None
    /\ keys' = NoKeys /\ pending' = FALSE
    /\ UNCHANGED <<receipts, history, agent, answered, ghosts>>

Crash == LoseMemory /\ UNCHANGED saved

(* The bindings are written in place: a crash while a claim or a new code  *)
(* is being saved leaves a file that does not parse.                       *)
CrashInSave ==
    /\ pending \/ \E d \in Deliveries : pc[d] \in {"new", "download"} /\ Kind[d[1]] = "bind"
    /\ LoseMemory
    /\ saved' = None

Restart ==
    /\ ~up /\ up' = TRUE
    /\ keys' = IF saved = None THEN NoKeys ELSE saved.keys
    /\ pending' = IF saved = None THEN FALSE ELSE saved.pending
    /\ UNCHANGED <<pc, claim, seen, saved, receipts, history, agent, outbound, ghosts, crashes>>

-----------------------------------------------------------------------------
Inbound(d) ==
    \/ ReceiveDuplicate(d) \/ Receive(d) \/ Downloaded(d) \/ DownloadFails(d)
    \/ Publish(d) \/ CompleteControl(d)

Outbound == OnConversationResult \/ OnAgentReply \/ ReplySent \/ ReplyFails

Agent ==
    \/ AgentSubscribes \/ AnswerTurn \/ AnswerControl
    \/ \E i \in Interaction : ResumeTask(i)

Next ==
    \/ \E d \in Deliveries : Deliver(d) \/ Inbound(d)
    \/ CreateBinding \/ ExpireBinding
    \/ Agent \/ Outbound
    \/ Crash \/ CrashInSave \/ Restart

Spec == Init /\ [][Next]_vars

-----------------------------------------------------------------------------
(* An interaction is routed to the agent at most once, however often the   *)
(* upstream redelivers it and the gateway restarts.                        *)
RoutedOnce == \A i \in Interaction : published[i] <= 1

(* A receipt is completed only for an interaction whose final reply was    *)
(* handed to the channel or whose control has been published: a reply that *)
(* the channel refuses, or that a crash loses, leaves it open.             *)
CompletedIsAnswered ==
    \A i \in Interaction : receipts[i] = "completed" =>
        i \in answered \/ (Kind[i.msg] = "control" /\ published[i] > 0)

(* The episode never holds an answer without the turn it answers, and no   *)
(* turn reaches the agent that the episode does not hold.                  *)
EpisodeHasTheTurn ==
    \A i \in Interaction :
        <<"assistant", i>> \in history \/ published[i] > 0 => <<"user", i>> \in history
=============================================================================
