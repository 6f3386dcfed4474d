--------------------------- MODULE ChannelsProofs ---------------------------
(***************************************************************************)
(* Theorems about Channels, for every value of the constants.  Each        *)
(* component has an inductive invariant of its own; a step of another      *)
(* leaves its variables alone (ChannelSteps).                              *)
(*                                                                         *)
(* The gateway.  RoutedOnce rests on the order of the receipt and the      *)
(* publication: while an interaction has no receipt nobody is about to     *)
(* publish it, and once it has one a single delivery is, before the count  *)
(* leaves 0.  What is said of receipts and episodes holds because          *)
(* everything on its way - turn, control, result, reply - is of an         *)
(* interaction whose turn is in the episode.                               *)
(*                                                                         *)
(* What is on its way. The other invariants relate what was sent, what is  *)
(* still under way and what has arrived: the messages of a synthesis count *)
(* the audio on from one to the next (SynthesisInv), the last answer that  *)
(* brings a text brings the one the recognition service gave last          *)
(* (RecognitionInv), and the parts of a reply follow one another through   *)
(* the queue, the page or the chat.                                        *)
(*                                                                         *)
(* Types. A component's types are its invariant and a predicate ...Rest    *)
(* that bounds what the invariant leaves open.                             *)
(***************************************************************************)
EXTENDS Channels, SequenceTheorems, TLAPS

(* Whichever component moves, each one steps or stutters.                  *)
LEMMA ChannelSteps ==
    ASSUME [ChannelsNext]_channelVars
    PROVE  /\ [Gw!Next]_(Gw!vars) /\ [Fr!Next]_(Fr!feishuVars) /\ [Wc!Next]_(Wc!chatVars)
           /\ [Vl!Next]_(Vl!voiceVars) /\ [Pp!Next]_(Pp!pcmVars)
           /\ [Sr!Next]_(Sr!recognitionVars) /\ [Ss!Next]_(Ss!synthesisVars)
BY DEF ChannelsNext, channelVars, GatewayStep, FeishuStep, WebStep, VoiceStep, AudioStep,
       RecognitionStep, SynthesisStep, gatewayVars, feishuVars, webVars, voiceVars,
       audioVars, speechVars, recognitionVars, synthesisVars, Sr!recognitionVars,
       Ss!synthesisVars, Gw!vars, Gw!durable, Gw!agent, Gw!outbound, Gw!ghosts,
       Fr!feishuVars, Wc!chatVars, Vl!voiceVars, Pp!pcmVars

-----------------------------------------------------------------------------
(* The gateway.                                                            *)
States == {"none", "done"} \cup Gw!Live

\* The types of what the argument looks at.
GatewayShape ==
    /\ pc \in [Gw!Deliveries -> States]
    /\ DOMAIN claim = Gw!Deliveries
    /\ keys \in [Gw!Key -> {User, NoOne}] /\ saved \in Gw!Identity \cup {NoOne}
    /\ receipts \in [Gw!Interaction -> {"none", "processing", "completed"}]
    /\ published \in [Gw!Interaction -> Nat]

Holds(d, i) == pc[d] = "publish" /\ claim[d] = i

Routing ==
    \A i \in Gw!Interaction :
        /\ receipts[i] = "none" => published[i] = 0 /\ \A d \in Gw!Deliveries : ~Holds(d, i)
        /\ published[i] <= 1
        /\ \A d \in Gw!Deliveries :
              Holds(d, i) => /\ published[i] = 0
                             /\ \A e \in Gw!Deliveries : Holds(e, i) => e = d

\* The interactions whose turn the episode holds, and the results of these.
Told == {i \in Gw!Interaction : <<"user", i>> \in gatewayHistory}
ToldResult == [id : Told, final : BOOLEAN]

\* A delivery that has its receipt stands for its own message.
Claiming ==
    \A d \in Gw!Deliveries :
        /\ pc[d] \in {"publish", "complete"} => claim[d] \in Told /\ claim[d].msg = d[1]
        /\ pc[d] = "complete" => Kind[d[1]] = "control" /\ published[claim[d]] > 0

\* What is on its way.
GatewayFlow ==
    /\ turns \in Seq(Told) /\ gatewayControls \in Seq(Told) /\ open \in SUBSET Told
    /\ gatewayResults \in Seq(ToldResult) /\ replies \in Seq(ToldResult)
    /\ sending \in ToldResult \cup {NoOne}

GatewayInv ==
    /\ GatewayShape /\ Routing /\ Claiming /\ GatewayFlow
    /\ Gw!EpisodeHasTheTurn /\ Gw!CompletedIsAnswered

\* What most steps leave alone.
GatewayCore == <<pc, claim, keys, saved, receipts, gatewayHistory, published, answered>>
Carriers == <<turns, gatewayControls, open, gatewayResults, replies, sending>>

-----------------------------------------------------------------------------
LEMMA DeliveryOfMessage == ASSUME NEW d \in Gw!Deliveries PROVE d[1] \in Msgs
BY DEF Gw!Deliveries

\* A sender is resolved to itself or to the bound user.
LEMMA InteractionIsOne ==
    ASSUME GatewayShape, NEW m \in Msgs, Kind[m] # "bind"
    PROVE  Gw!InteractionOf(m) \in Gw!Interaction /\ Gw!InteractionOf(m).msg = m
<1>1. Sender[m] \in Gw!Senders
  BY DEF Gw!Senders
<1>2. Sender[m] \in Gw!Key /\ Account \in Gw!Key
  BY <1>1 DEF Gw!Key
<1>3. Gw!Resolve(Sender[m]) \in {User, NoOne}
  BY <1>2 DEF Gw!Resolve, GatewayShape
<1> QED
  BY <1>1, <1>3 DEF Gw!InteractionOf, Gw!Interaction

LEMMA SeqGrows ==
    ASSUME NEW S, NEW T, S \in SUBSET T, NEW s \in Seq(S) PROVE s \in Seq(T)
BY SeqDef

\* An episode only grows, and with it what may be on its way.
LEMMA ToldGrows ==
    ASSUME gatewayHistory \in SUBSET (gatewayHistory') PROVE Told \in SUBSET (Told') /\ ToldResult \in SUBSET (ToldResult')
BY DEF Told, ToldResult

LEMMA ToldStays ==
    ASSUME gatewayHistory' = gatewayHistory PROVE Told' = Told /\ ToldResult' = ToldResult
BY DEF Told, ToldResult

LEMMA FlowGrows ==
    ASSUME GatewayFlow, gatewayHistory \in SUBSET (gatewayHistory'), UNCHANGED Carriers PROVE GatewayFlow'
<1>1. Told \in SUBSET (Told') /\ ToldResult \in SUBSET (ToldResult')
  BY ToldGrows
<1>2. turns \in Seq(Told') /\ gatewayControls \in Seq(Told')
  BY <1>1, SeqGrows DEF GatewayFlow
<1>3. gatewayResults \in Seq(ToldResult') /\ replies \in Seq(ToldResult')
  BY <1>1, SeqGrows DEF GatewayFlow
<1>4. open \in SUBSET (Told') /\ sending \in (ToldResult') \cup {NoOne}
  BY <1>1 DEF GatewayFlow
<1> QED
  BY <1>2, <1>3, <1>4 DEF GatewayFlow, Carriers

\* The steps that only move what is on its way.
LEMMA CoreStays ==
    ASSUME GatewayInv, UNCHANGED GatewayCore, GatewayFlow'
    PROVE  GatewayInv'
BY ToldStays DEF GatewayCore, GatewayInv, GatewayShape, Routing, Claiming, Holds,
   Gw!EpisodeHasTheTurn, Gw!CompletedIsAnswered

LEMMA GatewayInit == Gw!Init => GatewayInv
BY DEF Gw!Init, GatewayInv, GatewayShape, Routing, Claiming, GatewayFlow, Holds,
   Gw!EpisodeHasTheTurn, Gw!CompletedIsAnswered, States, Gw!NoKeys, Gw!Identity

-----------------------------------------------------------------------------
\* A step that takes deliveries to places where they hold no receipt.
LEMMA LeavesKeep ==
    ASSUME GatewayInv, pc' \in [Gw!Deliveries -> States], DOMAIN claim' = Gw!Deliveries,
           \A d \in Gw!Deliveries : pc'[d] \in {"publish", "complete"} =>
                                     pc'[d] = pc[d] /\ claim'[d] = claim[d],
           keys' \in [Gw!Key -> {User, NoOne}], saved' \in Gw!Identity \cup {NoOne},
           UNCHANGED <<receipts, gatewayHistory, published, answered>>, GatewayFlow'
    PROVE  GatewayInv'
<1>1. Told' = Told
  BY ToldStays
<1>2. GatewayShape'
  BY DEF GatewayInv, GatewayShape
<1>3. \A d \in Gw!Deliveries, i \in Gw!Interaction : Holds(d, i)' => Holds(d, i)
  BY DEF Holds
<1>4. Routing'
  BY <1>3 DEF GatewayInv, Routing
<1>5. Claiming'
  BY <1>1 DEF GatewayInv, Claiming
<1>6. Gw!EpisodeHasTheTurn' /\ Gw!CompletedIsAnswered'
  BY DEF GatewayInv, Gw!EpisodeHasTheTurn, Gw!CompletedIsAnswered
<1> QED
  BY <1>2, <1>4, <1>5, <1>6 DEF GatewayInv

\* GatewayService._on_user_turn(): the binding, the receipt or nothing.
LEMMA OnUserTurnKeeps ==
    ASSUME GatewayInv, NEW d \in Gw!Deliveries, pc[d] \in {"new", "download"}, Gw!OnUserTurn(d),
           UNCHANGED <<Carriers, answered>>
    PROVE  GatewayInv'
<1>1. CASE Gw!ClaimBinding(d)
  <2>1. d[1] \in Msgs
    BY DeliveryOfMessage
  <2>2. keys' \in [Gw!Key -> {User, NoOne}] /\ saved' \in Gw!Identity \cup {NoOne}
    <3>1. keys' \in [Gw!Key -> {User, NoOne}]
      BY <1>1 DEF Gw!ClaimBinding, Gw!Bind, GatewayInv, GatewayShape
    <3>2. saved' = saved \/ saved' = [keys |-> keys', pending |-> FALSE]
      BY <1>1 DEF Gw!ClaimBinding
    <3>3. [keys |-> keys', pending |-> FALSE] \in Gw!Identity
      BY <3>1 DEF Gw!Identity
    <3> QED
      BY <3>1, <3>2, <3>3 DEF GatewayInv, GatewayShape
  <2>3. GatewayFlow'
    BY <1>1, FlowGrows DEF Gw!ClaimBinding, GatewayInv
  <2> QED
    BY <1>1, <2>2, <2>3, LeavesKeep DEF Gw!ClaimBinding, GatewayInv, GatewayShape, States,
       Gw!Live
<1>2. CASE Gw!IgnoreReplay(d)
  <2>1. GatewayFlow'
    BY <1>2, FlowGrows DEF Gw!IgnoreReplay, GatewayInv
  <2> QED
    BY <1>2, <2>1, LeavesKeep DEF Gw!IgnoreReplay, Gw!ghosts, GatewayInv, GatewayShape,
       States, Gw!Live
<1>3. CASE Gw!ClaimReceipt(d)
  <2> DEFINE i == Gw!InteractionOf(d[1])
  <2>1. i \in Gw!Interaction /\ i.msg = d[1]
    BY <1>3, DeliveryOfMessage, InteractionIsOne DEF Gw!ClaimReceipt, GatewayInv
  <2>2. /\ receipts[i] = "none" /\ receipts' = [receipts EXCEPT ![i] = "processing"]
        /\ gatewayHistory' = gatewayHistory \cup {<<"user", i>>}
        /\ pc' = [pc EXCEPT ![d] = "publish"] /\ claim' = [claim EXCEPT ![d] = i]
        /\ UNCHANGED <<keys, saved, published, answered>>
    BY <1>3 DEF Gw!ClaimReceipt
  <2> HIDE DEF i
  <2>3. GatewayFlow'
    BY <2>2, FlowGrows DEF GatewayInv
  <2>4. Told \in SUBSET (Told') /\ i \in Told'
    BY <2>1, <2>2 DEF Told
  <2>5. GatewayShape'
    BY <2>2 DEF GatewayInv, GatewayShape, States, Gw!Live
  <2>6. Routing'
    BY <2>1, <2>2 DEF GatewayInv, GatewayShape, Routing, Holds
  <2>7. Claiming'
    BY <2>1, <2>2, <2>4 DEF GatewayInv, GatewayShape, Claiming
  <2>8. Gw!EpisodeHasTheTurn' /\ Gw!CompletedIsAnswered'
    BY <2>1, <2>2 DEF GatewayInv, GatewayShape, Gw!EpisodeHasTheTurn,
       Gw!CompletedIsAnswered
  <2> QED
    BY <2>3, <2>5, <2>6, <2>7, <2>8 DEF GatewayInv
<1> QED
  BY <1>1, <1>2, <1>3 DEF Gw!OnUserTurn

\* What reaches the gateway from its channel.
LEMMA InboundKeeps == ASSUME GatewayInv, NEW d \in Gw!Deliveries, Gw!Inbound(d) PROVE GatewayInv'
<1>1. CASE Gw!ReceiveDuplicate(d)
  <2>1. GatewayFlow'
    BY <1>1, FlowGrows DEF Gw!ReceiveDuplicate, Gw!durable, Gw!agent, Gw!outbound,
       Carriers, GatewayInv
  <2> QED
    BY <1>1, <2>1, LeavesKeep DEF Gw!ReceiveDuplicate, Gw!durable, Gw!outbound, Gw!ghosts,
       GatewayInv, GatewayShape, States, Gw!Live
<1>2. CASE Gw!DownloadFails(d)
  <2>1. GatewayFlow'
    BY <1>2, FlowGrows DEF Gw!DownloadFails, Gw!durable, Gw!agent, Gw!outbound, Carriers,
       GatewayInv
  <2> QED
    BY <1>2, <2>1, LeavesKeep DEF Gw!DownloadFails, Gw!durable, Gw!outbound, Gw!ghosts,
       GatewayInv, GatewayShape, States, Gw!Live
<1>3. CASE Gw!Downloaded(d)
  BY <1>3, OnUserTurnKeeps DEF Gw!Downloaded, Gw!agent, Gw!outbound, Carriers
<1>4. CASE Gw!Receive(d) /\ d[1] \notin WithMedia
  BY <1>4, OnUserTurnKeeps DEF Gw!Receive, Gw!agent, Gw!outbound, Carriers
<1>5. CASE Gw!Receive(d) /\ d[1] \in WithMedia
  <2>1. GatewayFlow'
    BY <1>5, FlowGrows DEF Gw!Receive, Gw!durable, Gw!agent, Gw!outbound, Carriers,
       GatewayInv
  <2> QED
    BY <1>5, <2>1, LeavesKeep DEF Gw!Receive, Gw!durable, Gw!outbound, Gw!ghosts,
       GatewayInv, GatewayShape, States, Gw!Live
<1>6. CASE Gw!Publish(d)
  <2> DEFINE i == claim[d]
  <2>1. /\ i \in Told /\ i \in Gw!Interaction /\ i.msg = d[1]
        /\ Holds(d, i) /\ published[i] = 0 /\ receipts[i] # "none"
    BY <1>6 DEF Gw!Publish, GatewayInv, Claiming, Told, Routing, Holds
  <2>2. /\ published' = [published EXCEPT ![i] = @ + 1]
        /\ UNCHANGED <<keys, saved, receipts, gatewayHistory, open, answered, gatewayResults, replies, sending>>
        /\ turns' \in {turns, Append(turns, i)} /\ gatewayControls' \in {gatewayControls, Append(gatewayControls, i)}
    BY <1>6 DEF Gw!Publish, Gw!durable, Gw!outbound
  <2>3. \/ pc' = [pc EXCEPT ![d] = "complete"] /\ claim' = claim /\ Kind[d[1]] = "control"
        \/ pc' = [pc EXCEPT ![d] = "done"] /\ claim' = [claim EXCEPT ![d] = NoOne]
    BY <1>6 DEF Gw!Publish
  <2> HIDE DEF i
  <2>4. Told' = Told /\ ToldResult' = ToldResult
    BY <2>2, ToldStays
  <2>5. GatewayFlow'
    <3>1. turns' \in Seq(Told) /\ gatewayControls' \in Seq(Told)
      <4>1. turns \in Seq(Told) /\ gatewayControls \in Seq(Told)
        BY DEF GatewayInv, GatewayFlow
      <4>2. Append(turns, i) \in Seq(Told) /\ Append(gatewayControls, i) \in Seq(Told)
        BY <2>1, <4>1
      <4> QED
        BY <2>2, <4>1, <4>2
    <3> QED
      BY <2>2, <2>4, <3>1 DEF GatewayInv, GatewayFlow
  <2>6. GatewayShape'
    <3>1. published' \in [Gw!Interaction -> Nat]
      <4>1. published \in [Gw!Interaction -> Nat]
        BY DEF GatewayInv, GatewayShape
      <4>2. published[i] + 1 \in Nat
        BY <2>1
      <4> QED
        BY <2>2, <4>1, <4>2
    <3>2. pc' \in [Gw!Deliveries -> States] /\ DOMAIN claim' = Gw!Deliveries
      BY <2>3 DEF GatewayInv, GatewayShape, States, Gw!Live
    <3> QED
      BY <2>2, <3>1, <3>2 DEF GatewayInv, GatewayShape
  <2>7. \A e \in Gw!Deliveries, x \in Gw!Interaction : Holds(e, x)' => e # d /\ Holds(e, x)
    BY <2>3 DEF Holds, GatewayInv, GatewayShape
  <2>8. Routing'
    BY <2>1, <2>2, <2>7 DEF GatewayInv, GatewayShape, Routing
  <2>9. \A e \in Gw!Deliveries :
            pc'[e] \in {"publish", "complete"} => claim'[e] = claim[e] /\ (e # d => pc'[e] = pc[e])
    BY <2>3 DEF GatewayInv, GatewayShape
  <2>10. \A x \in Gw!Interaction : published[x] > 0 => published'[x] > 0
    BY <2>2 DEF GatewayInv, GatewayShape
  <2>11. claim'[d] = i \/ pc'[d] = "done"
    BY <2>3 DEF GatewayInv, GatewayShape, i
  <2>12. Claiming'
    <3>1. published'[i] > 0
      BY <2>1, <2>2 DEF GatewayInv, GatewayShape
    <3>2. \A e \in Gw!Deliveries \ {d} : pc'[e] \in {"publish", "complete"} =>
             claim'[e] = claim[e] /\ pc'[e] = pc[e] /\ claim[e] \in Told /\ claim[e] \in Gw!Interaction
      BY <2>9 DEF GatewayInv, Claiming, Told
    <3>3. pc'[d] = "complete" => Kind[d[1]] = "control"
      BY <2>3 DEF GatewayInv, GatewayShape
    <3>4. pc'[d] # "publish"
      BY <2>3 DEF GatewayInv, GatewayShape
    <3> QED
      BY <2>1, <2>4, <2>10, <2>11, <3>1, <3>2, <3>3, <3>4 DEF GatewayInv, Claiming
  <2>13. Gw!EpisodeHasTheTurn' /\ Gw!CompletedIsAnswered'
    <3>1. \A x \in Gw!Interaction \ {i} : published'[x] = published[x]
      BY <2>2 DEF GatewayInv, GatewayShape
    <3>2. Gw!EpisodeHasTheTurn'
      BY <2>1, <2>2, <3>1 DEF GatewayInv, Gw!EpisodeHasTheTurn, Told
    <3>3. Gw!CompletedIsAnswered'
      BY <2>2, <2>10 DEF GatewayInv, Gw!CompletedIsAnswered
    <3> QED
      BY <3>2, <3>3
  <2> QED
    BY <2>5, <2>6, <2>8, <2>12, <2>13 DEF GatewayInv
<1>7. CASE Gw!CompleteControl(d)
  <2> DEFINE i == claim[d]
  <2>1. i \in Gw!Interaction /\ i.msg = d[1] /\ Kind[d[1]] = "control" /\ published[i] > 0
    BY <1>7 DEF Gw!CompleteControl, GatewayInv, Claiming, Told
  <2>2. /\ pc' = [pc EXCEPT ![d] = "done"] /\ claim' = [claim EXCEPT ![d] = NoOne]
        /\ receipts' = [receipts EXCEPT ![i] = "completed"]
        /\ UNCHANGED <<keys, saved, gatewayHistory, published, answered>> /\ UNCHANGED Carriers
    BY <1>7 DEF Gw!CompleteControl, Gw!Completed, Gw!agent, Gw!outbound, Gw!ghosts,
       Carriers
  <2> HIDE DEF i
  <2>3. Told' = Told
    BY <2>2, ToldStays
  <2>4. GatewayFlow'
    BY <2>2, FlowGrows DEF GatewayInv
  <2>5. GatewayShape' /\ Claiming'
    BY <2>2, <2>3 DEF GatewayInv, GatewayShape, Claiming, States, Gw!Live
  <2>6. Routing'
    BY <2>1, <2>2 DEF GatewayInv, GatewayShape, Routing, Holds
  <2>7. Gw!EpisodeHasTheTurn' /\ Gw!CompletedIsAnswered'
    BY <2>1, <2>2 DEF GatewayInv, GatewayShape, Gw!EpisodeHasTheTurn,
       Gw!CompletedIsAnswered
  <2> QED
    BY <2>4, <2>5, <2>6, <2>7 DEF GatewayInv
<1> QED
  BY <1>1, <1>2, <1>3, <1>4, <1>5, <1>6, <1>7 DEF Gw!Inbound

\* The agent's answers, and what the gateway does with them.
LEMMA ResultPublished ==
    ASSUME GatewayInv, NEW i \in Told, NEW final \in BOOLEAN, Gw!PublishResult(i, final)
    PROVE  gatewayResults' \in Seq(ToldResult)
<1>1. [id |-> i, final |-> final] \in ToldResult
  BY DEF ToldResult
<1>2. Append(gatewayResults, [id |-> i, final |-> final]) \in Seq(ToldResult)
  BY <1>1 DEF GatewayInv, GatewayFlow
<1> QED
  BY <1>2 DEF Gw!PublishResult, GatewayInv, GatewayFlow

LEMMA AgentKeeps == ASSUME GatewayInv, Gw!Agent PROVE GatewayInv'
<1> SUFFICES UNCHANGED GatewayCore /\ (Told' = Told /\ ToldResult' = ToldResult => GatewayFlow')
  BY CoreStays, ToldStays DEF GatewayCore
<1>1. CASE Gw!AgentSubscribes
  BY <1>1 DEF Gw!AgentSubscribes, Gw!durable, Gw!outbound, Gw!ghosts, GatewayCore,
     GatewayInv, GatewayFlow
<1>2. CASE Gw!AnswerTurn
  <2> DEFINE i == Head(turns)
  <2>1. i \in Told /\ turns' \in Seq(Told)
    BY <1>2 DEF Gw!AnswerTurn, GatewayInv, GatewayFlow
  <2>2. \/ UNCHANGED <<gatewayResults, open>>
        \/ Gw!PublishResult(i, TRUE) /\ UNCHANGED open
        \/ Gw!PublishResult(i, FALSE) /\ open' = open \cup {i}
    BY <1>2 DEF Gw!AnswerTurn
  <2>3. gatewayResults' \in Seq(ToldResult)
    BY <2>1, <2>2, ResultPublished DEF GatewayInv, GatewayFlow
  <2>4. open' \in SUBSET Told
    BY <2>1, <2>2 DEF GatewayInv, GatewayFlow
  <2> QED
    BY <1>2, <2>1, <2>3, <2>4 DEF Gw!AnswerTurn, Gw!durable, Gw!ghosts, GatewayCore,
       GatewayInv, GatewayFlow
<1>3. CASE Gw!AnswerControl
  <2>1. Head(gatewayControls) \in Told /\ gatewayControls' \in Seq(Told)
    BY <1>3 DEF Gw!AnswerControl, GatewayInv, GatewayFlow
  <2>2. gatewayResults' \in Seq(ToldResult)
    BY <1>3, <2>1, ResultPublished DEF Gw!AnswerControl
  <2> QED
    BY <1>3, <2>1, <2>2 DEF Gw!AnswerControl, Gw!durable, Gw!ghosts, GatewayCore,
       GatewayInv, GatewayFlow
<1>4. ASSUME NEW i \in Gw!Interaction, Gw!ResumeTask(i)
      PROVE  UNCHANGED GatewayCore /\ (Told' = Told /\ ToldResult' = ToldResult => GatewayFlow')
  <2>1. i \in Told /\ open' \in SUBSET Told
    BY <1>4 DEF Gw!ResumeTask, GatewayInv, GatewayFlow
  <2>2. gatewayResults' \in Seq(ToldResult)
    BY <1>4, <2>1, ResultPublished DEF Gw!ResumeTask
  <2> QED
    BY <1>4, <2>1, <2>2 DEF Gw!ResumeTask, Gw!durable, Gw!ghosts, GatewayCore, GatewayInv,
       GatewayFlow
<1> QED
  BY <1>1, <1>2, <1>3, <1>4 DEF Gw!Agent

LEMMA OutboundKeeps == ASSUME GatewayInv, Gw!Outbound PROVE GatewayInv'
<1>1. CASE Gw!OnConversationResult
  <2>1. Head(gatewayResults) \in ToldResult /\ gatewayResults' \in Seq(ToldResult)
    BY <1>1 DEF Gw!OnConversationResult, GatewayInv, GatewayFlow
  <2>2. replies' \in Seq(ToldResult)
    BY <1>1, <2>1 DEF Gw!OnConversationResult, GatewayInv, GatewayFlow
  <2>3. GatewayFlow'
    BY <1>1, <2>1, <2>2, ToldStays DEF Gw!OnConversationResult, Gw!durable, Gw!agent,
       GatewayInv, GatewayFlow
  <2> QED
    BY <1>1, <2>3, CoreStays DEF Gw!OnConversationResult, Gw!durable, Gw!ghosts,
       GatewayCore
<1>2. CASE Gw!OnAgentReply
  <2>1. sending' \in ToldResult /\ sending'.id \in Told /\ replies' \in Seq(ToldResult)
    <3>1. replies \in Seq(ToldResult) /\ replies # <<>>
      BY <1>2 DEF Gw!OnAgentReply, GatewayInv, GatewayFlow
    <3>2. Head(replies) \in ToldResult /\ Tail(replies) \in Seq(ToldResult)
      BY <3>1
    <3>3. sending' \in ToldResult /\ replies' \in Seq(ToldResult)
      BY <1>2, <3>2 DEF Gw!OnAgentReply
    <3> QED
      BY <3>3 DEF ToldResult
  <2>2. \/ gatewayHistory' = gatewayHistory
        \/ gatewayHistory' = gatewayHistory \cup {<<"assistant", sending'.id>>}
    BY <1>2 DEF Gw!OnAgentReply
  <2>3. Told' = Told /\ ToldResult' = ToldResult
    BY <2>2 DEF Told, ToldResult
  <2>4. GatewayFlow'
    BY <1>2, <2>1, <2>3 DEF Gw!OnAgentReply, Gw!agent, GatewayInv, GatewayFlow
  <2>5. GatewayShape' /\ Routing' /\ Claiming' /\ Gw!CompletedIsAnswered'
    BY <1>2, <2>3 DEF Gw!OnAgentReply, Gw!ghosts, Gw!agent, GatewayInv, GatewayShape,
       Routing, Claiming, Holds, Gw!CompletedIsAnswered
  <2>6. Gw!EpisodeHasTheTurn'
    BY <1>2, <2>1, <2>2 DEF Gw!OnAgentReply, Gw!ghosts, GatewayInv, Gw!EpisodeHasTheTurn,
       Told
  <2> QED
    BY <2>4, <2>5, <2>6 DEF GatewayInv
<1>3. CASE Gw!ReplySent
  <2>1. GatewayFlow' /\ Told' = Told
    BY <1>3, ToldStays DEF Gw!ReplySent, Gw!agent, GatewayInv, GatewayFlow
  <2>2. \/ answered' = answered /\ receipts' = receipts
        \/ /\ answered' = answered \cup {sending.id}
           /\ receipts' = [receipts EXCEPT ![sending.id] = "completed"]
    BY <1>3 DEF Gw!ReplySent, Gw!Completed
  <2>3. UNCHANGED <<pc, claim, keys, saved, gatewayHistory, published>>
    BY <1>3 DEF Gw!ReplySent, Gw!ghosts
  <2>4. GatewayShape' /\ Claiming' /\ Gw!EpisodeHasTheTurn'
    BY <2>1, <2>2, <2>3 DEF GatewayInv, GatewayShape, Claiming, Gw!EpisodeHasTheTurn
  <2>5. \A i \in Gw!Interaction :
            receipts'[i] = receipts[i] \/ (receipts'[i] = "completed" /\ i \in answered')
    BY <2>2 DEF GatewayInv, GatewayShape
  <2>6. Routing' /\ Gw!CompletedIsAnswered'
    BY <2>2, <2>3, <2>5 DEF GatewayInv, Routing, Holds, Gw!CompletedIsAnswered
  <2> QED
    BY <2>1, <2>4, <2>6 DEF GatewayInv
<1>4. CASE Gw!ReplyFails
  <2>1. GatewayFlow'
    BY <1>4, ToldStays DEF Gw!ReplyFails, Gw!durable, Gw!agent, GatewayInv, GatewayFlow
  <2> QED
    BY <1>4, <2>1, CoreStays DEF Gw!ReplyFails, Gw!durable, Gw!ghosts, GatewayCore
<1> QED
  BY <1>1, <1>2, <1>3, <1>4 DEF Gw!Outbound

\* Binding codes, crashes and restarts.
LEMMA ProcessKeeps ==
    ASSUME GatewayInv, Gw!CreateBinding \/ Gw!ExpireBinding \/ Gw!Crash \/ Gw!CrashInSave \/ Gw!Restart
    PROVE  GatewayInv'
<1>1. CASE Gw!CreateBinding \/ Gw!ExpireBinding
  <2>1. /\ UNCHANGED <<pc, claim, keys, receipts, gatewayHistory, published, answered>>
        /\ UNCHANGED Carriers
        /\ saved' = [keys |-> keys, pending |-> TRUE] \/ saved' = [keys |-> keys, pending |-> FALSE]
    BY <1>1 DEF Gw!CreateBinding, Gw!ExpireBinding, Gw!agent, Gw!outbound, Gw!ghosts,
       Carriers
  <2>2. GatewayFlow' /\ saved' \in Gw!Identity \cup {NoOne}
    <3>1. \A b \in BOOLEAN : [keys |-> keys, pending |-> b] \in Gw!Identity
      BY DEF Gw!Identity, GatewayInv, GatewayShape
    <3> QED
      BY <2>1, <3>1, FlowGrows DEF GatewayInv
  <2> QED
    BY <2>1, <2>2, LeavesKeep DEF GatewayInv, GatewayShape
<1>2. CASE Gw!Crash \/ Gw!CrashInSave
  <2>1. /\ Gw!LoseMemory /\ saved' \in {saved, NoOne}
    BY <1>2 DEF Gw!Crash, Gw!CrashInSave
  <2>2. GatewayFlow'
    BY <2>1, ToldStays DEF Gw!LoseMemory, Gw!agent, GatewayInv, GatewayFlow
  <2>3. pc' \in [Gw!Deliveries -> States] /\ \A d \in Gw!Deliveries : pc'[d] \notin Gw!Live
    BY <2>1 DEF Gw!LoseMemory, GatewayInv, GatewayShape, States, Gw!Live
  <2>4. keys' \in [Gw!Key -> {User, NoOne}]
    BY <2>1 DEF Gw!LoseMemory, Gw!NoKeys
  <2> QED
    BY <2>1, <2>2, <2>3, <2>4, LeavesKeep DEF Gw!LoseMemory, Gw!ghosts, GatewayInv,
       GatewayShape, Gw!Live
<1>3. CASE Gw!Restart
  <2>1. GatewayFlow'
    BY <1>3, ToldStays DEF Gw!Restart, Gw!agent, Gw!outbound, GatewayInv, GatewayFlow
  <2>2. keys' \in [Gw!Key -> {User, NoOne}]
    BY <1>3 DEF Gw!Restart, Gw!NoKeys, Gw!Identity, GatewayInv, GatewayShape
  <2> QED
    BY <1>3, <2>1, <2>2, LeavesKeep DEF Gw!Restart, Gw!outbound, Gw!ghosts, GatewayInv,
       GatewayShape
<1> QED
  BY <1>1, <1>2, <1>3

LEMMA GatewayKeeps == GatewayInv /\ [Gw!Next]_(Gw!vars) => GatewayInv'
<1> SUFFICES ASSUME GatewayInv, [Gw!Next]_(Gw!vars) PROVE GatewayInv'
  OBVIOUS
<1>1. ASSUME NEW d \in Gw!Deliveries, Gw!Deliver(d) PROVE GatewayInv'
  <2>1. GatewayFlow'
    BY <1>1, FlowGrows DEF Gw!Deliver, Gw!durable, Gw!agent, Gw!outbound, Carriers,
       GatewayInv
  <2> QED
    BY <1>1, <2>1, LeavesKeep DEF Gw!Deliver, Gw!durable, Gw!outbound, Gw!ghosts,
       GatewayInv, GatewayShape, States, Gw!Live
<1>2. CASE UNCHANGED Gw!vars
  <2>1. GatewayFlow'
    BY <1>2, FlowGrows DEF Gw!vars, Gw!durable, Gw!agent, Gw!outbound, Carriers,
       GatewayInv
  <2> QED
    BY <1>2, <2>1, CoreStays DEF Gw!vars, Gw!durable, Gw!outbound, Gw!ghosts, GatewayCore
<1> QED
  BY <1>1, <1>2, InboundKeeps, AgentKeeps, OutboundKeeps, ProcessKeeps DEF Gw!Next

-----------------------------------------------------------------------------
LEMMA GatewayInvariant == ChannelsSpec => []GatewayInv
<1>1. ChannelsInit => GatewayInv
  BY GatewayInit DEF ChannelsInit
<1>2. GatewayInv /\ [ChannelsNext]_channelVars => GatewayInv'
  BY GatewayKeeps, ChannelSteps
<1> QED
  BY <1>1, <1>2, PTL DEF ChannelsSpec

\* An interaction is routed to the agent at most once, however often the upstream
\* redelivers it and the gateway restarts (gateway/receipts.py, claim()).
THEOREM RoutesOnce == ChannelsSpec => []RoutedOnce
<1>1. GatewayInv => RoutedOnce
  BY DEF GatewayInv, Routing, RoutedOnce, Gw!RoutedOnce
<1> QED
  BY <1>1, GatewayInvariant, PTL

\* A completed receipt is of an interaction that was answered or, a control, published
\* (gateway/service.py, _on_agent_reply).
THEOREM ReceiptsAreHonest == ChannelsSpec => []Gw!CompletedIsAnswered
<1>1. GatewayInv => Gw!CompletedIsAnswered
  BY DEF GatewayInv
<1> QED
  BY <1>1, GatewayInvariant, PTL

\* The episode holds the turn of whatever reaches the agent or answers it
\* (gateway/service.py, _record_user_turn).
THEOREM EpisodesAreWhole == ChannelsSpec => []Gw!EpisodeHasTheTurn
<1>1. GatewayInv => Gw!EpisodeHasTheTurn
  BY DEF GatewayInv
<1> QED
  BY <1>1, GatewayInvariant, PTL

-----------------------------------------------------------------------------
(* The player of a spoken text.                                            *)
LEMMA EmptyIsZeroLong ==
    ASSUME NEW S, NEW s \in Seq(S)
    PROVE  Len(s) \in Nat /\ (s # <<>> => Len(s) > 0) /\ (Len(s) = 0 => s = <<>>)
<1>1. s # <<>> => Len(s) \in Nat \ {0}
  BY EmptySeq
<1>2. Len(s) \in Nat
  BY LenProperties
<1> QED BY <1>1, <1>2

\* The chunk the thread has taken out of the queue and not yet written.
InHand == IF writer = "write" THEN 1 ELSE 0

\* Until the queue is drained, every chunk put is written, queued or in hand; from then on
\* every chunk is written, and only the end mark may still be queued.
PlayerInv ==
    /\ pcm \in Seq(Nat) /\ put \in Nat /\ written \in Nat /\ unfinished \in Int
    /\ synth # "done" => device = "open"
    /\ synth \in {"stream", "enqueue", "drain", "finish", "stopped", "done"}
    /\ writer # "dead" /\ synth \in {"stream", "enqueue", "drain"} =>
          /\ writer \in {"get", "write"} /\ \A i \in 1..Len(pcm) : pcm[i] # 0
          /\ unfinished = Len(pcm) + InHand /\ put = written + unfinished
    /\ writer # "dead" /\ synth = "finish" =>
          writer = "get" /\ pcm = <<>> /\ put = written
    /\ writer # "dead" /\ synth \in {"stopped", "done"} =>
          /\ put = written
          /\ \/ writer = "get" /\ pcm = <<0>>
             \/ writer = "ended" /\ pcm = <<>>

LEMMA LoopKeepsPlayer == ASSUME PlayerInv, Pp!Loop PROVE PlayerInv'
<1>1. CASE Pp!NextChunk \/ Pp!EndSynthesis
  BY <1>1 DEF Pp!NextChunk, Pp!EndSynthesis, Pp!Goto, PlayerInv, InHand
<1>2. CASE Pp!Enqueue
  <2>1. /\ synth = "enqueue" /\ synth' = "stream" /\ pcm' = Append(pcm, put + 1)
        /\ unfinished' = unfinished + 1 /\ put' = put + 1
        /\ UNCHANGED <<writer, written, device>>
    BY <1>2 DEF Pp!Enqueue, Pp!Put, Pp!Goto
  <2>2. put + 1 \in Nat /\ put + 1 # 0 /\ pcm \in Seq(Nat)
    BY DEF PlayerInv
  <2>3. /\ pcm' \in Seq(Nat) /\ Len(pcm') = Len(pcm) + 1 /\ Len(pcm) \in Nat
        /\ pcm'[Len(pcm) + 1] = put + 1
        /\ \A i \in 1..Len(pcm) : pcm'[i] = pcm[i]
    BY <2>1, <2>2, AppendProperties, LenProperties
  <2>4. (\A i \in 1..Len(pcm) : pcm[i] # 0) => \A i \in 1..Len(pcm') : pcm'[i] # 0
    <3> SUFFICES ASSUME \A i \in 1..Len(pcm) : pcm[i] # 0, NEW i \in 1..Len(pcm')
                 PROVE  pcm'[i] # 0
      OBVIOUS
    <3>1. i \in 1..Len(pcm) \/ i = Len(pcm) + 1
      BY <2>3
    <3> QED BY <2>2, <2>3, <3>1
  <2> QED BY <2>1, <2>3, <2>4 DEF PlayerInv, InHand
<1>3. CASE Pp!Drained
  <2>1. /\ synth = "drain" /\ synth' = "finish" /\ unfinished = 0
        /\ UNCHANGED <<pcm, unfinished, writer, put, written, device>>
    BY <1>3 DEF Pp!Drained, Pp!Goto
  <2>a. pcm \in Seq(Nat)
    BY DEF PlayerInv
  <2>2. Len(pcm) \in Nat /\ (Len(pcm) = 0 => pcm = <<>>)
    BY <2>a, EmptyIsZeroLong
  <2> QED BY <2>1, <2>2 DEF PlayerInv, InHand
<1>4. CASE Pp!PutEnd
  <2>1. /\ synth = "finish" /\ synth' = "stopped" /\ pcm' = Append(pcm, 0)
        /\ unfinished' = unfinished + 1 /\ UNCHANGED <<writer, put, written, device>>
    BY <1>4 DEF Pp!PutEnd, Pp!Put, Pp!Goto
  <2>a. pcm \in Seq(Nat)
    BY DEF PlayerInv
  <2>b. pcm' \in Seq(Nat)
    BY <2>1, <2>a, AppendProperties
  <2>c. pcm = <<>> => pcm' = <<0>>
    BY <2>1
  <2>2. pcm' \in Seq(Nat) /\ (pcm = <<>> => pcm' = <<0>>)
    BY <2>b, <2>c
  <2> QED BY <2>1, <2>2 DEF PlayerInv
<1>5. CASE Pp!CloseDevice
  BY <1>5 DEF Pp!CloseDevice, Pp!Goto, PlayerInv
<1> QED BY <1>1, <1>2, <1>3, <1>4, <1>5 DEF Pp!Loop

LEMMA ThreadKeepsPlayer == ASSUME PlayerInv, Pp!Thread PROVE PlayerInv'
<1>1. CASE Pp!Get
  <2>1. /\ writer = "get" /\ pcm # <<>> /\ pcm' = Tail(pcm)
        /\ UNCHANGED <<synth, put, written, device>>
        /\ \/ Head(pcm) = 0 /\ writer' = "ended" /\ unfinished' = unfinished - 1
           \/ Head(pcm) # 0 /\ writer' = "write" /\ unfinished' = unfinished
    BY <1>1 DEF Pp!Get
  <2>2. /\ pcm' \in Seq(Nat) /\ Head(pcm) = pcm[1] /\ Len(pcm) \in Nat /\ Len(pcm) > 0
        /\ Len(pcm') = Len(pcm) - 1
        /\ \A i \in 1..Len(pcm') : i + 1 \in 1..Len(pcm) /\ pcm'[i] = pcm[i + 1]
    <3>1. pcm \in Seq(Nat)
      BY DEF PlayerInv
    <3>2. Len(pcm) \in Nat /\ Len(pcm) > 0
      BY <2>1, <3>1, EmptyIsZeroLong
    <3>3. /\ Tail(pcm) \in Seq(Nat) /\ Len(Tail(pcm)) = Len(pcm) - 1
          /\ \A i \in 1..Len(Tail(pcm)) : Tail(pcm)[i] = pcm[i + 1]
      BY <2>1, <3>1, HeadTailProperties
    <3>4. Head(pcm) = pcm[1]
      BY <3>1, <3>2
    <3> QED BY <2>1, <3>2, <3>3, <3>4
  <2>3. CASE synth \in {"stream", "enqueue", "drain"}
    <3>1. /\ \A i \in 1..Len(pcm) : pcm[i] # 0
          /\ unfinished = Len(pcm) + InHand /\ put = written + unfinished
      BY <2>1, <2>3 DEF PlayerInv
    <3>2. writer' = "write" /\ unfinished' = unfinished
      BY <2>1, <2>2, <3>1
    <3>3. \A i \in 1..Len(pcm') : pcm'[i] # 0
      BY <2>2, <3>1
    <3>4. unfinished' = Len(pcm') + InHand' /\ put' = written' + unfinished'
      BY <2>1, <2>2, <3>1, <3>2 DEF InHand
    <3> QED BY <2>1, <2>2, <2>3, <3>2, <3>3, <3>4 DEF PlayerInv
  <2>4. CASE synth \in {"stopped", "done"}
    <3>1. pcm = <<0>> /\ pcm' = <<>>
      BY <2>1, <2>4 DEF PlayerInv
    <3> QED BY <2>1, <2>2, <2>4, <3>1 DEF PlayerInv
  <2> QED BY <2>1, <2>3, <2>4 DEF PlayerInv
<1>2. CASE Pp!Write
  BY <1>2 DEF Pp!Write, PlayerInv, InHand
<1>3. CASE Pp!WriteFails
  BY <1>3 DEF Pp!WriteFails, PlayerInv
<1> QED BY <1>1, <1>2, <1>3 DEF Pp!Thread

LEMMA PlayerInvariant == ChannelsSpec => []PlayerInv
<1>1. ChannelsInit => PlayerInv
  BY EmptySeq DEF ChannelsInit, Pp!Init, PlayerInv, InHand
<1>2. PlayerInv /\ [ChannelsNext]_channelVars => PlayerInv'
  <2> SUFFICES ASSUME PlayerInv, [ChannelsNext]_channelVars PROVE PlayerInv'
    OBVIOUS
  <2>1. [Pp!Next]_(Pp!pcmVars)
    BY ChannelSteps
  <2>2. CASE UNCHANGED Pp!pcmVars
    BY <2>2 DEF Pp!pcmVars, PlayerInv, InHand
  <2> QED BY <2>1, <2>2, LoopKeepsPlayer, ThreadKeepsPlayer DEF Pp!Next
<1> QED BY <1>1, <1>2, PTL DEF ChannelsSpec

-----------------------------------------------------------------------------
(* The synthesis of speech.                                                *)
SpeechMessages == [kind : Ss!Kinds, piece : Nat]

\* The audio sent up to a message, when before of it was sent ahead of that message.
Counts(message, before) ==
    message.piece = IF message.kind = "audio" THEN before + 1 ELSE before

\* The messages on their way count the audio on, from what the player has got to what
\* the service has sent; only the whole speech is followed by the end of the episode.
SynthesisInv ==
    /\ inbox \in Seq(SpeechMessages) /\ yielded \in Seq(Nat) /\ rendered \in Nat
    /\ \A i \in 1..Len(yielded) : yielded[i] = i
    /\ inbox = <<>> => rendered = Len(yielded)
    /\ inbox # <<>> => Counts(inbox[1], Len(yielded)) /\ inbox[Len(inbox)].piece = rendered
    /\ \A i, j \in 1..Len(inbox) : j = i + 1 => Counts(inbox[j], inbox[i].piece)
    /\ \A i \in 1..Len(inbox) : inbox[i].kind = "finished" => inbox[i].piece = TextChunks
    /\ ttsService \in {"new", "connected"} => rendered = 0
    /\ finishing => chunksAsked = TextChunks
    /\ speaker = "done" => Len(yielded) = TextChunks

\* A message of the service that counts on from what it has sent.
LEMMA SendingKeepsSpeech ==
    ASSUME SynthesisInv, NEW message \in SpeechMessages, inbox' = Append(inbox, message),
           Counts(message, rendered), rendered' = message.piece,
           message.kind = "finished" => message.piece = TextChunks,
           ttsService' \in {"new", "connected"} => rendered' = 0,
           UNCHANGED <<speaker, chunksAsked, finishing, yielded>>
    PROVE  SynthesisInv'
<1> DEFINE n == Len(inbox)
<1>1. inbox \in Seq(SpeechMessages) /\ n \in Nat
  BY LenProperties DEF SynthesisInv
<1>2. /\ inbox' \in Seq(SpeechMessages) /\ inbox' # <<>> /\ Len(inbox') = n + 1
      /\ \A i \in 1..n : inbox'[i] = inbox[i]
      /\ inbox'[n + 1] = message
  BY <1>1, AppendProperties
<1>3. n = 0 <=> inbox = <<>>
  BY <1>1, EmptySeq
<1>4. Counts(inbox'[1], Len(yielded))
  BY <1>1, <1>2, <1>3 DEF SynthesisInv
<1>5. ASSUME NEW i \in 1..(n + 1), NEW j \in 1..(n + 1), j = i + 1
      PROVE  Counts(inbox'[j], inbox'[i].piece)
  <2>1. i \in 1..n
    BY <1>1, <1>5
  <2>2. CASE j = n + 1
    <3>1. i = n /\ inbox[i].piece = rendered
      BY <1>1, <1>3, <1>5, <2>1, <2>2 DEF SynthesisInv
    <3> QED BY <1>2, <2>1, <2>2, <3>1
  <2>3. CASE j \in 1..n
    BY <1>2, <1>5, <2>1, <2>3 DEF SynthesisInv
  <2> QED BY <1>1, <2>2, <2>3
<1>6. \A i \in 1..(n + 1) : inbox'[i].kind = "finished" => inbox'[i].piece = TextChunks
  <2> TAKE i \in 1..(n + 1)
  <2> QED BY <1>1, <1>2 DEF SynthesisInv
<1>7. /\ inbox'[Len(inbox')].piece = rendered' /\ rendered' \in Nat
      /\ yielded' = yielded /\ finishing' = finishing /\ chunksAsked' = chunksAsked
      /\ speaker' = speaker
  BY <1>2 DEF SpeechMessages
<1> QED BY <1>2, <1>4, <1>5, <1>6, <1>7 DEF SynthesisInv

\* The first message is read, and yielded when it carries audio.
LEMMA ReadingKeepsSpeech ==
    ASSUME SynthesisInv, inbox # <<>>, inbox' = Tail(inbox),
           yielded' = IF Head(inbox).kind = "audio" THEN Append(yielded, Head(inbox).piece)
                      ELSE yielded,
           speaker' = "done" => Head(inbox).kind = "finished",
           UNCHANGED <<chunksAsked, finishing, rendered, ttsService>>
    PROVE  SynthesisInv'
<1> DEFINE n == Len(inbox)
           k == Len(yielded)
<1>1. inbox \in Seq(SpeechMessages) /\ n \in Nat /\ n > 0
  BY LenProperties, EmptySeq DEF SynthesisInv
<1>2. /\ Head(inbox) = inbox[1] /\ inbox' \in Seq(SpeechMessages)
      /\ Len(inbox') = n - 1
      /\ \A i \in 1..(n - 1) : inbox'[i] = inbox[i + 1]
  BY <1>1, HeadTailProperties
<1>3. inbox' = <<>> <=> n = 1
  <2>1. inbox' = <<>> <=> Len(inbox') = 0
    BY <1>2, EmptySeq
  <2> QED BY <1>1, <1>2, <2>1
<1>4. Counts(inbox[1], k) /\ inbox[1] \in SpeechMessages /\ k \in Nat
  BY <1>1, ElementOfSeq, LenProperties DEF SynthesisInv
<1>5. /\ yielded' \in Seq(Nat) /\ Len(yielded') = inbox[1].piece
      /\ \A i \in 1..Len(yielded') : yielded'[i] = i
  <2>1. CASE inbox[1].kind = "audio"
    <3>1. yielded' = Append(yielded, k + 1)
      BY <1>2, <1>4, <2>1 DEF Counts
    <3>2. /\ yielded' \in Seq(Nat) /\ Len(yielded') = k + 1 /\ yielded'[k + 1] = k + 1
          /\ \A i \in 1..k : yielded'[i] = yielded[i]
      BY <1>4, <3>1, AppendProperties DEF SynthesisInv
    <3>3. \A i \in 1..(k + 1) : yielded'[i] = i
      BY <1>4, <3>2 DEF SynthesisInv
    <3> QED BY <1>4, <2>1, <3>2, <3>3 DEF Counts
  <2>2. CASE inbox[1].kind # "audio"
    BY <1>2, <1>4, <2>2 DEF Counts, SynthesisInv
  <2> QED BY <2>1, <2>2
<1>6. inbox' = <<>> => rendered' = Len(yielded')
  BY <1>1, <1>3, <1>5 DEF SynthesisInv
<1>7. ASSUME inbox' # <<>>
      PROVE  Counts(inbox'[1], Len(yielded')) /\ inbox'[Len(inbox')].piece = rendered'
  <2>1. n > 1 /\ 1 \in 1..n /\ 2 \in 1..n /\ 1 \in 1..(n - 1) /\ n - 1 \in 1..(n - 1)
    BY <1>1, <1>3, <1>7
  <2>2. inbox'[1] = inbox[2] /\ inbox'[n - 1] = inbox[n]
    BY <1>1, <1>2, <2>1
  <2>3. Counts(inbox[2], inbox[1].piece)
    BY <2>1 DEF SynthesisInv
  <2> QED BY <1>1, <1>2, <1>5, <2>2, <2>3, EmptySeq DEF SynthesisInv
<1>8. ASSUME NEW i \in 1..(n - 1), NEW j \in 1..(n - 1), j = i + 1
      PROVE  Counts(inbox'[j], inbox'[i].piece)
  <2>1. i + 1 \in 1..n /\ j + 1 \in 1..n /\ j + 1 = (i + 1) + 1
    BY <1>1, <1>8
  <2> QED BY <1>2, <2>1 DEF SynthesisInv
<1>9. \A i \in 1..(n - 1) : inbox'[i].kind = "finished" => inbox'[i].piece = TextChunks
  <2> TAKE i \in 1..(n - 1)
  <2>1. i + 1 \in 1..n
    BY <1>1
  <2> QED BY <1>2, <2>1 DEF SynthesisInv
<1>10. speaker' = "done" => Len(yielded') = TextChunks
  BY <1>1, <1>2, <1>5 DEF SynthesisInv
<1>11. /\ rendered' = rendered /\ ttsService' = ttsService
       /\ finishing' = finishing /\ chunksAsked' = chunksAsked
  OBVIOUS
<1> QED BY <1>2, <1>5, <1>6, <1>7, <1>8, <1>9, <1>10, <1>11 DEF SynthesisInv

\* A step that neither sends nor reads a message.
LEMMA SpeakingKeepsSpeech ==
    ASSUME SynthesisInv, UNCHANGED <<inbox, yielded, rendered>>,
           speaker' = "done" => speaker = "done",
           ttsService' \in {"new", "connected"} => ttsService' = ttsService,
           finishing' => chunksAsked' = TextChunks
    PROVE  SynthesisInv'
BY DEF SynthesisInv, Counts

LEMMA SynthesisKeeps == SynthesisInv /\ [Ss!Next]_(Ss!synthesisVars) => SynthesisInv'
<1> SUFFICES ASSUME SynthesisInv, [Ss!Next]_(Ss!synthesisVars) PROVE SynthesisInv'
  OBVIOUS
<1>1. CASE Ss!Connected \/ Ss!Started
  <2>1. PICK kind \in {"connected", "started"} :
            inbox' = Append(inbox, [kind |-> kind, piece |-> 0])
    BY <1>1 DEF Ss!Connected, Ss!Started, Ss!Sends
  <2>2. /\ ttsService' \in {"connected", "started"} /\ rendered = 0 /\ rendered' = 0
        /\ UNCHANGED <<speaker, chunksAsked, finishing, yielded>>
    BY <1>1 DEF Ss!Connected, Ss!Started, Ss!own, SynthesisInv
  <2>3. [kind |-> kind, piece |-> 0] \in SpeechMessages
    BY DEF SpeechMessages, Ss!Kinds
  <2>4. Counts([kind |-> kind, piece |-> 0], rendered)
    BY <2>2 DEF Counts
  <2> QED BY <2>1, <2>2, <2>3, <2>4, SendingKeepsSpeech
<1>2. CASE Ss!Render
  <2>1. /\ inbox' = Append(inbox, [kind |-> "audio", piece |-> rendered + 1])
        /\ rendered' = rendered + 1 /\ ttsService' = "started" /\ rendered \in Nat
        /\ UNCHANGED <<speaker, chunksAsked, finishing, yielded>>
    BY <1>2 DEF Ss!Render, Ss!Sends, Ss!own, SynthesisInv
  <2>2. [kind |-> "audio", piece |-> rendered + 1] \in SpeechMessages
    BY <2>1 DEF SpeechMessages, Ss!Kinds
  <2>3. Counts([kind |-> "audio", piece |-> rendered + 1], rendered)
    BY DEF Counts
  <2> QED BY <2>1, <2>2, <2>3, SendingKeepsSpeech
<1>3. CASE Ss!Finished \/ Ss!Report \/ Ss!Fail
  <2>1. PICK kind \in {"finished", "silence", "report", "error"} :
            /\ inbox' = Append(inbox, [kind |-> kind, piece |-> rendered])
            /\ kind = "finished" => Ss!Finished
    BY <1>3 DEF Ss!Finished, Ss!Report, Ss!Fail, Ss!Sends
  <2>2. /\ rendered' = rendered /\ rendered \in Nat
        /\ ttsService' \in {"new", "connected"} => ttsService' = ttsService
        /\ UNCHANGED <<speaker, chunksAsked, finishing, yielded>>
    BY <1>3 DEF Ss!Finished, Ss!Report, Ss!Fail, Ss!own, SynthesisInv
  <2>3. [kind |-> kind, piece |-> rendered] \in SpeechMessages
    BY <2>2 DEF SpeechMessages, Ss!Kinds
  <2>4. Counts([kind |-> kind, piece |-> rendered], rendered)
    BY DEF Counts
  <2>5. kind = "finished" => rendered = TextChunks
    BY <2>1 DEF Ss!Finished, SynthesisInv
  <2>6. ttsService' \in {"new", "connected"} => rendered' = 0
    BY <2>2 DEF SynthesisInv
  <2> QED BY <2>1, <2>2, <2>3, <2>4, <2>5, <2>6, SendingKeepsSpeech
<1>4. CASE \/ Ss!ExpectConnected \/ Ss!ExpectStarted
           \/ Ss!Yield \/ Ss!PassOver \/ Ss!ReadFinished
  <2>1. /\ inbox # <<>> /\ inbox' = Tail(inbox)
        /\ UNCHANGED <<chunksAsked, finishing, rendered, ttsService>>
    BY <1>4 DEF Ss!ExpectConnected, Ss!ExpectStarted, Ss!Yield, Ss!PassOver,
                Ss!ReadFinished, Ss!Reads
  <2>2. yielded' = IF Head(inbox).kind = "audio" THEN Append(yielded, Head(inbox).piece)
                   ELSE yielded
    BY <1>4 DEF Ss!ExpectConnected, Ss!ExpectStarted, Ss!Yield, Ss!PassOver,
                Ss!ReadFinished, Ss!Reads
  <2>3. speaker' = "done" => Head(inbox).kind = "finished"
    BY <1>4 DEF Ss!ExpectConnected, Ss!ExpectStarted, Ss!Yield, Ss!PassOver,
                Ss!ReadFinished, Ss!Reads, Ss!Goto
  <2> QED BY <2>1, <2>2, <2>3, ReadingKeepsSpeech
<1>5. CASE Ss!Close \/ Ss!SendText \/ Ss!FinishEpisode \/ Ss!Raise \/ Ss!Abandon
           \/ UNCHANGED Ss!synthesisVars
  <2>1. /\ UNCHANGED <<inbox, yielded, rendered>>
        /\ speaker' = "done" => speaker = "done"
        /\ ttsService' \in {"new", "connected"} => ttsService' = ttsService
    BY <1>5 DEF Ss!Close, Ss!SendText, Ss!FinishEpisode, Ss!Raise, Ss!Abandon, Ss!own,
                Ss!Goto, Ss!synthesisVars
  <2>2. finishing' => chunksAsked' = TextChunks
    <3>1. CASE Ss!SendText
      BY <3>1, ChannelsAssumption DEF Ss!SendText, SynthesisInv
    <3>2. CASE Ss!FinishEpisode
      BY <3>2 DEF Ss!FinishEpisode
    <3>3. CASE Ss!Close \/ Ss!Raise \/ Ss!Abandon \/ UNCHANGED Ss!synthesisVars
      BY <3>3 DEF Ss!Close, Ss!Raise, Ss!Abandon, Ss!own, Ss!synthesisVars, SynthesisInv
    <3> QED BY <1>5, <3>1, <3>2, <3>3
  <2> QED BY <2>1, <2>2, SpeakingKeepsSpeech
<1> QED BY <1>1, <1>2, <1>3, <1>4, <1>5 DEF Ss!Next

LEMMA SynthesisInvariant == ChannelsSpec => []SynthesisInv
<1>1. ChannelsInit => SynthesisInv
  BY EmptySeq DEF ChannelsInit, Ss!Init, SynthesisInv
<1>2. SynthesisInv /\ [ChannelsNext]_channelVars => SynthesisInv'
  BY SynthesisKeeps, ChannelSteps
<1> QED BY <1>1, <1>2, PTL DEF ChannelsSpec

\* The player is given the speech in order and, unless an exception ends it, all of it,
\* for any number of chunks and however the answers fall between them; and the device is
\* closed only when it has taken every chunk, unless it has failed (audio/tts.py,
\* synthesize_stream; audio/io.py, enqueue() and close() against the writer thread).
THEOREM SpeechIsNotCutOff == ChannelsSpec => []NothingCutOff
<1>1. PlayerInv /\ SynthesisInv => NothingCutOff
  BY DEF PlayerInv, SynthesisInv, NothingCutOff, Pp!NothingCutOff, Ss!SpeechIsWhole,
         Ss!InOrder
<1> QED BY <1>1, PlayerInvariant, SynthesisInvariant, PTL

-----------------------------------------------------------------------------
(* The web chat.                                                           *)
Loops == [on : BOOLEAN, frame : Wc!Frames, over : SUBSET Wc!Sockets,
          visited : SUBSET Wc!Sockets, stale : SUBSET Wc!Sockets]

\* Whatever is on its way is a frame of the reply.
WebInv ==
    /\ link \in [Pages -> BOOLEAN] /\ connects \in [Pages -> 0..MaxConnects]
    /\ \A p \in Pages : link[p] => connects[p] # 0
    /\ known \in SUBSET Wc!Sockets
    /\ wire \in [Wc!Sockets -> Seq(Wc!Frames)]
    /\ sent \in 0..(ReplyParts + 1) /\ webLoop \in Loops
    /\ DOMAIN shown = Pages /\ Wc!FinalIsWhole

\* The frames are the parts, none of which is final, and the final text.
LEMMA FinalFrameIsWhole ==
    ASSUME NEW frame \in Wc!Frames, frame.final
    PROVE  frame.text = Wc!Whole
BY DEF Wc!Frames, Wc!Delta, Wc!Final

LEMMA NoLoopIsLoop == Wc!NoLoop \in Loops
BY DEF Wc!NoLoop, Loops, Wc!Frames

LEMMA SocketIsSocket ==
    ASSUME WebInv, NEW p \in Pages, link[p] PROVE Wc!Socket(p) \in Wc!Sockets
BY ChannelsAssumption DEF WebInv, Wc!Socket, Wc!Sockets

\* Connections come and go.
LEMMA ConnectionKeeps ==
    ASSUME WebInv, NEW p \in Pages, Wc!Connect(p) \/ Wc!Drop(p) PROVE WebInv'
<1>1. CASE Wc!Connect(p)
  <2>1. /\ connects[p] < MaxConnects /\ link' = [link EXCEPT ![p] = TRUE]
        /\ connects' = [connects EXCEPT ![p] = connects[p] + 1]
        /\ known' = known \cup {<<p, connects[p] + 1>>}
        /\ UNCHANGED <<wire, sent, webLoop, shown>>
    BY <1>1 DEF Wc!Connect, Wc!reply, Wc!page
  <2>2. connects[p] + 1 \in 1..MaxConnects /\ connects[p] + 1 \in 0..MaxConnects
    BY <2>1, ChannelsAssumption DEF WebInv
  <2>3. known' \in SUBSET Wc!Sockets
    BY <2>1, <2>2 DEF WebInv, Wc!Sockets
  <2>4. /\ link' \in [Pages -> BOOLEAN] /\ connects' \in [Pages -> 0..MaxConnects]
        /\ \A q \in Pages : link'[q] => connects'[q] # 0
    BY <2>1, <2>2 DEF WebInv
  <2> QED BY <2>1, <2>3, <2>4 DEF WebInv, Wc!FinalIsWhole
<1>2. CASE Wc!Drop(p)
  <2>1. /\ link[p] /\ link' = [link EXCEPT ![p] = FALSE]
        /\ wire' = [wire EXCEPT ![Wc!Socket(p)] = <<>>]
        /\ UNCHANGED <<connects, known, sent, webLoop, shown>>
    BY <1>2 DEF Wc!Drop, Wc!reply, Wc!page
  <2>2. <<>> \in Seq(Wc!Frames)
    BY EmptySeq
  <2>3. wire' \in [Wc!Sockets -> Seq(Wc!Frames)]
    BY <2>1, <2>2 DEF WebInv
  <2>4. link' \in [Pages -> BOOLEAN] /\ \A q \in Pages : link'[q] => connects'[q] # 0
    BY <2>1 DEF WebInv
  <2> QED BY <2>1, <2>3, <2>4 DEF WebInv, Wc!FinalIsWhole
<1> QED BY <1>1, <1>2

\* The channel sends a frame to the websockets it knows.
LEMMA SendingKeeps ==
    ASSUME WebInv,
           Wc!SendReply \/ Wc!EndLoop \/ Wc!BreakLoop \/ \E s \in Wc!Sockets : Wc!Step(s)
    PROVE  WebInv'
<1>1. CASE Wc!SendReply
  <2> DEFINE next == IF sent = ReplyParts THEN Wc!Final ELSE Wc!Delta(sent + 1)
  <2>1. /\ webLoop' = [Wc!NoLoop EXCEPT !.on = TRUE, !.over = known, !.frame = next]
        /\ sent' = sent + 1 /\ sent <= ReplyParts
        /\ UNCHANGED <<link, connects, known, wire, shown>>
    BY <1>1 DEF Wc!SendReply, Wc!page
  <2>2. next \in Wc!Frames /\ sent' \in 0..(ReplyParts + 1)
    <3>1. sent \in 0..(ReplyParts + 1) /\ ReplyParts \in Nat
      BY ChannelsAssumption DEF WebInv
    <3>2. (sent # ReplyParts => sent + 1 \in 1..ReplyParts) /\ sent' \in 0..(ReplyParts + 1)
      BY <2>1, <3>1
    <3> QED BY <3>2 DEF Wc!Frames
  <2> HIDE DEF next
  <2>3. webLoop' \in Loops
    BY <2>1, <2>2, NoLoopIsLoop DEF WebInv, Loops
  <2> QED BY <2>1, <2>2, <2>3 DEF WebInv, Wc!FinalIsWhole
<1>2. CASE Wc!EndLoop \/ Wc!BreakLoop
  <2>1. /\ webLoop' = Wc!NoLoop /\ known' \in SUBSET known
        /\ UNCHANGED <<link, connects, wire, sent, shown>>
    BY <1>2 DEF Wc!EndLoop, Wc!BreakLoop, Wc!reply, Wc!page
  <2> QED BY <2>1, NoLoopIsLoop DEF WebInv, Wc!FinalIsWhole
<1>3. ASSUME NEW s \in Wc!Sockets, Wc!Step(s) PROVE WebInv'
  <2>1. /\ \/ wire' = [wire EXCEPT ![s] = Append(wire[s], webLoop.frame)]
           \/ wire' = wire
        /\ \E stale \in {webLoop.stale, webLoop.stale \cup {s}} :
              webLoop' = [webLoop EXCEPT !.visited = webLoop.visited \cup {s}, !.stale = stale]
        /\ UNCHANGED <<link, connects, known, sent, shown>>
    BY <1>3 DEF Wc!Step, Wc!reply, Wc!page
  <2>2. webLoop' \in Loops
    <3> DEFINE visited == webLoop.visited \cup {s}
    <3>1. PICK stale \in {webLoop.stale, webLoop.stale \cup {s}} :
            webLoop' = [webLoop EXCEPT !.visited = visited, !.stale = stale]
      BY <2>1
    <3>2. visited \in SUBSET Wc!Sockets /\ stale \in SUBSET Wc!Sockets /\ webLoop \in Loops
      BY <3>1 DEF WebInv, Loops
    <3> HIDE DEF visited
    <3> QED BY <3>1, <3>2 DEF Loops
  <2>3. webLoop.frame \in Wc!Frames /\ wire[s] \in Seq(Wc!Frames)
    BY DEF WebInv, Loops
  <2>4. Append(wire[s], webLoop.frame) \in Seq(Wc!Frames)
    BY <2>3, AppendProperties
  <2>5. wire' \in [Wc!Sockets -> Seq(Wc!Frames)]
    BY <2>1, <2>4 DEF WebInv
  <2> QED BY <2>1, <2>2, <2>5 DEF WebInv, Wc!FinalIsWhole
<1> QED BY <1>1, <1>2, <1>3

\* A page takes the next frame into what it shows.
LEMMA ReadingKeeps == ASSUME WebInv, NEW p \in Pages, Wc!Read(p) PROVE WebInv'
<1> DEFINE frame == Head(wire[Wc!Socket(p)])
<1>1. /\ link[p] /\ wire[Wc!Socket(p)] # <<>>
      /\ shown' = [shown EXCEPT ![p] = Wc!Upsert(shown[p], frame)]
      /\ wire' = [wire EXCEPT ![Wc!Socket(p)] = Tail(wire[Wc!Socket(p)])]
      /\ UNCHANGED <<link, connects, known, sent, webLoop>>
  BY DEF Wc!Read, Wc!reply
<1>2. Wc!Socket(p) \in Wc!Sockets /\ wire[Wc!Socket(p)] \in Seq(Wc!Frames)
  BY <1>1, SocketIsSocket DEF WebInv
<1>3. frame \in Wc!Frames /\ Tail(wire[Wc!Socket(p)]) \in Seq(Wc!Frames)
  BY <1>1, <1>2, HeadTailProperties
<1>4. wire' \in [Wc!Sockets -> Seq(Wc!Frames)]
  BY <1>1, <1>2, <1>3 DEF WebInv
<1> HIDE DEF frame
<1>5. Wc!Upsert(shown[p], frame).final => Wc!Upsert(shown[p], frame).text = Wc!Whole
  BY <1>3, FinalFrameIsWhole DEF Wc!Upsert, Wc!Text
<1>6. DOMAIN shown' = Pages /\ Wc!FinalIsWhole'
  BY <1>1, <1>5 DEF WebInv, Wc!FinalIsWhole
<1> QED BY <1>1, <1>4, <1>6 DEF WebInv

LEMMA WebKeeps == WebInv /\ [Wc!Next]_(Wc!chatVars) => WebInv'
<1> SUFFICES ASSUME WebInv, [Wc!Next]_(Wc!chatVars) PROVE WebInv'
  OBVIOUS
<1>1. CASE UNCHANGED <<link, connects, known, wire, sent, webLoop, shown>>
  BY <1>1 DEF WebInv, Wc!FinalIsWhole
<1>2. CASE UNCHANGED Wc!chatVars \/ \E p \in Pages : Wc!Ask(p) \/ Wc!Poll(p)
  BY <1>1, <1>2 DEF Wc!chatVars, Wc!Ask, Wc!Poll, Wc!reply
<1>3. ASSUME NEW p \in Pages, Wc!Reload(p) PROVE WebInv'
  <2>1. /\ shown' = [shown EXCEPT ![p] = Wc!Nothing]
        /\ UNCHANGED <<link, connects, known, wire, sent, webLoop>>
    BY <1>3 DEF Wc!Reload, Wc!reply
  <2>2. ~Wc!Nothing.final
    BY DEF Wc!Nothing
  <2>3. DOMAIN shown' = Pages /\ Wc!FinalIsWhole'
    BY <2>1, <2>2 DEF WebInv, Wc!FinalIsWhole
  <2> QED BY <2>1, <2>3 DEF WebInv
<1>4. ASSUME NEW s \in Wc!Sockets, Wc!NoticeDrop(s) PROVE WebInv'
  BY <1>4 DEF Wc!NoticeDrop, Wc!reply, Wc!page, WebInv, Wc!FinalIsWhole
<1> QED
  BY <1>2, <1>3, <1>4, ConnectionKeeps, SendingKeeps, ReadingKeeps DEF Wc!Next

LEMMA WebStarts == ChannelsInit => WebInv
<1> HAVE ChannelsInit
<1>1. <<>> \in Seq(Wc!Frames) /\ ~Wc!Nothing.final /\ 0 \in 0..(ReplyParts + 1)
  BY EmptySeq, ChannelsAssumption DEF Wc!Nothing
<1> QED
  BY <1>1, NoLoopIsLoop, ChannelsAssumption DEF ChannelsInit, Wc!Init, WebInv, Wc!FinalIsWhole

LEMMA WebInvariant == ChannelsSpec => []WebInv
<1>1. WebInv /\ [ChannelsNext]_channelVars => WebInv'
  BY WebKeeps, ChannelSteps
<1> QED BY <1>1, WebStarts, PTL DEF ChannelsSpec

-----------------------------------------------------------------------------
(* The reply of Feishu.                                                    *)
FeishuParts == 1..(Attachments + 1)

\* A post comes before the part being sent; while nothing is sent, before the next reply.
Before(post) ==
    \/ post[1] < reply
    \/ post[1] = reply /\ (feishuAt # "idle" => post[2] < feishuPart)

\* What is acknowledged lies behind, what is shown not ahead.
FeishuInv ==
    /\ reply \in 0..MaxReplies /\ feishuPart \in FeishuParts
    /\ feishuAt # "idle" => reply # 0
    /\ chat \in Seq(Fr!Posts) /\ ackAt \in [Fr!Posts -> Nat]
    /\ \A post \in Fr!Posts : ackAt[post] # 0 => Before(post)
    /\ \A i \in 1..Len(chat) : Before(chat[i]) \/ chat[i] = <<reply, feishuPart>>
    /\ Fr!ShownInOrder

\* The next part: nothing but what is behind it has been acknowledged or shown.
LEMMA AdvanceGoesOn ==
    ASSUME FeishuInv, Fr!Advance, feishuAt # "idle", UNCHANGED reply
    PROVE  /\ reply' \in 0..MaxReplies /\ feishuPart' \in FeishuParts
           /\ feishuAt' # "idle" => reply' # 0
           /\ \A post \in Fr!Posts : Before(post) \/ post = <<reply, feishuPart>> => Before(post)'
<1>1. \/ feishuPart <= Attachments /\ feishuPart' = feishuPart + 1
      \/ feishuPart' = 1 /\ feishuAt' = "idle"
  BY DEF Fr!Advance
<1>2. reply' \in 0..MaxReplies /\ feishuPart' \in FeishuParts /\ reply' # 0
  BY <1>1, ChannelsAssumption DEF FeishuInv, FeishuParts
<1>3. ASSUME NEW post \in Fr!Posts, Before(post) \/ post = <<reply, feishuPart>>
      PROVE  Before(post)'
  <2>1. post[1] \in Nat /\ post[2] \in Nat /\ reply \in Nat /\ feishuPart \in Nat
    BY ChannelsAssumption DEF Fr!Posts, FeishuInv, FeishuParts
  <2>2. \/ post[1] < reply
        \/ post[1] = reply /\ (post[2] < feishuPart \/ post[2] = feishuPart)
    BY <1>3 DEF Before
  <2> QED BY <1>1, <2>1, <2>2 DEF Before
<1> QED BY <1>2, <1>3

\* A post of the part being sent may be shown again while it is not acknowledged.
LEMMA ShowingKeepsOrder ==
    ASSUME FeishuInv, feishuAt # "idle", NEW shows \in BOOLEAN, Fr!Shown(shows)
    PROVE  /\ <<reply, feishuPart>> \in Fr!Posts /\ ackAt[<<reply, feishuPart>>] = 0
           /\ chat' \in Seq(Fr!Posts)
           /\ \A i \in 1..Len(chat') : Before(chat'[i]) \/ chat'[i] = <<reply, feishuPart>>
           /\ \A i \in 1..Len(chat') : \A j \in 1..i :
                 \/ chat'[j][1] < chat'[i][1]
                 \/ chat'[j][1] = chat'[i][1] /\ chat'[j][2] <= chat'[i][2]
           /\ \A i \in 1..Len(chat') : ackAt[chat'[i]] # 0 => i <= ackAt[chat'[i]]
<1> DEFINE post == <<reply, feishuPart>>
           Ordered(c) == \A i \in 1..Len(c) : \A j \in 1..i :
                 \/ c[j][1] < c[i][1]
                 \/ c[j][1] = c[i][1] /\ c[j][2] <= c[i][2]
<1>1. reply \in 1..MaxReplies /\ feishuPart \in FeishuParts /\ reply \in Nat /\ feishuPart \in Nat
  BY ChannelsAssumption DEF FeishuInv, FeishuParts
<1>2. post \in Fr!Posts /\ post[1] = reply /\ post[2] = feishuPart
  BY <1>1 DEF Fr!Posts, FeishuParts
<1>3. ~Before(post)
  BY <1>1, <1>2 DEF Before
<1>4. ackAt[post] = 0
  BY <1>2, <1>3 DEF FeishuInv
<1>5. CASE chat' = chat
  BY <1>2, <1>4, <1>5 DEF FeishuInv, Fr!ShownInOrder
<1>6. CASE chat' = Append(chat, post)
  <2> DEFINE n == Len(chat)
  <2>1. /\ chat' \in Seq(Fr!Posts) /\ Len(chat') = n + 1 /\ n \in Nat /\ chat'[n + 1] = post
        /\ \A i \in 1..n : chat'[i] = chat[i] /\ chat[i] \in Fr!Posts
    BY <1>2, <1>6, AppendProperties, LenProperties, ElementOfSeq DEF FeishuInv
  <2> HIDE DEF n
  <2>2. \A i \in 1..n : Before(chat[i]) \/ chat[i] = post
    BY DEF FeishuInv, n
  <2>3. \A i \in 1..(n + 1) : Before(chat'[i]) \/ chat'[i] = post
    BY <2>1, <2>2
  <2>4. ASSUME NEW q \in Fr!Posts, Before(q) \/ q = post
        PROVE  q[1] < post[1] \/ (q[1] = post[1] /\ q[2] <= post[2])
    <3>1. q[1] \in Nat /\ q[2] \in Nat
      BY ChannelsAssumption DEF Fr!Posts
    <3>2. CASE Before(q)
      <4>1. q[1] < reply \/ (q[1] = reply /\ q[2] < feishuPart)
        BY <3>2 DEF Before
      <4> HIDE DEF post
      <4> QED BY <1>1, <1>2, <3>1, <4>1
    <3>3. CASE q = post
      BY <1>1, <1>2, <3>3
    <3> QED BY <2>4, <3>2, <3>3
  <2>5. Ordered(chat')
    <3> SUFFICES ASSUME NEW i \in 1..(n + 1), NEW j \in 1..i
                 PROVE  \/ chat'[j][1] < chat'[i][1]
                        \/ chat'[j][1] = chat'[i][1] /\ chat'[j][2] <= chat'[i][2]
      BY <2>1
    <3>1. CASE i = n + 1
      <4>1. j \in 1..(n + 1)
        BY <2>1, <3>1
      <4>2. chat'[j] \in Fr!Posts
        BY <1>2, <2>1, <4>1
      <4> QED BY <2>1, <2>3, <2>4, <3>1, <4>1, <4>2
    <3>2. CASE i \in 1..n
      <4>1. j \in 1..n
        BY <2>1, <3>2
      <4>2. \/ chat[j][1] < chat[i][1]
            \/ chat[j][1] = chat[i][1] /\ chat[j][2] <= chat[i][2]
        BY <3>2 DEF FeishuInv, Fr!ShownInOrder, n
      <4> QED BY <2>1, <3>2, <4>1, <4>2
    <3> QED BY <2>1, <3>1, <3>2
  <2>6. \A i \in 1..(n + 1) : ackAt[chat'[i]] # 0 => i <= ackAt[chat'[i]]
    <3>1. \A i \in 1..n : ackAt[chat[i]] # 0 => i <= ackAt[chat[i]]
      BY DEF FeishuInv, Fr!ShownInOrder, n
    <3> QED BY <1>4, <2>1, <3>1, SMTT(30)
  <2> QED BY <1>2, <1>4, <2>1, <2>3, <2>5, <2>6
<1> QED BY <1>5, <1>6 DEF Fr!Shown

\* A part that is shown or not, and neither acknowledged nor done with.
LEMMA ShowingKeeps ==
    ASSUME FeishuInv, feishuAt # "idle", NEW shows \in BOOLEAN, Fr!Shown(shows),
           feishuAt' # "idle", UNCHANGED <<reply, feishuPart, ackAt>>
    PROVE  FeishuInv'
<1>1. \A post : Before(post)' <=> Before(post)
  BY DEF Before
<1> QED BY <1>1, ShowingKeepsOrder DEF FeishuInv, Fr!ShownInOrder

\* A part that is done with unacknowledged.
LEMMA GivingPartUpKeeps ==
    ASSUME FeishuInv, feishuAt # "idle", NEW shows \in BOOLEAN, Fr!Shown(shows), Fr!Advance,
           UNCHANGED <<reply, ackAt>>
    PROVE  FeishuInv'
<1>1. \A i \in 1..Len(chat') : chat'[i] \in Fr!Posts
  BY ShowingKeepsOrder, ElementOfSeq
<1>2. (\A i \in 1..Len(chat) : Before(chat[i]))'
  BY <1>1, ShowingKeepsOrder, AdvanceGoesOn
<1>3. \A post \in Fr!Posts : ackAt'[post] # 0 => Before(post)'
  BY AdvanceGoesOn DEF FeishuInv
<1>4. Fr!ShownInOrder'
  BY ShowingKeepsOrder DEF Fr!ShownInOrder
<1>5. ackAt' \in [Fr!Posts -> Nat]
  BY DEF FeishuInv
<1> QED BY <1>2, <1>3, <1>4, <1>5, ShowingKeepsOrder, AdvanceGoesOn DEF FeishuInv

\* An acknowledged part: the chat shows it last.
LEMMA AcknowledgedKeeps ==
    ASSUME FeishuInv, feishuAt # "idle", Fr!Acknowledged PROVE FeishuInv'
<1> DEFINE post == <<reply, feishuPart>>
<1>1. /\ Fr!Shown(TRUE) /\ Fr!Advance /\ UNCHANGED reply
      /\ ackAt' = [ackAt EXCEPT ![post] = Len(chat')]
  BY DEF Fr!Acknowledged
<1>2. post \in Fr!Posts /\ chat' \in Seq(Fr!Posts) /\ Len(chat') \in Nat
  BY <1>1, ShowingKeepsOrder, LenProperties
<1>3. \A i \in 1..Len(chat') : chat'[i] \in Fr!Posts
  BY <1>2, ElementOfSeq
<1>4. (\A i \in 1..Len(chat) : Before(chat[i]))'
  BY <1>1, <1>3, ShowingKeepsOrder, AdvanceGoesOn
<1>5. /\ ackAt' \in [Fr!Posts -> Nat] /\ ackAt'[post] = Len(chat')
      /\ \A q \in Fr!Posts : q # post => ackAt'[q] = ackAt[q]
  BY <1>1, <1>2 DEF FeishuInv
<1>6. \A q \in Fr!Posts : ackAt'[q] # 0 => Before(q)'
  BY <1>1, <1>5, AdvanceGoesOn DEF FeishuInv
<1>7. \A i \in 1..Len(chat') : ackAt'[chat'[i]] # 0 => i <= ackAt'[chat'[i]]
  <2> SUFFICES ASSUME NEW i \in 1..Len(chat'), ackAt'[chat'[i]] # 0
               PROVE  i <= ackAt'[chat'[i]]
    OBVIOUS
  <2>1. CASE chat'[i] = post
    BY <1>2, <1>5, <2>1
  <2>2. CASE chat'[i] # post
    BY <1>1, <1>3, <1>5, <2>2, ShowingKeepsOrder
  <2> QED BY <2>1, <2>2
<1>8. Fr!ShownInOrder'
  BY <1>1, <1>7, ShowingKeepsOrder DEF Fr!ShownInOrder
<1> QED BY <1>1, <1>2, <1>4, <1>5, <1>6, <1>8, AdvanceGoesOn DEF FeishuInv

LEMMA FeishuKeeps == FeishuInv /\ [Fr!Next]_(Fr!feishuVars) => FeishuInv'
<1> SUFFICES ASSUME FeishuInv, [Fr!Next]_(Fr!feishuVars) PROVE FeishuInv'
  OBVIOUS
<1>1. CASE UNCHANGED Fr!feishuVars
  BY <1>1 DEF Fr!feishuVars, FeishuInv, Before, Fr!ShownInOrder
<1>2. CASE Fr!Send
  <2>1. /\ feishuAt = "idle" /\ reply < MaxReplies /\ reply' = reply + 1 /\ feishuPart' = 1
        /\ UNCHANGED <<chat, ackAt>>
    BY <1>2 DEF Fr!Send
  <2>2. reply' \in 0..MaxReplies /\ reply' # 0 /\ reply \in Nat /\ feishuPart' \in FeishuParts
    BY <2>1, ChannelsAssumption DEF FeishuInv, FeishuParts
  <2>3. ASSUME NEW post \in Fr!Posts, Before(post) \/ post = <<reply, feishuPart>>
        PROVE  Before(post)'
    <3>1. post[1] \in Nat /\ post[1] <= reply
      BY <2>2, <2>3, ChannelsAssumption DEF Fr!Posts, Before
    <3> QED BY <2>1, <2>2, <3>1 DEF Before
  <2>4. \A i \in 1..Len(chat) : chat[i] \in Fr!Posts
    BY ElementOfSeq DEF FeishuInv
  <2> QED BY <2>1, <2>2, <2>3, <2>4 DEF FeishuInv, Fr!ShownInOrder
<1>3. CASE Fr!SkipPart
  <2>1. /\ feishuAt # "idle" /\ Fr!Advance /\ Fr!Shown(FALSE) /\ UNCHANGED <<reply, ackAt>>
    BY <1>3 DEF Fr!SkipPart, Fr!Shown
  <2> QED BY <2>1, GivingPartUpKeeps
<1>4. CASE Fr!UploadRaises
  <2>1. /\ feishuAt = "file" /\ feishuAt' = "idle" /\ feishuPart' = 1
        /\ UNCHANGED <<reply, chat, ackAt>>
    BY <1>4 DEF Fr!UploadRaises
  <2>2. ASSUME NEW post \in Fr!Posts, Before(post) \/ post = <<reply, feishuPart>>
        PROVE  Before(post)'
    BY <2>1, <2>2 DEF Before
  <2>3. \A i \in 1..Len(chat) : chat[i] \in Fr!Posts
    BY ElementOfSeq DEF FeishuInv
  <2>4. feishuPart' \in FeishuParts
    BY <2>1, ChannelsAssumption DEF FeishuParts
  <2> QED BY <2>1, <2>2, <2>3, <2>4 DEF FeishuInv, Fr!ShownInOrder
<1>5. CASE Fr!Post
  <2>1. /\ feishuAt # "idle" /\ feishuAt' # "idle" /\ Fr!Shown(FALSE)
        /\ UNCHANGED <<reply, feishuPart, ackAt>>
    BY <1>5 DEF Fr!Post, Fr!Shown
  <2> QED BY <2>1, ShowingKeeps
<1>6. CASE Fr!ReplyMessage
  <2>1. feishuAt # "idle"
    BY <1>6 DEF Fr!ReplyMessage
  <2>2. CASE Fr!Acknowledged
    BY <2>1, <2>2, AcknowledgedKeeps
  <2>3. CASE /\ \E shows \in BOOLEAN : Fr!Shown(shows)
             /\ feishuAt' = "create" /\ UNCHANGED <<reply, feishuPart, ackAt>>
    BY <2>1, <2>3, ShowingKeeps
  <2> QED BY <1>6, <2>2, <2>3 DEF Fr!ReplyMessage
<1>7. CASE Fr!SendMessage
  <2>1. feishuAt # "idle"
    BY <1>7 DEF Fr!SendMessage
  <2>2. CASE Fr!Acknowledged
    BY <2>1, <2>2, AcknowledgedKeeps
  <2>3. CASE Fr!Retry
    <3>1. PICK shows \in BOOLEAN : Fr!Shown(shows)
      BY <2>3 DEF Fr!Retry
    <3>2. CASE UNCHANGED <<reply, feishuPart, feishuAt, ackAt>>
      BY <2>1, <3>1, <3>2, ShowingKeeps
    <3>3. CASE Fr!Advance /\ UNCHANGED <<reply, ackAt>>
      BY <2>1, <3>1, <3>3, GivingPartUpKeeps
    <3> QED BY <2>3, <3>2, <3>3 DEF Fr!Retry
  <2>4. CASE Fr!Refused
    BY <2>1, <2>4, GivingPartUpKeeps DEF Fr!Refused
  <2> QED BY <1>7, <2>2, <2>3, <2>4 DEF Fr!SendMessage
<1> QED BY <1>1, <1>2, <1>3, <1>4, <1>5, <1>6, <1>7 DEF Fr!Next

LEMMA FeishuStarts == ChannelsInit => FeishuInv
<1> HAVE ChannelsInit
<1>1. /\ reply = 0 /\ feishuPart = 1 /\ feishuAt = "idle" /\ chat = <<>>
      /\ ackAt = [post \in Fr!Posts |-> 0]
  BY DEF ChannelsInit, Fr!Init
<1>2. chat \in Seq(Fr!Posts) /\ Len(chat) = 0
  BY <1>1, EmptySeq
<1> QED
  BY <1>1, <1>2, ChannelsAssumption DEF FeishuInv, FeishuParts, Before, Fr!ShownInOrder

LEMMA FeishuInvariant == ChannelsSpec => []FeishuInv
<1>1. FeishuInv /\ [ChannelsNext]_channelVars => FeishuInv'
  BY FeishuKeeps, ChannelSteps
<1> QED BY <1>1, FeishuStarts, PTL DEF ChannelsSpec

-----------------------------------------------------------------------------
(* The recognition of speech.                                              *)
\* Answers on their way that bring a text.
Brings(flow, i) == flow[i].kind = "response" /\ flow[i].text # 0

\* The last text the service gave is the last one on its way or, if none is, the one the
\* client has; nothing follows the answer marked last.
RecognitionInv ==
    /\ asrWire \in Seq(Sr!Answers)
    /\ (\A i \in 1..Len(asrWire) : ~Brings(asrWire, i)) => heardText = said
    /\ \A i \in 1..Len(asrWire) :
          Brings(asrWire, i) /\ (\A j \in 1..Len(asrWire) : j > i => ~Brings(asrWire, j))
            => asrWire[i].text = said
    /\ \A i \in 1..Len(asrWire) :
          asrWire[i].last => i = Len(asrWire) /\ asrService # "listens"
    /\ asrEnd = "last" => asrWire = <<>> /\ asrService # "listens"
    /\ recognizer \in {"streaming", "call"} => asrWire = <<>>
    /\ recognizer = "text" /\ asrEnd # "silent" => heardText = said

\* The service answers.
LEMMA AnswerKeeps ==
    ASSUME RecognitionInv, NEW answer \in Sr!Answers, Sr!Send(answer),
           answer.last => asrService' # "listens",
           UNCHANGED <<recognizer, heardText, asrEnd>>
    PROVE  RecognitionInv'
<1> DEFINE n == Len(asrWire)
<1>1. asrWire \in Seq(Sr!Answers) /\ n \in Nat
  BY LenProperties DEF RecognitionInv
<1>2. asrWire' = Append(asrWire, answer) /\ asrService = "listens"
  BY DEF Sr!Send
<1>3. /\ asrWire' \in Seq(Sr!Answers) /\ Len(asrWire') = n + 1
      /\ \A i \in 1..n : asrWire'[i] = asrWire[i]
      /\ asrWire'[n + 1] = answer
  BY <1>1, <1>2, AppendProperties
<1>4. /\ \A i \in 1..n : Brings(asrWire', i) <=> Brings(asrWire, i)
      /\ Brings(asrWire', n + 1) <=> answer.kind = "response" /\ answer.text # 0
  BY <1>3 DEF Brings
<1>5. said' = IF Brings(asrWire', n + 1) THEN answer.text ELSE said
  BY <1>4 DEF Sr!Send, Sr!Latest
<1>6. ASSUME \A i \in 1..(n + 1) : ~Brings(asrWire', i) PROVE heardText' = said'
  <2>1. \A i \in 1..n : ~Brings(asrWire, i)
    BY <1>1, <1>4, <1>6
  <2> QED BY <1>1, <1>5, <1>6, <2>1 DEF RecognitionInv
<1>7. ASSUME NEW i \in 1..(n + 1), Brings(asrWire', i),
             \A j \in 1..(n + 1) : j > i => ~Brings(asrWire', j)
      PROVE  asrWire'[i].text = said'
  <2>1. CASE i = n + 1
    BY <1>3, <1>5, <1>7, <2>1
  <2>2. CASE i \in 1..n
    <3>1. ~Brings(asrWire', n + 1)
      BY <1>1, <1>7, <2>2
    <3>2. Brings(asrWire, i) /\ \A j \in 1..n : j > i => ~Brings(asrWire, j)
      BY <1>1, <1>4, <1>7, <2>2
    <3>3. asrWire[i].text = said
      BY <2>2, <3>2 DEF RecognitionInv
    <3> QED BY <1>3, <1>5, <2>2, <3>1, <3>3
  <2> QED BY <1>1, <2>1, <2>2
<1>8. \A i \in 1..(n + 1) :
          asrWire'[i].last => i = Len(asrWire') /\ asrService' # "listens"
  <2> TAKE i \in 1..(n + 1)
  <2> QED BY <1>1, <1>2, <1>3 DEF RecognitionInv
<1>9. /\ asrEnd' # "last" /\ recognizer' \notin {"streaming", "call", "text"}
  BY <1>2 DEF RecognitionInv, Sr!Send, Sr!Online
<1> QED BY <1>3, <1>6, <1>7, <1>8, <1>9 DEF RecognitionInv

\* The client takes the first answer off the wire, and its text if it brings one.
LEMMA ReadingKeepsText ==
    ASSUME RecognitionInv, asrWire # <<>>, asrWire' = Tail(asrWire),
           heardText' = IF Brings(asrWire, 1) THEN asrWire[1].text ELSE heardText,
           asrEnd' = "last" => asrWire[1].last \/ asrEnd = "last",
           recognizer' = "text" => asrWire[1].last,
           recognizer' \notin {"streaming", "call"},
           UNCHANGED <<asrService, said>>
    PROVE  RecognitionInv'
<1> DEFINE n == Len(asrWire)
<1>1. asrWire \in Seq(Sr!Answers) /\ n \in Nat /\ n > 0
  BY LenProperties, EmptySeq DEF RecognitionInv
<1>2. /\ asrWire' \in Seq(Sr!Answers) /\ Len(asrWire') = n - 1
      /\ \A i \in 1..(n - 1) : asrWire'[i] = asrWire[i + 1]
  BY <1>1, HeadTailProperties
<1>3. \A i \in 1..(n - 1) : i + 1 \in 1..n /\ (Brings(asrWire', i) <=> Brings(asrWire, i + 1))
  BY <1>1, <1>2 DEF Brings
<1>4. ASSUME \A i \in 1..(n - 1) : ~Brings(asrWire', i) PROVE heardText' = said'
  <2>1. \A j \in 1..n : j > 1 => ~Brings(asrWire, j)
    <3> SUFFICES ASSUME NEW j \in 1..n, j > 1 PROVE ~Brings(asrWire, j)
      OBVIOUS
    <3>1. j - 1 \in 1..(n - 1) /\ (j - 1) + 1 = j
      BY <1>1
    <3>2. Brings(asrWire', j - 1) <=> Brings(asrWire, j)
      BY <1>3, <3>1
    <3> QED BY <1>4, <3>1, <3>2
  <2>2. CASE Brings(asrWire, 1)
    BY <1>1, <2>1, <2>2 DEF RecognitionInv
  <2>3. CASE ~Brings(asrWire, 1)
    <3>1. \A j \in 1..n : ~Brings(asrWire, j)
      BY <1>1, <2>1, <2>3
    <3> QED BY <2>3, <3>1 DEF RecognitionInv
  <2> QED BY <2>2, <2>3
<1>5. ASSUME NEW i \in 1..(n - 1), Brings(asrWire', i),
             \A j \in 1..(n - 1) : j > i => ~Brings(asrWire', j)
      PROVE  asrWire'[i].text = said'
  <2>1. i + 1 \in 1..n /\ Brings(asrWire, i + 1)
    BY <1>3, <1>5
  <2>2. \A j \in 1..n : j > i + 1 => ~Brings(asrWire, j)
    <3> SUFFICES ASSUME NEW j \in 1..n, j > i + 1 PROVE ~Brings(asrWire, j)
      OBVIOUS
    <3>1. j - 1 \in 1..(n - 1) /\ (j - 1) + 1 = j /\ j - 1 > i
      BY <1>1
    <3>2. Brings(asrWire', j - 1) <=> Brings(asrWire, j)
      BY <1>3, <3>1
    <3> QED BY <1>5, <3>1, <3>2
  <2>3. asrWire[i + 1].text = said
    BY <2>1, <2>2 DEF RecognitionInv
  <2> QED BY <1>2, <2>3
<1>6. \A i \in 1..(n - 1) :
          asrWire'[i].last => i = Len(asrWire') /\ asrService' # "listens"
  <2> TAKE i \in 1..(n - 1)
  <2>1. i + 1 \in 1..n /\ asrWire'[i] = asrWire[i + 1] /\ Len(asrWire') = n - 1
    BY <1>1, <1>2
  <2>2. asrWire[i + 1].last => i + 1 = n /\ asrService # "listens"
    BY <2>1 DEF RecognitionInv
  <2>3. i + 1 = n => i = Len(asrWire')
    <3>1. i \in Int /\ n \in Int /\ Len(asrWire') = n - 1
      BY <1>1, <1>2
    <3> HIDE DEF n
    <3> QED BY <3>1
  <2>4. asrService' = asrService
    OBVIOUS
  <2> QED BY <2>1, <2>2, <2>3, <2>4, Zenon
<1>7. asrWire[1].last => asrWire' = <<>> /\ asrService' # "listens"
  <2> HAVE asrWire[1].last
  <2>1. n = 1 /\ asrService # "listens"
    BY <1>1 DEF RecognitionInv
  <2> QED BY <1>2, <2>1, EmptySeq
<1>8. asrEnd # "last"
  BY DEF RecognitionInv
<1>9. recognizer' = "text" => heardText' = said'
  <2> HAVE recognizer' = "text"
  <2>1. Len(asrWire') = 0 /\ Len(asrWire') = n - 1
    BY <1>2, <1>7, EmptySeq
  <2>2. \A i \in 1..(n - 1) : FALSE
    BY <2>1
  <2> QED BY <1>4, <2>2
<1> QED BY <1>2, <1>4, <1>5, <1>6, <1>7, <1>8, <1>9 DEF RecognitionInv

LEMMA RecognitionKeeps == RecognitionInv /\ [Sr!Next]_(Sr!recognitionVars) => RecognitionInv'
<1> SUFFICES ASSUME RecognitionInv, [Sr!Next]_(Sr!recognitionVars) PROVE RecognitionInv'
  OBVIOUS
<1> USE DEF Sr!own, Sr!peer
<1>1. ASSUME NEW t \in Sr!Texts, Sr!Hypothesis(t) \/ Sr!LastAnswer(t)
      PROVE  RecognitionInv'
  <2>1. PICK marked \in BOOLEAN :
            /\ Sr!Send([kind |-> "response", text |-> t, last |-> marked])
            /\ marked => asrService' # "listens"
    BY <1>1 DEF Sr!Hypothesis, Sr!LastAnswer
  <2>2. [kind |-> "response", text |-> t, last |-> marked] \in Sr!Answers
    BY DEF Sr!Answers
  <2>3. UNCHANGED <<recognizer, heardText, asrEnd>>
    BY <1>1 DEF Sr!Hypothesis, Sr!LastAnswer
  <2> QED BY <2>1, <2>2, <2>3, AnswerKeeps
<1>2. CASE Sr!Acknowledge \/ Sr!Refuse
  <2>1. PICK kind \in {"other", "error"} :
            Sr!Send([kind |-> kind, text |-> 0, last |-> FALSE])
    BY <1>2 DEF Sr!Acknowledge, Sr!Refuse
  <2>2. [kind |-> kind, text |-> 0, last |-> FALSE] \in Sr!Answers
    BY ChannelsAssumption DEF Sr!Answers, Sr!Texts
  <2>3. UNCHANGED <<recognizer, heardText, asrEnd>>
    BY <1>2 DEF Sr!Acknowledge, Sr!Refuse
  <2> QED BY <2>1, <2>2, <2>3, AnswerKeeps
<1>3. CASE Sr!Read
  <2>1. /\ asrWire # <<>> /\ asrWire' = Tail(asrWire) /\ Head(asrWire) = asrWire[1]
        /\ recognizer \in {"drain", "final"} /\ asrWire[1].kind = "response"
    BY <1>3, HeadTailProperties DEF Sr!Read, Sr!Arrives, RecognitionInv
  <2>2. heardText' = IF Brings(asrWire, 1) THEN asrWire[1].text ELSE heardText
    BY <1>3, <2>1 DEF Sr!Read, Sr!Latest, Brings
  <2>3. /\ asrEnd' = "last" => asrWire[1].last \/ asrEnd = "last"
        /\ recognizer' = "text" => asrWire[1].last
        /\ recognizer' \notin {"streaming", "call"} /\ UNCHANGED <<asrService, said>>
    BY <1>3, <2>1 DEF Sr!Read, Sr!GoOn
  <2> QED BY <2>1, <2>2, <2>3, ReadingKeepsText
<1>4. CASE Sr!PassOver
  <2>1. /\ asrWire # <<>> /\ asrWire' = Tail(asrWire) /\ Head(asrWire) = asrWire[1]
        /\ recognizer \in {"drain", "final"} /\ asrWire[1].kind = "other"
        /\ UNCHANGED <<recognizer, heardText, asrEnd, asrService, said>>
    BY <1>4, HeadTailProperties DEF Sr!PassOver, Sr!Arrives, RecognitionInv
  <2>2. ~Brings(asrWire, 1)
    BY <2>1 DEF Brings
  <2> QED BY <2>1, <2>2, ReadingKeepsText
<1>5. ASSUME UNCHANGED <<asrWire, heardText, said, asrEnd>>,
             asrService' = "listens" => asrService = "listens",
             recognizer' \in {"streaming", "call", "text"} => recognizer' = recognizer
      PROVE  RecognitionInv'
  BY <1>5 DEF RecognitionInv, Brings
<1>6. CASE \/ Sr!Close \/ Sr!SendChunk \/ Sr!NothingYet \/ Sr!Raise \/ Sr!Cancel
           \/ UNCHANGED Sr!recognitionVars
  BY <1>5, <1>6
  DEF Sr!Close, Sr!SendChunk, Sr!NothingYet, Sr!GoOn, Sr!Raise, Sr!Cancel,
      Sr!recognitionVars
<1>7. CASE Sr!Timeout
  <2>1. /\ recognizer' = "text" /\ asrEnd' \in {"last", "silent"}
        /\ asrEnd' = "last" => asrEnd = "last"
        /\ UNCHANGED <<asrWire, heardText, said, asrService>>
    BY <1>7 DEF Sr!Timeout
  <2>2. asrEnd' # "silent" => heardText' = said'
    <3> HAVE asrEnd' # "silent"
    <3>1. asrWire = <<>>
      BY <2>1 DEF RecognitionInv
    <3>2. Len(asrWire) = 0
      BY <3>1
    <3> QED BY <2>1, <3>2 DEF RecognitionInv
  <2> QED BY <2>1, <2>2 DEF RecognitionInv, Brings
<1>8. ASSUME NEW t \in Sr!Texts, Sr!Hear(t) \/ Sr!Call(t) PROVE RecognitionInv'
  <2>1. /\ recognizer \in {"streaming", "call"} /\ asrWire = <<>> /\ Len(asrWire) = 0
    BY <1>8 DEF Sr!Hear, Sr!Call, RecognitionInv
  <2>2. heardText = said
    BY <2>1 DEF RecognitionInv
  <2>3. /\ heardText' = said' /\ UNCHANGED <<asrWire, asrEnd, asrService>>
    BY <1>8, <2>2 DEF Sr!Hear, Sr!Call
  <2> QED BY <2>1, <2>3 DEF RecognitionInv, Brings
<1> QED BY <1>1, <1>2, <1>3, <1>4, <1>6, <1>7, <1>8 DEF Sr!Next

LEMMA RecognitionInvariant == ChannelsSpec => []RecognitionInv
<1>1. ChannelsInit => RecognitionInv
  BY EmptySeq DEF ChannelsInit, Sr!Init, RecognitionInv
<1>2. RecognitionInv /\ [ChannelsNext]_channelVars => RecognitionInv'
  BY RecognitionKeeps, ChannelSteps
<1> QED BY <1>1, <1>2, PTL DEF ChannelsSpec

\* Whatever parts a page missed and however often it came back, what it shows as finished
\* is the whole text; whatever is lost or repeated, Feishu shows replies and their parts
\* in order and none again that it has acknowledged; and however the answers fall between
\* the chunks of an utterance, its text is the last one the service gave, unless that
\* fell silent (channels/web.py, send; channels/feishu/transport.py, send_message;
\* audio/asr.py, transcribe_wav and _consume_available_text).
THEOREM TextsStayWhole == ChannelsSpec => []TextsArriveWhole
<1>1. WebInv /\ FeishuInv /\ RecognitionInv => TextsArriveWhole
  BY DEF WebInv, FeishuInv, RecognitionInv, TextsArriveWhole, Sr!UtteranceIsWhole
<1> QED BY <1>1, WebInvariant, FeishuInvariant, RecognitionInvariant, PTL

-----------------------------------------------------------------------------
(* The types. What the invariants above say nothing of is typed by an      *)
(* invariant of its own for each component.                                *)

\* The synthesis: no message counts more audio than was rendered, no more is rendered than
\* was asked for.
SynthesisRest ==
    /\ speaker \in {"connect", "open", "send", "receive"} \cup Ss!Done
    /\ chunksAsked \in 0..TextChunks /\ finishing \in BOOLEAN
    /\ rendered <= chunksAsked /\ \A i \in 1..Len(inbox) : inbox[i].piece <= rendered
    /\ ttsService \in {"new", "connected", "started", "finished", "failed", "closed"}
    /\ reports \in 0..MaxReports
    /\ \A i \in 1..Len(yielded) : yielded[i] \in 1..TextChunks

SynthesisTypes == SynthesisInv /\ SynthesisRest

LEMMA SynthesisIsTyped == SynthesisTypes => Ss!TypeOK
<1> SUFFICES ASSUME SynthesisTypes PROVE Ss!TypeOK
  OBVIOUS
<1>1. /\ inbox \in Seq(SpeechMessages) /\ yielded \in Seq(Nat) /\ rendered \in Nat
      /\ chunksAsked \in 0..TextChunks /\ TextChunks \in Nat /\ rendered <= chunksAsked
  BY ChannelsAssumption DEF SynthesisTypes, SynthesisInv, SynthesisRest
<1>2. DOMAIN inbox = 1..Len(inbox) /\ DOMAIN yielded = 1..Len(yielded)
  BY <1>1, LenProperties
<1>3. rendered \in 0..TextChunks
  BY <1>1
<1>4. ASSUME NEW i \in DOMAIN inbox
      PROVE  inbox[i] \in [kind : Ss!Kinds, piece : 0..TextChunks]
  <2>1. inbox[i] \in SpeechMessages
    BY <1>1, <1>2, ElementOfSeq
  <2>2. inbox[i].piece <= rendered
    BY <1>2 DEF SynthesisTypes, SynthesisRest
  <2>3. inbox[i].piece \in 0..TextChunks
    BY <1>3, <2>1, <2>2, ChannelsAssumption DEF SpeechMessages
  <2> QED BY <2>1, <2>3 DEF SpeechMessages
<1> QED BY <1>2, <1>3, <1>4 DEF SynthesisTypes, SynthesisRest, Ss!TypeOK

\* A message is sent that counts no more than is rendered then.
LEMMA SendingKeepsBound ==
    ASSUME SynthesisTypes, NEW message, message.piece \in Nat, message.piece <= rendered',
           inbox' = Append(inbox, message), rendered <= rendered', rendered' \in Nat
    PROVE  \A i \in 1..Len(inbox') : inbox'[i].piece <= rendered'
<1>1. inbox \in Seq(SpeechMessages) /\ rendered \in Nat /\ Len(inbox) \in Nat
  BY LenProperties DEF SynthesisTypes, SynthesisInv
<1>2. ASSUME NEW i \in 1..Len(inbox)
      PROVE  inbox[i].piece \in Nat /\ inbox[i].piece <= rendered
  <2>1. inbox[i] \in SpeechMessages
    BY <1>1, ElementOfSeq
  <2> QED BY <2>1 DEF SynthesisTypes, SynthesisRest, SpeechMessages
<1>3. ASSUME NEW i \in 1..(Len(inbox) + 1) PROVE inbox'[i].piece <= rendered'
  <2>1. CASE i = Len(inbox) + 1
    BY <1>1, <2>1
  <2>2. CASE i \in 1..Len(inbox)
    <3>1. inbox'[i] = inbox[i]
      BY <1>1, <2>2
    <3>2. inbox[i].piece \in Nat /\ inbox[i].piece <= rendered
      BY <1>2, <2>2
    <3> QED BY <1>1, <3>1, <3>2
  <2> QED BY <1>1, <2>1, <2>2
<1>4. Len(inbox') = Len(inbox) + 1
  BY <1>1
<1> QED BY <1>3, <1>4

LEMMA SynthesisTypesKept ==
    SynthesisTypes /\ [Ss!Next]_(Ss!synthesisVars) => SynthesisTypes'
<1> SUFFICES ASSUME SynthesisTypes, [Ss!Next]_(Ss!synthesisVars) PROVE SynthesisRest'
  BY SynthesisKeeps DEF SynthesisTypes
<1> USE DEF Ss!own
<1>1. /\ inbox \in Seq(SpeechMessages) /\ yielded \in Seq(Nat) /\ rendered \in Nat
      /\ chunksAsked \in 0..TextChunks /\ TextChunks \in Nat /\ rendered <= chunksAsked
  BY ChannelsAssumption DEF SynthesisTypes, SynthesisInv, SynthesisRest
<1>2. CASE Ss!Connected \/ Ss!Started \/ Ss!Render \/ Ss!Finished \/ Ss!Report \/ Ss!Fail
  <2>1. rendered' = rendered \/ (rendered' = rendered + 1 /\ rendered < chunksAsked)
    BY <1>2 DEF Ss!Connected, Ss!Started, Ss!Render, Ss!Finished, Ss!Report, Ss!Fail
  <2>2. PICK kind, n : inbox' = Append(inbox, [kind |-> kind, piece |-> n]) /\ n \in {0, rendered'}
    BY <1>2 DEF Ss!Connected, Ss!Started, Ss!Render, Ss!Finished, Ss!Report, Ss!Fail, Ss!Sends
  <2>3. chunksAsked' = chunksAsked /\ rendered <= rendered' /\ rendered' \in Nat
    BY <1>1, <1>2, <2>1
    DEF Ss!Connected, Ss!Started, Ss!Render, Ss!Finished, Ss!Report, Ss!Fail
  <2>4. [kind |-> kind, piece |-> n].piece = n /\ n \in Nat /\ n <= rendered'
    BY <2>2, <2>3
  <2>5. \A i \in 1..Len(inbox') : inbox'[i].piece <= rendered'
    BY <2>2, <2>3, <2>4, SendingKeepsBound
  <2>6. rendered' <= chunksAsked' /\ chunksAsked' \in 0..TextChunks
    BY <1>1, <2>1, <2>3
  <2>7. reports' = reports \/ (reports < MaxReports /\ reports' = reports + 1)
    BY <1>2 DEF Ss!Connected, Ss!Started, Ss!Render, Ss!Finished, Ss!Report, Ss!Fail
  <2>8. reports' \in 0..MaxReports
    <3>1. reports \in 0..MaxReports /\ MaxReports \in Nat
      BY ChannelsAssumption DEF SynthesisTypes, SynthesisRest
    <3> QED BY <2>7, <3>1
  <2>9. /\ UNCHANGED <<speaker, finishing, yielded>>
        /\ ttsService' \in {ttsService, "connected", "started", "finished", "failed"}
    BY <1>2 DEF Ss!Connected, Ss!Started, Ss!Render, Ss!Finished, Ss!Report, Ss!Fail
  <2> QED BY <2>5, <2>6, <2>8, <2>9 DEF SynthesisTypes, SynthesisRest
<1>3. CASE \/ Ss!ExpectConnected \/ Ss!ExpectStarted
           \/ Ss!Yield \/ Ss!PassOver \/ Ss!ReadFinished
  <2>1. /\ inbox # <<>> /\ inbox' = Tail(inbox)
        /\ UNCHANGED <<chunksAsked, finishing, rendered, ttsService, reports>>
        /\ speaker' \in {speaker, "open", "send", "done"}
    BY <1>3 DEF Ss!ExpectConnected, Ss!ExpectStarted, Ss!Yield, Ss!PassOver,
                Ss!ReadFinished, Ss!Reads, Ss!Goto
  <2>2. /\ Head(inbox) = inbox[1] /\ Len(inbox') = Len(inbox) - 1 /\ Len(inbox) \in Nat
        /\ \A i \in 1..Len(inbox') : inbox'[i] = inbox[i + 1]
    BY <1>1, <2>1, HeadTailProperties, LenProperties
  <2>3. \A i \in 1..Len(inbox') : inbox'[i].piece <= rendered'
    <3> TAKE i \in 1..Len(inbox')
    <3>1. i + 1 \in 1..Len(inbox)
      BY <2>2
    <3> QED BY <2>1, <2>2, <3>1 DEF SynthesisTypes, SynthesisRest
  <2>4. \A i \in 1..Len(yielded') : yielded'[i] \in 1..TextChunks
    <3>1. CASE yielded' = yielded
      BY <3>1 DEF SynthesisTypes, SynthesisRest
    <3>2. CASE Ss!Yield
      <4>1. /\ inbox[1].kind = "audio" /\ yielded' = Append(yielded, inbox[1].piece)
        BY <2>2, <3>2 DEF Ss!Yield, Ss!Reads
      <4>2. 1 \in 1..Len(inbox) /\ inbox[1] \in SpeechMessages
        BY <1>1, <2>1, EmptyIsZeroLong, ElementOfSeq
      <4>3. inbox[1].piece \in Nat /\ inbox[1].piece <= rendered
        BY <4>2 DEF SynthesisTypes, SynthesisRest, SpeechMessages
      <4>4. inbox[1].piece = Len(yielded) + 1 /\ Len(yielded) \in Nat
        BY <1>1, <2>1, <4>1, LenProperties DEF SynthesisTypes, SynthesisInv, Counts
      <4>5. inbox[1].piece \in 1..TextChunks
        BY <1>1, <4>3, <4>4
      <4>6. /\ Len(yielded') = Len(yielded) + 1
            /\ \A i \in 1..Len(yielded) : yielded'[i] = yielded[i]
            /\ yielded'[Len(yielded) + 1] = inbox[1].piece
        BY <1>1, <4>1, <4>3, AppendProperties
      <4>7. \A i \in 1..Len(yielded) : yielded[i] \in 1..TextChunks
        BY DEF SynthesisTypes, SynthesisRest
      <4> QED BY <4>4, <4>5, <4>6, <4>7
    <3> QED
      BY <1>3, <3>1, <3>2
      DEF Ss!ExpectConnected, Ss!ExpectStarted, Ss!PassOver, Ss!ReadFinished
  <2>5. speaker' \in {"connect", "open", "send", "receive"} \cup Ss!Done
    BY <2>1 DEF SynthesisTypes, SynthesisRest, Ss!Done
  <2> QED BY <2>1, <2>3, <2>4, <2>5 DEF SynthesisTypes, SynthesisRest
<1>4. CASE Ss!Close \/ Ss!SendText \/ Ss!FinishEpisode \/ Ss!Raise \/ Ss!Abandon
           \/ UNCHANGED Ss!synthesisVars
  <2>1. /\ UNCHANGED <<inbox, yielded, rendered, reports>>
        /\ speaker' \in {speaker, "receive", "raised"} /\ finishing' \in {finishing, TRUE}
        /\ ttsService' \in {ttsService, "closed"}
    BY <1>4 DEF Ss!Close, Ss!SendText, Ss!FinishEpisode, Ss!Raise, Ss!Abandon, Ss!Goto,
                Ss!synthesisVars
  <2>2. \/ chunksAsked' = chunksAsked
        \/ chunksAsked < TextChunks /\ chunksAsked' = chunksAsked + 1
    BY <1>4 DEF Ss!Close, Ss!SendText, Ss!FinishEpisode, Ss!Raise, Ss!Abandon,
                Ss!synthesisVars
  <2>3. rendered' <= chunksAsked' /\ chunksAsked' \in 0..TextChunks
    BY <1>1, <2>1, <2>2
  <2>4. /\ speaker' \in {"connect", "open", "send", "receive"} \cup Ss!Done
        /\ finishing' \in BOOLEAN
    BY <2>1 DEF SynthesisTypes, SynthesisRest, Ss!Done
  <2> QED BY <2>1, <2>3, <2>4 DEF SynthesisTypes, SynthesisRest
<1> QED BY <1>2, <1>3, <1>4 DEF Ss!Next

LEMMA SynthesisBegins == ChannelsInit => SynthesisTypes
<1> SUFFICES ASSUME ChannelsInit PROVE SynthesisTypes
  OBVIOUS
<1>1. /\ speaker = "connect" /\ chunksAsked = 0 /\ finishing = FALSE /\ inbox = <<>>
      /\ rendered = 0 /\ ttsService = "new" /\ reports = 0 /\ yielded = <<>>
  BY DEF ChannelsInit, Ss!Init
<1>2. Len(inbox) = 0 /\ Len(yielded) = 0 /\ 0 \in 0..TextChunks /\ 0 \in 0..MaxReports
  BY <1>1, EmptySeq, ChannelsAssumption
<1>3. SynthesisRest
  <2>1. /\ \A i \in 1..Len(inbox) : inbox[i].piece <= rendered
        /\ \A i \in 1..Len(yielded) : yielded[i] \in 1..TextChunks
        /\ rendered <= chunksAsked
    BY <1>1, <1>2
  <2> QED BY <1>1, <1>2, <2>1 DEF SynthesisRest
<1>4. SynthesisInv
  BY <1>1, <1>2, EmptySeq DEF SynthesisInv
<1> QED BY <1>3, <1>4 DEF SynthesisTypes

\* The recognition: a client that still sends or listens has chunks left, a client that
\* listens on has not been quiet too long.
RecognitionRest ==
    /\ recognizer \in Sr!Online \cup {"streaming", "call"} \cup Sr!Done
    /\ piece \in 0..Pieces /\ (recognizer \in {"doubao", "streaming"} => piece < Pieces)
    /\ quiet \in 0..(MaxQuiet + 1) /\ (recognizer = "streaming" => quiet <= MaxQuiet)
    /\ heardText \in 0..Pieces /\ said \in 0..Pieces
    /\ asrService \in {"listens", "ended", "closed"} /\ asrAnswers \in 0..MaxHeard
    /\ asrEnd \in {"open", "last", "silent"}

RecognitionTypes == RecognitionInv /\ RecognitionRest

LEMMA RecognitionIsTyped == RecognitionTypes => Sr!TypeOK
<1> SUFFICES ASSUME RecognitionTypes PROVE Sr!TypeOK
  OBVIOUS
<1>1. asrWire \in Seq(Sr!Answers)
  BY DEF RecognitionTypes, RecognitionInv
<1>2. \A i \in DOMAIN asrWire : asrWire[i] \in Sr!Answers
  BY <1>1, ElementOfSeq, LenProperties
<1> QED BY <1>2 DEF RecognitionTypes, RecognitionRest, Sr!TypeOK, Sr!Texts

LEMMA RecognitionTypesKept ==
    RecognitionTypes /\ [Sr!Next]_(Sr!recognitionVars) => RecognitionTypes'
<1> SUFFICES ASSUME RecognitionTypes, [Sr!Next]_(Sr!recognitionVars) PROVE RecognitionRest'
  BY RecognitionKeeps DEF RecognitionTypes
<1> USE DEF Sr!own, Sr!peer
<1>1. /\ asrWire \in Seq(Sr!Answers) /\ piece \in 0..Pieces /\ Pieces \in Nat \ {0}
      /\ quiet \in 0..(MaxQuiet + 1) /\ MaxQuiet \in Nat
      /\ heardText \in 0..Pieces /\ said \in 0..Pieces
  BY ChannelsAssumption DEF RecognitionTypes, RecognitionInv, RecognitionRest
\* The service answers, or closes.
<1>2. ASSUME asrAnswers' = asrAnswers \/ (asrAnswers < MaxHeard /\ asrAnswers' = asrAnswers + 1),
             asrService' \in {asrService, "ended", "closed"}, said' \in 0..Pieces, UNCHANGED Sr!own
      PROVE  RecognitionRest'
  <2>1. asrAnswers \in 0..MaxHeard /\ MaxHeard \in Nat
    BY ChannelsAssumption DEF RecognitionTypes, RecognitionRest
  <2>2. asrAnswers' \in 0..MaxHeard
    BY <1>2, <2>1
  <2> QED BY <1>2, <2>2 DEF RecognitionTypes, RecognitionRest
<1>3. CASE \/ Sr!Acknowledge \/ Sr!Refuse \/ Sr!Close
           \/ \E t \in Sr!Texts : Sr!Hypothesis(t) \/ Sr!LastAnswer(t)
  <2>1. /\ \/ asrAnswers' = asrAnswers
           \/ asrAnswers < MaxHeard /\ asrAnswers' = asrAnswers + 1
        /\ asrService' \in {asrService, "ended", "closed"} /\ UNCHANGED Sr!own
    BY <1>3 DEF Sr!Acknowledge, Sr!Refuse, Sr!Close, Sr!Hypothesis, Sr!LastAnswer, Sr!Send
  <2>2. said' \in 0..Pieces
    BY <1>1, <1>3
    DEF Sr!Acknowledge, Sr!Refuse, Sr!Close, Sr!Hypothesis, Sr!LastAnswer, Sr!Send,
        Sr!Latest, Sr!Texts
  <2> QED BY <1>2, <2>1, <2>2
\* The client goes on without hearing anything.
<1>4. ASSUME recognizer' \in Sr!Online \cup {"streaming", "call"} \cup Sr!Done,
             piece' \in 0..Pieces, recognizer' \in {"doubao", "streaming"} => piece' < Pieces,
             recognizer' # "streaming" \/ recognizer' = recognizer,
             heardText' \in 0..Pieces, asrEnd' \in {"open", "last", "silent"},
             UNCHANGED <<quiet, asrService, asrAnswers>>, said' \in 0..Pieces
      PROVE  RecognitionRest'
  BY <1>4 DEF RecognitionTypes, RecognitionRest
<1>5. CASE Sr!SendChunk
  <2>1. /\ recognizer = "doubao" /\ recognizer' = "drain" /\ piece' = piece + 1
        /\ UNCHANGED <<quiet, heardText, asrEnd, asrService, asrAnswers, said>>
    BY <1>5 DEF Sr!SendChunk
  <2>2. piece < Pieces
    BY <2>1 DEF RecognitionTypes, RecognitionRest
  <2>3. piece' \in 0..Pieces
    BY <1>1, <2>1, <2>2
  <2> QED BY <1>1, <1>4, <2>1, <2>3 DEF RecognitionTypes, RecognitionRest, Sr!Online
<1>6. CASE Sr!Read \/ Sr!PassOver \/ Sr!NothingYet
  <2>1. /\ UNCHANGED <<piece, quiet, asrService, asrAnswers, said>>
        /\ recognizer' = recognizer \/ recognizer' = "text" \/ Sr!GoOn
        /\ asrEnd' \in {asrEnd, "last"}
    BY <1>6 DEF Sr!Read, Sr!PassOver, Sr!NothingYet
  <2>2. heardText' \in 0..Pieces
    <3>1. CASE Sr!Read
      <4>1. asrWire # <<>> /\ heardText' = Sr!Latest(heardText, Head(asrWire).text)
        BY <3>1 DEF Sr!Read, Sr!Arrives
      <4>2. Head(asrWire) \in Sr!Answers
        BY <1>1, <4>1, HeadTailProperties
      <4> QED BY <1>1, <4>1, <4>2 DEF Sr!Answers, Sr!Texts, Sr!Latest
    <3>2. CASE Sr!PassOver \/ Sr!NothingYet
      BY <1>1, <3>2 DEF Sr!PassOver, Sr!NothingYet
    <3> QED BY <1>6, <3>1, <3>2
  <2>3. recognizer' \in {"doubao", "streaming"} => piece' < Pieces
    BY <1>1, <2>1 DEF Sr!GoOn, RecognitionTypes, RecognitionRest
  <2>4. recognizer' \in Sr!Online \cup {"streaming", "call"} \cup Sr!Done
    BY <2>1 DEF Sr!GoOn, RecognitionTypes, RecognitionRest, Sr!Online, Sr!Done
  <2>5. recognizer' # "streaming" \/ recognizer' = recognizer
    BY <2>1 DEF Sr!GoOn
  <2> QED BY <1>1, <1>4, <2>1, <2>2, <2>3, <2>4, <2>5 DEF RecognitionTypes, RecognitionRest
<1>7. CASE Sr!Timeout \/ Sr!Raise \/ Sr!Cancel \/ UNCHANGED Sr!recognitionVars
  <2>1. /\ UNCHANGED <<piece, quiet, heardText, asrService, asrAnswers, said>>
        /\ recognizer' \in {recognizer, "text", "raised", "cancelled"}
        /\ asrEnd' \in {asrEnd, "silent"}
    BY <1>7 DEF Sr!Timeout, Sr!Raise, Sr!Cancel, Sr!recognitionVars
  <2>2. recognizer' \in Sr!Online \cup {"streaming", "call"} \cup Sr!Done
    BY <2>1 DEF RecognitionTypes, RecognitionRest, Sr!Done
  <2>3. recognizer' \in {"doubao", "streaming"} => piece' < Pieces
    BY <2>1 DEF RecognitionTypes, RecognitionRest
  <2> QED BY <1>1, <1>4, <2>1, <2>2, <2>3 DEF RecognitionTypes, RecognitionRest
<1>8. ASSUME NEW t \in Sr!Texts, Sr!Call(t) PROVE RecognitionRest'
  <2>1. /\ recognizer' = "text" /\ heardText' \in 0..Pieces /\ said' \in 0..Pieces
        /\ UNCHANGED <<piece, quiet, asrService, asrAnswers, asrEnd>>
    BY <1>8 DEF Sr!Call, Sr!Texts
  <2> QED BY <1>1, <1>4, <2>1 DEF RecognitionTypes, RecognitionRest, Sr!Done
\* A read of the microphone.
<1>9. ASSUME NEW t \in Sr!Texts, Sr!Hear(t) PROVE RecognitionRest'
  <2>1. /\ recognizer = "streaming" /\ piece' = piece + 1
        /\ quiet' = 0 \/ quiet' = quiet + 1
        /\ recognizer' = IF quiet' > MaxQuiet \/ piece' = Pieces THEN "text" ELSE recognizer
        /\ UNCHANGED <<asrService, asrAnswers, asrEnd>>
    BY <1>9 DEF Sr!Hear
  <2>2. heardText' \in 0..Pieces /\ said' \in 0..Pieces
    BY <1>1, <1>9 DEF Sr!Hear, Sr!Latest, Sr!Texts
  <2>3. piece < Pieces /\ quiet <= MaxQuiet
    BY <2>1 DEF RecognitionTypes, RecognitionRest
  <2>4. piece' \in 0..Pieces /\ quiet' \in 0..(MaxQuiet + 1)
    BY <1>1, <2>1, <2>3
  <2>5. recognizer' = "streaming" => piece' < Pieces /\ quiet' <= MaxQuiet
    BY <1>1, <2>1, <2>4
  <2>6. recognizer' \in {"streaming", "text"}
    BY <2>1
  <2> QED
    BY <2>1, <2>2, <2>4, <2>5, <2>6 DEF RecognitionTypes, RecognitionRest, Sr!Done
<1> QED BY <1>3, <1>5, <1>6, <1>7, <1>8, <1>9 DEF Sr!Next

LEMMA RecognitionBegins == ChannelsInit => RecognitionTypes
<1> SUFFICES ASSUME ChannelsInit PROVE RecognitionTypes
  OBVIOUS
<1>1. /\ recognizer \in {"doubao", "streaming", "call"} /\ piece = 0 /\ quiet = 0
      /\ heardText = 0 /\ asrService = "listens" /\ asrWire = <<>> /\ asrAnswers = 0
      /\ said = 0 /\ asrEnd = "open"
  BY DEF ChannelsInit, Sr!Init
<1>2. 0 \in 0..Pieces /\ 0 < Pieces /\ 0 \in 0..(MaxQuiet + 1) /\ 0 <= MaxQuiet /\ 0 \in 0..MaxHeard
  BY ChannelsAssumption
<1>3. RecognitionRest
  BY <1>1, <1>2 DEF RecognitionRest, Sr!Online
<1>4. RecognitionInv
  BY <1>1, EmptySeq DEF RecognitionInv
<1> QED BY <1>3, <1>4 DEF RecognitionTypes

\* The player, also after its thread has died: what is unfinished is queued or in hand.
PlayerRest ==
    /\ pcm \in Seq(0..MaxChunks) /\ Len(pcm) <= MaxQueue
    /\ put \in 0..MaxChunks /\ (synth = "enqueue" => put < MaxChunks)
    /\ unfinished = Len(pcm) + InHand
    /\ unfinished <= IF synth \in {"stopped", "done"} THEN put + 1 ELSE put
    /\ writer \in {"get", "write", "dead", "ended"}
    /\ written \in 0..MaxChunks /\ device \in {"open", "closed"}

PlayerTypes == PlayerInv /\ PlayerRest

LEMMA PlayerIsTyped == PlayerTypes => Pp!TypeOK
<1> SUFFICES ASSUME PlayerTypes PROVE Pp!TypeOK
  OBVIOUS
<1>1. Len(pcm) \in Nat /\ InHand \in {0, 1}
  BY LenProperties DEF PlayerTypes, PlayerRest, InHand
<1>2. unfinished \in 0..(MaxChunks + 1)
  <2>1. /\ unfinished = Len(pcm) + InHand /\ put \in 0..MaxChunks /\ unfinished <= put + 1
    BY DEF PlayerTypes, PlayerRest
  <2> QED BY <1>1, <2>1, ChannelsAssumption
<1> QED BY <1>2 DEF PlayerTypes, PlayerInv, PlayerRest, Pp!TypeOK

LEMMA LoopKeepsTypes == ASSUME PlayerTypes, Pp!Loop PROVE PlayerRest'
<1>1. /\ pcm \in Seq(0..MaxChunks) /\ Len(pcm) \in Nat /\ InHand \in {0, 1}
      /\ put \in 0..MaxChunks /\ MaxChunks \in Nat /\ MaxQueue \in Nat
      /\ unfinished = Len(pcm) + InHand /\ Len(pcm) <= MaxQueue
  BY LenProperties, ChannelsAssumption DEF PlayerTypes, PlayerRest, InHand
<1>2. CASE Pp!NextChunk \/ Pp!EndSynthesis \/ Pp!Drained
  BY <1>2 DEF Pp!NextChunk, Pp!EndSynthesis, Pp!Drained, Pp!Goto, PlayerTypes, PlayerRest, InHand
<1>3. CASE Pp!Enqueue
  <2>1. /\ synth = "enqueue" /\ synth' = "stream" /\ pcm' = Append(pcm, put + 1)
        /\ Len(pcm) < MaxQueue /\ unfinished' = unfinished + 1 /\ put' = put + 1
        /\ UNCHANGED <<writer, written, device>>
    BY <1>3 DEF Pp!Enqueue, Pp!Put, Pp!Goto
  <2>2. put < MaxChunks /\ unfinished <= put
    BY <2>1 DEF PlayerTypes, PlayerRest
  <2>3. put + 1 \in 0..MaxChunks
    BY <1>1, <2>2
  <2>4. pcm' \in Seq(0..MaxChunks) /\ Len(pcm') = Len(pcm) + 1
    BY <1>1, <2>1, <2>3, AppendProperties
  <2>5. InHand' = InHand
    BY <2>1 DEF InHand
  <2>6. /\ Len(pcm') <= MaxQueue /\ unfinished' = Len(pcm') + InHand' /\ unfinished' <= put'
    BY <1>1, <2>1, <2>2, <2>4, <2>5
  <2> QED BY <2>1, <2>3, <2>4, <2>6 DEF PlayerTypes, PlayerRest
<1>4. CASE Pp!PutEnd
  <2>1. /\ synth = "finish" /\ synth' = "stopped" /\ pcm' = Append(pcm, 0)
        /\ Len(pcm) < MaxQueue /\ unfinished' = unfinished + 1
        /\ UNCHANGED <<writer, put, written, device>>
    BY <1>4 DEF Pp!PutEnd, Pp!Put, Pp!Goto
  <2>2. unfinished <= put
    BY <2>1 DEF PlayerTypes, PlayerRest
  <2>3. 0 \in 0..MaxChunks
    BY <1>1
  <2>4. pcm' \in Seq(0..MaxChunks) /\ Len(pcm') = Len(pcm) + 1
    BY <1>1, <2>1, <2>3, AppendProperties
  <2>5. InHand' = InHand
    BY <2>1 DEF InHand
  <2>6. /\ Len(pcm') <= MaxQueue /\ unfinished' = Len(pcm') + InHand'
        /\ unfinished' <= put' + 1
    BY <1>1, <2>1, <2>2, <2>4, <2>5
  <2> QED BY <2>1, <2>4, <2>6 DEF PlayerTypes, PlayerRest
<1>5. CASE Pp!CloseDevice
  BY <1>5 DEF Pp!CloseDevice, Pp!Goto, PlayerTypes, PlayerRest, InHand
<1> QED BY <1>2, <1>3, <1>4, <1>5 DEF Pp!Loop

LEMMA ThreadKeepsTypes == ASSUME PlayerTypes, Pp!Thread PROVE PlayerRest'
<1> DEFINE most == IF synth \in {"stopped", "done"} THEN put + 1 ELSE put
<1>1. /\ pcm \in Seq(0..MaxChunks) /\ Len(pcm) \in Nat
      /\ put \in 0..MaxChunks /\ MaxChunks \in Nat /\ MaxQueue \in Nat
      /\ unfinished = Len(pcm) + InHand /\ Len(pcm) <= MaxQueue
      /\ written \in 0..MaxChunks /\ unfinished <= most
  BY LenProperties, ChannelsAssumption DEF PlayerTypes, PlayerRest
<1>a. most \in Nat
  BY <1>1
<1>2. CASE Pp!Get
  <2>1. /\ writer = "get" /\ pcm # <<>> /\ pcm' = Tail(pcm)
        /\ \/ writer' = "ended" /\ unfinished' = unfinished - 1
           \/ writer' = "write" /\ unfinished' = unfinished
        /\ UNCHANGED <<synth, put, written, device>>
    BY <1>2 DEF Pp!Get
  <2>2. pcm' \in Seq(0..MaxChunks) /\ Len(pcm') = Len(pcm) - 1
    BY <1>1, <2>1, HeadTailProperties
  <2>3. InHand = 0 /\ (writer' = "ended" => InHand' = 0) /\ (writer' = "write" => InHand' = 1)
    BY <2>1 DEF InHand
  <2>b. most' = most
    BY <2>1
  <2> HIDE DEF most
  <2>4. /\ Len(pcm') <= MaxQueue /\ unfinished' = Len(pcm') + InHand'
        /\ unfinished' <= most'
    BY <1>1, <1>a, <2>1, <2>2, <2>3, <2>b
  <2> QED BY <2>1, <2>2, <2>4 DEF PlayerTypes, PlayerRest, most
<1>3. CASE Pp!Write \/ Pp!WriteFails
  <2>1. /\ writer = "write" /\ writer' \in {"get", "dead"} /\ unfinished' = unfinished - 1
        /\ \/ Pp!Write /\ written' = written + 1
           \/ written' = written
        /\ UNCHANGED <<synth, pcm, put, device>>
    BY <1>3 DEF Pp!Write, Pp!WriteFails
  <2>2. InHand = 1 /\ InHand' = 0
    BY <2>1 DEF InHand
  <2>3. put = written + unfinished
    BY <2>1 DEF PlayerTypes, PlayerInv
  <2>b. most' = most
    BY <2>1
  <2> HIDE DEF most
  <2>4. unfinished' = Len(pcm') + InHand' /\ unfinished' <= most' /\ written' \in 0..MaxChunks
    BY <1>1, <1>a, <2>1, <2>2, <2>3, <2>b
  <2> QED BY <2>1, <2>4 DEF PlayerTypes, PlayerRest, most
<1> QED BY <1>2, <1>3 DEF Pp!Thread

LEMMA PlayerTypesKept == PlayerTypes /\ [Pp!Next]_(Pp!pcmVars) => PlayerTypes'
<1> SUFFICES ASSUME PlayerTypes, [Pp!Next]_(Pp!pcmVars) PROVE PlayerTypes'
  OBVIOUS
<1>1. CASE Pp!Next
  BY <1>1, LoopKeepsPlayer, ThreadKeepsPlayer, LoopKeepsTypes, ThreadKeepsTypes
  DEF Pp!Next, PlayerTypes
<1>2. CASE UNCHANGED Pp!pcmVars
  BY <1>2 DEF Pp!pcmVars, PlayerTypes, PlayerInv, PlayerRest, InHand
<1> QED BY <1>1, <1>2

LEMMA PlayerBegins == ChannelsInit => PlayerTypes
<1> SUFFICES ASSUME ChannelsInit PROVE PlayerTypes
  OBVIOUS
<1>1. /\ synth = "stream" /\ pcm = <<>> /\ unfinished = 0 /\ writer = "get"
      /\ put = 0 /\ written = 0 /\ device = "open"
  BY DEF ChannelsInit, Pp!Init
<1>2. /\ Len(pcm) = 0 /\ pcm \in Seq(0..MaxChunks) /\ 0 \in 0..MaxChunks /\ 0 <= MaxQueue
      /\ InHand = 0
  BY <1>1, EmptySeq, ChannelsAssumption DEF InHand
<1>3. PlayerRest
  BY <1>1, <1>2 DEF PlayerRest
<1>4. PlayerInv
  BY <1>1, <1>2, EmptySeq DEF PlayerInv
<1> QED BY <1>3, <1>4 DEF PlayerTypes

\* The voice loop: while it runs, one more error may still switch it off.
VoiceTypes == Vl!TypeOK /\ (voiceLoop # "off" => errors < MaxErrors)

LEMMA VoicingKeepsTypes == ASSUME VoiceTypes, Vl!Voicing PROVE VoiceTypes'
<1> PICK s \in Vl!Speak :
        Vl!Say(s) \/ Vl!TakeTurn(s) \/ Vl!EndSpeak(s) \/ Vl!Hangs(s) \/ Vl!GuardEnds(s)
  BY DEF Vl!Voicing
<1>1. /\ UNCHANGED <<voiceLoop, errors, voiceSession, heard, quit>>
      /\ safe' \in {safe, TRUE, FALSE} /\ echoTime' \in {echoTime, TRUE}
      /\ guard' \in {guard, s} /\ guards' \subseteq guards \cup {s}
      /\ \/ voiceTalk' = voiceTalk
         \/ \E how \in {"lock", "play", "hung", "done"} : voiceTalk' = [voiceTalk EXCEPT ![s] = how]
  BY DEF Vl!Say, Vl!BeginSpeak, Vl!TakeTurn, Vl!EndSpeak, Vl!Hangs, Vl!GuardEnds
<1> QED BY <1>1, ZenonT(60) DEF VoiceTypes, Vl!TypeOK

LEMMA ListeningKeepsTypes ==
    ASSUME VoiceTypes, Vl!Listening \/ Vl!EchoFades \/ Vl!SessionExpires PROVE VoiceTypes'
<1>1. /\ errors \in 0..MaxErrors /\ MaxErrors \in Nat \ {0} /\ heard \in 0..MaxUtterances
      /\ MaxUtterances \in Nat /\ (voiceLoop # "off" => errors < MaxErrors)
  BY ChannelsAssumption DEF VoiceTypes, Vl!TypeOK
\* A step that counts neither errors nor captures, and does not speak.
<1>2. ASSUME voiceLoop' \in {voiceLoop, "text", "handle", "ready", "off"},
             voiceLoop' = "off" \/ errors' < MaxErrors, errors' \in {errors, 0},
             voiceSession' \in {voiceSession, TRUE, FALSE}, echoTime' \in {echoTime, FALSE},
             UNCHANGED <<safe, voiceTalk, guards, guard, heard, quit>>
      PROVE  VoiceTypes'
  <2>1. errors' \in 0..MaxErrors
    BY <1>1, <1>2
  <2> QED BY <1>2, <2>1 DEF VoiceTypes, Vl!TypeOK
<1>3. CASE \/ Vl!DropCapture \/ Vl!EndCapture \/ Vl!Misconfigured \/ Vl!Retry \/ Vl!Wake
           \/ Vl!Follow \/ Vl!Emergency \/ Vl!DropText \/ Vl!HandOver \/ Vl!Asked
           \/ Vl!EchoFades \/ Vl!SessionExpires
  <2>1. /\ voiceLoop' \in {voiceLoop, "text", "handle", "ready", "off"}
        /\ voiceSession' \in {voiceSession, TRUE, FALSE} /\ echoTime' \in {echoTime, FALSE}
        /\ UNCHANGED <<safe, voiceTalk, guards, guard, heard, quit>>
    BY <1>3
    DEF Vl!DropCapture, Vl!EndCapture, Vl!Misconfigured, Vl!Retry, Vl!Wake, Vl!Follow,
        Vl!Emergency, Vl!DropText, Vl!HandOver, Vl!Asked, Vl!EchoFades, Vl!SessionExpires,
        Vl!Goto
  <2>2. errors' = 0 \/ (errors' = errors /\ (voiceLoop' = "off" \/ voiceLoop # "off"))
    BY <1>3
    DEF Vl!DropCapture, Vl!EndCapture, Vl!Misconfigured, Vl!Retry, Vl!Wake, Vl!Follow,
        Vl!Emergency, Vl!DropText, Vl!HandOver, Vl!Asked, Vl!EchoFades, Vl!SessionExpires,
        Vl!Goto
  <2>3. errors' \in {errors, 0} /\ (voiceLoop' = "off" \/ errors' < MaxErrors)
    BY <1>1, <2>2
  <2> QED BY <1>2, <2>1, <2>3
<1>4. CASE Vl!StartCapture
  <2>1. /\ voiceLoop = "ready" /\ voiceLoop' = "capture" /\ heard < MaxUtterances
        /\ heard' = heard + 1
        /\ UNCHANGED <<errors, safe, voiceTalk, guards, guard, echoTime, voiceSession, quit>>
    BY <1>4 DEF Vl!StartCapture, Vl!Goto
  <2>2. heard' \in 0..MaxUtterances
    BY <1>1, <2>1
  <2> QED BY <2>1, <2>2 DEF VoiceTypes, Vl!TypeOK
<1>5. CASE Vl!Raises
  <2>1. /\ voiceLoop # "off" /\ errors' = errors + 1
        /\ \/ errors' = MaxErrors /\ voiceLoop' = "off"
           \/ errors' # MaxErrors /\ voiceLoop' = "backoff"
        /\ UNCHANGED <<heard, safe, voiceTalk, guards, guard, echoTime, voiceSession, quit>>
    BY <1>5 DEF Vl!Raises
  <2>2. errors' \in 0..MaxErrors /\ (voiceLoop' # "off" => errors' < MaxErrors)
    BY <1>1, <2>1
  <2> QED BY <2>1, <2>2 DEF VoiceTypes, Vl!TypeOK
<1>6. CASE Vl!AskAgain
  <2>1. /\ voiceLoop = "handle" /\ voiceLoop' = "speak"
        /\ voiceTalk' = [voiceTalk EXCEPT ![Clarify] = "lock"]
        /\ guards' = guards \ {guard} /\ safe' = FALSE
        /\ UNCHANGED <<errors, heard, guard, echoTime, voiceSession, quit>>
    BY <1>6 DEF Vl!AskAgain, Vl!BeginSpeak, Vl!Goto
  <2> QED BY <2>1 DEF VoiceTypes, Vl!TypeOK
<1> QED
  BY <1>3, <1>4, <1>5, <1>6 DEF Vl!Listening

LEMMA VoiceTypesKept == VoiceTypes /\ [Vl!Next]_(Vl!voiceVars) => VoiceTypes'
<1> SUFFICES ASSUME VoiceTypes, [Vl!Next]_(Vl!voiceVars) PROVE VoiceTypes'
  OBVIOUS
<1>1. CASE Vl!Stop
  <2>1. Clarify \in Vl!Speak
    BY DEF Vl!Speak
  <2>2. /\ voiceLoop' = "off" /\ quit' = TRUE
        /\ voiceTalk' \in {voiceTalk, [voiceTalk EXCEPT ![Clarify] = "done"]}
        /\ guards' \in {guards, guards \cup {Clarify}} /\ guard' \in {guard, Clarify}
        /\ echoTime' \in {echoTime, TRUE}
        /\ UNCHANGED <<errors, safe, voiceSession, heard>>
    BY <1>1 DEF Vl!Stop
  <2> QED BY <2>1, <2>2 DEF VoiceTypes, Vl!TypeOK
<1>2. CASE UNCHANGED Vl!voiceVars
  BY <1>2 DEF Vl!voiceVars, VoiceTypes, Vl!TypeOK
<1> QED
  BY <1>1, <1>2, VoicingKeepsTypes, ListeningKeepsTypes DEF Vl!Next

LEMMA VoiceBegins == ChannelsInit => VoiceTypes
<1> SUFFICES ASSUME ChannelsInit PROVE VoiceTypes
  OBVIOUS
<1>1. /\ 0 \in 0..MaxErrors /\ 0 < MaxErrors /\ 0 \in 0..MaxUtterances
  BY ChannelsAssumption
<1> QED BY <1>1 DEF ChannelsInit, Vl!Init, VoiceTypes, Vl!TypeOK

\* The web chat: what a page shows is put together from the parts.
WebRest ==
    /\ webStored \in BOOLEAN /\ webAsked \in BOOLEAN
    /\ polling \in [Pages -> BOOLEAN] /\ polled \in [Pages -> BOOLEAN]
    /\ shown \in [Pages -> [final : BOOLEAN, text : Seq(1..ReplyParts)]]

WebTypes == WebInv /\ WebRest

LEMMA WebIsTyped == WebTypes => Wc!TypeOK
<1> SUFFICES ASSUME WebTypes PROVE Wc!TypeOK
  OBVIOUS
<1>1. ASSUME NEW s \in Wc!Sockets PROVE Wc!Range(wire[s]) \subseteq Wc!Frames
  <2>1. wire[s] \in Seq(Wc!Frames)
    BY DEF WebTypes, WebInv
  <2>2. \A i \in DOMAIN wire[s] : wire[s][i] \in Wc!Frames
    BY <2>1, ElementOfSeq, LenProperties
  <2> QED BY <2>2 DEF Wc!Range
<1>2. /\ webLoop.on \in BOOLEAN /\ webLoop.frame \in Wc!Frames
      /\ webLoop.over \cup webLoop.visited \cup webLoop.stale \subseteq Wc!Sockets
  BY DEF WebTypes, WebInv, Loops
<1> QED BY <1>1, <1>2 DEF WebTypes, WebInv, WebRest, Wc!TypeOK

LEMMA PartsAreSequences ==
    /\ Wc!Nothing \in [final : BOOLEAN, text : Seq(1..ReplyParts)]
    /\ \A frame \in Wc!Frames : frame \in [final : BOOLEAN, text : Seq(1..ReplyParts)]
<1>1. Wc!Whole \in Seq(1..ReplyParts)
  BY ChannelsAssumption, IsASeq DEF Wc!Whole
<1>2. \A i \in 1..ReplyParts : <<i>> \in Seq(1..ReplyParts)
  OBVIOUS
<1>3. <<>> \in Seq(1..ReplyParts)
  BY EmptySeq
<1>4. Wc!Nothing \in [final : BOOLEAN, text : Seq(1..ReplyParts)]
  BY <1>3 DEF Wc!Nothing
<1>5. Wc!Final \in [final : BOOLEAN, text : Seq(1..ReplyParts)]
  BY <1>1 DEF Wc!Final
<1>6. \A i \in 1..ReplyParts : Wc!Delta(i) \in [final : BOOLEAN, text : Seq(1..ReplyParts)]
  BY <1>2 DEF Wc!Delta
<1> QED BY <1>4, <1>5, <1>6 DEF Wc!Frames

LEMMA WebTypesKept == WebTypes /\ [Wc!Next]_(Wc!chatVars) => WebTypes'
<1> SUFFICES ASSUME WebTypes, [Wc!Next]_(Wc!chatVars) PROVE WebRest'
  BY WebKeeps DEF WebTypes
<1> USE DEF Wc!reply, Wc!page
<1> DEFINE Texts == [final : BOOLEAN, text : Seq(1..ReplyParts)]
<1>1. ASSUME NEW p \in Pages, Wc!Read(p) PROVE WebRest'
  <2> DEFINE frame == Head(wire[Wc!Socket(p)])
             new == Wc!Upsert(shown[p], frame)
  <2>1. /\ link[p] /\ wire[Wc!Socket(p)] # <<>> /\ shown' = [shown EXCEPT ![p] = new]
        /\ UNCHANGED <<webStored, webAsked, polling, polled>>
    BY <1>1 DEF Wc!Read
  <2>2. frame \in Wc!Frames
    <3>1. wire[Wc!Socket(p)] \in Seq(Wc!Frames)
      BY <2>1, SocketIsSocket DEF WebTypes, WebInv
    <3> QED BY <2>1, <3>1, HeadTailProperties
  <2>3. frame \in Texts /\ shown[p] \in Texts
    BY <2>2, PartsAreSequences DEF WebTypes, WebRest
  <2> HIDE DEF frame
  <2>4. shown[p].text \o frame.text \in Seq(1..ReplyParts)
    <3>1. shown[p].text \in Seq(1..ReplyParts) /\ frame.text \in Seq(1..ReplyParts)
      BY <2>3
    <3> QED BY <3>1, ConcatProperties
  <2>5. new \in Texts
    BY <2>3, <2>4 DEF Wc!Upsert, Wc!Text
  <2> QED BY <2>1, <2>5 DEF WebTypes, WebRest
<1>2. ASSUME NEW p \in Pages, Wc!Reload(p) \/ Wc!Ask(p) \/ Wc!Poll(p) PROVE WebRest'
  <2>1. /\ shown' = shown \/ shown' = [shown EXCEPT ![p] = Wc!Nothing]
        /\ UNCHANGED webStored /\ webAsked' \in {webAsked, TRUE}
    BY <1>2 DEF Wc!Reload, Wc!Ask, Wc!Poll
  <2>2. polling' \in [Pages -> BOOLEAN] /\ polled' \in [Pages -> BOOLEAN]
    BY <1>2
    DEF Wc!Reload, Wc!Ask, Wc!Poll, Wc!recent_replies, WebTypes, WebRest, WebInv
  <2> QED BY <2>1, <2>2, PartsAreSequences DEF WebTypes, WebRest
<1>3. CASE \/ Wc!SendReply \/ Wc!EndLoop \/ Wc!BreakLoop
           \/ \E p \in Pages : Wc!Connect(p) \/ Wc!Drop(p)
           \/ \E s \in Wc!Sockets : Wc!NoticeDrop(s) \/ Wc!Step(s)
           \/ UNCHANGED Wc!chatVars
  <2>1. /\ webStored' \in {webStored, sent = ReplyParts}
        /\ UNCHANGED <<webAsked, shown, polling, polled>>
    BY <1>3
    DEF Wc!SendReply, Wc!EndLoop, Wc!BreakLoop, Wc!Connect, Wc!Drop, Wc!NoticeDrop, Wc!Step,
        Wc!chatVars
  <2> QED BY <2>1 DEF WebTypes, WebRest
<1> QED BY <1>1, <1>2, <1>3 DEF Wc!Next

LEMMA WebBegins == ChannelsInit => WebTypes
<1> SUFFICES ASSUME ChannelsInit PROVE WebTypes
  OBVIOUS
<1>1. WebRest
  BY PartsAreSequences DEF ChannelsInit, Wc!Init, WebRest
<1> QED BY <1>1, WebStarts DEF WebTypes

\* The reply of Feishu.
FeishuTypes == FeishuInv /\ Fr!TypeOK

LEMMA FeishuTypesKept == FeishuTypes /\ [Fr!Next]_(Fr!feishuVars) => FeishuTypes'
<1> SUFFICES ASSUME FeishuTypes, [Fr!Next]_(Fr!feishuVars), FeishuInv' PROVE Fr!TypeOK'
  BY FeishuKeeps DEF FeishuTypes
<1>1. attempt \in 1..MaxAttempts /\ MaxAttempts \in Nat \ {0}
  BY ChannelsAssumption DEF FeishuTypes, Fr!TypeOK
<1>2. \/ attempt' \in {attempt, 1}
      \/ attempt < MaxAttempts /\ attempt' = attempt + 1
  BY DEF Fr!Next, Fr!Send, Fr!SkipPart, Fr!UploadRaises, Fr!Post, Fr!ReplyMessage,
         Fr!SendMessage, Fr!Acknowledged, Fr!Retry, Fr!Refused, Fr!Advance, Fr!feishuVars
<1>3. attempt' \in 1..MaxAttempts
  BY <1>1, <1>2
<1>4. threaded' = threaded /\ feishuAt' \in {feishuAt, "idle", "file", "text", "reply", "create"}
  BY DEF Fr!Next, Fr!Send, Fr!SkipPart, Fr!UploadRaises, Fr!Post, Fr!ReplyMessage,
         Fr!SendMessage, Fr!Acknowledged, Fr!Retry, Fr!Refused, Fr!Advance, Fr!PartAt,
         Fr!feishuVars
<1> QED BY <1>3, <1>4 DEF FeishuTypes, FeishuInv, FeishuParts, Fr!TypeOK

LEMMA FeishuBegins == ChannelsInit => FeishuTypes
<1> SUFFICES ASSUME ChannelsInit PROVE FeishuTypes
  OBVIOUS
<1>1. FeishuInv
  BY FeishuStarts
<1>2. 1 \in 1..MaxAttempts
  BY ChannelsAssumption
<1> QED BY <1>1, <1>2 DEF ChannelsInit, Fr!Init, FeishuTypes, FeishuInv, FeishuParts, Fr!TypeOK

\* The gateway: what the channel remembers, what the agent has published, and what the
\* deliveries have claimed.
GatewayRest ==
    /\ gatewayUp \in BOOLEAN /\ agentUp \in BOOLEAN /\ pending \in BOOLEAN
    /\ claim \in [Gw!Deliveries -> Gw!Interaction \cup {NoOne}]
    /\ seen \in Seq(Msgs) /\ Len(seen) <= MaxSeen
    /\ gatewayHistory \subseteq {"user", "assistant"} \X Gw!Interaction
    /\ answers \in [Gw!Interaction -> 0..MaxAnswers]
    /\ answered \subseteq Gw!Interaction
    /\ claims \in Nat /\ gatewayCrashes \in 0..MaxCrashes

GatewayTypes == GatewayInv /\ GatewayRest

LEMMA GatewayIsTyped == GatewayTypes => Gw!TypeOK
<1> SUFFICES ASSUME GatewayTypes PROVE Gw!TypeOK
  OBVIOUS
<1>1. Told \subseteq Gw!Interaction /\ ToldResult \subseteq Gw!Result
  BY DEF Told, ToldResult, Gw!Result
<1>2. turns \in Seq(Gw!Interaction) /\ gatewayControls \in Seq(Gw!Interaction)
  BY <1>1, SeqGrows DEF GatewayTypes, GatewayInv, GatewayFlow
<1>3. gatewayResults \in Seq(Gw!Result) /\ replies \in Seq(Gw!Result)
  BY <1>1, SeqGrows DEF GatewayTypes, GatewayInv, GatewayFlow
<1>4. sending \in Gw!Result \cup {NoOne} /\ open \subseteq Gw!Interaction
  BY <1>1 DEF GatewayTypes, GatewayInv, GatewayFlow
<1> QED
  BY <1>2, <1>3, <1>4
  DEF GatewayTypes, GatewayInv, GatewayShape, GatewayRest, States, Gw!TypeOK

\* A delivery is received: its message is remembered, its receipt claimed, its turn told.
LEMMA InboundKeepsTypes ==
    ASSUME GatewayTypes, NEW d \in Gw!Deliveries, Gw!Deliver(d) \/ Gw!Inbound(d)
    PROVE  GatewayRest'
<1> DEFINE i == Gw!InteractionOf(d[1])
<1>1. d[1] \in Msgs /\ (Kind[d[1]] # "bind" => i \in Gw!Interaction)
  BY DeliveryOfMessage, InteractionIsOne DEF GatewayTypes, GatewayInv
<1>2. UNCHANGED <<gatewayUp, agentUp, answers, answered, gatewayCrashes>>
  BY DEF Gw!Deliver, Gw!Inbound, Gw!ReceiveDuplicate, Gw!Receive, Gw!Downloaded,
         Gw!DownloadFails, Gw!Publish, Gw!CompleteControl, Gw!agent, Gw!outbound
<1>3. \/ UNCHANGED <<claim, gatewayHistory>>
      \/ claim' = [claim EXCEPT ![d] = NoOne] /\ gatewayHistory' = gatewayHistory
      \/ /\ Kind[d[1]] # "bind" /\ claim' = [claim EXCEPT ![d] = i]
         /\ gatewayHistory' = gatewayHistory \cup {<<"user", i>>}
  BY DEF Gw!Deliver, Gw!Inbound, Gw!ReceiveDuplicate, Gw!Receive, Gw!Downloaded,
         Gw!DownloadFails, Gw!Publish, Gw!CompleteControl, Gw!durable, Gw!OnUserTurn,
         Gw!ClaimBinding, Gw!ClaimReceipt, Gw!IgnoreReplay
<1>4. /\ pending' \in {pending, FALSE}
      /\ claims' = claims \/ claims' = claims + 1
  BY DEF Gw!Deliver, Gw!Inbound, Gw!ReceiveDuplicate, Gw!Receive, Gw!Downloaded,
         Gw!DownloadFails, Gw!Publish, Gw!CompleteControl, Gw!durable, Gw!OnUserTurn,
         Gw!ClaimBinding, Gw!ClaimReceipt, Gw!IgnoreReplay, Gw!ghosts
<1>5. seen' = seen \/ seen' = Gw!Remember(d[1])
  BY DEF Gw!Deliver, Gw!Inbound, Gw!ReceiveDuplicate, Gw!Receive, Gw!Downloaded,
         Gw!DownloadFails, Gw!Publish, Gw!CompleteControl
<1> HIDE DEF i
<1>6. seen' \in Seq(Msgs) /\ Len(seen') <= MaxSeen
  <2> DEFINE grown == Append(seen, d[1])
  <2>1. seen \in Seq(Msgs) /\ Len(seen) <= MaxSeen /\ MaxSeen \in Nat /\ Len(seen) \in Nat
    BY LenProperties, ChannelsAssumption DEF GatewayTypes, GatewayRest
  <2>2. grown \in Seq(Msgs) /\ Len(grown) = Len(seen) + 1 /\ grown # <<>>
    BY <1>1, <2>1, AppendProperties
  <2>3. Tail(grown) \in Seq(Msgs) /\ Len(Tail(grown)) = Len(grown) - 1
    BY <2>2, HeadTailProperties
  <2>4. Gw!Remember(d[1]) = IF Len(grown) > MaxSeen THEN Tail(grown) ELSE grown
    BY DEF Gw!Remember
  <2> HIDE DEF grown
  <2> QED BY <1>5, <2>1, <2>2, <2>3, <2>4
<1>7. claim' \in [Gw!Deliveries -> Gw!Interaction \cup {NoOne}]
  BY <1>1, <1>3 DEF GatewayTypes, GatewayRest
<1>8. gatewayHistory' \subseteq {"user", "assistant"} \X Gw!Interaction
  BY <1>1, <1>3 DEF GatewayTypes, GatewayRest
<1>9. claims' \in Nat
  BY <1>4 DEF GatewayTypes, GatewayRest
<1> QED BY <1>2, <1>4, <1>6, <1>7, <1>8, <1>9 DEF GatewayTypes, GatewayRest

\* The agent answers a turn, a control or an open task.
LEMMA AgentKeepsTypes == ASSUME GatewayTypes, Gw!Agent PROVE GatewayRest'
<1>1. /\ UNCHANGED <<gatewayUp, claim, seen, pending, gatewayHistory, answered, claims,
                     gatewayCrashes>>
      /\ agentUp' \in {agentUp, TRUE}
  BY DEF Gw!Agent, Gw!AgentSubscribes, Gw!AnswerTurn, Gw!AnswerControl, Gw!ResumeTask,
         Gw!durable, Gw!ghosts, Gw!outbound
<1>2. \/ answers' = answers
      \/ \E i, final : Gw!PublishResult(i, final)
  BY DEF Gw!Agent, Gw!AgentSubscribes, Gw!AnswerTurn, Gw!AnswerControl, Gw!ResumeTask
<1>3. answers' \in [Gw!Interaction -> 0..MaxAnswers]
  <2>1. answers \in [Gw!Interaction -> 0..MaxAnswers] /\ MaxAnswers \in Nat
    BY ChannelsAssumption DEF GatewayTypes, GatewayRest
  <2>2. ASSUME NEW i, NEW final, Gw!PublishResult(i, final)
        PROVE  answers' \in [Gw!Interaction -> 0..MaxAnswers]
    <3>1. answers[i] < MaxAnswers /\ answers' = [answers EXCEPT ![i] = answers[i] + 1]
      BY <2>2 DEF Gw!PublishResult
    <3>2. i \in Gw!Interaction => answers[i] + 1 \in 0..MaxAnswers
      BY <2>1, <3>1
    <3> QED BY <2>1, <3>1, <3>2
  <2> QED BY <1>2, <2>1, <2>2
<1> QED BY <1>1, <1>3 DEF GatewayTypes, GatewayRest

\* A reply goes out to the channel.
LEMMA OutboundKeepsTypes == ASSUME GatewayTypes, Gw!Outbound PROVE GatewayRest'
<1>1. UNCHANGED <<gatewayUp, agentUp, claim, seen, pending, answers, claims, gatewayCrashes>>
  BY DEF Gw!Outbound, Gw!OnConversationResult, Gw!OnAgentReply, Gw!ReplySent, Gw!ReplyFails,
         Gw!durable, Gw!agent, Gw!ghosts
<1>2. \/ gatewayHistory' = gatewayHistory
      \/ /\ replies # <<>>
         /\ gatewayHistory' = gatewayHistory \cup {<<"assistant", Head(replies).id>>}
  BY DEF Gw!Outbound, Gw!OnConversationResult, Gw!OnAgentReply, Gw!ReplySent, Gw!ReplyFails,
         Gw!durable
<1>3. \/ answered' = answered
      \/ sending # NoOne /\ answered' = answered \cup {sending.id}
  BY DEF Gw!Outbound, Gw!OnConversationResult, Gw!OnAgentReply, Gw!ReplySent, Gw!ReplyFails
<1>4. /\ replies # <<>> => Head(replies).id \in Gw!Interaction
      /\ sending # NoOne => sending.id \in Gw!Interaction
  <2>1. replies \in Seq(ToldResult) /\ sending \in ToldResult \cup {NoOne}
    BY DEF GatewayTypes, GatewayInv, GatewayFlow
  <2>2. replies # <<>> => Head(replies) \in ToldResult
    BY <2>1, HeadTailProperties
  <2> QED BY <2>1, <2>2 DEF ToldResult, Told
<1>5. gatewayHistory' \subseteq {"user", "assistant"} \X Gw!Interaction
  BY <1>2, <1>4 DEF GatewayTypes, GatewayRest
<1>6. answered' \subseteq Gw!Interaction
  BY <1>3, <1>4 DEF GatewayTypes, GatewayRest
<1> QED BY <1>1, <1>5, <1>6 DEF GatewayTypes, GatewayRest

\* Binding codes, crashes and restarts.
LEMMA ProcessKeepsTypes ==
    ASSUME GatewayTypes,
           Gw!CreateBinding \/ Gw!ExpireBinding \/ Gw!Crash \/ Gw!CrashInSave \/ Gw!Restart
    PROVE  GatewayRest'
<1>1. CASE Gw!CreateBinding \/ Gw!ExpireBinding
  <2>1. /\ pending' \in {TRUE, FALSE}
        /\ UNCHANGED <<gatewayUp, agentUp, claim, seen, gatewayHistory, answers, answered,
                       claims, gatewayCrashes>>
    BY <1>1 DEF Gw!CreateBinding, Gw!ExpireBinding, Gw!agent, Gw!outbound, Gw!ghosts
  <2> QED BY <2>1 DEF GatewayTypes, GatewayRest
<1>2. CASE Gw!Crash \/ Gw!CrashInSave
  <2>1. /\ gatewayCrashes < MaxCrashes /\ gatewayCrashes' = gatewayCrashes + 1
        /\ gatewayUp' = FALSE /\ pending' = FALSE /\ seen' = <<>>
        /\ claim' = [d \in Gw!Deliveries |-> NoOne]
        /\ UNCHANGED <<agentUp, gatewayHistory, answers, answered, claims>>
    BY <1>2 DEF Gw!Crash, Gw!CrashInSave, Gw!LoseMemory, Gw!agent, Gw!ghosts
  <2>2. gatewayCrashes' \in 0..MaxCrashes
    <3>1. gatewayCrashes \in 0..MaxCrashes /\ MaxCrashes \in Nat
      BY ChannelsAssumption DEF GatewayTypes, GatewayRest
    <3> QED BY <2>1, <3>1
  <2>3. seen' \in Seq(Msgs) /\ Len(seen') <= MaxSeen
    <3>1. seen' \in Seq(Msgs) /\ Len(seen') = 0
      BY <2>1, EmptySeq
    <3> QED BY <3>1, ChannelsAssumption
  <2>4. claim' \in [Gw!Deliveries -> Gw!Interaction \cup {NoOne}]
    BY <2>1
  <2> QED BY <2>1, <2>2, <2>3, <2>4 DEF GatewayTypes, GatewayRest
<1>3. CASE Gw!Restart
  <2>1. /\ gatewayUp' = TRUE /\ pending' = IF saved = NoOne THEN FALSE ELSE saved.pending
        /\ UNCHANGED <<agentUp, claim, seen, gatewayHistory, answers, answered, claims,
                       gatewayCrashes>>
    BY <1>3 DEF Gw!Restart, Gw!agent, Gw!outbound, Gw!ghosts
  <2>2. saved \in Gw!Identity \cup {NoOne}
    BY DEF GatewayTypes, GatewayInv, GatewayShape
  <2>3. pending' \in BOOLEAN
    BY <2>1, <2>2 DEF Gw!Identity
  <2> QED BY <2>1, <2>3 DEF GatewayTypes, GatewayRest
<1> QED BY <1>1, <1>2, <1>3

LEMMA GatewayTypesKept == GatewayTypes /\ [Gw!Next]_(Gw!vars) => GatewayTypes'
<1> SUFFICES ASSUME GatewayTypes, [Gw!Next]_(Gw!vars) PROVE GatewayRest'
  BY GatewayKeeps DEF GatewayTypes
<1>1. CASE UNCHANGED Gw!vars
  BY <1>1 DEF Gw!vars, Gw!durable, Gw!agent, Gw!outbound, Gw!ghosts, GatewayTypes, GatewayRest
<1> QED
  BY <1>1, InboundKeepsTypes, AgentKeepsTypes, OutboundKeepsTypes, ProcessKeepsTypes
  DEF Gw!Next

LEMMA GatewayBegins == ChannelsInit => GatewayTypes
<1> SUFFICES ASSUME ChannelsInit PROVE GatewayTypes
  OBVIOUS
<1>1. Gw!Init
  BY DEF ChannelsInit
<1>2. /\ seen = <<>> /\ claim = [d \in Gw!Deliveries |-> NoOne]
      /\ answers = [i \in Gw!Interaction |-> 0] /\ gatewayHistory = {} /\ answered = {}
      /\ gatewayUp = TRUE /\ agentUp = FALSE /\ pending = FALSE
      /\ claims = 0 /\ gatewayCrashes = 0
  BY <1>1 DEF Gw!Init
<1>3. /\ seen \in Seq(Msgs) /\ Len(seen) = 0 /\ 0 <= MaxSeen
      /\ 0 \in 0..MaxAnswers /\ 0 \in 0..MaxCrashes
  BY <1>2, EmptySeq, ChannelsAssumption
<1>4. GatewayRest
  BY <1>2, <1>3 DEF GatewayRest
<1> QED BY <1>1, <1>4, GatewayInit DEF GatewayTypes

ChannelsTyped ==
    /\ GatewayTypes /\ FeishuTypes /\ WebTypes /\ VoiceTypes /\ PlayerTypes
    /\ RecognitionTypes /\ SynthesisTypes

\* Each channel keeps its types, whatever the others do: a frame on a websocket is a part
\* of the reply or its whole text, the channel remembers a bounded number of messages, and
\* the audio queue holds no more than it may (gateway/service.py, channels/web.py,
\* channels/feishu/, audio/).
THEOREM ChannelTypesAreKept == ChannelsSpec => []ChannelTypes
<1>1. ChannelsInit => ChannelsTyped
  BY GatewayBegins, FeishuBegins, WebBegins, VoiceBegins, PlayerBegins, RecognitionBegins,
     SynthesisBegins DEF ChannelsTyped
<1>2. ChannelsTyped /\ [ChannelsNext]_channelVars => ChannelsTyped'
  BY ChannelSteps, GatewayTypesKept, FeishuTypesKept, WebTypesKept, VoiceTypesKept,
     PlayerTypesKept, RecognitionTypesKept, SynthesisTypesKept DEF ChannelsTyped
<1>3. ChannelsTyped => ChannelTypes
  BY GatewayIsTyped, WebIsTyped, PlayerIsTyped, RecognitionIsTyped, SynthesisIsTyped
  DEF ChannelsTyped, FeishuTypes, VoiceTypes, ChannelTypes
<1> QED BY <1>1, <1>2, <1>3, PTL DEF ChannelsSpec
=============================================================================
