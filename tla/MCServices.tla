----------------------------- MODULE MCServices -----------------------------
(***************************************************************************)
(* The components around the worker and the agent, on small instances, for *)
(* their safety properties. They share no variable: `part` says which one  *)
(* moves, the others keep their initial states, so the state space is the  *)
(* sum of theirs and not the product of Channels, RunPath and              *)
(* ModelServices.                                                          *)
(***************************************************************************)
EXTENDS Channels, RunPath, ModelServices

VARIABLE part

MCKind == [m \in Msgs |-> m]
MCSender == [m \in Msgs |-> IF m = "bind" THEN "s2" ELSE "s1"]
MCDeliveries == [m \in Msgs |-> IF m = "prompt" THEN 2 ELSE 1]

OfChannels == {"gateway", "feishu", "web", "voice", "audio", "recognition", "synthesis"}
OfRunPath == {"drive", "bus", "store", "media", "deployment", "follow"}
OfModels == {"perception", "policy", "option", "planner", "admission"}

vars == <<part, channelVars, runPathVars, modelVars>>

Init ==
    /\ part \in OfChannels \cup OfRunPath \cup OfModels
    /\ ChannelsInit /\ RunPathInit /\ ModelServicesInit
    /\ part # "feishu" => threaded
    /\ part # "option" => option = "vla"
    /\ part # "recognition" => recognizer = "call"
    /\ part # "admission" => ~flagged /\ registered = {}

Next ==
    /\ UNCHANGED part
    /\ \/ /\ \/ part = "gateway" /\ GatewayStep
             \/ part = "feishu" /\ FeishuStep
             \/ part = "web" /\ WebStep
             \/ part = "voice" /\ VoiceStep
             \/ part = "audio" /\ AudioStep
             \/ part = "recognition" /\ RecognitionStep
             \/ part = "synthesis" /\ SynthesisStep
          /\ UNCHANGED <<runPathVars, modelVars>>
       \/ /\ \/ part = "drive" /\ DriveStep
             \/ part = "bus" /\ BusStep
             \/ part = "store" /\ StoreStep
             \/ part = "media" /\ MediaStep
             \/ part = "deployment" /\ DeploymentStep
             \/ part = "follow" /\ FollowStep
          /\ UNCHANGED <<channelVars, modelVars>>
       \/ /\ \/ part = "perception" /\ PerceptionStep
             \/ part = "policy" /\ PolicyStep
             \/ part = "option" /\ OptionStep
             \/ part = "planner" /\ PlannerStep
             \/ part = "admission" /\ AdmissionStep
          /\ UNCHANGED <<channelVars, runPathVars>>

Spec == Init /\ [][Next]_vars

-----------------------------------------------------------------------------
(* The components of the group that moves keep their types. (Those of the  *)
(* other groups are as they began, and each group moves in some behaviour.)*)
TypesOK ==
    /\ part \in OfChannels => ChannelTypes
    /\ part \in OfRunPath => RunPathTypes
    /\ part \in OfModels => ModelTypes
=============================================================================
