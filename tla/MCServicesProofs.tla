--------------------------- MODULE MCServicesProofs ---------------------------
(***************************************************************************)
(* The types of the components around the worker, for every value of the   *)
(* constants: MCServices moves one component of three groups at a time, so *)
(* each behaviour of it is one of each group, and the group's theorem      *)
(* applies.                                                                *)
(***************************************************************************)
EXTENDS MCServices, ChannelsProofs, RunPathProofs, BackendProofs

LEMMA ChannelsMove == Spec => ChannelsSpec
<1>1. Init => ChannelsInit
  BY DEF Init
<1>2. [Next]_vars => [ChannelsNext]_channelVars
  BY DEF Next, vars, ChannelsNext
<1> QED BY <1>1, <1>2, PTL DEF Spec, ChannelsSpec

LEMMA RunPathMoves == Spec => RunPathSpec
<1>1. Init => RunPathInit
  BY DEF Init
<1>2. [Next]_vars => [RunPathNext]_runPathVars
  BY DEF Next, vars, RunPathNext
<1> QED BY <1>1, <1>2, PTL DEF Spec, RunPathSpec

LEMMA ModelsMove == Spec => ModelServicesSpec
<1>1. Init => ModelServicesInit
  BY DEF Init
<1>2. [Next]_vars => [ModelServicesNext]_modelVars
  BY DEF Next, vars, ModelServicesNext
<1> QED BY <1>1, <1>2, PTL DEF Spec, ModelServicesSpec

\* Every component keeps its types, whichever moves: the gateway and its channels, what a
\* run passes on its way to the robot, and the services of the models.
THEOREM TypesAreKept == Spec => [](TypesOK /\ ChannelTypes /\ RunPathTypes /\ ModelTypes)
<1>1. ChannelTypes /\ RunPathTypes /\ ModelTypes => TypesOK
  BY DEF TypesOK
<1> QED
  BY <1>1, ChannelsMove, RunPathMoves, ModelsMove, ChannelTypesAreKept,
     RunPathTypesAreKept, ModelTypesAreKept, PTL
=============================================================================
