------------------------------- MODULE MCRobot -------------------------------
(***************************************************************************)
(* The robot on small instances, for its safety: the owners of its         *)
(* resources, and the hardware with its stand-ins. They share no variable: *)
(* `part` says which one moves, the others keep their initial states.      *)
(***************************************************************************)
EXTENDS ResourceManager, RobotHardware, TLC

VARIABLE part

Easy == [present |-> {"base", "arm", "gripper"},
         until |-> [p \in {"base", "arm", "gripper"} |-> 0], level |-> "normal",
         reveal |-> [o \in Objects |-> 0], missed |-> [o \in Objects |-> 0],
         seen |-> [o \in Objects |-> TRUE]]
Hard == [Easy EXCEPT !.until["gripper"] = 1, !.missed["o1"] = 1,
                     !.reveal["o2"] = 1, !.seen["o2"] = FALSE]
Bare == [Hard EXCEPT !.present = {"base"}, !.level = "unknown"]
MCDeployments == {Easy, Hard, Bare}

(* Nothing tells the two arms apart, and every property is one of safety.  *)
ArmSymmetry == Permutations(Arms)

RobotInit ==
    /\ part \in {"resources", "servo", "dock", "mock", "simulation", "trial"}
    /\ Init /\ RobotHardwareInit
    /\ part # "mock" => settings = Easy

RobotNext ==
    /\ UNCHANGED part
    /\ \/ part = "resources" /\ Next /\ UNCHANGED robotVars
       \/ /\ \/ part = "servo" /\ ServoStep
             \/ part = "dock" /\ DockStep
             \/ part = "mock" /\ MockStep
             \/ part = "simulation" /\ SimulationStep
             \/ part = "trial" /\ TrialStep
          /\ UNCHANGED vars

RobotSpec == RobotInit /\ [][RobotNext]_<<part, vars, robotVars>>
=============================================================================
