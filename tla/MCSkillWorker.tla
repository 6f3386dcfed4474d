---------------------------- MODULE MCSkillWorker ----------------------------
(***************************************************************************)
(* The instance TLC checks: two runs whose skills share a resource of one  *)
(* robot (key 2), the first of which needs another one too (key 1).        *)
(***************************************************************************)
EXTENDS SkillWorker, TLC

CONSTANTS r1, r2, b1

MCRobotOf == r1 :> b1 @@ r2 :> b1
MCNeeds   == r1 :> {1, 2} @@ r2 :> {2}
=============================================================================
