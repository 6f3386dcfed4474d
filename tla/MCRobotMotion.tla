----------------------------- MODULE MCRobotMotion -----------------------------
(* The requests TLC makes: what the runtime's callers send to an XLeRobot. *)
EXTENDS RobotMotion, TLC

Direct(op) == [op |-> op, plane |-> FALSE, preempt |-> FALSE]
Plane(op) == [op |-> op, plane |-> TRUE, preempt |-> FALSE]

MCRequests ==
    {Direct("stop"), Direct("velocity"), Plane("move"),
     [Plane("arm") EXCEPT !.preempt = TRUE]}

Interchangeable == Permutations(Calls)
=============================================================================
