---------------------------- MODULE RunLifecycle ----------------------------
(***************************************************************************)
(* What the skill layer promises of a run, whatever is queued, cancelled,  *)
(* restarted or lost: it executes at most once, never while another run    *)
(* holds a resource it needs, and once it has ended it stays ended.        *)
(***************************************************************************)
CONSTANTS Run, Needs

VARIABLE stage   \* of each run: "new", "submitted", "executing", "abandoned", "ended"

Conflict(r, s) == Needs[r] \cap Needs[s] # {}

Init == stage = [r \in Run |-> "new"]

Accept(r) ==
    /\ stage[r] = "new"
    /\ stage' = [stage EXCEPT ![r] = "submitted"]

Execute(r) ==
    /\ stage[r] = "submitted"
    /\ \A s \in Run \ {r} : stage[s] = "executing" => ~Conflict(r, s)
    /\ stage' = [stage EXCEPT ![r] = "executing"]

\* Completed, failed, cancelled, or declared lost.
End(r) ==
    /\ stage[r] \in {"submitted", "executing", "abandoned"}
    /\ stage' = [stage EXCEPT ![r] = "ended"]

\* The process died: a physical action of unknown outcome is not repeated.
Abandon ==
    /\ \E r \in Run : stage[r] = "executing"
    /\ stage' = [r \in Run |-> IF stage[r] = "executing" THEN "abandoned"
                               ELSE stage[r]]

Next == \/ \E r \in Run : Accept(r) \/ Execute(r) \/ End(r)
        \/ Abandon

Spec == Init /\ [][Next]_stage
=============================================================================
