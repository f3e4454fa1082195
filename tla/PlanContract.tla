---------------------------- MODULE PlanContract ----------------------------
(***************************************************************************)
(* What the planning of one message promises to the user: a plan is put to *)
(* the user before anything is done, it is reworked a bounded number of    *)
(* times, the plan that is approved is the one that was asked about,       *)
(* nothing else is executed, and a planning that is over stays over.       *)
(***************************************************************************)
EXTENDS Naturals

CONSTANTS Plans, NoPlan, Budget

VARIABLES
    phase,      \* planning, asking, approved, over
    asked,      \* the plan the user is asked about
    approved,   \* the plan the user approved
    executed,   \* the plans whose execution has begun
    reworked    \* revisions ordered so far, by a review or by the user

vars == <<phase, asked, approved, executed, reworked>>

Init ==
    /\ phase = "planning"
    /\ asked = NoPlan
    /\ approved = NoPlan
    /\ executed = {}
    /\ reworked = 0

\* Before it was asked about or in answer to the question.
Rework ==
    /\ phase \in {"planning", "asking"}
    /\ reworked < Budget
    /\ reworked' = reworked + 1
    /\ phase' = "planning"
    /\ asked' = NoPlan
    /\ UNCHANGED <<approved, executed>>

Ask(plan) ==
    /\ phase = "planning"
    /\ phase' = "asking"
    /\ asked' = plan
    /\ UNCHANGED <<approved, executed, reworked>>

Approve ==
    /\ phase = "asking"
    /\ phase' = "approved"
    /\ approved' = asked
    /\ asked' = NoPlan
    /\ UNCHANGED <<executed, reworked>>

\* Possibly the last thing that is done, and possibly again after a crash.
Execute ==
    /\ phase = "approved"
    /\ executed' = executed \cup {approved}
    /\ phase' \in {"approved", "over"}
    /\ UNCHANGED <<asked, approved, reworked>>

\* An answer, a refusal, a failure or the end of the execution.
End ==
    /\ phase # "over"
    /\ phase' = "over"
    /\ asked' = NoPlan
    /\ UNCHANGED <<approved, executed, reworked>>

Next ==
    \/ Rework
    \/ \E plan \in Plans \ {NoPlan} : Ask(plan)
    \/ Approve
    \/ Execute
    \/ End

Spec == Init /\ [][Next]_vars
=============================================================================
