---------------------------- MODULE RunContract ----------------------------
(***************************************************************************)
(* What a run of the node graph promises to whoever reads its directory:   *)
(* a status, and a set of computed nodes that survives crashes, cancels    *)
(* and resumes, only grows, one node at a time and in dependency order,    *)
(* and is the whole graph before the status says completed.                *)
(***************************************************************************)
CONSTANTS Nodes, Deps, Runs

VARIABLES
    status,     \* of each run
    computed    \* the nodes of each run whose output a resume starts from

vars == <<status, computed>>

TypeOK ==
    /\ status \in [Runs -> {"none", "running", "completed", "failed", "cancelled"}]
    /\ computed \in [Runs -> SUBSET Nodes]

Init ==
    /\ status = [r \in Runs |-> "none"]
    /\ computed = [r \in Runs |-> {}]

\* A run is opened once and reopened by every resume, whatever became of it.
Open(r) ==
    /\ status' = [status EXCEPT ![r] = "running"]
    /\ UNCHANGED computed

Compute(r, n) ==
    /\ status[r] = "running"
    /\ n \notin computed[r]
    /\ Deps[n] \subseteq computed[r]
    /\ computed' = [computed EXCEPT ![r] = @ \cup {n}]
    /\ UNCHANGED status

Complete(r) ==
    /\ status[r] = "running"
    /\ computed[r] = Nodes
    /\ status' = [status EXCEPT ![r] = "completed"]
    /\ UNCHANGED computed

GiveUp(r) ==
    /\ status[r] = "running"
    /\ \E s \in {"failed", "cancelled"} : status' = [status EXCEPT ![r] = s]
    /\ UNCHANGED computed

Next ==
    \E r \in Runs :
        \/ Open(r)
        \/ \E n \in Nodes : Compute(r, n)
        \/ Complete(r)
        \/ GiveUp(r)

Spec == Init /\ [][Next]_vars

\* What is computed is closed under dependencies: a resume never starts a node
\* whose inputs were lost.
DependencyClosed ==
    \A r \in Runs : \A n \in computed[r] : Deps[n] \subseteq computed[r]

CompletedIsWhole == \A r \in Runs : status[r] = "completed" => computed[r] = Nodes
=============================================================================
