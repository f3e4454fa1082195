-------------------------- MODULE GraphRunContract --------------------------
(* The executor implements RunContract: a full run's status is that of       *)
(* run.json and its computed nodes are those of the last checkpoint.         *)
EXTENDS GraphRun

PublicStatus == [r \in Runs |-> IF r \in WholeRuns THEN run[r] ELSE "none"]

Computed ==
    [r \in Runs |->
        IF r \in WholeRuns /\ latest[r] # NoCheckpoint THEN latest[r].done ELSE {}]

Contract == INSTANCE RunContract WITH status <- PublicStatus, computed <- Computed

\* Resumed from its latest checkpoint, by one job at a time, a full run keeps the
\* contract through every cancel, failure, crash and restart
\* (execution.py:1601-1668, 1880-2182, 2259-2281; run_journal.py:63-79).
ImplementsContract == Contract!Spec
=============================================================================
