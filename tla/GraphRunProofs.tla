--------------------------- MODULE GraphRunProofs ---------------------------
(***************************************************************************)
(* What holds of GraphRun for every graph, every number of runs and jobs   *)
(* and every request: the state is well typed, jobs and checkpoints of a   *)
(* full run split the graph, a node finds the outputs of its dependencies, *)
(* and a cancel finds the job it is meant for.                             *)
(***************************************************************************)
EXTENDS GraphRun, TLAPS, FiniteSetTheorems, WellFoundedInduction

\* A job moved to a label of the program stays on one.
LEMMA MoveType ==
    ASSUME NEW j \in Jobs, NEW from, NEW to \in Live \cup {"idle", "done"},
           pc \in [Jobs -> Live \cup {"idle", "done"}], Move(j, from, to)
    PROVE  pc' \in [Jobs -> Live \cup {"idle", "done"}]
BY DEF Move, Goto

\* A finished generator's locals are empty sets of nodes.
LEMMA DiscardType ==
    ASSUME TypeOK, NEW S, Discard(S)
    PROVE  /\ todo' \in [Jobs -> SUBSET Nodes]
           /\ outs' \in [Jobs -> SUBSET Nodes]
           /\ retried' \in [Jobs -> SUBSET Nodes]
BY DEF Discard, TypeOK

\* What write_checkpoint appends is a checkpoint (run_journal.py:63-73).
LEMMA CheckpointType ==
    ASSUME TypeOK, NEW j \in Jobs, NEW n \in Nodes,
           NEW kind \in {"before_node", "retrying", "after_node", "failed"},
           NEW done \in SUBSET Nodes, NEW pending \in SUBSET Nodes,
           WriteCheckpoint(j, kind, n, done, pending)
    PROVE  /\ history' \in [Runs -> SUBSET Checkpoints]
           /\ latest' \in [Runs -> Checkpoints \cup {NoCheckpoint}]
<1> DEFINE c == [kind |-> kind, node |-> n, done |-> done, pending |-> pending]
<1>1. c \in Checkpoints
  BY DEF Checkpoints
<1>2. QED
  BY <1>1 DEF WriteCheckpoint, TypeOK

\* The terminal event and the finally block keep the types (execution.py:2276-2281).
LEMMA FinishType ==
    ASSUME TypeOK, NEW j \in Jobs, NEW from, NEW verdict \in Verdicts,
           Finish(j, from, verdict)
    PROVE  /\ pc' \in [Jobs -> Live \cup {"idle", "done"}]
           /\ sent' \in [Jobs -> Verdicts]
           /\ registry' \in [Runs -> Jobs \cup {NoJob}]
           /\ todo' \in [Jobs -> SUBSET Nodes]
           /\ outs' \in [Jobs -> SUBSET Nodes]
           /\ retried' \in [Jobs -> SUBSET Nodes]
BY DiscardType, MoveType DEF Finish, Release, TypeOK, Live

\* So does the start of a job, whatever nodes and outputs its mode selects
\* (execution.py:1528-1617).
LEMMA BeginType ==
    ASSUME TypeOK, NEW j \in Jobs, NEW m \in Modes, NEW named \in SUBSET Nodes,
           NEW selected \in SUBSET Nodes, NEW inherited \in SUBSET Nodes,
           Begin(j, m, named, selected, inherited)
    PROVE  TypeOK'
BY RunAssumption DEF Begin, Register, WriteRun, Move, Goto, RunStatus, TypeOK, Live, Unprotected


\* Every reachable state of the executor, the registry, the journal and the
\* desktop's statuses is well typed: no step writes a status the schema lacks.
THEOREM TypeCorrect == Spec => []TypeOK
<1>1. Init => TypeOK
  BY DEF TypeOK, Init, RunStatus, RecordStatus, ViewStatus, Modes, Verdicts, Gates
<1>2. TypeOK /\ [Next]_vars => TypeOK'
  <2> SUFFICES ASSUME TypeOK, [Next]_vars PROVE TypeOK'
    OBVIOUS
  <2> USE DEF request, progress, disk
  <2>1. ASSUME NEW j \in Jobs, Reject(j) PROVE TypeOK'
    BY <2>1 DEF Reject, Move, Goto, TypeOK
  <2>2. ASSUME NEW j \in Jobs, StartFull(j) PROVE TypeOK'
    BY <2>2, BeginType DEF StartFull, Modes
  <2>3. ASSUME NEW j \in Jobs, StartFromNode(j) PROVE TypeOK'
    <3>1. PICK n \in Nodes :
            \/ Begin(j, "from_node", {n}, Affected({n}) \cup Upstream(n), {})
            \/ \E r \in Runs \ {rid[j]} :
                Begin(j, "from_node", {n}, Affected({n}), SourceOutputs(r))
      BY <2>3 DEF StartFromNode
    <3>2. /\ Affected({n}) \subseteq Nodes
          /\ Upstream(n) \subseteq Nodes
          /\ \A r \in Runs : SourceOutputs(r) \subseteq Nodes
      BY DEF Affected, Downstream, Upstream, SourceOutputs
    <3>3. {n} \in SUBSET Nodes /\ "from_node" \in Modes
      BY DEF Modes
    <3>4. CASE Begin(j, "from_node", {n}, Affected({n}) \cup Upstream(n), {})
      <4>1. Affected({n}) \cup Upstream(n) \in SUBSET Nodes
        BY <3>2
      <4>2. QED
        BY <4>1, <3>3, <3>4, BeginType
    <3>5. CASE \E r \in Runs \ {rid[j]} :
                 Begin(j, "from_node", {n}, Affected({n}), SourceOutputs(r))
      <4>1. PICK r \in Runs :
              Begin(j, "from_node", {n}, Affected({n}), SourceOutputs(r))
        BY <3>5
      <4>2. /\ Affected({n}) \in SUBSET Nodes
            /\ SourceOutputs(r) \in SUBSET Nodes
        BY <3>2
      <4>3. QED
        BY <4>1, <4>2, <3>3, BeginType
    <3>6. QED
      BY <3>1, <3>4, <3>5
  <2>4. ASSUME NEW j \in Jobs, StartFailedOnly(j) PROVE TypeOK'
    BY <2>4, BeginType DEF StartFailedOnly, Affected, Downstream, FailedRecords, SourceOutputs, Modes
  <2>5. ASSUME NEW j \in Jobs, StartResume(j) PROVE TypeOK'
    BY <2>5, BeginType DEF StartResume, Modes
  <2>6. ASSUME NEW j \in Jobs, LoadCheckpoint(j) PROVE TypeOK'
    BY <2>6 DEF LoadCheckpoint, Restore, Checkpoints, Move, Goto, TypeOK, Live, Protected, Unprotected
  <2>7. ASSUME NEW j \in Jobs, CheckpointMissing(j) PROVE TypeOK'
    BY <2>7 DEF CheckpointMissing, WriteRun, RunStatus, Move, Goto, TypeOK, Live, Protected, Unprotected
  <2>8. ASSUME NEW j \in Jobs, ReportMissing(j) PROVE TypeOK'
    BY <2>8, FinishType DEF ReportMissing, Verdicts, TypeOK
  <2>9. ASSUME NEW j \in Jobs, BlockOnScript(j) PROVE TypeOK'
    BY <2>9 DEF BlockOnScript, WriteNode, WriteRun, RunStatus, RecordStatus, Goto, TypeOK, Live, Protected, Unprotected
  <2>10. ASSUME NEW j \in Jobs, EnterLoop(j) PROVE TypeOK'
    BY <2>10 DEF EnterLoop, Goto, TypeOK, Live, Protected, Unprotected
  <2>11. ASSUME NEW j \in Jobs, RefuseDisabledTool(j) PROVE TypeOK'
    BY <2>11 DEF RefuseDisabledTool, WriteNode, WriteRun, RunStatus, RecordStatus, Move, Goto, TypeOK, Live, Protected, Unprotected
  <2>12. ASSUME NEW j \in Jobs, RefusePermission(j) PROVE TypeOK'
    BY <2>12 DEF RefusePermission, WriteNode, WriteRun, RunStatus, RecordStatus, Move, Goto, TypeOK, Live, Protected, Unprotected
  <2>13. ASSUME NEW j \in Jobs, ObserveCancel(j) PROVE TypeOK'
    BY <2>13 DEF ObserveCancel, WriteRun, RunStatus, Move, Goto, TypeOK, Live, Protected, Unprotected
  <2>14. ASSUME NEW j \in Jobs, BeforeNode(j) PROVE TypeOK'
    BY <2>14, CheckpointType DEF BeforeNode, Goto, TypeOK, Live, Protected, Unprotected
  <2>15. ASSUME NEW j \in Jobs, MarkRunning(j) PROVE TypeOK'
    BY <2>15 DEF MarkRunning, WriteNode, Show, RecordStatus, ViewStatus, Move, Goto, TypeOK, Live, Protected, Unprotected
  <2>16. ASSUME NEW j \in Jobs, Succeed(j) PROVE TypeOK'
    BY <2>16 DEF Succeed, WriteNode, RecordStatus, Move, Goto, TypeOK, Live, Protected, Unprotected
  <2>17. ASSUME NEW j \in Jobs, RetryNode(j) PROVE TypeOK'
    <3>1. PICK n \in Nodes :
            /\ retried' = [retried EXCEPT ![j] = @ \cup {n}]
            /\ WriteCheckpoint(j, "retrying", n, outs[j], todo[j])
      BY <2>17 DEF RetryNode
    <3>2. outs[j] \in SUBSET Nodes /\ todo[j] \in SUBSET Nodes
      BY DEF TypeOK
    <3>3. /\ history' \in [Runs -> SUBSET Checkpoints]
          /\ latest' \in [Runs -> Checkpoints \cup {NoCheckpoint}]
      BY <3>1, <3>2, CheckpointType
    <3>4. QED
      BY <2>17, <3>1, <3>3 DEF RetryNode, Move, Goto, TypeOK, Live, Protected
  <2>18. ASSUME NEW j \in Jobs, FailNode(j) PROVE TypeOK'
    BY <2>18 DEF FailNode, WriteNode, RecordStatus, Move, Goto, TypeOK, Live, Protected, Unprotected
  <2>19. ASSUME NEW j \in Jobs, FailedCheckpoint(j) PROVE TypeOK'
    BY <2>19, CheckpointType DEF FailedCheckpoint, Move, Goto, TypeOK, Live, Protected, Unprotected
  <2>20. ASSUME NEW j \in Jobs, MarkFailed(j) PROVE TypeOK'
    BY <2>20 DEF MarkFailed, WriteRun, RunStatus, Move, Goto, TypeOK, Live, Protected, Unprotected
  <2>21. ASSUME NEW j \in Jobs, AfterNode(j) PROVE TypeOK'
    <3>1. PICK n \in Nodes :
            WriteCheckpoint(j, "after_node", n, outs[j], todo[j] \ {n})
      BY <2>21 DEF AfterNode, PendingAfter
    <3>2. outs[j] \in SUBSET Nodes /\ todo[j] \ {n} \in SUBSET Nodes
      BY DEF TypeOK
    <3>3. /\ history' \in [Runs -> SUBSET Checkpoints]
          /\ latest' \in [Runs -> Checkpoints \cup {NoCheckpoint}]
      BY <3>1, <3>2, CheckpointType
    <3>4. QED
      BY <2>21, <3>3 DEF AfterNode, Move, Goto, TypeOK, Live, Protected
  <2>22. ASSUME NEW j \in Jobs, DeliverCompleted(j) PROVE TypeOK'
    BY <2>22 DEF DeliverCompleted, Show, ViewStatus, Move, Goto, TypeOK, Live, Protected, Unprotected
  <2>23. ASSUME NEW j \in Jobs, FinalVerification(j) PROVE TypeOK'
    BY <2>23 DEF FinalVerification, WriteRun, RunStatus, Goto, TypeOK, Live, Protected, Unprotected
  <2>24. ASSUME NEW j \in Jobs, ReportCompleted(j) PROVE TypeOK'
    BY <2>24, FinishType DEF ReportCompleted, Verdicts, TypeOK
  <2>25. ASSUME NEW j \in Jobs, ReportCancelled(j) PROVE TypeOK'
    BY <2>25, FinishType DEF ReportCancelled, Verdicts, TypeOK
  <2>26. ASSUME NEW j \in Jobs, ReportFailedNode(j) PROVE TypeOK'
    BY <2>26, FinishType DEF ReportFailedNode, Show, ViewStatus, Verdicts, TypeOK
  <2>27. ASSUME NEW j \in Jobs, ReportFailedRun(j) PROVE TypeOK'
    BY <2>27, FinishType DEF ReportFailedRun, Verdicts, TypeOK
  <2>28. ASSUME NEW j \in Jobs, Abort(j) PROVE TypeOK'
    BY <2>28, DiscardType DEF Abort, Release, Goto, TypeOK
  <2>29. ASSUME NEW r \in Runs, Cancel(r) PROVE TypeOK'
    BY <2>29 DEF Cancel, TypeOK
  <2>30. CASE Restart
    BY <2>30, DiscardType DEF Restart, TypeOK
  <2>31. CASE UNCHANGED vars
    BY <2>31 DEF vars, TypeOK
  <2>32. QED
    BY <2>1, <2>2, <2>3, <2>4, <2>5, <2>6, <2>7, <2>8, <2>9, <2>10, <2>11, <2>12, <2>13, <2>14, <2>15, <2>16, <2>17, <2>18, <2>19, <2>20, <2>21, <2>22, <2>23, <2>24, <2>25, <2>26, <2>27, <2>28, <2>29, <2>30, <2>31 DEF Next, Start, Advance
<1>3. QED
  BY <1>1, <1>2, PTL DEF Spec
-----------------------------------------------------------------------------
(* The split of the graph.  JobsSplitGraph needs to know that the checkpoint  *)
(* a resume loads is split, and that a run is not begun twice.                *)

OneOrigin ==
    /\ \A j \in Jobs : pc[j] = "idle" => mode[j] = "none"
    /\ \A j \in Jobs : mode[j] = "none" => pc[j] \in {"idle", "done"}
    /\ \A r \in Runs : Fresh(r) => history[r] = {}
    /\ \A i, j \in Jobs :
        rid[i] = rid[j] /\ mode[i] = "full" => mode[j] \in {"none", "full", "resume"}

SplitInv == TypeOK /\ OneOrigin /\ JobsSplitGraph /\ CheckpointsSplitGraph

\* The locals of the other jobs and every request stay as they are.
OnlyJob(j) ==
    /\ \A i \in Jobs \ {j} :
        pc'[i] = pc[i] /\ outs'[i] = outs[i] /\ todo'[i] = todo[i]
    /\ UNCHANGED request

\* The topological order names one next node (execution.py:2284-2307).
LEMMA NextUnique ==
    ASSUME NEW j \in Jobs, NEW m \in Nodes, NEW n \in Nodes, IsNext(j, m), IsNext(j, n)
    PROVE  m = n
BY RankAssumption DEF IsNext

\* A step of one job leaves the locals of the others alone.
LEMMA AdvanceOnlyJob ==
    ASSUME TypeOK, NEW j \in Jobs, Advance(j)
    PROVE  OnlyJob(j) /\ pc[j] \in Live /\ pc'[j] \in Live \cup {"done"}
<1> USE DEF OnlyJob, TypeOK, progress, request, Move, Goto, Live, Unprotected, Protected
<1>1. CASE LoadCheckpoint(j) \/ CheckpointMissing(j)
  BY <1>1 DEF LoadCheckpoint, Restore, CheckpointMissing
<1>2. CASE BlockOnScript(j) \/ EnterLoop(j) \/ RefuseDisabledTool(j)
           \/ RefusePermission(j) \/ ObserveCancel(j)
  BY <1>2 DEF BlockOnScript, EnterLoop, ReadyForNodes, RefuseDisabledTool,
              RefusePermission, ObserveCancel
<1>3. CASE BeforeNode(j) \/ MarkRunning(j) \/ Succeed(j) \/ RetryNode(j)
  BY <1>3 DEF BeforeNode, MayBegin, MarkRunning, Succeed, RetryNode
<1>4. CASE FailNode(j) \/ FailedCheckpoint(j) \/ MarkFailed(j)
  BY <1>4 DEF FailNode, FailedCheckpoint, MarkFailed
<1>5. CASE AfterNode(j) \/ DeliverCompleted(j) \/ FinalVerification(j)
  BY <1>5 DEF AfterNode, DeliverCompleted, FinalVerification
<1>6. CASE ReportMissing(j) \/ ReportCompleted(j) \/ ReportCancelled(j)
           \/ ReportFailedNode(j) \/ ReportFailedRun(j)
  BY <1>6 DEF ReportMissing, ReportCompleted, ReportCancelled, ReportFailedNode,
              ReportFailedRun, Finish, Discard
<1>7. QED
  BY <1>1, <1>2, <1>3, <1>4, <1>5, <1>6 DEF Advance

\* A step of a job keeps its computed and remaining nodes complementary
\* (execution.py:1652-1657, 2142-2182).
LEMMA AdvanceKeepsJobSplit ==
    ASSUME SplitInv, NEW j \in Jobs, rid[j] \in WholeRuns, Advance(j)
    PROVE  JobSplit(j)'
<1>1. /\ JobSplit(j)
      /\ outs[j] \in SUBSET Nodes /\ todo[j] \in SUBSET Nodes
      /\ pc \in [Jobs -> Live \cup {"idle", "done"}]
      /\ outs \in [Jobs -> SUBSET Nodes] /\ todo \in [Jobs -> SUBSET Nodes]
  BY DEF SplitInv, JobsSplitGraph, TypeOK
<1> USE DEF Move, Goto, progress, request, JobSplit, IsNext
<1>2. CASE LoadCheckpoint(j)
  <2>1. PICK c \in history[rid[j]] : Restore(j, c)
    BY <1>2 DEF LoadCheckpoint
  <2>2. c.done \cup c.pending = Nodes /\ c.done \cap c.pending = {}
    BY <2>1 DEF SplitInv, CheckpointsSplitGraph
  <2>3. outs[j] = {} /\ todo[j] = Nodes
    BY <1>1, <1>2 DEF LoadCheckpoint, Live, Unprotected
  <2>4. outs'[j] = c.done /\ todo'[j] = c.pending /\ pc'[j] = "resumed"
    BY <1>1, <1>2, <2>1, <2>2, <2>3 DEF LoadCheckpoint, Restore
  <2>5. QED
    BY <2>2, <2>4
<1>3. CASE EnterLoop(j)
  BY <1>1, <1>3 DEF EnterLoop, ReadyForNodes, Live, Unprotected
<1>4. CASE Succeed(j)
  <2>1. PICK n \in Nodes : IsNext(j, n) /\ outs' = [outs EXCEPT ![j] = @ \cup {n}]
    BY <1>4 DEF Succeed
  <2>2. pc[j] = "running" /\ pc'[j] = "ran" /\ todo' = todo
    BY <1>1, <1>4 DEF Succeed
  <2>3. outs[j] \cup todo[j] = Nodes /\ outs[j] \cap todo[j] = {}
    BY <1>1, <2>2 DEF Live, Protected
  <2>4. {m \in Nodes : IsNext(j, m)'} = {n}
    <3>1. \A m \in Nodes : IsNext(j, m) => m = n
      BY <2>1, NextUnique
    <3>2. QED
      BY <2>1, <2>2, <3>1
  <2>5. outs'[j] \cup todo'[j] = Nodes /\ outs'[j] \cap todo'[j] = {n}
    BY <1>1, <2>1, <2>2, <2>3
  <2>6. QED
    BY <2>2, <2>4, <2>5
<1>5. CASE DeliverCompleted(j)
  <2>1. PICK n \in Nodes : IsNext(j, n) /\ todo' = [todo EXCEPT ![j] = @ \ {n}]
    BY <1>5 DEF DeliverCompleted
  <2>2. pc[j] = "after_node" /\ pc'[j] = "next" /\ outs' = outs
    BY <1>1, <1>5 DEF DeliverCompleted
  <2>3. \A m \in Nodes : IsNext(j, m) => m = n
    BY <2>1, NextUnique
  <2>4. outs[j] \cup todo[j] = Nodes /\ outs[j] \cap todo[j] = {n}
    BY <1>1, <2>1, <2>2, <2>3 DEF Live, Protected
  <2>5. QED
    BY <1>1, <2>1, <2>2, <2>3, <2>4
<1>6. CASE AfterNode(j)
  BY <1>1, <1>6 DEF AfterNode, Live, Protected
<1>7. CASE CheckpointMissing(j) \/ BlockOnScript(j) \/ RefusePermission(j)
  BY <1>1, <1>7 DEF CheckpointMissing, BlockOnScript, RefusePermission
<1>8. CASE RefuseDisabledTool(j) \/ ObserveCancel(j) \/ BeforeNode(j)
           \/ MarkRunning(j) \/ RetryNode(j)
  BY <1>1, <1>8 DEF RefuseDisabledTool, ObserveCancel, BeforeNode, MayBegin,
                    MarkRunning, RetryNode, Live, Protected
<1>9. CASE FailNode(j) \/ FailedCheckpoint(j) \/ MarkFailed(j) \/ FinalVerification(j)
  BY <1>1, <1>9 DEF FailNode, FailedCheckpoint, MarkFailed, FinalVerification, Live,
                    Protected
<1>10. CASE ReportMissing(j) \/ ReportCompleted(j) \/ ReportCancelled(j)
            \/ ReportFailedNode(j) \/ ReportFailedRun(j)
  BY <1>1, <1>10 DEF ReportMissing, ReportCompleted, ReportCancelled,
             ReportFailedNode, ReportFailedRun, Finish, Live, Protected, Unprotected
<1>11. QED
  BY <1>2, <1>3, <1>4, <1>5, <1>6, <1>7, <1>8, <1>9, <1>10 DEF Advance

\* A checkpoint that splits the graph joins a history of such checkpoints.
LEMMA CheckpointKeepsSplit ==
    ASSUME SplitInv, WholeRuns' = WholeRuns, NEW j \in Jobs, NEW kind, NEW n,
           NEW done, NEW pending, WriteCheckpoint(j, kind, n, done, pending),
           rid[j] \in WholeRuns => done \cup pending = Nodes /\ done \cap pending = {}
    PROVE  CheckpointsSplitGraph'
<1> DEFINE c == [kind |-> kind, node |-> n, done |-> done, pending |-> pending]
<1> SUFFICES ASSUME NEW r \in WholeRuns, NEW d \in history'[r]
             PROVE  d.done \cup d.pending = Nodes /\ d.done \cap d.pending = {}
  BY DEF CheckpointsSplitGraph
<1>1. history' = [history EXCEPT ![rid[j]] = @ \cup {c}]
  BY DEF WriteCheckpoint
<1>2. d \in history[r] \/ (r = rid[j] /\ d = c)
  BY <1>1 DEF SplitInv, TypeOK, WholeRuns
<1>3. c.done = done /\ c.pending = pending
  OBVIOUS
<1>4. QED
  BY <1>2, <1>3 DEF SplitInv, CheckpointsSplitGraph

\* Every checkpoint a job writes splits the graph (execution.py:1880-1895, 1999-2014,
\* 2065-2079, 2143-2156).
LEMMA AdvanceKeepsCheckpointsSplit ==
    ASSUME SplitInv, NEW j \in Jobs, Advance(j), WholeRuns' = WholeRuns
    PROVE  CheckpointsSplitGraph'
<1>1. rid[j] \in WholeRuns => JobSplit(j)
  BY DEF SplitInv, JobsSplitGraph
<1> USE DEF JobSplit, Live, Protected, Unprotected
<1>2. CASE BeforeNode(j)
  <2>1. PICK n \in Nodes : WriteCheckpoint(j, "before_node", n, outs[j], todo[j])
    BY <1>2 DEF BeforeNode
  <2>2. rid[j] \in WholeRuns => outs[j] \cup todo[j] = Nodes /\ outs[j] \cap todo[j] = {}
    BY <1>1, <1>2 DEF BeforeNode, MayBegin
  <2>3. QED
    BY <2>1, <2>2, CheckpointKeepsSplit
<1>3. CASE RetryNode(j)
  <2>1. PICK n \in Nodes : WriteCheckpoint(j, "retrying", n, outs[j], todo[j])
    BY <1>3 DEF RetryNode
  <2>2. rid[j] \in WholeRuns => outs[j] \cup todo[j] = Nodes /\ outs[j] \cap todo[j] = {}
    BY <1>1, <1>3 DEF RetryNode, Move
  <2>3. QED
    BY <2>1, <2>2, CheckpointKeepsSplit
<1>4. CASE FailedCheckpoint(j)
  <2>1. PICK n \in Nodes : WriteCheckpoint(j, "failed", n, outs[j], todo[j])
    BY <1>4 DEF FailedCheckpoint
  <2>2. rid[j] \in WholeRuns => outs[j] \cup todo[j] = Nodes /\ outs[j] \cap todo[j] = {}
    BY <1>1, <1>4 DEF FailedCheckpoint, Move
  <2>3. QED
    BY <2>1, <2>2, CheckpointKeepsSplit
<1>5. CASE AfterNode(j)
  <2>1. PICK n \in Nodes :
          /\ IsNext(j, n)
          /\ WriteCheckpoint(j, "after_node", n, outs[j], todo[j] \ {n})
    BY <1>5 DEF AfterNode, PendingAfter
  <2>2. \A m \in Nodes : IsNext(j, m) => m = n
    BY <2>1, NextUnique
  <2>3. ASSUME rid[j] \in WholeRuns
        PROVE  /\ outs[j] \cup (todo[j] \ {n}) = Nodes
               /\ outs[j] \cap (todo[j] \ {n}) = {}
    <3>1. pc[j] = "ran"
      BY <1>5 DEF AfterNode, Move
    <3>2. outs[j] \cup todo[j] = Nodes /\ outs[j] \cap todo[j] = {n}
      BY <1>1, <2>1, <2>2, <2>3, <3>1
    <3>3. QED
      BY <3>2
  <2>4. QED
    BY <2>1, <2>3, CheckpointKeepsSplit
<1>6. CASE history' = history
  BY <1>6 DEF SplitInv, CheckpointsSplitGraph
<1>7. QED
  BY <1>2, <1>3, <1>4, <1>5, <1>6 DEF Advance, disk, LoadCheckpoint,
     CheckpointMissing, ReportMissing, BlockOnScript, EnterLoop,
     RefuseDisabledTool, RefusePermission, ObserveCancel, MarkRunning, Succeed,
     FailNode, MarkFailed, DeliverCompleted, FinalVerification, ReportCompleted,
     ReportCancelled, ReportFailedNode, ReportFailedRun

\* A job that starts either begins a run of its own or joins a whole run through
\* resume, so no run becomes a whole run after the fact.
LEMMA BeginKeepsSplit ==
    ASSUME SplitInv, NEW j \in Jobs, NEW m \in Modes \ {"none"}, NEW named,
           NEW selected, NEW inherited, Begin(j, m, named, selected, inherited),
           m # "resume" => Fresh(rid[j]),
           m \in {"full", "resume"} => selected = Nodes /\ inherited = {}
    PROVE  OneOrigin' /\ JobsSplitGraph' /\ CheckpointsSplitGraph'
<1>1. /\ pc[j] = "idle" /\ pc' = [pc EXCEPT ![j] = "started"]
      /\ mode' = [mode EXCEPT ![j] = m]
      /\ outs' = [outs EXCEPT ![j] = inherited]
      /\ \A i \in Jobs \ {j} : todo'[i] = todo[i]
      /\ SkipStatuses = {} => todo'[j] = selected
      /\ history' = history /\ rid' = rid
  <2>1. todo \in [Jobs -> SUBSET Nodes]
    BY DEF SplitInv, TypeOK
  <2>2. PICK g \in GateChoices : todo' = [todo EXCEPT ![j] =
            {n \in selected : g[n] = "script" \/ view[n] \notin SkipStatuses}]
    BY DEF Begin
  <2>3. SkipStatuses = {} => todo'[j] = selected
    BY <2>1, <2>2
  <2>4. \A i \in Jobs \ {j} : todo'[i] = todo[i]
    BY <2>1, <2>2
  <2>5. QED
    BY <2>3, <2>4 DEF Begin, Move, Goto
<1>2. /\ pc \in [Jobs -> Live \cup {"idle", "done"}] /\ mode \in [Jobs -> Modes]
      /\ outs \in [Jobs -> SUBSET Nodes] /\ rid \in [Jobs -> Runs]
  BY DEF SplitInv, TypeOK
<1>3. /\ \A i \in Jobs \ {j} : pc'[i] = pc[i] /\ mode'[i] = mode[i] /\ outs'[i] = outs[i]
      /\ pc'[j] = "started" /\ mode'[j] = m /\ outs'[j] = inherited
  BY <1>1, <1>2
<1>4. OneOrigin
  BY DEF SplitInv
<1>5. m # "resume" => \A i \in Jobs : rid[i] = rid[j] => pc[i] = "idle" /\ mode[i] = "none"
  BY <1>4 DEF Fresh, OneOrigin
<1>6. \A r \in WholeRuns' : r \in WholeRuns \/ (r = rid[j] /\ m = "full" /\ SkipStatuses = {})
  BY <1>1, <1>3 DEF WholeRuns
<1>7. OneOrigin'
  <2>1. \A r \in Runs : Fresh(r)' => history'[r] = {}
    BY <1>1, <1>3, <1>4 DEF Fresh, OneOrigin
  <2>2. ASSUME NEW i \in Jobs, NEW k \in Jobs, rid'[i] = rid'[k], mode'[i] = "full"
        PROVE  mode'[k] \in {"none", "full", "resume"}
    <3>1. CASE k = j
      <4>1. SUFFICES ASSUME m # "resume", m # "full" PROVE FALSE
        BY <1>3, <3>1
      <4>2. i # j /\ mode[i] = "full"
        BY <1>3, <2>2, <4>1
      <4>3. QED
        BY <1>1, <1>5, <2>2, <3>1, <4>1, <4>2
    <3>2. CASE k # j /\ i = j
      BY <1>1, <1>3, <1>5, <2>2, <3>2
    <3>3. CASE k # j /\ i # j
      BY <1>1, <1>3, <1>4, <2>2, <3>3 DEF OneOrigin
    <3>4. QED
      BY <3>1, <3>2, <3>3
  <2>3. QED
    BY <1>3, <1>4, <2>1, <2>2 DEF OneOrigin
<1>8. JobsSplitGraph'
  <2>1. ASSUME NEW i \in Jobs, rid'[i] \in WholeRuns' PROVE JobSplit(i)'
    <3>1. CASE i = j
      <4>1. m \in {"full", "resume"} /\ SkipStatuses = {}
        <5>1. PICK k \in Jobs : rid'[k] = rid'[i] /\ mode'[k] = "full"
          BY <2>1 DEF WholeRuns
        <5>2. SkipStatuses = {}
          BY <2>1 DEF WholeRuns
        <5>3. QED
          BY <1>1, <1>3, <1>5, <3>1, <5>1, <5>2
      <4>2. outs'[j] = {} /\ todo'[j] = Nodes
        BY <1>1, <1>3, <4>1
      <4>3. QED
        BY <1>3, <3>1, <4>2 DEF JobSplit
    <3>2. CASE i # j /\ rid[i] \in WholeRuns
      BY <1>1, <1>3, <3>2 DEF SplitInv, JobsSplitGraph, JobSplit, IsNext
    <3>3. CASE i # j /\ rid[i] \notin WholeRuns
      BY <1>1, <1>3, <1>5, <1>6, <2>1, <3>3 DEF JobSplit, Live, Protected, Unprotected
    <3>4. QED
      BY <3>1, <3>2, <3>3
  <2>2. QED
    BY <2>1 DEF JobsSplitGraph
<1>9. CheckpointsSplitGraph'
  <2>1. ASSUME NEW r \in WholeRuns', r \notin WholeRuns PROVE history[r] = {}
    <3>1. r = rid[j] /\ m = "full"
      BY <1>6, <2>1
    <3>2. QED
      BY <1>2, <1>4, <3>1 DEF OneOrigin
  <2>2. QED
    BY <1>1, <2>1 DEF SplitInv, CheckpointsSplitGraph
<1>10. QED
  BY <1>7, <1>8, <1>9

\* Each way of starting a job keeps the split.
LEMMA StartKeepsSplit ==
    ASSUME SplitInv, NEW j \in Jobs, Start(j)
    PROVE  OneOrigin' /\ JobsSplitGraph' /\ CheckpointsSplitGraph'
<1>1. CASE Reject(j)
  <2>1. /\ UNCHANGED <<mode, rid, history, outs, todo>>
        /\ pc[j] = "idle" /\ pc' = [pc EXCEPT ![j] = "done"]
    BY <1>1 DEF Reject, Move, Goto, request, progress, disk
  <2>2. /\ WholeRuns' = WholeRuns
        /\ \A i \in Jobs \ {j} : pc'[i] = pc[i]
        /\ pc'[j] = "done"
        /\ mode[j] = "none"
    BY <2>1 DEF WholeRuns, SplitInv, TypeOK, OneOrigin
  <2>3. OneOrigin'
    BY <2>1, <2>2 DEF SplitInv, OneOrigin, Fresh
  <2>4. JobsSplitGraph'
    BY <2>1, <2>2 DEF SplitInv, JobsSplitGraph, JobSplit, IsNext, Live, Protected,
                      Unprotected
  <2>5. QED
    BY <2>1, <2>2, <2>3, <2>4 DEF SplitInv, CheckpointsSplitGraph
<1>2. CASE StartFull(j)
  BY <1>2, BeginKeepsSplit DEF StartFull, Modes
<1>3. CASE StartResume(j)
  BY <1>3, BeginKeepsSplit DEF StartResume, Modes
<1>4. CASE StartFromNode(j)
  <2>1. PICK named, selected, inherited :
          Begin(j, "from_node", named, selected, inherited)
    BY <1>4 DEF StartFromNode
  <2>2. Fresh(rid[j]) /\ "from_node" \in Modes \ {"none"}
    BY <1>4 DEF StartFromNode, Modes
  <2>3. QED
    BY <2>1, <2>2, BeginKeepsSplit
<1>5. CASE StartFailedOnly(j)
  <2>1. PICK named, selected, inherited :
          Begin(j, "failed_only", named, selected, inherited)
    BY <1>5 DEF StartFailedOnly
  <2>2. Fresh(rid[j]) /\ "failed_only" \in Modes \ {"none"}
    BY <1>5 DEF StartFailedOnly, Modes
  <2>3. QED
    BY <2>1, <2>2, BeginKeepsSplit
<1>6. QED
  BY <1>1, <1>2, <1>3, <1>4, <1>5 DEF Start

\* Each step of a job keeps the split of its own locals and of every checkpoint.
LEMMA AdvanceKeepsSplit ==
    ASSUME SplitInv, NEW j \in Jobs, Advance(j)
    PROVE  OneOrigin' /\ JobsSplitGraph' /\ CheckpointsSplitGraph'
<1>1. OnlyJob(j) /\ pc[j] \in Live /\ pc'[j] \in Live \cup {"done"}
  BY AdvanceOnlyJob DEF SplitInv
<1>2. WholeRuns' = WholeRuns
  BY <1>1 DEF OnlyJob, WholeRuns, request
<1>3. JobsSplitGraph'
  <2>1. rid[j] \in WholeRuns => JobSplit(j)'
    BY AdvanceKeepsJobSplit
  <2>2. ASSUME NEW i \in Jobs \ {j}, rid[i] \in WholeRuns PROVE JobSplit(i)'
    BY <1>1, <2>2 DEF SplitInv, JobsSplitGraph, JobSplit, OnlyJob, request, IsNext
  <2>3. QED
    BY <1>1, <1>2, <2>1, <2>2 DEF JobsSplitGraph, OnlyJob, request
<1>4. \A r \in Runs : r # rid[j] => history'[r] = history[r]
  BY DEF SplitInv, TypeOK, Advance, WriteCheckpoint, disk, LoadCheckpoint,
     CheckpointMissing, ReportMissing, BlockOnScript, EnterLoop, BeforeNode, RetryNode,
     FailedCheckpoint, AfterNode, RefuseDisabledTool, RefusePermission, ObserveCancel,
     MarkRunning, Succeed, FailNode, MarkFailed, DeliverCompleted, FinalVerification,
     ReportCompleted, ReportCancelled, ReportFailedNode, ReportFailedRun
<1>5. OneOrigin'
  <2>1. \A i \in Jobs : (pc'[i] = "idle" <=> pc[i] = "idle") /\ rid'[i] = rid[i]
                        /\ mode'[i] = mode[i]
    BY <1>1 DEF OnlyJob, request, Live, Protected, Unprotected
  <2>2. \A r \in Runs : Fresh(r)' => r # rid[j] /\ Fresh(r)
    BY <1>1, <2>1 DEF Fresh, Live, Protected, Unprotected
  <2>3. mode[j] # "none"
    BY <1>1 DEF SplitInv, OneOrigin, Live, Protected, Unprotected
  <2>4. QED
    BY <1>1, <1>4, <2>1, <2>2, <2>3 DEF SplitInv, OneOrigin, OnlyJob
<1>6. QED
  BY <1>2, <1>3, <1>5, AdvanceKeepsCheckpointsSplit

\* Jobs that only end, by a lost reader or a restart, take nothing with them.
LEMMA EndKeepsSplit ==
    ASSUME SplitInv, UNCHANGED <<request, history>>,
           \A j \in Jobs : pc'[j] = pc[j] \/ (pc[j] \in Live /\ pc'[j] = "done"),
           \A j \in Jobs : pc'[j] \in Live => outs'[j] = outs[j] /\ todo'[j] = todo[j]
    PROVE  OneOrigin' /\ JobsSplitGraph' /\ CheckpointsSplitGraph'
<1> USE DEF request
<1>1. WholeRuns' = WholeRuns
  BY DEF WholeRuns
<1>2. OneOrigin'
  <2>1. \A j \in Jobs : pc'[j] = "idle" <=> pc[j] = "idle"
    BY DEF Live, Protected, Unprotected
  <2>2. QED
    BY <2>1 DEF SplitInv, OneOrigin, Fresh
<1>3. JobsSplitGraph'
  BY <1>1 DEF SplitInv, JobsSplitGraph, JobSplit, IsNext, Live, Protected, Unprotected
<1>4. QED
  BY <1>1, <1>2, <1>3 DEF SplitInv, CheckpointsSplitGraph

\* The invariant the split of the graph rests on holds in every reachable state
\* (execution.py:1618-1657, 1880-1895, 2143-2182).
LEMMA SplitInvariant == Spec => []SplitInv
<1>1. Init => OneOrigin /\ JobsSplitGraph /\ CheckpointsSplitGraph
  BY DEF Init, OneOrigin, Fresh, JobsSplitGraph, JobSplit, CheckpointsSplitGraph,
         WholeRuns, Live, Protected, Unprotected
<1>2. SplitInv /\ [Next]_vars => OneOrigin' /\ JobsSplitGraph' /\ CheckpointsSplitGraph'
  <2> SUFFICES ASSUME SplitInv, [Next]_vars
               PROVE  OneOrigin' /\ JobsSplitGraph' /\ CheckpointsSplitGraph'
    OBVIOUS
  <2> USE DEF request, progress, disk
  <2>1. ASSUME NEW j \in Jobs, Start(j) \/ Advance(j)
        PROVE  OneOrigin' /\ JobsSplitGraph' /\ CheckpointsSplitGraph'
    BY <2>1, StartKeepsSplit, AdvanceKeepsSplit
  <2>2. ASSUME NEW j \in Jobs, Abort(j)
        PROVE  OneOrigin' /\ JobsSplitGraph' /\ CheckpointsSplitGraph'
    <3>1. UNCHANGED <<request, history>>
      BY <2>2 DEF Abort
    <3>2. pc[j] \in Live /\ pc'[j] = "done" /\ \A i \in Jobs \ {j} : pc'[i] = pc[i]
      BY <2>2 DEF Abort, Goto, SplitInv, TypeOK
    <3>3. \A i \in Jobs \ {j} : outs'[i] = outs[i] /\ todo'[i] = todo[i]
      BY <2>2 DEF Abort, Discard
    <3>4. "done" \notin Live
      BY DEF Live, Protected, Unprotected
    <3>5. QED
      BY <3>1, <3>2, <3>3, <3>4, EndKeepsSplit
  <2>3. ASSUME NEW r \in Runs, Cancel(r)
        PROVE  OneOrigin' /\ JobsSplitGraph' /\ CheckpointsSplitGraph'
    BY <2>3, EndKeepsSplit DEF Cancel
  <2>4. ASSUME Restart PROVE OneOrigin' /\ JobsSplitGraph' /\ CheckpointsSplitGraph'
    <3>1. UNCHANGED <<request, history>>
      BY <2>4 DEF Restart
    <3>2. \A j \in Jobs : pc'[j] = IF pc[j] \in Live THEN "done" ELSE pc[j]
      BY <2>4 DEF Restart
    <3>3. "done" \notin Live
      BY DEF Live, Protected, Unprotected
    <3>4. QED
      BY <3>1, <3>2, <3>3, EndKeepsSplit
  <2>5. CASE UNCHANGED vars
    BY <2>5, EndKeepsSplit DEF vars
  <2>6. QED
    BY <2>1, <2>2, <2>3, <2>4, <2>5 DEF Next
<1>3. QED
  BY <1>1, <1>2, TypeCorrect, PTL DEF Spec, SplitInv

\* Whatever crashes, cancels, failures, retries and resumes come, every live job and
\* every checkpoint of a full run splits the graph into nodes whose output is held
\* and nodes still to run: a resume neither loses a node nor runs one twice.
THEOREM GraphSplit == Spec => [](JobsSplitGraph /\ CheckpointsSplitGraph)
BY SplitInvariant, PTL DEF SplitInv

\* A node of a full run is executed only when the outputs of all its dependencies are
\* there, although the executor checks that for four nodes only: the topological order
\* and the split together imply it.
THEOREM NodesFindTheirInputs == Spec => []DependenciesComputed
<1>1. TypeOK /\ JobsSplitGraph => DependenciesComputed
  <2> SUFFICES ASSUME TypeOK, JobsSplitGraph,
                      NEW j \in Jobs, rid[j] \in WholeRuns, pc[j] = "running",
                      NEW n \in Nodes, IsNext(j, n), NEW m \in Deps[n]
               PROVE  m \in outs[j]
    BY DEF DependenciesComputed
  <2>1. outs[j] \cup todo[j] = Nodes
    BY DEF JobsSplitGraph, JobSplit, Live, Protected
  <2>2. m \in Nodes /\ Rank[m] < Rank[n]
    BY GraphAssumption, RankAssumption
  <2>3. m \notin todo[j]
    BY <2>2, RankAssumption DEF IsNext
  <2>4. QED
    BY <2>1, <2>2, <2>3
<1>2. QED
  BY <1>1, TypeCorrect, GraphSplit, PTL

-----------------------------------------------------------------------------
(* Tokens.  Unless a run is resumed over a job of it that still runs, a       *)
(* cancel reaches the job it is meant for and finds nothing once it is over.  *)

\* Jobs alive together are jobs of different runs.
OneLiveJobPerRun ==
    \A i, j \in Jobs : pc[i] \in Live /\ pc[j] \in Live /\ rid[i] = rid[j] => i = j

TokenInv == TypeOK /\ OneLiveJobPerRun /\ CancelReachesJob /\ NoTokenAfterVerdict
            /\ \A j \in Jobs : sent[j] # "none" => pc[j] = "done"

\* What the executor's own steps do to the registry.
LEMMA AdvanceToken ==
    ASSUME TypeOK, NEW j \in Jobs, Advance(j)
    PROVE  \/ pc'[j] \in Live /\ UNCHANGED <<registry, sent>>
           \/ /\ pc'[j] = "done"
              /\ Release(j)
              /\ \E verdict \in Verdicts : sent' = [sent EXCEPT ![j] = verdict]
<1> USE DEF TypeOK, Move, Goto, Live, Unprotected, Protected
<1>1. CASE LoadCheckpoint(j) \/ CheckpointMissing(j) \/ BlockOnScript(j) \/ EnterLoop(j)
           \/ RefuseDisabledTool(j) \/ RefusePermission(j) \/ ObserveCancel(j)
  BY <1>1 DEF LoadCheckpoint, CheckpointMissing, BlockOnScript, EnterLoop,
              RefuseDisabledTool, RefusePermission, ObserveCancel
<1>2. CASE BeforeNode(j) \/ MarkRunning(j) \/ Succeed(j) \/ RetryNode(j) \/ FailNode(j)
           \/ FailedCheckpoint(j) \/ MarkFailed(j)
  BY <1>2 DEF BeforeNode, MarkRunning, Succeed, RetryNode, FailNode, FailedCheckpoint,
              MarkFailed
<1>3. CASE AfterNode(j) \/ DeliverCompleted(j) \/ FinalVerification(j)
  BY <1>3 DEF AfterNode, DeliverCompleted, FinalVerification
<1>4. CASE ReportMissing(j) \/ ReportCompleted(j) \/ ReportCancelled(j)
           \/ ReportFailedNode(j) \/ ReportFailedRun(j)
  BY <1>4 DEF ReportMissing, ReportCompleted, ReportCancelled, ReportFailedNode,
              ReportFailedRun, Finish, Verdicts
<1>5. QED
  BY <1>1, <1>2, <1>3, <1>4 DEF Advance

\* A step in which jobs only end and tokens are only taken away.
LEMMA EndKeepsTokens ==
    ASSUME TokenInv, TypeOK', rid' = rid,
           \A i \in Jobs : pc'[i] \in Live => pc[i] \in Live /\ registry'[rid[i]] = i,
           \A i \in Jobs : pc[i] = "done" => pc'[i] = "done",
           \A r \in Runs : registry'[r] \in {registry[r], NoJob},
           \A i \in Jobs : sent'[i] # sent[i] =>
                pc'[i] = "done" /\ registry'[rid[i]] = NoJob
    PROVE  TokenInv'
<1>1. OneLiveJobPerRun'
  BY DEF TokenInv, OneLiveJobPerRun
<1>2. CancelReachesJob'
  BY DEF CancelReachesJob
<1>3. \A i \in Jobs : sent'[i] # "none" => pc'[i] = "done"
  BY DEF TokenInv
<1>4. NoTokenAfterVerdict'
  <2> SUFFICES ASSUME NEW i \in Jobs, sent'[i] # "none" PROVE registry'[rid[i]] # i
    BY DEF NoTokenAfterVerdict
  <2>1. rid[i] \in Runs /\ NoJob # i
    BY RunAssumption DEF TokenInv, TypeOK
  <2>2. QED
    BY <2>1 DEF TokenInv, NoTokenAfterVerdict
<1>5. QED
  BY <1>1, <1>2, <1>3, <1>4 DEF TokenInv

\* A job that starts registers its token over whatever was there (run_registry.py:17-21).
LEMMA BeginKeepsTokens ==
    ASSUME TokenInv, TypeOK', Overlap # "any", NEW j \in Jobs,
           MayStart(j), Move(j, "idle", "started"), Register(j), UNCHANGED <<rid, sent>>
    PROVE  TokenInv'
<1>1. \A i \in Jobs : pc[i] \in Live => rid[i] # rid[j]
  BY RunAssumption DEF MayStart, TokenInv, TypeOK
<1>2. /\ pc[j] = "idle"
      /\ pc'[j] = "started"
      /\ \A i \in Jobs \ {j} : pc'[i] = pc[i]
  BY DEF Move, Goto, TokenInv, TypeOK
<1>3. /\ registry'[rid[j]] = j
      /\ \A r \in Runs \ {rid[j]} : registry'[r] = registry[r]
  BY DEF Register, TokenInv, TypeOK
<1>4. sent[j] = "none"
  BY <1>2 DEF TokenInv
<1>5. rid \in [Jobs -> Runs]
  BY DEF TokenInv, TypeOK
<1>6. OneLiveJobPerRun'
  BY <1>1, <1>2 DEF TokenInv, OneLiveJobPerRun
<1>7. CancelReachesJob'
  BY <1>1, <1>2, <1>3, <1>5 DEF TokenInv, CancelReachesJob
<1>8. NoTokenAfterVerdict'
  BY <1>3, <1>4, <1>5 DEF TokenInv, NoTokenAfterVerdict
<1>9. QED
  BY <1>2, <1>4, <1>6, <1>7, <1>8 DEF TokenInv

\* Unless jobs of one run overlap, a live job's run id maps to that job's token, so that
\* a cancel of the run reaches it, and after the verdict there is no token to cancel.
THEOREM CancelFindsItsJob ==
    ASSUME Overlap # "any"
    PROVE  Spec => [](OneLiveJobPerRun /\ CancelReachesJob /\ NoTokenAfterVerdict)
<1>1. Init => TokenInv
  BY TypeCorrect DEF Init, TokenInv, OneLiveJobPerRun, CancelReachesJob,
     NoTokenAfterVerdict, Live, Protected, Unprotected, TypeOK, RunStatus, RecordStatus,
     ViewStatus, Modes, Verdicts, Gates
<1>2. TokenInv /\ TypeOK' /\ [Next]_vars => TokenInv'
  <2> SUFFICES ASSUME TokenInv, TypeOK', [Next]_vars PROVE TokenInv'
    OBVIOUS
  <2>1. TypeOK /\ "done" \notin Live /\ "idle" \notin Live
    BY DEF TokenInv, Live, Protected, Unprotected
  <2>2. ASSUME NEW j \in Jobs, Start(j) PROVE TokenInv'
    <3>1. CASE Reject(j)
      BY <2>1, <3>1, EndKeepsTokens DEF Reject, Move, Goto, request, TokenInv, TypeOK,
                                        CancelReachesJob
    <3>2. CASE \E m, named, selected, inherited : Begin(j, m, named, selected, inherited)
      BY <3>2, BeginKeepsTokens DEF Begin
    <3>3. QED
      BY <2>2, <3>1, <3>2 DEF Start, StartFull, StartFromNode, StartFailedOnly, StartResume
  <2>3. ASSUME NEW j \in Jobs, Advance(j) PROVE TokenInv'
    <3>1. OnlyJob(j) /\ pc[j] \in Live
      BY <2>1, <2>3, AdvanceOnlyJob
    <3>2. CASE pc'[j] \in Live /\ UNCHANGED <<registry, sent>>
      BY <2>1, <3>1, <3>2, EndKeepsTokens DEF OnlyJob, request, TokenInv, CancelReachesJob
    <3>3. CASE pc'[j] = "done" /\ Release(j) /\ \E v \in Verdicts : sent' = [sent EXCEPT ![j] = v]
      <4>1. \A i \in Jobs \ {j} : pc'[i] \in Live => rid[i] # rid[j]
        BY <3>1 DEF OnlyJob, TokenInv, OneLiveJobPerRun
      <4>2. /\ registry'[rid[j]] = NoJob
            /\ \A r \in Runs \ {rid[j]} : registry'[r] = registry[r]
        BY <2>1, <3>3 DEF Release, TypeOK
      <4>3. \A i \in Jobs \ {j} : sent'[i] = sent[i]
        BY <2>1, <3>3 DEF TypeOK
      <4>4. rid \in [Jobs -> Runs]
        BY <2>1 DEF TypeOK
      <4>5. QED
        BY <2>1, <3>1, <3>3, <4>1, <4>2, <4>3, <4>4, EndKeepsTokens
           DEF OnlyJob, request, TokenInv, CancelReachesJob
    <3>4. QED
      BY <2>1, <2>3, <3>2, <3>3, AdvanceToken
  <2>4. ASSUME NEW j \in Jobs, Abort(j) PROVE TokenInv'
    <3>1. /\ pc[j] \in Live /\ pc'[j] = "done"
          /\ \A i \in Jobs \ {j} : pc'[i] = pc[i]
          /\ UNCHANGED <<rid, sent>>
      BY <2>1, <2>4 DEF Abort, Goto, TypeOK, request
    <3>2. \A i \in Jobs \ {j} : pc'[i] \in Live => rid[i] # rid[j]
      BY <3>1 DEF TokenInv, OneLiveJobPerRun
    <3>3. \A r \in Runs : registry'[r] \in {registry[r], NoJob}
                          /\ (r # rid[j] => registry'[r] = registry[r])
      BY <2>1, <2>4 DEF Abort, Release, TypeOK
    <3>4. rid \in [Jobs -> Runs]
      BY <2>1 DEF TypeOK
    <3>5. QED
      BY <2>1, <3>1, <3>2, <3>3, <3>4, EndKeepsTokens DEF TokenInv, CancelReachesJob
  <2>5. ASSUME NEW r \in Runs, Cancel(r) PROVE TokenInv'
    BY <2>1, <2>5, EndKeepsTokens DEF Cancel, request, TokenInv, CancelReachesJob
  <2>6. CASE Restart
    BY <2>1, <2>6, EndKeepsTokens DEF Restart, request
  <2>7. CASE UNCHANGED vars
    BY <2>1, <2>7, EndKeepsTokens DEF vars, request, TokenInv, CancelReachesJob
  <2>8. QED
    BY <2>2, <2>3, <2>4, <2>5, <2>6, <2>7 DEF Next
<1>3. QED
  BY <1>1, <1>2, TypeCorrect, PTL DEF Spec, TokenInv

-----------------------------------------------------------------------------
(* The stop button.  A job that was cancelled before its last node is on a    *)
(* way that ends without completion, whatever its remaining nodes do.         *)

\* A verdict is the last thing a job does, and the step that writes the memory records
\* has no node left (execution.py:2259-2281).
VerdictInv ==
    /\ TypeOK
    /\ \A j \in Jobs : sent[j] # "none" => pc[j] = "done"
    /\ \A j \in Jobs : pc[j] = "memory" => todo[j] = {}

\* Ways that end in a failure or in the cancellation.
Unfinished == {"failing", "failed", "fail_node", "fail_permission", "fail_run", "stopping"}

\* At a node, with the token still to be looked at before the next one.
AtANode == {"retry", "before_node", "running", "ran", "after_node"}

NodesLeft(j) == \E m, n \in todo[j] : m # n

StoppedBeforeTheEnd(j) ==
    /\ sent[j] # "completed"
    /\ \/ pc[j] \in Unfinished \cup {"done"}
       \/ j \in cancelled /\ pc[j] = "next" /\ todo[j] # {}
       \/ j \in cancelled /\ pc[j] \in AtANode /\ NodesLeft(j)

\* What a step of a job does to its label, its nodes and its verdict.
LEMMA AdvanceVerdict ==
    ASSUME TypeOK, NEW j \in Jobs, Advance(j)
    PROVE  /\ cancelled' = cancelled
           /\ pc'[j] = "done" =>
                sent' = [sent EXCEPT ![j] = sent'[j]] /\
                (sent'[j] = "completed" => pc[j] = "memory")
           /\ pc'[j] # "done" => sent' = sent
           /\ pc'[j] = "memory" => pc[j] = "next" /\ todo[j] = {} /\ todo'[j] = {}
           /\ pc[j] \in Unfinished => pc'[j] \in Unfinished \cup {"done"}
           /\ pc[j] = "next" /\ j \in cancelled /\ todo[j] # {} => pc'[j] \in Unfinished
           /\ pc[j] \in AtANode \ {"after_node"} =>
                pc'[j] \in AtANode \cup Unfinished /\ todo'[j] = todo[j]
           /\ pc[j] = "after_node" =>
                pc'[j] = "next" /\ (NodesLeft(j) => todo'[j] # {})
<1> USE DEF TypeOK, Move, Goto, Unfinished, AtANode, progress
<1>1. CASE LoadCheckpoint(j) \/ CheckpointMissing(j) \/ BlockOnScript(j) \/ EnterLoop(j)
  BY <1>1 DEF LoadCheckpoint, CheckpointMissing, BlockOnScript, EnterLoop, ReadyForNodes
<1>2. CASE RefuseDisabledTool(j) \/ RefusePermission(j) \/ ObserveCancel(j)
  BY <1>2 DEF RefuseDisabledTool, RefusePermission, ObserveCancel
<1>3. CASE BeforeNode(j) \/ MarkRunning(j) \/ Succeed(j)
  BY <1>3 DEF BeforeNode, MayBegin, MarkRunning, Succeed
<1>4. CASE RetryNode(j) \/ FailNode(j) \/ FailedCheckpoint(j) \/ MarkFailed(j) \/ AfterNode(j)
  BY <1>4 DEF RetryNode, FailNode, FailedCheckpoint, MarkFailed, AfterNode
<1>5. CASE DeliverCompleted(j)
  <2>1. PICK n \in Nodes : todo' = [todo EXCEPT ![j] = @ \ {n}]
    BY <1>5 DEF DeliverCompleted
  <2>2. NodesLeft(j) => todo'[j] # {}
    BY <2>1 DEF NodesLeft
  <2>3. /\ pc[j] = "after_node" /\ pc' = [pc EXCEPT ![j] = "next"]
        /\ UNCHANGED <<cancelled, sent>>
    BY <1>5 DEF DeliverCompleted
  <2>4. QED
    BY <2>2, <2>3
<1>6. CASE FinalVerification(j)
  BY <1>6 DEF FinalVerification
<1>7. CASE ReportMissing(j) \/ ReportCompleted(j) \/ ReportCancelled(j)
           \/ ReportFailedNode(j) \/ ReportFailedRun(j)
  BY <1>7 DEF ReportMissing, ReportCompleted, ReportCancelled, ReportFailedNode,
              ReportFailedRun, Finish
<1>8. QED
  BY <1>1, <1>2, <1>3, <1>4, <1>5, <1>6, <1>7 DEF Advance

\* A step that is not the job's own gives it no verdict: it leaves the job where it is,
\* ends it, or is its start.
LetBe(j) ==
    /\ sent'[j] = sent[j]
    /\ \/ /\ pc'[j] = pc[j]
          /\ pc[j] \in Live => todo'[j] = todo[j] /\ (j \in cancelled => j \in cancelled')
       \/ pc[j] \in Live /\ pc'[j] = "done"
       \/ pc[j] = "idle" /\ pc'[j] \in {"started", "done"}

LEMMA OthersLetBe ==
    ASSUME TypeOK, [Next]_vars, NEW j \in Jobs
    PROVE  Advance(j) \/ LetBe(j)
<1> USE DEF TypeOK, Move, Goto, LetBe, request, progress
<1>1. ASSUME NEW i \in Jobs, Advance(i), i # j PROVE LetBe(j)
  <2>1. OnlyJob(i) /\ cancelled' = cancelled
    BY <1>1, AdvanceOnlyJob, AdvanceVerdict
  <2>2. sent'[j] = sent[j]
    BY <1>1, AdvanceToken
  <2>3. QED
    BY <1>1, <2>1, <2>2 DEF OnlyJob
<1>2. ASSUME NEW i \in Jobs, Start(i) PROVE LetBe(j)
  <2>1. CASE Reject(i)
    BY <2>1 DEF Reject
  <2>2. CASE \E m, named, selected, inherited : Begin(i, m, named, selected, inherited)
    BY <2>2 DEF Begin, Register
  <2>3. QED
    BY <1>2, <2>1, <2>2 DEF Start, StartFull, StartFromNode, StartFailedOnly, StartResume
<1>3. ASSUME NEW i \in Jobs, Abort(i) PROVE LetBe(j)
  BY <1>3 DEF Abort, Discard
<1>4. ASSUME NEW r \in Runs, Cancel(r) PROVE LetBe(j)
  BY <1>4 DEF Cancel
<1>5. CASE Restart
  <2>1. todo'[j] = {} /\ sent'[j] = sent[j]
    BY <1>5 DEF Restart, Discard
  <2>2. pc'[j] = IF pc[j] \in Live THEN "done" ELSE pc[j]
    BY <1>5 DEF Restart
  <2>3. QED
    BY <2>1, <2>2
<1>6. CASE UNCHANGED vars
  BY <1>6 DEF vars
<1>7. QED
  BY <1>1, <1>2, <1>3, <1>4, <1>5, <1>6 DEF Next

\* A verdict ends its job, and only a job without nodes left gets to write its memory
\* records.
LEMMA VerdictInvariant == Spec => []VerdictInv
<1>1. Init => VerdictInv
  BY TypeCorrect DEF Init, VerdictInv, TypeOK, RunStatus, RecordStatus, ViewStatus, Modes,
     Verdicts, Gates
<1>2. VerdictInv /\ TypeOK' /\ [Next]_vars => VerdictInv'
  <2> SUFFICES ASSUME VerdictInv, TypeOK', [Next]_vars, NEW j \in Jobs
               PROVE  /\ sent'[j] # "none" => pc'[j] = "done"
                      /\ pc'[j] = "memory" => todo'[j] = {}
    BY DEF VerdictInv
  <2>1. TypeOK /\ (sent[j] # "none" => pc[j] = "done") /\ (pc[j] = "memory" => todo[j] = {})
    BY DEF VerdictInv
  <2>2. CASE LetBe(j)
    BY <2>1, <2>2 DEF LetBe, Live, Protected, Unprotected
  <2>3. CASE Advance(j)
    <3>1. pc[j] \in Live
      BY <2>1, <2>3, AdvanceOnlyJob
    <3>2. sent[j] = "none"
      BY <2>1, <3>1 DEF Live, Protected, Unprotected
    <3>3. QED
      BY <2>1, <2>3, <3>2, AdvanceVerdict
  <2>4. QED
    BY <2>1, <2>2, <2>3, OthersLetBe
<1>3. QED
  BY <1>1, <1>2, TypeCorrect, PTL DEF Spec, VerdictInv

\* From an acknowledged cancel with two nodes left there is no step back.
LEMMA StoppedForGood ==
    ASSUME VerdictInv, [Next]_vars, NEW j \in Jobs, StoppedBeforeTheEnd(j)
    PROVE  StoppedBeforeTheEnd(j)'
<1>1. TypeOK /\ (sent[j] # "none" => pc[j] = "done")
  BY DEF VerdictInv
<1>2. CASE LetBe(j)
  BY <1>1, <1>2 DEF LetBe, StoppedBeforeTheEnd, NodesLeft, Unfinished, AtANode, Live,
                    Protected, Unprotected
<1>3. CASE Advance(j)
  <2>1. pc[j] \in Live /\ pc'[j] \in Live \cup {"done"}
    BY <1>1, <1>3, AdvanceOnlyJob
  <2>2. pc[j] # "done" /\ sent[j] = "none" /\ pc[j] # "memory"
    BY <1>1, <2>1 DEF StoppedBeforeTheEnd, Live, Protected, Unprotected, Unfinished, AtANode
  <2>3. sent'[j] # "completed"
    BY <1>1, <1>3, <2>2, AdvanceVerdict
  <2>4. CASE pc[j] \in Unfinished
    BY <1>1, <1>3, <2>3, <2>4, AdvanceVerdict DEF StoppedBeforeTheEnd
  <2>5. CASE j \in cancelled /\ pc[j] = "next" /\ todo[j] # {}
    BY <1>1, <1>3, <2>3, <2>5, AdvanceVerdict DEF StoppedBeforeTheEnd
  <2>6. CASE j \in cancelled /\ pc[j] \in AtANode /\ NodesLeft(j)
    BY <1>1, <1>3, <2>3, <2>6, AdvanceVerdict DEF StoppedBeforeTheEnd, NodesLeft
  <2>7. QED
    BY <2>2, <2>4, <2>5, <2>6 DEF StoppedBeforeTheEnd
<1>4. QED
  BY <1>1, <1>2, <1>3, OthersLetBe

\* A cancel acknowledged while a job still has another node to begin keeps the job from
\* ever reporting completion, whatever other jobs of the run do, also those that resume
\* it meanwhile: the token is looked at before every node, and the only ways out of a
\* node under way are the next look at it, a failure, a lost reader and a restart.
THEOREM CancelsAreKept == Spec => CancelStopsRemainingNodes
<1>1. ASSUME NEW j \in Jobs
      PROVE  Spec => [](/\ j \in cancelled
                        /\ pc[j] \in Protected
                        /\ \E m, n \in todo[j] : m # n
                        => [](sent[j] # "completed"))
  <2>1. VerdictInv /\ j \in cancelled /\ pc[j] \in Protected /\ (\E m, n \in todo[j] : m # n)
        => StoppedBeforeTheEnd(j)
    BY DEF VerdictInv, StoppedBeforeTheEnd, NodesLeft, Protected, Unfinished, AtANode
  <2>2. VerdictInv /\ StoppedBeforeTheEnd(j) /\ [Next]_vars => StoppedBeforeTheEnd(j)'
    BY StoppedForGood
  <2>3. StoppedBeforeTheEnd(j) => sent[j] # "completed"
    BY DEF StoppedBeforeTheEnd
  <2>4. QED
    BY <2>1, <2>2, <2>3, VerdictInvariant, PTL DEF Spec
<1>2. QED
  BY <1>1 DEF CancelStopsRemainingNodes

-----------------------------------------------------------------------------
(* The end of every job.  EveryJobEnds rests on two facts besides fairness:   *)
(* a live job finds what its next step needs, and no step takes it back.      *)

\* Labels at which the next step is about the node whose turn it is.
AboutANode ==
    {"before_node", "running", "retry", "ran", "after_node", "failing", "failed",
     "fail_node", "fail_permission"}

\* A job at a node has that node; at the head of the loop it has none left or one that the
\* check for scripts let pass; and a resume finds its checkpoint, or that there is none
\* (execution.py:1620-1668, 1809-1895).
JobsGoOn ==
    \A j \in Jobs :
        /\ pc[j] \in AboutANode => \E n \in Nodes : IsNext(j, n)
        /\ pc[j] = "next" =>
              todo[j] = {} \/ \E n \in Nodes : IsNext(j, n) /\ gate[j][n] # "script"
        /\ pc[j] = "started" /\ mode[j] = "resume" =>
              history[rid[j]] = {} \/ latest[rid[j]] \in history[rid[j]]

\* Labels in the order a node goes through them.
Distance(label) ==
    CASE label = "started" -> 9
      [] label = "resumed" -> 8
      [] label \in {"next", "retry"} -> 7
      [] label = "before_node" -> 6
      [] label = "running" -> 5
      [] label = "ran" -> 4
      [] label \in {"after_node", "failing"} -> 3
      [] label = "failed" -> 2
      [] OTHER -> 1

NodesToRun(j) == Cardinality(todo[j])
RetriesLeft(j) == Cardinality(Nodes \ retried[j])

\* Nodes to run, retries left and the distance at the node, in lexicographic order.
Closer(j) ==
    \/ NodesToRun(j)' < NodesToRun(j)
    \/ /\ NodesToRun(j)' = NodesToRun(j)
       /\ \/ RetriesLeft(j)' < RetriesLeft(j)
          \/ RetriesLeft(j)' = RetriesLeft(j) /\ Distance(pc'[j]) < Distance(pc[j])

\* A step of a live job ends it or brings it closer to its end; the steps of others end it
\* or leave it where it is.
StepsCount(j) ==
    /\ Advance(j) => pc'[j] = "done" \/ Closer(j)
    /\ pc[j] \in Live /\ ~Advance(j) =>
          pc'[j] = "done" \/ UNCHANGED <<pc[j], todo[j], retried[j]>>
EveryStepCounts == [][\A j \in Jobs : StepsCount(j)]_vars

\* Some node of a set that is not empty comes first.
LEMMA FirstOfAll ==
    ASSUME NEW S \in SUBSET Nodes, S # {}
    PROVE  \E n \in S : \A m \in S : Rank[n] <= Rank[m]
<1> DEFINE Up(n) == 1..Rank[n]
           Ups == {Up(n) : n \in S}
<1>1. \A n \in S : Rank[n] \in Nat
  BY RankAssumption
<1>2. Ups \subseteq FiniteSubsetsOf(Nat)
  <2>1. SUFFICES ASSUME NEW n \in S PROVE Up(n) \in FiniteSubsetsOf(Nat)
    OBVIOUS
  <2>2. Rank[n] \in Nat /\ IsFiniteSet(1..Rank[n])
    BY <1>1, FS_Interval
  <2>3. QED
    BY <2>2 DEF FiniteSubsetsOf
<1>3. PICK x \in Ups : \A y \in Ups : ~(<<y, x>> \in StrictSubsetOrdering(Nat))
  <2>1. IsWellFoundedOn(StrictSubsetOrdering(Nat), FiniteSubsetsOf(Nat))
    BY FS_StrictSubsetOrderingWellFounded
  <2>2. Ups # {}
    OBVIOUS
  <2> HIDE DEF Ups
  <2>3. QED
    BY <1>2, <2>1, <2>2, WFMin
<1>4. PICK n \in S : x = Up(n)
  OBVIOUS
<1>5. ASSUME NEW m \in S, ~(Rank[n] <= Rank[m]) PROVE FALSE
  <2>1. Rank[m] \in Nat /\ Rank[n] \in Nat
    BY <1>1
  <2>2. 1..Rank[m] \subseteq 1..Rank[n] /\ Rank[n] \in 1..Rank[n] /\ Rank[n] \notin 1..Rank[m]
    BY <1>5, <2>1
  <2>3. ~(<<Up(m), Up(n)>> \in StrictSubsetOrdering(Nat))
    BY <1>3, <1>4
  <2>4. QED
    BY <2>1, <2>2, <2>3 DEF StrictSubsetOrdering
<1>6. \A m \in S : Rank[n] <= Rank[m]
  BY <1>5
<1>7. QED
  BY <1>6

\* What JobsGoOn rests on: a job at a node has nodes left, none of them a script waiting
\* for its approval, and the last checkpoint of a run is one of its checkpoints.
GoOnInv ==
    /\ \A r \in Runs : history[r] = {} \/ latest[r] \in history[r]
    /\ \A j \in Jobs :
        /\ pc[j] \in AboutANode => todo[j] # {}
        /\ pc[j] \in AtANode \cup {"next"} => \A n \in todo[j] : gate[j][n] # "script"

\* Only write_checkpoint touches the checkpoints, and the last one it wrote stays the last.
LEMMA CheckpointsStay ==
    ASSUME TypeOK, \A r \in Runs : history[r] = {} \/ latest[r] \in history[r], [Next]_vars
    PROVE  \A r \in Runs : history'[r] = {} \/ latest'[r] \in history'[r]
<1>1. \/ UNCHANGED <<history, latest>>
      \/ \E j \in Jobs : \E kind, n, done, pending : WriteCheckpoint(j, kind, n, done, pending)
  <2>1. ASSUME NEW j \in Jobs, Start(j) \/ Abort(j) PROVE UNCHANGED <<history, latest>>
    BY <2>1 DEF Start, Reject, StartFull, StartFromNode, StartFailedOnly, StartResume, Begin,
                Abort, disk
  <2>2. ASSUME NEW j \in Jobs, Advance(j)
        PROVE  UNCHANGED <<history, latest>>
               \/ \E kind, n, done, pending : WriteCheckpoint(j, kind, n, done, pending)
    BY <2>2 DEF Advance, disk, LoadCheckpoint, CheckpointMissing, ReportMissing, BlockOnScript,
       EnterLoop, BeforeNode, RetryNode, FailedCheckpoint, AfterNode, RefuseDisabledTool,
       RefusePermission, ObserveCancel, MarkRunning, Succeed, FailNode, MarkFailed,
       DeliverCompleted, FinalVerification, ReportCompleted, ReportCancelled,
       ReportFailedNode, ReportFailedRun
  <2>3. QED
    BY <2>1, <2>2 DEF Next, Cancel, Restart, disk, vars
<1>2. CASE UNCHANGED <<history, latest>>
  BY <1>2
<1>3. ASSUME NEW j \in Jobs, NEW kind, NEW n, NEW done, NEW pending,
             WriteCheckpoint(j, kind, n, done, pending)
      PROVE  \A r \in Runs : history'[r] = {} \/ latest'[r] \in history'[r]
  BY <1>3 DEF WriteCheckpoint, TypeOK
<1>4. QED
  BY <1>1, <1>2, <1>3

\* A step of a job finds a node at the labels that are about one.
LEMMA AdvanceGoesOn ==
    ASSUME TypeOK, GoOnInv, NEW j \in Jobs, Advance(j)
    PROVE  /\ pc'[j] \in AboutANode => todo'[j] # {}
           /\ pc'[j] \in AtANode \cup {"next"} => \A n \in todo'[j] : gate'[j][n] # "script"
<1> USE DEF TypeOK, GoOnInv, Move, Goto, AboutANode, AtANode, progress, request
<1>1. CASE LoadCheckpoint(j) \/ CheckpointMissing(j)
  BY <1>1 DEF LoadCheckpoint, CheckpointMissing
<1>2. CASE BlockOnScript(j) \/ EnterLoop(j)
  <2>1. CASE EnterLoop(j)
    BY <2>1 DEF EnterLoop
  <2>2. CASE BlockOnScript(j)
    <3>1. \E n \in todo[j] : todo' = [todo EXCEPT ![j] = {n}]
      BY <2>2 DEF BlockOnScript
    <3>2. pc'[j] = "fail_permission" /\ todo'[j] # {}
      BY <2>2, <3>1 DEF BlockOnScript
    <3>3. QED
      BY <3>2
  <2>3. QED
    BY <1>2, <2>1, <2>2
<1>3. CASE RefuseDisabledTool(j) \/ RefusePermission(j) \/ ObserveCancel(j)
  BY <1>3 DEF RefuseDisabledTool, RefusePermission, ObserveCancel, IsNext
<1>4. CASE BeforeNode(j) \/ MarkRunning(j) \/ Succeed(j)
  BY <1>4 DEF BeforeNode, MayBegin, MarkRunning, Succeed, IsNext
<1>5. CASE RetryNode(j) \/ FailNode(j) \/ FailedCheckpoint(j) \/ MarkFailed(j) \/ AfterNode(j)
  BY <1>5 DEF RetryNode, FailNode, FailedCheckpoint, MarkFailed, AfterNode, IsNext
<1>6. CASE DeliverCompleted(j) \/ FinalVerification(j)
  BY <1>6 DEF DeliverCompleted, FinalVerification
<1>7. CASE ReportMissing(j) \/ ReportCompleted(j) \/ ReportCancelled(j)
           \/ ReportFailedNode(j) \/ ReportFailedRun(j)
  BY <1>7 DEF ReportMissing, ReportCompleted, ReportCancelled, ReportFailedNode,
              ReportFailedRun, Finish
<1>8. QED
  BY <1>1, <1>2, <1>3, <1>4, <1>5, <1>6, <1>7 DEF Advance

\* A request that is not the job's own stays, and so does its own once it is made.
LEMMA GatesStay ==
    ASSUME TypeOK, [Next]_vars, NEW j \in Jobs, pc[j] # "idle"
    PROVE  gate'[j] = gate[j]
<1>1. ASSUME NEW i \in Jobs, Start(i) PROVE gate'[j] = gate[j]
  BY <1>1 DEF Start, Reject, StartFull, StartFromNode, StartFailedOnly, StartResume, Begin,
              Move, TypeOK, request
<1>2. ASSUME NEW i \in Jobs, Advance(i) PROVE gate' = gate
  BY <1>2, AdvanceOnlyJob DEF OnlyJob, request
<1>3. ASSUME NEW i \in Jobs, Abort(i) PROVE gate' = gate
  BY <1>3 DEF Abort, request
<1>4. QED
  BY <1>1, <1>2, <1>3 DEF Next, Cancel, Restart, request, vars

LEMMA GoOnInvariant == Spec => []GoOnInv
<1>1. Init => GoOnInv
  BY DEF Init, GoOnInv, AboutANode, AtANode
<1>2. TypeOK /\ GoOnInv /\ [Next]_vars => GoOnInv'
  <2> SUFFICES ASSUME TypeOK, GoOnInv, [Next]_vars, NEW j \in Jobs
               PROVE  /\ pc'[j] \in AboutANode => todo'[j] # {}
                      /\ pc'[j] \in AtANode \cup {"next"} =>
                            \A n \in todo'[j] : gate'[j][n] # "script"
    BY CheckpointsStay DEF GoOnInv
  <2>1. CASE Advance(j)
    BY <2>1, AdvanceGoesOn
  <2>2. CASE LetBe(j)
    <3>1. CASE pc'[j] = pc[j] /\ pc[j] \in AboutANode \cup AtANode \cup {"next"}
      <4>1. pc[j] \in Live /\ pc[j] # "idle"
        BY <3>1 DEF AboutANode, AtANode, Live, Protected
      <4>2. todo'[j] = todo[j] /\ gate'[j] = gate[j]
        BY <2>2, <4>1, <3>1, GatesStay DEF LetBe, Live, Protected, Unprotected
      <4>3. QED
        BY <3>1, <4>2 DEF GoOnInv
    <3>2. CASE pc'[j] \in {"done", "started"}
      BY <3>2 DEF AboutANode, AtANode
    <3>3. QED
      BY <2>2, <3>1, <3>2 DEF LetBe
  <2>3. QED
    BY <2>1, <2>2, OthersLetBe
<1>3. QED
  BY <1>1, <1>2, TypeCorrect, PTL DEF Spec

\* In every reachable state of any number of jobs, whatever was cancelled, crashed or
\* resumed from whichever checkpoint, a live job finds what its next step is about: the
\* node whose turn it is, or the end of the list, or its checkpoint.
THEOREM NoJobIsStuck == Spec => []JobsGoOn
<1>1. TypeOK /\ GoOnInv => JobsGoOn
  <2> SUFFICES ASSUME TypeOK, GoOnInv, NEW j \in Jobs
               PROVE  /\ pc[j] \in AboutANode => \E n \in Nodes : IsNext(j, n)
                      /\ pc[j] = "next" =>
                            todo[j] = {} \/ \E n \in Nodes : IsNext(j, n) /\ gate[j][n] # "script"
                      /\ pc[j] = "started" /\ mode[j] = "resume" =>
                            history[rid[j]] = {} \/ latest[rid[j]] \in history[rid[j]]
    BY DEF JobsGoOn
  <2>1. todo[j] \in SUBSET Nodes /\ rid[j] \in Runs
    BY DEF TypeOK
  <2>2. todo[j] # {} => \E n \in Nodes : IsNext(j, n)
    BY <2>1, FirstOfAll DEF IsNext
  <2>3. \A n \in Nodes : IsNext(j, n) => n \in todo[j]
    BY DEF IsNext
  <2>4. QED
    BY <2>1, <2>2, <2>3 DEF GoOnInv
<1>2. QED
  BY <1>1, TypeCorrect, GoOnInvariant, PTL

\* Whoever moves, what a live job of others' steps has left stays.
LEMMA RetriesStay ==
    ASSUME TypeOK, [Next]_vars, NEW j \in Jobs, ~Advance(j), pc[j] \in Live
    PROVE  pc'[j] = "done" \/ retried'[j] = retried[j]
<1> USE DEF TypeOK, progress
<1>1. ASSUME NEW i \in Jobs, Start(i) PROVE retried' = retried
  BY <1>1 DEF Start, Reject, StartFull, StartFromNode, StartFailedOnly, StartResume, Begin
<1>2. ASSUME NEW i \in Jobs, i # j, Advance(i) PROVE retried'[j] = retried[j]
  BY <1>2 DEF Advance, LoadCheckpoint, CheckpointMissing, ReportMissing, BlockOnScript,
       EnterLoop, BeforeNode, RetryNode, FailedCheckpoint, AfterNode, RefuseDisabledTool,
       RefusePermission, ObserveCancel, MarkRunning, Succeed, FailNode, MarkFailed,
       DeliverCompleted, FinalVerification, ReportCompleted, ReportCancelled,
       ReportFailedNode, ReportFailedRun, Finish, Discard
<1>3. ASSUME NEW i \in Jobs, Abort(i) PROVE pc'[j] = "done" \/ retried'[j] = retried[j]
  BY <1>3 DEF Abort, Goto, Discard
<1>4. CASE Restart
  BY <1>4 DEF Restart
<1>5. QED
  BY <1>1, <1>2, <1>3, <1>4 DEF Next, Cancel, vars

\* Fewer nodes to run or as many; fewer retries left or as many.
LEMMA NodesToRunFall ==
    ASSUME NEW S, IsFiniteSet(S), NEW T \in SUBSET S
    PROVE  /\ Cardinality(T) \in Nat /\ Cardinality(S) \in Nat
           /\ Cardinality(T) <= Cardinality(S)
           /\ T # S => Cardinality(T) < Cardinality(S)
BY FS_Subset, FS_CardinalityType

\* A step of a job ends it or brings it closer to its end.
LEMMA AdvanceCounts ==
    ASSUME IsFiniteSet(Nodes), TypeOK, NEW j \in Jobs, Advance(j), pc'[j] # "done"
    PROVE  Closer(j)
<1> USE DEF Move, Goto, progress
<1>1. pc \in [Jobs -> Live \cup {"idle", "done"}]
  BY DEF TypeOK
<1>2. /\ todo[j] \in SUBSET Nodes /\ retried[j] \in SUBSET Nodes
      /\ IsFiniteSet(todo[j]) /\ IsFiniteSet(Nodes \ retried[j])
      /\ todo \in [Jobs -> SUBSET Nodes] /\ retried \in [Jobs -> SUBSET Nodes]
  BY FS_Subset, FS_Difference DEF TypeOK
<1>3. ASSUME todo'[j] \subseteq todo[j], retried'[j] = retried[j],
             Distance(pc'[j]) < Distance(pc[j])
      PROVE  Closer(j)
  <2>1. NodesToRun(j)' <= NodesToRun(j) /\ NodesToRun(j)' \in Nat /\ NodesToRun(j) \in Nat
    BY <1>2, <1>3, NodesToRunFall DEF NodesToRun
  <2>2. RetriesLeft(j)' = RetriesLeft(j)
    BY <1>3 DEF RetriesLeft
  <2>3. QED
    BY <1>3, <2>1, <2>2 DEF Closer
<1>4. CASE LoadCheckpoint(j) \/ CheckpointMissing(j) \/ EnterLoop(j)
  BY <1>1, <1>2, <1>3, <1>4 DEF LoadCheckpoint, Restore, CheckpointMissing, EnterLoop,
                                ReadyForNodes, Distance
<1>5. CASE BlockOnScript(j)
  BY <1>1, <1>2, <1>3, <1>5 DEF BlockOnScript, ReadyForNodes, Distance
<1>6. CASE RefuseDisabledTool(j) \/ RefusePermission(j) \/ ObserveCancel(j)
  BY <1>1, <1>3, <1>6 DEF RefuseDisabledTool, RefusePermission, ObserveCancel, Distance
<1>7. CASE BeforeNode(j) \/ MarkRunning(j)
  BY <1>1, <1>3, <1>7 DEF BeforeNode, MayBegin, MarkRunning, Distance
<1>8. CASE Succeed(j) \/ FailNode(j)
  BY <1>1, <1>3, <1>8 DEF Succeed, FailNode, Distance
<1>9. CASE FailedCheckpoint(j) \/ MarkFailed(j) \/ AfterNode(j)
  BY <1>1, <1>3, <1>9 DEF FailedCheckpoint, MarkFailed, AfterNode, Distance
<1>10. CASE FinalVerification(j)
  BY <1>1, <1>3, <1>10 DEF FinalVerification, Distance
<1>11. CASE RetryNode(j)
  <2>1. PICK n \in Nodes : n \notin retried[j] /\ retried' = [retried EXCEPT ![j] = @ \cup {n}]
    BY <1>11 DEF RetryNode, MayRetry
  <2>2. Nodes \ retried'[j] \subseteq Nodes \ retried[j] /\ Nodes \ retried'[j] # Nodes \ retried[j]
    BY <1>2, <2>1
  <2>3. RetriesLeft(j)' < RetriesLeft(j)
    BY <1>2, <2>2, NodesToRunFall DEF RetriesLeft
  <2>4. NodesToRun(j)' = NodesToRun(j)
    BY <1>11 DEF RetryNode, NodesToRun
  <2>5. QED
    BY <2>3, <2>4 DEF Closer
<1>12. CASE DeliverCompleted(j)
  <2>1. PICK n \in Nodes : n \in todo[j] /\ todo' = [todo EXCEPT ![j] = @ \ {n}]
    BY <1>12 DEF DeliverCompleted, IsNext
  <2>2. todo'[j] \subseteq todo[j] /\ todo'[j] # todo[j]
    BY <1>2, <2>1
  <2>3. NodesToRun(j)' < NodesToRun(j)
    BY <1>2, <2>2, NodesToRunFall DEF NodesToRun
  <2>4. QED
    BY <2>3 DEF Closer
<1>13. ~(ReportMissing(j) \/ ReportCompleted(j) \/ ReportCancelled(j)
         \/ ReportFailedNode(j) \/ ReportFailedRun(j))
  BY <1>1 DEF ReportMissing, ReportCompleted, ReportCancelled, ReportFailedNode,
              ReportFailedRun, Finish
<1>14. QED
  BY <1>4, <1>5, <1>6, <1>7, <1>8, <1>9, <1>10, <1>11, <1>12, <1>13 DEF Advance

\* Every step of a job on a finite graph ends it or lowers, in their lexicographic order,
\* its nodes to run, its retries left and its distance at the node, and no other job, no
\* button and no reader sets it back: retries are counted per call, and no resume,
\* checkpoint or retry puts a node back on the list of a job that runs.
THEOREM JobsComeToTheirEnd ==
    ASSUME IsFiniteSet(Nodes)
    PROVE  Spec => EveryStepCounts
<1>1. TypeOK /\ [Next]_vars => [\A j \in Jobs : StepsCount(j)]_vars
  <2> SUFFICES ASSUME TypeOK, [Next]_vars, NEW j \in Jobs PROVE StepsCount(j)
    OBVIOUS
  <2>1. CASE Advance(j)
    BY <2>1, AdvanceCounts DEF StepsCount
  <2>2. CASE ~Advance(j) /\ pc[j] \in Live
    <3>1. LetBe(j) /\ (pc'[j] = "done" \/ retried'[j] = retried[j])
      BY <2>2, OthersLetBe, RetriesStay
    <3>2. pc[j] # "idle"
      BY <2>2 DEF Live, Protected, Unprotected
    <3>3. QED
      BY <2>2, <3>1, <3>2 DEF StepsCount, LetBe
  <2>3. QED
    BY <2>1, <2>2 DEF StepsCount
<1>2. QED
  BY <1>1, TypeCorrect, PTL DEF Spec, EveryStepCounts
=============================================================================
