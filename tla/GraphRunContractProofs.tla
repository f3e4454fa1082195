----------------------- MODULE GraphRunContractProofs -----------------------
(***************************************************************************)
(* The executor implements RunContract for every graph, every number of    *)
(* runs and jobs and every request, if a run is resumed from its latest    *)
(* checkpoint and by one job at a time; and what that rests on: run.json   *)
(* says where its job stands, and checkpoints only count nodes whose       *)
(* records are there.                                                      *)
(***************************************************************************)
EXTENDS GraphRunContract, GraphRunProofs

-----------------------------------------------------------------------------
(* run.json and the job that writes it.                                     *)

Working ==
    {"started", "resumed", "next", "retry", "before_node", "running", "ran",
     "after_node", "failing", "failed"}

StatusFits(j) ==
    /\ pc[j] \in Working => run[rid[j]] = "running"
    /\ pc[j] = "memory" => run[rid[j]] = "completed"
    /\ pc[j] = "stopping" => run[rid[j]] = "cancelled"
    /\ pc[j] \in {"missing", "fail_node", "fail_permission", "fail_run"} =>
        run[rid[j]] = "failed"

RunJsonFits == \A j \in Jobs : StatusFits(j)

StatusInv == TypeOK /\ OneLiveJobPerRun /\ RunJsonFits

\* A job's step writes only to the directory of its run (run_journal.py:27-79).
LEMMA OtherRunsAreKept ==
    ASSUME TypeOK, NEW j \in Jobs, Advance(j), NEW r \in Runs, r # rid[j]
    PROVE  /\ run'[r] = run[r] /\ record'[r] = record[r]
           /\ latest'[r] = latest[r] /\ history'[r] = history[r]
<1> USE DEF TypeOK, disk, WriteRun, WriteNode, WriteCheckpoint
<1>1. CASE LoadCheckpoint(j) \/ CheckpointMissing(j) \/ EnterLoop(j) \/ ObserveCancel(j)
           \/ MarkFailed(j) \/ FinalVerification(j)
  BY <1>1 DEF LoadCheckpoint, CheckpointMissing, EnterLoop, ObserveCancel, MarkFailed,
              FinalVerification
<1>2. CASE BlockOnScript(j) \/ RefuseDisabledTool(j) \/ RefusePermission(j)
           \/ MarkRunning(j) \/ Succeed(j) \/ FailNode(j) \/ DeliverCompleted(j)
  BY <1>2 DEF BlockOnScript, RefuseDisabledTool, RefusePermission, MarkRunning, Succeed,
              FailNode, DeliverCompleted
<1>3. CASE BeforeNode(j) \/ RetryNode(j) \/ FailedCheckpoint(j) \/ AfterNode(j)
  BY <1>3 DEF BeforeNode, RetryNode, FailedCheckpoint, AfterNode
<1>4. CASE ReportMissing(j) \/ ReportCompleted(j) \/ ReportCancelled(j)
           \/ ReportFailedNode(j) \/ ReportFailedRun(j)
  BY <1>4 DEF ReportMissing, ReportCompleted, ReportCancelled, ReportFailedNode,
              ReportFailedRun
<1>5. QED
  BY <1>1, <1>2, <1>3, <1>4 DEF Advance

\* A job that moves on leaves run.json where it now stands
\* (execution.py:1601-1657, 1865-1878, 2080-2123, 2198-2269).
LEMMA AdvanceStatusFits ==
    ASSUME TypeOK, NEW j \in Jobs, StatusFits(j), Advance(j)
    PROVE  StatusFits(j)'
<1>1. /\ pc \in [Jobs -> Live \cup {"idle", "done"}]
      /\ run \in [Runs -> RunStatus] /\ rid \in [Jobs -> Runs]
      /\ rid' = rid
  BY AdvanceOnlyJob DEF TypeOK, OnlyJob, request
<1> USE DEF StatusFits, Working, Move, Goto, WriteRun, disk
<1>2. CASE LoadCheckpoint(j) \/ CheckpointMissing(j)
  BY <1>1, <1>2 DEF LoadCheckpoint, CheckpointMissing
<1>3. CASE BlockOnScript(j) \/ EnterLoop(j)
  BY <1>1, <1>3 DEF BlockOnScript, EnterLoop, ReadyForNodes
<1>4. CASE RefuseDisabledTool(j) \/ RefusePermission(j) \/ ObserveCancel(j)
           \/ MarkFailed(j) \/ FinalVerification(j)
  BY <1>1, <1>4 DEF RefuseDisabledTool, RefusePermission, ObserveCancel, MarkFailed,
                    FinalVerification
<1>5. CASE BeforeNode(j) \/ MarkRunning(j) \/ Succeed(j) \/ RetryNode(j) \/ FailNode(j)
  BY <1>1, <1>5 DEF BeforeNode, MayBegin, MarkRunning, Succeed, RetryNode, FailNode
<1>6. CASE FailedCheckpoint(j) \/ AfterNode(j) \/ DeliverCompleted(j)
  BY <1>1, <1>6 DEF FailedCheckpoint, AfterNode, DeliverCompleted
<1>7. CASE ReportMissing(j) \/ ReportCompleted(j) \/ ReportCancelled(j)
           \/ ReportFailedNode(j) \/ ReportFailedRun(j)
  BY <1>1, <1>7 DEF ReportMissing, ReportCompleted, ReportCancelled, ReportFailedNode,
                    ReportFailedRun, Finish
<1>8. QED
  BY <1>2, <1>3, <1>4, <1>5, <1>6, <1>7 DEF Advance

\* Jobs that start or only end.
LEMMA OthersKeepStatus ==
    ASSUME StatusInv, NEW i \in Jobs, rid' = rid, pc'[i] \in {pc[i], "done"},
           pc[i] \in Live => run'[rid[i]] = run[rid[i]]
    PROVE  StatusFits(i)'
BY DEF StatusInv, RunJsonFits, StatusFits, Working, Live, Protected, Unprotected

\* As long as jobs of a run do not overlap, run.json says where the run's live job
\* stands (execution.py:1601-1657, 1865-1878, 2080-2123, 2198-2269).
LEMMA RunJsonFollows ==
    ASSUME Overlap # "any"
    PROVE  Spec => []StatusInv
<1>1. Init => RunJsonFits
  BY DEF Init, RunJsonFits, StatusFits, Working
<1>2. StatusInv /\ [Next]_vars => RunJsonFits'
  <2> SUFFICES ASSUME StatusInv, [Next]_vars, NEW i \in Jobs PROVE StatusFits(i)'
    BY DEF RunJsonFits
  <2>1. TypeOK /\ rid \in [Jobs -> Runs] /\ pc \in [Jobs -> Live \cup {"idle", "done"}]
        /\ run \in [Runs -> RunStatus]
    BY DEF StatusInv, TypeOK
  <2>2. ASSUME NEW j \in Jobs, Reject(j) PROVE StatusFits(i)'
    BY <2>1, <2>2, OthersKeepStatus DEF Reject, Move, Goto, disk, request
  <2>3. ASSUME NEW j \in Jobs, NEW m, NEW named, NEW selected, NEW inherited,
               Begin(j, m, named, selected, inherited)
        PROVE  StatusFits(i)'
    <3>1. /\ MayStart(j)
          /\ pc' = [pc EXCEPT ![j] = "started"]
          /\ run' = [run EXCEPT ![rid[j]] = "running"]
          /\ rid' = rid
      BY <2>3 DEF Begin, Move, Goto, WriteRun
    <3>2. CASE i = j
      BY <2>1, <3>1, <3>2 DEF StatusFits, Working
    <3>3. CASE i # j
      <4>1. pc[i] \in Live => rid[i] # rid[j]
        BY <3>1, RunAssumption DEF MayStart
      <4>2. QED
        BY <2>1, <3>1, <3>3, <4>1, OthersKeepStatus
    <3>4. QED
      BY <3>2, <3>3
  <2>4. ASSUME NEW j \in Jobs, Advance(j) PROVE StatusFits(i)'
    <3>1. OnlyJob(j) /\ pc[j] \in Live
      BY <2>1, <2>4, AdvanceOnlyJob
    <3>2. CASE i = j
      BY <2>1, <2>4, <3>2, AdvanceStatusFits DEF StatusInv, RunJsonFits
    <3>3. CASE i # j
      <4>1. pc[i] \in Live => rid[i] # rid[j]
        BY <3>1, <3>3 DEF StatusInv, OneLiveJobPerRun
      <4>2. pc[i] \in Live => run'[rid[i]] = run[rid[i]]
        BY <2>1, <2>4, <4>1, OtherRunsAreKept
      <4>3. QED
        BY <3>1, <3>3, <4>2, OthersKeepStatus DEF OnlyJob, request
    <3>4. QED
      BY <3>2, <3>3
  <2>5. ASSUME NEW j \in Jobs, Abort(j) PROVE StatusFits(i)'
    BY <2>1, <2>5, OthersKeepStatus DEF Abort, Goto, disk, request
  <2>6. ASSUME NEW r \in Runs, Cancel(r) PROVE StatusFits(i)'
    BY <2>1, <2>6, OthersKeepStatus DEF Cancel, disk, request
  <2>7. CASE Restart
    BY <2>1, <2>7, OthersKeepStatus DEF Restart, disk, request
  <2>8. CASE UNCHANGED vars
    BY <2>1, <2>8, OthersKeepStatus DEF vars, disk, request
  <2>9. QED
    BY <2>2, <2>3, <2>4, <2>5, <2>6, <2>7, <2>8
       DEF Next, Start, StartFull, StartFromNode, StartFailedOnly, StartResume
<1>3. Spec => [](OneLiveJobPerRun /\ CancelReachesJob /\ NoTokenAfterVerdict)
  BY CancelFindsItsJob
<1>4. QED
  BY <1>1, <1>2, <1>3, TypeCorrect, PTL DEF Spec, StatusInv

\* The terminal event a job emits is the status run.json has at that moment, whatever
\* other runs do meanwhile (execution.py:1865-1878, 2080-2123, 2198-2279).
THEOREM VerdictsAreOnDisk ==
    ASSUME Overlap # "any"
    PROVE  Spec => VerdictOnDisk
<1> DEFINE Agrees == \A j \in Jobs : sent'[j] # sent[j] => run'[rid[j]] = sent'[j]
<1>1. StatusInv /\ [Next]_vars => [Agrees]_vars
  <2> SUFFICES ASSUME StatusInv, Next PROVE Agrees
    BY DEF vars
  <2>1. TypeOK /\ RunJsonFits
    BY DEF StatusInv
  <2>2. ASSUME NEW j \in Jobs, Advance(j) PROVE Agrees
    <3>1. sent' = sent \/ \E v \in Verdicts : sent' = [sent EXCEPT ![j] = v]
      BY <2>1, <2>2, AdvanceToken
    <3>2. \A i \in Jobs : i # j => sent'[i] = sent[i]
      BY <2>1, <3>1 DEF TypeOK
    <3>3. sent'[j] # sent[j] => run'[rid[j]] = sent'[j]
      <4> USE <2>1 DEF TypeOK, RunJsonFits, StatusFits, Finish, Move, disk
      <4>1. CASE ReportMissing(j) \/ ReportCompleted(j) \/ ReportCancelled(j)
        BY <4>1 DEF ReportMissing, ReportCompleted, ReportCancelled
      <4>2. CASE ReportFailedNode(j) \/ ReportFailedRun(j)
        BY <4>2 DEF ReportFailedNode, ReportFailedRun
      <4>3. CASE sent' = sent
        BY <4>3
      <4>4. QED
        BY <2>2, <4>1, <4>2, <4>3
           DEF Advance, progress, LoadCheckpoint, CheckpointMissing, BlockOnScript,
               EnterLoop, RefuseDisabledTool, RefusePermission, ObserveCancel, BeforeNode,
               MarkRunning, Succeed, RetryNode, FailNode, FailedCheckpoint, MarkFailed,
               AfterNode, DeliverCompleted, FinalVerification
    <3>4. QED
      BY <3>2, <3>3
  <2>3. ASSUME NEW j \in Jobs, Start(j) \/ Abort(j) PROVE sent' = sent
    BY <2>3 DEF Start, Reject, StartFull, StartFromNode, StartFailedOnly, StartResume,
                Begin, Abort
  <2>4. ASSUME NEW r \in Runs, Cancel(r) PROVE sent' = sent
    BY <2>4 DEF Cancel
  <2>5. Restart => sent' = sent
    BY DEF Restart
  <2>6. sent' = sent => Agrees
    OBVIOUS
  <2>7. QED
    BY <2>2, <2>3, <2>4, <2>5, <2>6 DEF Next
<1>2. Spec => []StatusInv
  BY RunJsonFollows
<1>3. QED
  BY <1>1, <1>2, PTL DEF Spec, VerdictOnDisk

-----------------------------------------------------------------------------
(* Checkpoints and records.  What a full run's last checkpoint counts has a  *)
(* record, and its live job goes on from exactly that.                       *)

Counted(r) == IF latest[r] # NoCheckpoint THEN latest[r].done ELSE {}

\* A run without checkpoints has no last one.
LatestIsListed == \A r \in Runs : history[r] = {} => latest[r] = NoCheckpoint

\* The outputs of a job are those the last checkpoint counts, and the one it is
\* just recording.
JobBacked(j) ==
    /\ pc[j] \in Live \ {"missing", "ran"} /\ ~(pc[j] = "started" /\ mode[j] = "resume")
       => outs[j] = Counted(rid[j])
    /\ pc[j] = "ran" =>
       \E n \in Nodes : /\ IsNext(j, n)
                        /\ outs[j] = Counted(rid[j]) \cup {n}
                        /\ n \notin Counted(rid[j])
                        /\ record[rid[j]][n] = "completed"

RecordsBack(r) ==
    /\ \A n \in Counted(r) : record[r][n] = "completed"
    /\ run[r] = "completed" => \A n \in Nodes : record[r][n] = "completed"

BackedInv ==
    /\ SplitInv
    /\ StatusInv
    /\ LatestIsListed
    /\ \A j \in Jobs : rid[j] \in WholeRuns => JobBacked(j)
    /\ \A r \in WholeRuns : RecordsBack(r)

\* write_checkpoint replaces the last checkpoint of its run (run_journal.py:63-73).
LEMMA CountedByCheckpoint ==
    ASSUME TypeOK, NEW j \in Jobs, NEW kind, NEW n, NEW done, NEW pending,
           WriteCheckpoint(j, kind, n, done, pending),
           kind \in {"before_node", "retrying", "after_node", "failed"}
    PROVE  /\ latest'[rid[j]] # NoCheckpoint
           /\ latest'[rid[j]].done = done
           /\ history'[rid[j]] # {}
<1> DEFINE c == [kind |-> kind, node |-> n, done |-> done, pending |-> pending]
<1>1. latest'[rid[j]] = c /\ c \in history'[rid[j]]
  BY DEF WriteCheckpoint, TypeOK
<1>2. c.kind = kind /\ c.done = done /\ NoCheckpoint.kind = "none"
  BY DEF NoCheckpoint
<1>3. QED
  BY <1>1, <1>2

\* A step of a full run's job keeps what its checkpoint counts backed by records
\* (execution.py:1618-1657, 1880-1925, 2065-2182).
LEMMA AdvanceBacked ==
    ASSUME BackedInv, ResumeFrom = "latest", NEW j \in Jobs, NEW r \in Runs, rid[j] = r,
           r \in WholeRuns, Advance(j)
    PROVE  JobBacked(j)' /\ RecordsBack(r)'
<1>1. /\ TypeOK /\ JobSplit(j) /\ JobBacked(j) /\ RecordsBack(r) /\ StatusFits(j)
      /\ LatestIsListed
  BY DEF BackedInv, SplitInv, JobsSplitGraph, StatusInv, RunJsonFits
<1>2. /\ pc \in [Jobs -> Live \cup {"idle", "done"}] /\ rid \in [Jobs -> Runs]
      /\ outs \in [Jobs -> SUBSET Nodes] /\ todo \in [Jobs -> SUBSET Nodes]
      /\ run \in [Runs -> RunStatus] /\ record \in [Runs -> [Nodes -> RecordStatus]]
      /\ pc[j] \in Live /\ rid' = rid /\ mode' = mode
  BY <1>1, AdvanceOnlyJob DEF TypeOK, OnlyJob, request
<1>3. pc[j] \in Live \ {"missing", "fail_permission", "ran", "after_node"}
      /\ ~(pc[j] = "started" /\ mode[j] = "resume")
      => /\ outs[j] \cup todo[j] = Nodes /\ outs[j] \cap todo[j] = {}
         /\ outs[j] = Counted(r)
  BY <1>1 DEF JobSplit, JobBacked
<1> HIDE DEF IsNext, MayBegin
<1> USE DEF Move, Goto, disk, progress
<1>4. CASE LoadCheckpoint(j)
  <2>1. PICK c \in history[r] : c = latest[r] /\ Restore(j, c)
    BY <1>4 DEF LoadCheckpoint
  <2>2. c # NoCheckpoint
    <3>1. c \in Checkpoints
      BY <1>1, <2>1 DEF TypeOK
    <3>2. c.kind # "none" /\ NoCheckpoint.kind = "none"
      BY <3>1 DEF Checkpoints, NoCheckpoint
    <3>3. QED
      BY <3>2
  <2>3. outs[j] = {}
    BY <1>1, <1>4 DEF LoadCheckpoint, JobSplit, Live, Unprotected
  <2>4. outs'[j] = Counted(r) /\ pc'[j] = "resumed"
    BY <1>2, <1>4, <2>1, <2>2, <2>3 DEF LoadCheckpoint, Restore, Counted
  <2>5. QED
    BY <1>1, <1>2, <1>4, <2>4 DEF LoadCheckpoint, JobBacked, RecordsBack, Counted
<1>5. CASE CheckpointMissing(j)
  BY <1>1, <1>2, <1>5 DEF CheckpointMissing, WriteRun, JobBacked, RecordsBack, Counted
<1>6. CASE EnterLoop(j) \/ ObserveCancel(j) \/ MarkFailed(j)
  BY <1>1, <1>2, <1>6 DEF EnterLoop, ReadyForNodes, ObserveCancel, MarkFailed, WriteRun,
     JobBacked, RecordsBack, Counted, Live, Protected, Unprotected
<1>7. CASE BlockOnScript(j) \/ RefuseDisabledTool(j) \/ RefusePermission(j)
           \/ MarkRunning(j) \/ FailNode(j)
  <2>1. PICK n \in todo[j], status \in RecordStatus :
          /\ WriteNode(j, n, status)
          /\ outs' = outs /\ latest' = latest
          /\ run'[r] \in {"running", "failed"}
          /\ pc[j] \in Live \ {"missing", "fail_permission", "ran", "after_node"}
          /\ ~(pc[j] = "started" /\ mode[j] = "resume")
          /\ pc'[j] # "ran"
    <3> USE <1>1, <1>2 DEF IsNext, RecordStatus, Live, Protected, Unprotected, WriteRun,
                           StatusFits, Working
    <3>1. CASE BlockOnScript(j)
      BY <3>1 DEF BlockOnScript, ReadyForNodes
    <3>2. CASE RefuseDisabledTool(j) \/ RefusePermission(j)
      BY <3>2 DEF RefuseDisabledTool, RefusePermission
    <3>3. CASE MarkRunning(j) \/ FailNode(j)
      BY <3>3 DEF MarkRunning, FailNode
    <3>4. QED
      BY <1>7, <3>1, <3>2, <3>3
  <2>2. n \notin outs[j] /\ outs[j] = Counted(r) /\ n \in Nodes
    BY <1>2, <1>3, <2>1
  <2>3. \A m \in Nodes : m # n => record'[r][m] = record[r][m]
    BY <1>2, <2>1 DEF WriteNode
  <2>4. Counted(r)' = Counted(r) /\ Counted(r) \subseteq Nodes
    BY <1>2, <2>1, <2>2 DEF Counted
  <2>5. QED
    BY <1>1, <1>2, <2>1, <2>2, <2>3, <2>4 DEF JobBacked, RecordsBack
<1>8. CASE BeforeNode(j) \/ RetryNode(j) \/ FailedCheckpoint(j) \/ AfterNode(j)
  <2>1. PICK kind \in {"before_node", "retrying", "after_node", "failed"}, n \in Nodes,
             pending \in SUBSET Nodes :
          /\ WriteCheckpoint(j, kind, n, outs[j], pending)
          /\ outs' = outs /\ record' = record /\ run' = run
          /\ pc[j] \in Working \ {"started", "resumed"}
          /\ pc'[j] \notin {"ran", "missing", "started"}
    <3> USE <1>1, <1>2 DEF Working
    <3>1. CASE BeforeNode(j)
      BY <3>1 DEF BeforeNode, MayBegin
    <3>2. CASE RetryNode(j)
      BY <3>2 DEF RetryNode
    <3>3. CASE FailedCheckpoint(j)
      BY <3>3 DEF FailedCheckpoint
    <3>4. CASE AfterNode(j)
      <4>1. PICK n \in Nodes : WriteCheckpoint(j, "after_node", n, outs[j], PendingAfter(j, n))
        BY <3>4 DEF AfterNode
      <4>2. PendingAfter(j, n) \in SUBSET Nodes
        BY DEF PendingAfter
      <4>3. QED
        BY <3>4, <4>1, <4>2 DEF AfterNode
    <3>5. QED
      BY <1>8, <3>1, <3>2, <3>3, <3>4
  <2>2. Counted(r)' = outs[j]
    BY <1>1, <2>1, CountedByCheckpoint DEF Counted
  <2>3. \A m \in outs[j] : record[r][m] = "completed"
    BY <1>1, <2>1 DEF JobBacked, RecordsBack, Working, Live, Protected, Unprotected
  <2>4. QED
    BY <1>1, <1>2, <2>1, <2>2, <2>3 DEF JobBacked, RecordsBack
<1>9. CASE Succeed(j)
  <2>1. PICK n \in Nodes : /\ IsNext(j, n)
                           /\ outs' = [outs EXCEPT ![j] = @ \cup {n}]
                           /\ WriteNode(j, n, "completed")
    BY <1>9 DEF Succeed
  <2>2. /\ pc[j] = "running" /\ pc'[j] = "ran"
        /\ UNCHANGED <<latest, run, todo>>
    BY <1>2, <1>9 DEF Succeed
  <2>3. n \in todo[j] /\ n \notin outs[j] /\ outs[j] = Counted(r)
    BY <1>3, <2>1, <2>2 DEF IsNext, Live, Protected
  <2>4. /\ record'[r][n] = "completed"
        /\ \A m \in Nodes : m # n => record'[r][m] = record[r][m]
    BY <1>2, <2>1 DEF WriteNode
  <2>5. /\ Counted(r)' = Counted(r) /\ Counted(r) \subseteq Nodes
        /\ IsNext(j, n)' /\ outs'[j] = outs[j] \cup {n}
    BY <1>2, <2>1, <2>2, <2>3 DEF Counted, IsNext
  <2>6. JobBacked(j)'
    BY <1>2, <2>1, <2>2, <2>3, <2>4, <2>5 DEF JobBacked
  <2>7. RecordsBack(r)'
    BY <1>1, <2>2, <2>4, <2>5 DEF RecordsBack
  <2>8. QED
    BY <2>6, <2>7
<1>10. CASE DeliverCompleted(j)
  BY <1>1, <1>2, <1>10 DEF DeliverCompleted, JobBacked, RecordsBack, Counted, Live, Protected
<1>11. CASE FinalVerification(j)
  <2>1. outs[j] = Nodes /\ outs[j] = Counted(r)
    BY <1>3, <1>11 DEF FinalVerification, Live, Protected
  <2>2. \A n \in Nodes : record[r][n] = "completed"
    BY <1>1, <2>1 DEF RecordsBack
  <2>3. /\ UNCHANGED <<record, latest, outs>>
        /\ pc'[j] \in {"memory", "fail_run"}
    BY <1>2, <1>11 DEF FinalVerification
  <2>4. QED
    BY <1>1, <1>2, <2>1, <2>2, <2>3 DEF JobBacked, RecordsBack, Counted
<1>12. CASE ReportMissing(j) \/ ReportCompleted(j) \/ ReportCancelled(j)
            \/ ReportFailedNode(j) \/ ReportFailedRun(j)
  <2>1. pc'[j] = "done" /\ UNCHANGED <<run, record, latest>>
    BY <1>2, <1>12 DEF ReportMissing, ReportCompleted, ReportCancelled,
                 ReportFailedNode, ReportFailedRun, Finish
  <2>2. QED
    BY <1>1, <2>1 DEF JobBacked, RecordsBack, Counted, Live, Protected, Unprotected
<1>13. QED
  BY <1>4, <1>5, <1>6, <1>7, <1>8, <1>9, <1>10, <1>11, <1>12 DEF Advance

\* A job that starts finds no checkpoint of a run of its own, and leaves what a resumed
\* run has on disk alone (execution.py:1601-1617).
LEMMA BeginBacked ==
    ASSUME BackedInv, Overlap # "any", NEW j \in Jobs, NEW m \in Modes \ {"none"},
           NEW named, NEW selected, NEW inherited,
           Begin(j, m, named, selected, inherited),
           m # "resume" => Fresh(rid[j]),
           m \in {"full", "resume"} => selected = Nodes /\ inherited = {}
    PROVE  /\ LatestIsListed'
           /\ \A i \in Jobs : rid'[i] \in WholeRuns' => JobBacked(i)'
           /\ \A r \in WholeRuns' : RecordsBack(r)'
           /\ WholeRuns' \subseteq WholeRuns \cup {rid[j]}
           /\ WholeRuns \subseteq WholeRuns'
           /\ rid[j] \in WholeRuns' \ WholeRuns => Counted(rid[j]) = {}
<1>1. TypeOK /\ OneOrigin /\ LatestIsListed
  BY DEF BackedInv, SplitInv
<1>2. /\ MayStart(j)
      /\ pc[j] = "idle" /\ pc' = [pc EXCEPT ![j] = "started"]
      /\ mode' = [mode EXCEPT ![j] = m]
      /\ outs' = [outs EXCEPT ![j] = inherited]
      /\ run' = [run EXCEPT ![rid[j]] = "running"]
      /\ \A i \in Jobs \ {j} : todo'[i] = todo[i]
      /\ UNCHANGED <<record, history, latest, rid>>
  <2>1. todo \in [Jobs -> SUBSET Nodes]
    BY <1>1 DEF TypeOK
  <2>2. PICK g \in GateChoices : todo' = [todo EXCEPT ![j] =
            {n \in selected : g[n] = "script" \/ view[n] \notin SkipStatuses}]
    BY DEF Begin
  <2>3. \A i \in Jobs \ {j} : todo'[i] = todo[i]
    BY <2>1, <2>2
  <2>4. QED
    BY <2>3 DEF Begin, Move, Goto, WriteRun
<1>3. /\ \A i \in Jobs \ {j} : pc'[i] = pc[i] /\ mode'[i] = mode[i] /\ outs'[i] = outs[i]
      /\ pc'[j] = "started" /\ mode'[j] = m /\ outs'[j] = inherited
      /\ run'[rid[j]] = "running"
      /\ \A r \in Runs \ {rid[j]} : run'[r] = run[r]
      /\ rid \in [Jobs -> Runs]
  BY <1>1, <1>2 DEF TypeOK
<1>4. m # "resume" =>
        /\ \A i \in Jobs : rid[i] = rid[j] => pc[i] = "idle" /\ mode[i] = "none"
        /\ Counted(rid[j]) = {}
  BY <1>1, <1>3 DEF Fresh, OneOrigin, LatestIsListed, Counted
<1>5. /\ WholeRuns \subseteq WholeRuns'
      /\ \A r \in WholeRuns' : r \in WholeRuns \/ (r = rid[j] /\ m = "full")
  <2>1. mode[j] = "none"
    BY <1>1, <1>2 DEF OneOrigin
  <2>2. QED
    BY <1>2, <1>3, <2>1 DEF WholeRuns
<1>6. \A r \in Runs : Counted(r)' = Counted(r)
  BY <1>2 DEF Counted
<1>7. ASSUME NEW i \in Jobs, rid'[i] \in WholeRuns' PROVE JobBacked(i)'
  <2>1. CASE i = j
    <3>1. m \in {"full", "resume"}
      <4>1. PICK k \in Jobs : rid'[k] = rid'[j] /\ mode'[k] = "full"
        BY <1>7, <2>1 DEF WholeRuns
      <4>2. QED
        BY <1>2, <1>3, <1>4, <4>1
    <3>2. QED
      BY <1>2, <1>3, <1>4, <1>6, <2>1, <3>1 DEF JobBacked
  <2>2. CASE i # j /\ rid[i] \in WholeRuns
    BY <1>2, <1>3, <1>6, <2>2 DEF BackedInv, JobBacked, IsNext
  <2>3. CASE i # j /\ rid[i] \notin WholeRuns
    <3>1. pc'[i] = "idle"
      BY <1>2, <1>3, <1>4, <1>5, <1>7, <2>3
    <3>2. QED
      BY <3>1 DEF JobBacked, Live, Protected, Unprotected
  <2>4. QED
    BY <2>1, <2>2, <2>3
<1>8. ASSUME NEW r \in WholeRuns' PROVE RecordsBack(r)'
  <2>1. r \in Runs
    BY DEF WholeRuns
  <2>2. r \in WholeRuns \/ Counted(r)' = {}
    BY <1>4, <1>5, <1>6, <2>1
  <2>3. r = rid[j] \/ run'[r] = run[r]
    BY <1>3, <2>1
  <2>4. r = rid[j] => run'[r] = "running"
    BY <1>3
  <2>5. r \in WholeRuns => RecordsBack(r)
    BY DEF BackedInv
  <2>6. r \notin WholeRuns => r = rid[j]
    BY <1>5
  <2>7. QED
    BY <1>2, <1>6, <2>1, <2>2, <2>3, <2>4, <2>5, <2>6 DEF RecordsBack
<1>9. QED
  BY <1>1, <1>2, <1>4, <1>5, <1>7, <1>8 DEF LatestIsListed

\* Jobs that are rejected, cancelled or only end, by a lost reader or a restart.
LEMMA EndBacked ==
    ASSUME BackedInv, UNCHANGED <<rid, run, record, history, latest, WholeRuns>>,
           \A i \in Jobs : pc'[i] \in Live => /\ pc'[i] = pc[i] /\ mode'[i] = mode[i]
                                              /\ outs'[i] = outs[i] /\ todo'[i] = todo[i]
    PROVE  /\ LatestIsListed'
           /\ \A i \in Jobs : rid'[i] \in WholeRuns' => JobBacked(i)'
           /\ \A r \in WholeRuns' : RecordsBack(r)'
<1>1. ASSUME NEW i \in Jobs, rid'[i] \in WholeRuns' PROVE JobBacked(i)'
  <2>1. JobBacked(i)
    BY <1>1 DEF BackedInv
  <2>2. \A r \in Runs : Counted(r)' = Counted(r)
    BY DEF Counted
  <2>3. rid[i] \in Runs
    BY DEF BackedInv, SplitInv, TypeOK
  <2>4. CASE pc'[i] \in Live
    BY <2>1, <2>2, <2>3, <2>4 DEF JobBacked, IsNext
  <2>5. CASE pc'[i] \notin Live
    BY <2>5 DEF JobBacked, Live, Protected
  <2>6. QED
    BY <2>4, <2>5
<1>2. QED
  BY <1>1 DEF BackedInv, LatestIsListed, RecordsBack, Counted

\* The invariant of the checkpoints and records holds in every reachable state.
LEMMA BackedInvariant ==
    ASSUME Overlap # "any", ResumeFrom = "latest"
    PROVE  Spec => []BackedInv
<1> DEFINE Rest == /\ LatestIsListed
                   /\ \A j \in Jobs : rid[j] \in WholeRuns => JobBacked(j)
                   /\ \A r \in WholeRuns : RecordsBack(r)
<1>1. Init => Rest
  BY DEF Init, LatestIsListed, WholeRuns
<1>2. BackedInv /\ [Next]_vars => Rest'
  <2> SUFFICES ASSUME BackedInv, [Next]_vars PROVE Rest'
    OBVIOUS
  <2>1. TypeOK /\ "done" \notin Live
    BY DEF BackedInv, SplitInv, Live, Protected, Unprotected
  <2>2. ASSUME NEW j \in Jobs, Start(j) PROVE Rest'
    <3>1. CASE Reject(j)
      <4>1. /\ UNCHANGED <<rid, mode, run, record, history, latest, outs, todo>>
            /\ pc'[j] = "done" /\ \A i \in Jobs \ {j} : pc'[i] = pc[i]
        BY <2>1, <3>1 DEF Reject, Move, Goto, disk, request, progress, TypeOK
      <4>2. WholeRuns' = WholeRuns
        BY <4>1 DEF WholeRuns
      <4>3. QED
        BY <2>1, <4>1, <4>2, EndBacked
    <3>2. CASE StartFull(j)
      BY <3>2, BeginBacked DEF StartFull, Modes
    <3>3. CASE StartResume(j)
      BY <3>3, BeginBacked DEF StartResume, Modes
    <3>4. CASE StartFromNode(j)
      <4>1. PICK named, selected, inherited :
              Begin(j, "from_node", named, selected, inherited)
        BY <3>4 DEF StartFromNode
      <4>2. Fresh(rid[j]) /\ "from_node" \in Modes \ {"none"}
        BY <3>4 DEF StartFromNode, Modes
      <4>3. QED
        BY <4>1, <4>2, BeginBacked
    <3>5. CASE StartFailedOnly(j)
      <4>1. PICK named, selected, inherited :
              Begin(j, "failed_only", named, selected, inherited)
        BY <3>5 DEF StartFailedOnly
      <4>2. Fresh(rid[j]) /\ "failed_only" \in Modes \ {"none"}
        BY <3>5 DEF StartFailedOnly, Modes
      <4>3. QED
        BY <4>1, <4>2, BeginBacked
    <3>6. QED
      BY <2>2, <3>1, <3>2, <3>3, <3>4, <3>5 DEF Start
  <2>3. ASSUME NEW j \in Jobs, Advance(j) PROVE Rest'
    <3>1. OnlyJob(j) /\ pc[j] \in Live
      BY <2>1, <2>3, AdvanceOnlyJob
    <3>2. rid \in [Jobs -> Runs] /\ rid' = rid /\ mode' = mode /\ WholeRuns' = WholeRuns
      BY <2>1, <3>1 DEF OnlyJob, request, WholeRuns, TypeOK
    <3>3. \A r \in Runs : r # rid[j] =>
            /\ run'[r] = run[r] /\ record'[r] = record[r]
            /\ latest'[r] = latest[r] /\ history'[r] = history[r]
      BY <2>1, <2>3, OtherRunsAreKept
    <3>4. rid[j] \in WholeRuns => JobBacked(j)' /\ RecordsBack(rid[j])'
      BY <2>3, <3>2, AdvanceBacked
    <3>5. ASSUME NEW i \in Jobs, i # j, rid[i] \in WholeRuns PROVE JobBacked(i)'
      <4>1. JobBacked(i)
        BY <3>5 DEF BackedInv
      <4>2. CASE pc[i] \in Live
        <5>1. rid[i] # rid[j]
          BY <3>1, <3>5, <4>2 DEF BackedInv, StatusInv, OneLiveJobPerRun
        <5>2. Counted(rid[i])' = Counted(rid[i]) /\ record'[rid[i]] = record[rid[i]]
          BY <3>2, <3>3, <5>1 DEF Counted
        <5>3. QED
          BY <3>1, <3>2, <3>5, <4>1, <5>2 DEF JobBacked, OnlyJob, IsNext
      <4>3. CASE pc[i] \notin Live
        BY <3>1, <3>5, <4>3 DEF JobBacked, OnlyJob, Live, Protected
      <4>4. QED
        BY <4>2, <4>3
    <3>6. ASSUME NEW r \in WholeRuns, r # rid[j] PROVE RecordsBack(r)'
      BY <3>3, <3>6 DEF BackedInv, RecordsBack, Counted, WholeRuns
    <3>7. LatestIsListed'
      <4>1. history'[rid[j]] = {} => latest'[rid[j]] = NoCheckpoint
        <5>1. CASE history' = history /\ latest' = latest
          BY <3>2, <5>1 DEF BackedInv, LatestIsListed
        <5>2. CASE \E kind \in {"before_node", "retrying", "after_node", "failed"} :
                       \E n, done, pending : WriteCheckpoint(j, kind, n, done, pending)
          BY <2>1, <5>2, CountedByCheckpoint
        <5>3. QED
          BY <2>3, <5>1, <5>2
             DEF Advance, disk, LoadCheckpoint, CheckpointMissing, ReportMissing,
                 BlockOnScript, EnterLoop, RefuseDisabledTool, RefusePermission,
                 ObserveCancel, BeforeNode, MarkRunning, Succeed, RetryNode, FailNode,
                 FailedCheckpoint, MarkFailed, AfterNode, DeliverCompleted,
                 FinalVerification, ReportCompleted, ReportCancelled, ReportFailedNode,
                 ReportFailedRun
      <4>2. QED
        BY <3>3, <4>1 DEF BackedInv, LatestIsListed
    <3>8. QED
      BY <3>2, <3>4, <3>5, <3>6, <3>7
  <2>4. ASSUME NEW j \in Jobs, Abort(j) PROVE Rest'
    <3>1. /\ UNCHANGED <<rid, mode, run, record, history, latest>>
          /\ pc'[j] = "done" /\ \A i \in Jobs \ {j} : pc'[i] = pc[i]
          /\ \A i \in Jobs \ {j} : outs'[i] = outs[i] /\ todo'[i] = todo[i]
      BY <2>1, <2>4 DEF Abort, Goto, Discard, disk, request, TypeOK
    <3>2. WholeRuns' = WholeRuns
      BY <3>1 DEF WholeRuns
    <3>3. QED
      BY <2>1, <3>1, <3>2, EndBacked
  <2>5. ASSUME NEW r \in Runs, Cancel(r) PROVE Rest'
    BY <2>5, EndBacked DEF Cancel, disk, request, progress, WholeRuns
  <2>6. CASE Restart
    <3>1. /\ UNCHANGED <<rid, mode, run, record, history, latest>>
          /\ \A i \in Jobs : pc'[i] = IF pc[i] \in Live THEN "done" ELSE pc[i]
      BY <2>6 DEF Restart, disk, request
    <3>2. WholeRuns' = WholeRuns
      BY <3>1 DEF WholeRuns
    <3>3. QED
      BY <2>1, <3>1, <3>2, EndBacked
  <2>7. CASE UNCHANGED vars
    BY <2>7, EndBacked DEF vars, disk, request, progress, WholeRuns
  <2>8. QED
    BY <2>2, <2>3, <2>4, <2>5, <2>6, <2>7 DEF Next
<1>3. Spec => []StatusInv
  BY RunJsonFollows
<1>4. QED
  BY <1>1, <1>2, <1>3, SplitInvariant, PTL DEF Spec, BackedInv

\* The last checkpoint of a full run only counts nodes whose record says completed, and
\* its run.json says completed only when every record does, through every failure,
\* retry, cancel, crash and resume (execution.py:1880-1908, 2124-2156, 2259-2269).
THEOREM RecordsBackTheRun ==
    ASSUME Overlap # "any", ResumeFrom = "latest"
    PROVE  Spec => [](LatestCheckpointBacked /\ CompletedRunIsWhole)
<1>1. BackedInv => LatestCheckpointBacked /\ CompletedRunIsWhole
  BY DEF BackedInv, RecordsBack, Counted, LatestCheckpointBacked, CompletedRunIsWhole
<1>2. Spec => []BackedInv
  BY BackedInvariant
<1>3. QED
  BY <1>1, <1>2, PTL

\* In particular a full run whose run.json says completed has computed every node of the
\* graph, in whichever of its jobs (execution.py:2259-2269).
THEOREM CompletedRunsAreWhole ==
    ASSUME Overlap # "any", ResumeFrom = "latest"
    PROVE  Spec => []CompletedRunIsWhole
<1>1. QED
  BY RecordsBackTheRun, PTL

-----------------------------------------------------------------------------
(* The refinement, step by step.                                            *)

\* What the abstract state is, and what a step that touches one run makes of it.
LEMMA AbstractState ==
    /\ PublicStatus = [r \in Runs |-> IF r \in WholeRuns THEN run[r] ELSE "none"]
    /\ Computed = [r \in Runs |-> IF r \in WholeRuns THEN Counted(r) ELSE {}]
BY DEF PublicStatus, Computed, Counted

LEMMA StepOfOneRun ==
    ASSUME WholeRuns' = WholeRuns, NEW r \in WholeRuns,
           \A q \in Runs : q # r => run'[q] = run[q] /\ latest'[q] = latest[q]
    PROVE  /\ PublicStatus' = [PublicStatus EXCEPT ![r] = run'[r]]
           /\ Computed' = [Computed EXCEPT ![r] = Counted(r)']
<1>1. /\ PublicStatus' = [q \in Runs |-> IF q \in WholeRuns THEN run'[q] ELSE "none"]
      /\ Computed' = [q \in Runs |-> IF q \in WholeRuns THEN Counted(q)' ELSE {}]
  BY DEF PublicStatus, Computed, Counted
<1>2. \A q \in Runs : q # r => Counted(q)' = Counted(q)
  BY DEF Counted
<1>3. QED
  BY <1>1, <1>2, AbstractState

\* Opening a run, or nothing if the run is partial (execution.py:1601-1617).
LEMMA BeginImplements ==
    ASSUME BackedInv, Overlap # "any", NEW j \in Jobs, NEW m \in Modes \ {"none"},
           NEW named, NEW selected, NEW inherited,
           Begin(j, m, named, selected, inherited),
           m # "resume" => Fresh(rid[j]),
           m \in {"full", "resume"} => selected = Nodes /\ inherited = {}
    PROVE  Contract!Next \/ UNCHANGED Contract!vars
<1>1. /\ WholeRuns' \subseteq WholeRuns \cup {rid[j]}
      /\ WholeRuns \subseteq WholeRuns'
      /\ rid[j] \in WholeRuns' \ WholeRuns => Counted(rid[j]) = {}
  BY BeginBacked
<1>2. /\ run' = [run EXCEPT ![rid[j]] = "running"] /\ latest' = latest
      /\ rid[j] \in Runs /\ run \in [Runs -> RunStatus]
  BY DEF Begin, WriteRun, BackedInv, SplitInv, TypeOK
<1>3. /\ PublicStatus' = [q \in Runs |-> IF q \in WholeRuns' THEN run'[q] ELSE "none"]
      /\ Computed' = [q \in Runs |-> IF q \in WholeRuns' THEN Counted(q) ELSE {}]
  BY <1>2 DEF PublicStatus, Computed, Counted
<1>4. Computed' = Computed
  BY <1>1, <1>3, AbstractState
<1>5. CASE rid[j] \in WholeRuns'
  <2>1. PublicStatus' = [PublicStatus EXCEPT ![rid[j]] = "running"]
    BY <1>1, <1>2, <1>3, <1>5, AbstractState
  <2>2. Contract!Open(rid[j])
    BY <1>4, <2>1 DEF Contract!Open
  <2>3. QED
    BY <1>2, <2>2 DEF Contract!Next
<1>6. CASE rid[j] \notin WholeRuns'
  <2>1. PublicStatus' = PublicStatus
    BY <1>1, <1>2, <1>3, <1>6, AbstractState
  <2>2. QED
    BY <1>4, <2>1 DEF Contract!vars
<1>7. QED
  BY <1>5, <1>6

\* Computing a node, giving up, completing, or nothing a reader of the directory sees
\* (execution.py:1618-1668, 1880-2182, 2198-2281).
LEMMA AdvanceImplements ==
    ASSUME BackedInv, ResumeFrom = "latest", NEW j \in Jobs, Advance(j),
           NEW r \in Runs, r = rid[j]
    PROVE  Contract!Next \/ UNCHANGED Contract!vars
<1>1. TypeOK /\ StatusFits(j)
  BY DEF BackedInv, SplitInv, StatusInv, RunJsonFits
<1>2. OnlyJob(j) /\ pc[j] \in Live
  BY <1>1, AdvanceOnlyJob
<1>3. WholeRuns' = WholeRuns
  BY <1>1, <1>2 DEF OnlyJob, request, WholeRuns, TypeOK
<1>4. \A q \in Runs : q # r => run'[q] = run[q] /\ latest'[q] = latest[q]
  BY <1>1, OtherRunsAreKept
<1>5. CASE r \notin WholeRuns
  <2>1. \A q \in WholeRuns : run'[q] = run[q] /\ latest'[q] = latest[q]
    BY <1>4, <1>5 DEF WholeRuns
  <2>2. PublicStatus' = PublicStatus /\ Computed' = Computed
    BY <1>3, <2>1 DEF PublicStatus, Computed
  <2>3. QED
    BY <2>2 DEF Contract!vars
<1>6. CASE r \in WholeRuns
  <2> USE DEF Move, Goto, disk
  <2>1. /\ PublicStatus' = [PublicStatus EXCEPT ![r] = run'[r]]
        /\ Computed' = [Computed EXCEPT ![r] = Counted(r)']
    BY <1>3, <1>4, <1>6, StepOfOneRun
  <2>2. /\ PublicStatus[r] = run[r] /\ Computed[r] = Counted(r)
        /\ PublicStatus \in [Runs -> RunStatus] /\ Computed = [Computed EXCEPT ![r] = Counted(r)]
        /\ PublicStatus = [PublicStatus EXCEPT ![r] = run[r]]
    BY <1>1, <1>3, <1>6, AbstractState DEF TypeOK, RunStatus
  <2>3. JobSplit(j) /\ JobBacked(j)
    BY <1>6 DEF BackedInv, SplitInv, JobsSplitGraph
  <2>4. CASE run'[r] = run[r] /\ Counted(r)' = Counted(r)
    BY <2>1, <2>2, <2>4 DEF Contract!vars
  <2>5. CASE run[r] = "running" /\ run'[r] \in {"failed", "cancelled"}
             /\ Counted(r)' = Counted(r)
    <3>1. Contract!GiveUp(r)
      BY <2>1, <2>2, <2>5 DEF Contract!GiveUp
    <3>2. QED
      BY <1>3, <3>1 DEF Contract!Next
  <2>6. CASE AfterNode(j)
    <3>1. PICK n \in Nodes : /\ IsNext(j, n)
                             /\ WriteCheckpoint(j, "after_node", n, outs[j], todo[j] \ {n})
      BY <2>6 DEF AfterNode, PendingAfter
    <3>2. pc[j] = "ran" /\ run' = run /\ run[r] = "running"
      BY <1>1, <2>6 DEF AfterNode, StatusFits, Working
    <3>3. \A x \in Nodes : IsNext(j, x) => x = n
      BY <3>1, NextUnique
    <3>4. outs[j] = Counted(r) \cup {n} /\ n \notin Counted(r)
      BY <2>3, <3>2, <3>3 DEF JobBacked
    <3>5. Counted(r)' = outs[j]
      BY <1>1, <3>1, CountedByCheckpoint DEF Counted
    <3>6. outs[j] \cup todo[j] = Nodes
      BY <2>3, <3>2 DEF JobSplit, Live, Protected
    <3>7. Deps[n] \subseteq Counted(r)
      <4> SUFFICES ASSUME NEW d \in Deps[n] PROVE d \in Counted(r)
        OBVIOUS
      <4>1. d \in Nodes /\ Rank[d] < Rank[n] /\ Rank[d] \in Nat /\ Rank[n] \in Nat
        BY GraphAssumption, RankAssumption
      <4>2. d \notin todo[j] /\ d # n
        BY <3>1, <4>1 DEF IsNext
      <4>3. QED
        BY <3>4, <3>6, <4>1, <4>2
    <3>8. Contract!Compute(r, n)
      BY <2>1, <2>2, <3>2, <3>4, <3>5, <3>7 DEF Contract!Compute
    <3>9. QED
      BY <1>3, <3>8 DEF Contract!Next
  <2>7. CASE FinalVerification(j) /\ run'[r] = "completed"
    <3>1. outs[j] = Nodes /\ outs[j] = Counted(r) /\ run[r] = "running"
      BY <1>1, <2>3, <2>7
         DEF FinalVerification, JobSplit, JobBacked, StatusFits, Working, Live, Protected
    <3>2. Counted(r)' = Counted(r)
      BY <2>7 DEF FinalVerification, Counted
    <3>3. Contract!Complete(r)
      BY <2>1, <2>2, <2>7, <3>1, <3>2 DEF Contract!Complete
    <3>4. QED
      BY <1>3, <3>3 DEF Contract!Next
  <2>8. CASE CheckpointMissing(j) \/ BlockOnScript(j) \/ RefuseDisabledTool(j)
             \/ RefusePermission(j) \/ ObserveCancel(j) \/ MarkFailed(j)
             \/ (FinalVerification(j) /\ run'[r] # "completed")
    <3>1. run[r] = "running" /\ latest' = latest
      BY <1>1, <2>8
         DEF CheckpointMissing, BlockOnScript, ReadyForNodes, RefuseDisabledTool,
             RefusePermission, ObserveCancel, MarkFailed, FinalVerification, StatusFits, Working
    <3>2. run'[r] \in {"failed", "cancelled"}
      BY <1>1, <1>3, <2>8
         DEF CheckpointMissing, BlockOnScript, RefuseDisabledTool, RefusePermission,
             ObserveCancel, MarkFailed, FinalVerification, WriteRun, TypeOK
    <3>3. QED
      BY <2>5, <3>1, <3>2 DEF Counted
  <2>9. CASE BeforeNode(j) \/ RetryNode(j) \/ FailedCheckpoint(j)
    <3>1. PICK kind \in {"before_node", "retrying", "failed"}, n \in Nodes :
            /\ WriteCheckpoint(j, kind, n, outs[j], todo[j])
            /\ run' = run
            /\ pc[j] \in {"next", "retry", "running", "failing"}
      BY <2>9 DEF BeforeNode, MayBegin, RetryNode, FailedCheckpoint
    <3>2. Counted(r)' = outs[j]
      BY <1>1, <3>1, CountedByCheckpoint DEF Counted
    <3>3. outs[j] = Counted(r)
      BY <2>3, <3>1 DEF JobBacked, Live, Protected
    <3>4. QED
      BY <2>4, <3>1, <3>2, <3>3
  <2>10. CASE run' = run /\ latest' = latest
    BY <2>4, <2>10 DEF Counted
  <2>11. QED
    BY <2>6, <2>7, <2>8, <2>9, <2>10
       DEF Advance, LoadCheckpoint, EnterLoop, MarkRunning, Succeed, FailNode,
           DeliverCompleted, ReportMissing, ReportCompleted, ReportCancelled,
           ReportFailedNode, ReportFailedRun
<1>7. QED
  BY <1>5, <1>6

\* A full run, resumed from its latest checkpoint and by one job at a time, is a run of
\* RunContract to whoever reads its directory: its status and its computed nodes change
\* as the contract says, through every cancel, failure, crash and restart
\* (execution.py:1601-1668, 1880-2182, 2259-2281; run_journal.py:63-79).
THEOREM RunsKeepTheContract ==
    ASSUME Overlap # "any", ResumeFrom = "latest"
    PROVE  Spec => ImplementsContract
<1>1. Init => Contract!Init
  BY DEF Init, Contract!Init, PublicStatus, Computed, WholeRuns
<1>2. BackedInv /\ [Next]_vars => [Contract!Next]_Contract!vars
  <2> SUFFICES ASSUME BackedInv, [Next]_vars
               PROVE  Contract!Next \/ UNCHANGED Contract!vars
    OBVIOUS
  <2>1. UNCHANGED <<rid, mode, run, latest>> => UNCHANGED Contract!vars
    BY DEF Contract!vars, PublicStatus, Computed, WholeRuns
  <2>2. ASSUME NEW j \in Jobs, Start(j) PROVE Contract!Next \/ UNCHANGED Contract!vars
    <3>1. CASE Reject(j)
      BY <2>1, <3>1 DEF Reject, disk, request
    <3>2. CASE StartFull(j)
      BY <3>2, BeginImplements DEF StartFull, Modes
    <3>3. CASE StartResume(j)
      BY <3>3, BeginImplements DEF StartResume, Modes
    <3>4. CASE StartFromNode(j)
      <4>1. PICK named, selected, inherited :
              Begin(j, "from_node", named, selected, inherited)
        BY <3>4 DEF StartFromNode
      <4>2. Fresh(rid[j]) /\ "from_node" \in Modes \ {"none"}
        BY <3>4 DEF StartFromNode, Modes
      <4>3. QED
        BY <4>1, <4>2, BeginImplements
    <3>5. CASE StartFailedOnly(j)
      <4>1. PICK named, selected, inherited :
              Begin(j, "failed_only", named, selected, inherited)
        BY <3>5 DEF StartFailedOnly
      <4>2. Fresh(rid[j]) /\ "failed_only" \in Modes \ {"none"}
        BY <3>5 DEF StartFailedOnly, Modes
      <4>3. QED
        BY <4>1, <4>2, BeginImplements
    <3>6. QED
      BY <2>2, <3>1, <3>2, <3>3, <3>4, <3>5 DEF Start
  <2>3. ASSUME NEW j \in Jobs, Advance(j) PROVE Contract!Next \/ UNCHANGED Contract!vars
    <3>1. rid[j] \in Runs
      BY DEF BackedInv, SplitInv, TypeOK
    <3>2. QED
      BY <2>3, <3>1, AdvanceImplements
  <2>4. ASSUME NEW j \in Jobs, Abort(j) PROVE UNCHANGED Contract!vars
    BY <2>1, <2>4 DEF Abort, disk, request
  <2>5. ASSUME NEW r \in Runs, Cancel(r) PROVE UNCHANGED Contract!vars
    BY <2>1, <2>5 DEF Cancel, disk, request
  <2>6. CASE Restart
    BY <2>1, <2>6 DEF Restart, disk, request
  <2>7. CASE UNCHANGED vars
    BY <2>1, <2>7 DEF vars, disk, request
  <2>8. QED
    BY <2>2, <2>3, <2>4, <2>5, <2>6, <2>7 DEF Next
<1>3. Spec => []BackedInv
  BY BackedInvariant
<1>4. QED
  BY <1>1, <1>2, <1>3, PTL DEF Spec, ImplementsContract, Contract!Spec

-----------------------------------------------------------------------------
(* Partial runs.  What a job is about is still to run or has a record of its *)
(* run.                                                                      *)

Reruns(j) ==
    /\ mode[j] = "resume" => target[j] = {}
    /\ pc[j] \in Live \ {"missing", "fail_permission"} =>
        \A n \in target[j] : \A m \in {n} \cup Downstream(n) :
            m \in todo[j] \/ record[rid[j]][m] = "completed"
    /\ pc[j] \in {"ran", "after_node"} =>
        \A n \in Nodes : IsNext(j, n) => record[rid[j]][n] = "completed"
    /\ pc[j] = "memory" => todo[j] = {}

RerunInv == StatusInv /\ \A j \in Jobs : Reruns(j)

\* A step of a job takes a node off its list only with a record that says completed,
\* and only overwrites records of nodes that are on the list
\* (execution.py:1858-1925, 2065-2182).
LEMMA AdvanceReruns ==
    ASSUME TypeOK, NEW j \in Jobs, Reruns(j), Advance(j)
    PROVE  Reruns(j)'
<1>1. /\ pc \in [Jobs -> Live \cup {"idle", "done"}] /\ rid \in [Jobs -> Runs]
      /\ todo \in [Jobs -> SUBSET Nodes] /\ target \in [Jobs -> SUBSET Nodes]
      /\ record \in [Runs -> [Nodes -> RecordStatus]]
      /\ rid' = rid /\ mode' = mode /\ target' = target
      /\ pc[j] \in Live
  BY AdvanceOnlyJob DEF TypeOK, OnlyJob, request
<1>2. \A n : Downstream(n) \subseteq Nodes
  BY DEF Downstream
<1> USE DEF Move, Goto, disk, progress
<1>3. CASE LoadCheckpoint(j)
  BY <1>1, <1>3 DEF LoadCheckpoint, Reruns
<1>4. CASE CheckpointMissing(j) \/ BlockOnScript(j)
  BY <1>1, <1>4 DEF CheckpointMissing, BlockOnScript, Reruns
<1>5. CASE EnterLoop(j) \/ ObserveCancel(j) \/ BeforeNode(j) \/ RetryNode(j)
           \/ FailedCheckpoint(j) \/ MarkFailed(j) \/ FinalVerification(j)
  <2>1. /\ UNCHANGED <<record, todo>>
        /\ pc[j] \in Live \ {"missing", "fail_permission"}
        /\ pc'[j] \notin {"ran", "after_node"}
        /\ pc'[j] = "memory" => todo[j] = {}
    BY <1>1, <1>5 DEF EnterLoop, ReadyForNodes, ObserveCancel, BeforeNode, MayBegin,
       RetryNode, FailedCheckpoint, MarkFailed, FinalVerification, Live, Protected,
       Unprotected
  <2>2. QED
    BY <1>1, <2>1 DEF Reruns
<1>6. CASE RefuseDisabledTool(j) \/ RefusePermission(j) \/ MarkRunning(j) \/ FailNode(j)
  <2>1. PICK n \in todo[j], status \in RecordStatus :
          /\ WriteNode(j, n, status)
          /\ todo' = todo
          /\ pc[j] \in Live \ {"missing", "fail_permission"}
          /\ pc'[j] \notin {"ran", "after_node", "memory"}
    <3> USE <1>1 DEF IsNext, RecordStatus, Live, Protected, Unprotected
    <3>1. CASE RefuseDisabledTool(j) \/ RefusePermission(j)
      BY <3>1 DEF RefuseDisabledTool, RefusePermission
    <3>2. CASE MarkRunning(j) \/ FailNode(j)
      BY <3>2 DEF MarkRunning, FailNode
    <3>3. QED
      BY <1>6, <3>1, <3>2
  <2>2. \A m \in Nodes : m # n => record'[rid[j]][m] = record[rid[j]][m]
    BY <1>1, <2>1 DEF WriteNode
  <2>3. target[j] \subseteq Nodes
    BY <1>1
  <2>4. QED
    BY <1>1, <1>2, <2>1, <2>2, <2>3 DEF Reruns
<1>7. CASE Succeed(j)
  <2>1. PICK n \in Nodes : IsNext(j, n) /\ WriteNode(j, n, "completed")
    BY <1>7 DEF Succeed
  <2>2. pc[j] = "running" /\ pc'[j] = "ran" /\ todo' = todo
    BY <1>1, <1>7 DEF Succeed
  <2>3. /\ record'[rid[j]][n] = "completed"
        /\ \A m \in Nodes : m # n => record'[rid[j]][m] = record[rid[j]][m]
    BY <1>1, <2>1 DEF WriteNode
  <2>4. \A m \in Nodes : IsNext(j, m)' => m = n
    <3>1. \A m \in Nodes : IsNext(j, m)' <=> IsNext(j, m)
      BY <2>2 DEF IsNext
    <3>2. QED
      BY <2>1, <3>1, NextUnique
  <2>5. target[j] \subseteq Nodes
    BY <1>1
  <2>6. QED
    BY <1>1, <1>2, <2>2, <2>3, <2>4, <2>5 DEF Reruns, Live, Protected
<1>8. CASE AfterNode(j)
  <2>1. pc[j] = "ran" /\ pc'[j] = "after_node" /\ todo' = todo /\ record' = record
    BY <1>1, <1>8 DEF AfterNode
  <2>2. QED
    BY <1>1, <2>1 DEF Reruns, IsNext, Live, Protected
<1>9. CASE DeliverCompleted(j)
  <2>1. PICK n \in Nodes : IsNext(j, n) /\ todo' = [todo EXCEPT ![j] = @ \ {n}]
    BY <1>9 DEF DeliverCompleted
  <2>2. pc[j] = "after_node" /\ pc'[j] = "next" /\ record' = record
        /\ todo'[j] = todo[j] \ {n}
    BY <1>1, <1>9, <2>1 DEF DeliverCompleted
  <2>3. QED
    BY <1>1, <2>1, <2>2 DEF Reruns, Live, Protected
<1>10. CASE ReportMissing(j) \/ ReportCompleted(j) \/ ReportCancelled(j)
            \/ ReportFailedNode(j) \/ ReportFailedRun(j)
  <2>1. pc'[j] = "done"
    BY <1>1, <1>10 DEF ReportMissing, ReportCompleted, ReportCancelled,
                 ReportFailedNode, ReportFailedRun, Finish
  <2>2. QED
    BY <1>1, <2>1 DEF Reruns, Live, Protected, Unprotected
<1>11. QED
  BY <1>3, <1>4, <1>5, <1>6, <1>7, <1>8, <1>9, <1>10 DEF Advance

\* What a mode is about is among the nodes it selects (execution.py:2888-2910,
\* 3015-3032, 3055-3075).
LEMMA StartSelects ==
    ASSUME NEW j \in Jobs, Start(j), ~Reject(j)
    PROVE  \E m, named, selected, inherited :
             /\ m \in Modes /\ named \in SUBSET Nodes
             /\ Begin(j, m, named, selected, inherited)
             /\ m = "resume" => named = {}
             /\ \A n \in named : {n} \cup Downstream(n) \subseteq selected
<1> USE DEF Modes
<1>1. CASE StartFull(j)
  BY <1>1 DEF StartFull
<1>2. CASE StartResume(j)
  BY <1>2 DEF StartResume
<1>3. CASE StartFromNode(j)
  <2>a. PICK n \in Nodes : \E selected, inherited :
          /\ Begin(j, "from_node", {n}, selected, inherited)
          /\ Affected({n}) \subseteq selected
    BY <1>3 DEF StartFromNode
  <2>1. PICK selected, inherited :
          /\ Begin(j, "from_node", {n}, selected, inherited)
          /\ Affected({n}) \subseteq selected
    BY <2>a
  <2>2. {n} \cup Downstream(n) \subseteq selected
    BY <2>1 DEF Affected
  <2>3. \A x \in {n} : {x} \cup Downstream(x) \subseteq selected
    BY <2>2
  <2>4. "from_node" \in Modes /\ {n} \in SUBSET Nodes
    OBVIOUS
  <2>5. QED
    BY <2>1, <2>3, <2>4
<1>4. CASE StartFailedOnly(j)
  <2>1. PICK r, inherited :
          r \in Runs /\ Begin(j, "failed_only", FailedRecords(r), Affected(FailedRecords(r)), inherited)
    BY <1>4 DEF StartFailedOnly
  <2>2. \A n \in FailedRecords(r) :
          {n} \cup Downstream(n) \subseteq Affected(FailedRecords(r))
    BY DEF Affected
  <2>3. "failed_only" \in Modes /\ FailedRecords(r) \in SUBSET Nodes
    BY DEF FailedRecords
  <2>4. QED
    BY <2>1, <2>2, <2>3
<1>5. QED
  BY <1>1, <1>2, <1>3, <1>4 DEF Start

\* Every node a job is about, and everything below it, is still on its list or has a
\* record of this run (execution.py:2888-2910, 3015-3032).
LEMMA RerunInvariant ==
    ASSUME Overlap # "any", SkipStatuses = {}
    PROVE  Spec => []RerunInv
<1> DEFINE All == \A j \in Jobs : Reruns(j)
<1>1. Init => All
  BY DEF Init, Reruns, Live, Protected, Unprotected
<1>2. RerunInv /\ [Next]_vars => All'
  <2> SUFFICES ASSUME RerunInv, [Next]_vars, NEW i \in Jobs PROVE Reruns(i)'
    OBVIOUS
  <2>1. /\ TypeOK /\ OneLiveJobPerRun /\ Reruns(i)
        /\ pc \in [Jobs -> Live \cup {"idle", "done"}] /\ rid \in [Jobs -> Runs]
        /\ todo \in [Jobs -> SUBSET Nodes] /\ target \in [Jobs -> SUBSET Nodes]
        /\ mode \in [Jobs -> Modes]
    BY DEF RerunInv, StatusInv, TypeOK
  <2>2. ASSUME mode'[i] = mode[i], target'[i] = target[i], pc'[i] = "done" \/ pc'[i] = "idle"
        PROVE  Reruns(i)'
    BY <2>1, <2>2 DEF Reruns, Live, Protected, Unprotected
  <2>3. ASSUME mode'[i] = mode[i], target'[i] = target[i], pc'[i] = pc[i], rid' = rid,
               todo'[i] = todo[i], pc[i] \in Live => record'[rid[i]] = record[rid[i]]
        PROVE  Reruns(i)'
    BY <2>1, <2>3 DEF Reruns, IsNext, Live, Protected, Unprotected
  <2>4. ASSUME NEW j \in Jobs, Reject(j) PROVE Reruns(i)'
    BY <2>1, <2>2, <2>3, <2>4 DEF Reject, Move, Goto, disk, request, progress
  <2>5. ASSUME NEW j \in Jobs, Start(j), ~Reject(j) PROVE Reruns(i)'
    <3>1. PICK m, named, selected, inherited :
            /\ m \in Modes /\ named \in SUBSET Nodes
            /\ Begin(j, m, named, selected, inherited)
            /\ m = "resume" => named = {}
            /\ \A n \in named : {n} \cup Downstream(n) \subseteq selected
      BY <2>5, StartSelects
    <3>2. /\ pc' = [pc EXCEPT ![j] = "started"]
          /\ mode' = [mode EXCEPT ![j] = m]
          /\ target' = [target EXCEPT ![j] = named]
          /\ UNCHANGED <<record, rid>>
      BY <3>1 DEF Begin, Move, Goto
    <3>3. todo'[j] = selected /\ \A k \in Jobs : k # j => todo'[k] = todo[k]
      <4>1. PICK g : todo' = [todo EXCEPT ![j] =
                {n \in selected : g[n] = "script" \/ view[n] \notin SkipStatuses}]
        BY <3>1 DEF Begin
      <4>2. QED
        BY <2>1, <4>1
    <3>4. CASE i = j
      BY <2>1, <3>1, <3>2, <3>3, <3>4 DEF Reruns, Live, Protected, Unprotected
    <3>5. CASE i # j
      BY <2>1, <2>3, <3>2, <3>3, <3>5
    <3>6. QED
      BY <3>4, <3>5
  <2>6. ASSUME NEW j \in Jobs, Advance(j) PROVE Reruns(i)'
    <3>1. OnlyJob(j) /\ pc[j] \in Live
      BY <2>1, <2>6, AdvanceOnlyJob
    <3>2. CASE i = j
      BY <2>1, <2>6, <3>2, AdvanceReruns
    <3>3. CASE i # j
      <4>1. pc[i] \in Live => rid[i] # rid[j]
        BY <2>1, <3>1, <3>3 DEF OneLiveJobPerRun
      <4>2. pc[i] \in Live => record'[rid[i]] = record[rid[i]]
        BY <2>1, <2>6, <4>1, OtherRunsAreKept
      <4>3. QED
        BY <2>1, <2>3, <3>1, <3>3, <4>2 DEF OnlyJob, request
    <3>4. QED
      BY <3>2, <3>3
  <2>7. ASSUME NEW j \in Jobs, Abort(j) PROVE Reruns(i)'
    <3>1. CASE i = j
      BY <2>1, <2>2, <2>7, <3>1 DEF Abort, Goto, request
    <3>2. CASE i # j
      BY <2>1, <2>3, <2>7, <3>2 DEF Abort, Goto, Discard, disk, request
    <3>3. QED
      BY <3>1, <3>2
  <2>8. ASSUME NEW r \in Runs, Cancel(r) PROVE Reruns(i)'
    BY <2>3, <2>8 DEF Cancel, disk, request, progress
  <2>9. CASE Restart
    BY <2>1, <2>2, <2>9 DEF Restart, request, Live, Protected, Unprotected
  <2>10. CASE UNCHANGED vars
    BY <2>3, <2>10 DEF vars, disk, request, progress
  <2>11. QED
    BY <2>4, <2>5, <2>6, <2>7, <2>8, <2>9, <2>10 DEF Next
<1>3. Spec => []StatusInv
  BY RunJsonFollows
<1>4. QED
  BY <1>1, <1>2, <1>3, PTL DEF Spec, RerunInv

\* A partial run that completes has a fresh record of every node it is about and of
\* everything below it, for every graph, as long as the executor drops no node for the
\* status the client sends with it (execution.py:2888-2910, 3015-3032).
THEOREM PartialRunsRerun ==
    ASSUME Overlap # "any", SkipStatuses = {}
    PROVE  Spec => PartialRunReruns
<1> DEFINE FreshRecords == \A j \in Jobs : sent[j] # "completed" /\ sent'[j] = "completed" =>
                       \A n \in target[j] : \A m \in {n} \cup Downstream(n) :
                           record[rid[j]][m] = "completed"
<1>1. RerunInv /\ [Next]_vars => [FreshRecords]_vars
  <2> SUFFICES ASSUME RerunInv, Next, NEW j \in Jobs,
                      sent[j] # "completed", sent'[j] = "completed",
                      NEW n \in target[j], NEW m \in {n} \cup Downstream(n)
               PROVE  record[rid[j]][m] = "completed"
    BY DEF vars
  <2>1. TypeOK /\ Reruns(j) /\ sent \in [Jobs -> Verdicts]
    BY DEF RerunInv, StatusInv, TypeOK
  <2>2. ~\E i \in Jobs : Start(i) \/ Abort(i)
    <3> SUFFICES ASSUME NEW i \in Jobs, Start(i) \/ Abort(i) PROVE sent' = sent
      OBVIOUS
    <3>1. CASE Start(i)
      BY <3>1 DEF Start, Reject, StartFull, StartFromNode, StartFailedOnly, StartResume,
                  Begin
    <3>2. CASE Abort(i)
      BY <3>2 DEF Abort
    <3>3. QED
      BY <3>1, <3>2
  <2>3. (~\E r \in Runs : Cancel(r)) /\ ~Restart
    BY DEF Cancel, Restart
  <2>4. PICK i \in Jobs : Advance(i)
    BY <2>2, <2>3 DEF Next
  <2>5. i = j
    <3>1. sent' = sent \/ \E v \in Verdicts : sent' = [sent EXCEPT ![i] = v]
      BY <2>1, <2>4, AdvanceToken
    <3>2. QED
      BY <2>1, <3>1
  <2>6. ReportCompleted(j)
    BY <2>1, <2>4, <2>5
       DEF Advance, progress, LoadCheckpoint, CheckpointMissing, BlockOnScript,
           EnterLoop, RefuseDisabledTool, RefusePermission, ObserveCancel, BeforeNode,
           MarkRunning, Succeed, RetryNode, FailNode, FailedCheckpoint, MarkFailed,
           AfterNode, DeliverCompleted, FinalVerification, ReportMissing, ReportCancelled,
           ReportFailedNode, ReportFailedRun, Finish
  <2>7. pc[j] = "memory"
    BY <2>6 DEF ReportCompleted, Finish, Move
  <2>8. QED
    BY <2>1, <2>7 DEF Reruns, Live, Protected
<1>2. Spec => []RerunInv
  BY RerunInvariant
<1>3. QED
  BY <1>1, <1>2, PTL DEF Spec, PartialRunReruns
=============================================================================
