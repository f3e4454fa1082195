------------------------------ MODULE GraphRun ------------------------------
(***************************************************************************)
(* The node graph executor of the Python sidecar:                          *)
(* execution.run_graph_events with the run registry it is cancelled        *)
(* through (run_registry.RunRegistry), the journal it leaves on disk       *)
(* (run_journal.RunJournal) and the node statuses the desktop keeps for    *)
(* the graph (backendEvents.reduceBackendEvents), which come back to the   *)
(* executor inside the next request.                                       *)
(*                                                                         *)
(* A job is one call of run_graph_events.  It is a Python generator pulled *)
(* by the HTTP response, so between two yields it runs without a reader    *)
(* and at a yield the reader may go away.  A run id names a directory of   *)
(* the journal; a run has one job that starts it and any number of jobs    *)
(* that resume it.                                                         *)
(*                                                                         *)
(* An operator with a fault after its name (Register_Forgotten) is a bug   *)
(* the operator it precedes could have; no action uses it.                 *)
(***************************************************************************)
EXTENDS Naturals

CONSTANTS
    Nodes,          \* the nodes of the graph
    Deps,           \* Deps[n]: node.dependencies
    Edges,          \* graph.edges as pairs <<source, target>>
    Rank,           \* position in the order _topological_nodes returns
    OutputNodes,    \* nodes of nodeType "output"
    DataDependent,  \* DATA_DEPENDENT_NODE_IDS
    Runs,           \* run ids
    Jobs,           \* calls of run_graph_events
    NoJob,          \* no token registered
    SkipStatuses,   \* statuses is_executable_node drops ({} for research graphs)
    GateChoices,    \* what a request's approvals and settings may hold back
    ResumeFrom,     \* "latest" checkpoint only, or "any" the request names
    Overlap         \* which jobs may be alive at once: "none", "runs", "any"

Gates == {"open", "script", "disabled", "denied"}

ASSUME GraphAssumption ==
    /\ Deps \in [Nodes -> SUBSET Nodes]
    /\ Edges \subseteq Nodes \X Nodes
    /\ OutputNodes \subseteq Nodes
    /\ DataDependent \subseteq Nodes

ASSUME RankAssumption ==
    /\ Rank \in [Nodes -> Nat]
    /\ \A m, n \in Nodes : Rank[m] = Rank[n] => m = n
    /\ \A n \in Nodes : \A d \in Deps[n] : Rank[d] < Rank[n]

ASSUME RunAssumption ==
    /\ NoJob \notin Jobs
    /\ ResumeFrom \in {"latest", "any"}
    /\ Overlap \in {"none", "runs", "any"}
    /\ GateChoices \subseteq [Nodes -> Gates]

VARIABLES
    registry,   \* RunRegistry._tokens: the job whose token a run id maps to
    cancelled,  \* jobs whose CancelToken.cancelled is set
    run,        \* run.json: the status of each run
    record,     \* <node_id>.json: the status of each node record of each run
    history,    \* checkpoints.json: the checkpoints of each run
    latest,     \* the last of them
    view,       \* node.status in the desktop's graph
    pc,         \* where each job is
    rid,        \* request.run_id
    mode,       \* request.mode.type
    target,     \* the nodes the mode is about: mode.node_id, the failed nodes
    gate,       \* what the request's approvals and settings hold back
    todo,       \* selected nodes not finished yet, the current one included
    outs,       \* keys of outputs
    retried,    \* nodes whose recovery_counts entry is 1
    sent        \* the terminal event the job has emitted

request == <<rid, mode, target, gate>>
progress == <<todo, outs, retried>>
disk == <<run, record, history, latest>>
vars == <<registry, cancelled, disk, view, pc, request, progress, sent>>

RunStatus == {"none", "running", "completed", "failed", "cancelled"}
RecordStatus ==
    {"none", "running", "completed", "failed", "partial", "needs_permission"}
ViewStatus == {"ready", "running", "completed", "failed", "needs_permission"}
Modes == {"none", "full", "from_node", "failed_only", "resume"}
Verdicts == {"none", "completed", "failed", "cancelled"}

Checkpoints ==
    [kind : {"before_node", "retrying", "after_node", "failed"}, node : Nodes,
     done : SUBSET Nodes, pending : SUBSET Nodes]
NoCheckpoint == [kind |-> "none"]

\* Outside and inside the try block whose finally releases the token.
Unprotected == {"started", "missing", "resumed"}
Protected ==
    {"next", "retry", "before_node", "running", "ran", "after_node", "failing",
     "failed", "fail_node", "fail_permission", "fail_run", "stopping", "memory"}
Live == Unprotected \cup Protected

TypeOK ==
    /\ registry \in [Runs -> Jobs \cup {NoJob}]
    /\ cancelled \subseteq Jobs
    /\ run \in [Runs -> RunStatus]
    /\ record \in [Runs -> [Nodes -> RecordStatus]]
    /\ history \in [Runs -> SUBSET Checkpoints]
    /\ latest \in [Runs -> Checkpoints \cup {NoCheckpoint}]
    /\ view \in [Nodes -> ViewStatus]
    /\ pc \in [Jobs -> Live \cup {"idle", "done"}]
    /\ rid \in [Jobs -> Runs]
    /\ mode \in [Jobs -> Modes]
    /\ target \in [Jobs -> SUBSET Nodes]
    /\ gate \in [Jobs -> [Nodes -> Gates]]
    /\ todo \in [Jobs -> SUBSET Nodes]
    /\ outs \in [Jobs -> SUBSET Nodes]
    /\ retried \in [Jobs -> SUBSET Nodes]
    /\ sent \in [Jobs -> Verdicts]

-----------------------------------------------------------------------------
(* The graph: reachability over edges and dependencies, and the journal of  *)
(* the run a partial run starts from.                                       *)

Follows(m, n) == m \in Deps[n] \/ <<m, n>> \in Edges

\* The least set that holds the successors of n and the successors of its own.
Downstream(n) ==
    {m \in Nodes : \A S \in SUBSET Nodes :
        (\A x \in S \cup {n}, y \in Nodes : Follows(x, y) => y \in S) => m \in S}

Upstream(n) == {m \in Nodes : n \in Downstream(m)}

FailedRecords(r) == {n \in Nodes : record[r][n] \in {"failed", "partial"}}

\* Completed records, and failed ones that kept some values.
SourceOutputs(r) == {n \in Nodes : record[r][n] \in {"completed", "partial"}}

IsNext(j, n) == n \in todo[j] /\ \A m \in todo[j] : Rank[n] <= Rank[m]

\* "none": the desktop's graphRunning flag; "runs": other flows, such as the one
\* the planner executes, have runs of their own; "any": a run is resumed while a
\* job of it whose reader has gone is still executing a node.
MayStart(j) ==
    \A i \in Jobs : pc[i] \in Live =>
        Overlap = "any" \/ (Overlap = "runs" /\ rid[i] # rid[j])

-----------------------------------------------------------------------------
(* Effects the actions share.                                               *)

Goto(j, label) == pc' = [pc EXCEPT ![j] = label]

Move(j, from, to) == pc[j] = from /\ Goto(j, to)

\* RunRegistry.start, which replaces a token that is there.
Register_Forgotten(j) == UNCHANGED <<registry, cancelled>>

Register(j) ==
    /\ registry' = [registry EXCEPT ![rid[j]] = j]
    /\ cancelled' = cancelled \ {j}

\* RunRegistry.finish pops by run id, whichever job registered the token.
Release_Forgotten(j) == UNCHANGED registry

Release(j) == registry' = [registry EXCEPT ![rid[j]] = NoJob]

WriteRun(j, status) == run' = [run EXCEPT ![rid[j]] = status]

WriteNode_Lost(j, n, status) == UNCHANGED record

WriteNode(j, n, status) == record' = [record EXCEPT ![rid[j]][n] = status]

WriteCheckpoint(j, kind, n, done, pending) ==
    LET new == [kind |-> kind, node |-> n, done |-> done, pending |-> pending]
    IN  /\ history' = [history EXCEPT ![rid[j]] = @ \cup {new}]
        /\ latest' = [latest EXCEPT ![rid[j]] = new]

Show(n, status) == view' = [view EXCEPT ![n] = status]

\* The locals of finished generators are gone.
Discard(S) ==
    /\ todo' = [j \in Jobs |-> IF j \in S THEN {} ELSE todo[j]]
    /\ outs' = [j \in Jobs |-> IF j \in S THEN {} ELSE outs[j]]
    /\ retried' = [j \in Jobs |-> IF j \in S THEN {} ELSE retried[j]]

\* A terminal event is yielded and the generator returns through finally.
Finish(j, from, verdict) ==
    /\ Move(j, from, "done")
    /\ sent' = [sent EXCEPT ![j] = verdict]
    /\ Release(j)
    /\ Discard({j})

-----------------------------------------------------------------------------
Init ==
    /\ registry = [r \in Runs |-> NoJob]
    /\ cancelled = {}
    /\ run = [r \in Runs |-> "none"]
    /\ record = [r \in Runs |-> [n \in Nodes |-> "none"]]
    /\ history = [r \in Runs |-> {}]
    /\ latest = [r \in Runs |-> NoCheckpoint]
    /\ view = [n \in Nodes |-> "ready"]
    /\ pc = [j \in Jobs |-> "idle"]
    /\ rid \in [Jobs -> Runs]
    /\ mode = [j \in Jobs |-> "none"]
    /\ target = [j \in Jobs |-> {}]
    /\ gate = [j \in Jobs |-> [n \in Nodes |-> "open"]]
    /\ todo = [j \in Jobs |-> {}]
    /\ outs = [j \in Jobs |-> {}]
    /\ retried = [j \in Jobs |-> {}]
    /\ sent = [j \in Jobs |-> "none"]

-----------------------------------------------------------------------------
(* The start of a job: request, registration, run.json, run.started.        *)

\* A request that fails validation ends before anything is registered.
Reject(j) ==
    /\ Move(j, "idle", "done")
    /\ UNCHANGED <<registry, cancelled, disk, view, request, progress, sent>>

\* The request carries the desktop's node statuses: a planned graph loses the
\* nodes whose status is_executable_node drops, an unapproved script stays
\* because the permission check comes first.
Begin(j, m, named, selected, inherited) ==
    \E g \in GateChoices :
        /\ \A n \in Nodes : g[n] = "script" => view[n] # "completed"
        /\ MayStart(j)
        /\ Move(j, "idle", "started")
        /\ Register(j)
        /\ WriteRun(j, "running")
        /\ mode' = [mode EXCEPT ![j] = m]
        /\ target' = [target EXCEPT ![j] = named]
        /\ gate' = [gate EXCEPT ![j] = g]
        /\ todo' = [todo EXCEPT ![j] =
               {n \in selected : g[n] = "script" \/ view[n] \notin SkipStatuses}]
        /\ outs' = [outs EXCEPT ![j] = inherited]
        /\ UNCHANGED <<record, history, latest, view, rid, retried, sent>>

\* The desktop makes a new run id for every run it starts.
Fresh(r) == \A i \in Jobs : rid[i] = r => pc[i] = "idle"

StartFull(j) ==
    /\ Fresh(rid[j])
    /\ Begin(j, "full", {}, Nodes, {})

\* What has to run again when the nodes of S do.
Affected_BelowOnly(S) == UNION {Downstream(n) : n \in S}

Affected(S) == S \cup UNION {Downstream(n) : n \in S}

\* Without a source run there are no outputs to start from.
StartFromNode(j) ==
    /\ Fresh(rid[j])
    /\ \E n \in Nodes :
        \/ Begin(j, "from_node", {n}, Affected({n}) \cup Upstream(n), {})
        \/ \E r \in Runs \ {rid[j]} :
            /\ run[r] # "none"
            /\ Begin(j, "from_node", {n}, Affected({n}), SourceOutputs(r))

StartFailedOnly(j) ==
    /\ Fresh(rid[j])
    /\ \E r \in Runs \ {rid[j]} :
        /\ run[r] # "none"
        /\ Begin(j, "failed_only", FailedRecords(r), Affected(FailedRecords(r)),
                 SourceOutputs(r))

StartResume(j) ==
    /\ run[rid[j]] # "none"
    /\ Begin(j, "resume", {}, Nodes, {})

Restore_WithoutOutputs(j, c) ==
    /\ todo' = [todo EXCEPT ![j] = @ \cap c.pending]
    /\ UNCHANGED outs

Restore_SkipsItsNode(j, c) ==
    /\ todo' = [todo EXCEPT ![j] = @ \cap (c.pending \ {c.node})]
    /\ outs' = [outs EXCEPT ![j] = @ \cup c.done]

Restore(j, c) ==
    /\ todo' = [todo EXCEPT ![j] = @ \cap c.pending]
    /\ outs' = [outs EXCEPT ![j] = @ \cup c.done]

\* The checkpoint asked for, by id or by label, or the latest one.
LoadCheckpoint(j) ==
    /\ mode[j] = "resume"
    /\ Move(j, "started", "resumed")
    /\ \E c \in history[rid[j]] :
        /\ ResumeFrom = "any" \/ c = latest[rid[j]]
        /\ Restore(j, c)
    /\ UNCHANGED <<registry, cancelled, disk, view, request, retried, sent>>

\* There is no checkpoint, or none with the id asked for.
CheckpointMissing(j) ==
    /\ mode[j] = "resume"
    /\ ResumeFrom = "any" \/ history[rid[j]] = {}
    /\ Move(j, "started", "missing")
    /\ WriteRun(j, "failed")
    /\ UNCHANGED <<registry, cancelled, record, history, latest, view, request,
                   progress, sent>>

ReportMissing(j) ==
    /\ Finish(j, "missing", "failed")
    /\ UNCHANGED <<cancelled, disk, view, request>>
-----------------------------------------------------------------------------
(* The checks before a node.                                                *)

ReadyForNodes(j) == pc[j] = "resumed" \/ (pc[j] = "started" /\ mode[j] # "resume")

BlockOnScript(j) ==
    /\ ReadyForNodes(j)
    /\ \E n \in todo[j] :
        /\ gate[j][n] = "script"
        /\ \A m \in todo[j] : gate[j][m] = "script" => Rank[n] <= Rank[m]
        /\ WriteNode(j, n, "needs_permission")
        /\ WriteRun(j, "failed")
        /\ todo' = [todo EXCEPT ![j] = {n}]
    /\ Goto(j, "fail_permission")
    /\ UNCHANGED <<registry, cancelled, history, latest, view, request, outs,
                   retried, sent>>

EnterLoop(j) ==
    /\ ReadyForNodes(j)
    /\ \A n \in todo[j] : gate[j][n] # "script"
    /\ Goto(j, "next")
    /\ UNCHANGED <<registry, cancelled, disk, view, request, progress, sent>>

RefuseDisabledTool(j) ==
    /\ Move(j, "next", "fail_node")
    /\ \E n \in Nodes :
        /\ IsNext(j, n)
        /\ gate[j][n] = "disabled"
        /\ WriteNode(j, n, "failed")
    /\ WriteRun(j, "failed")
    /\ UNCHANGED <<registry, cancelled, history, latest, view, request, progress,
                   sent>>

RefusePermission(j) ==
    /\ Move(j, "next", "fail_permission")
    /\ \E n \in Nodes :
        /\ IsNext(j, n)
        /\ gate[j][n] = "denied"
        /\ WriteNode(j, n, "needs_permission")
    /\ WriteRun(j, "failed")
    /\ UNCHANGED <<registry, cancelled, history, latest, view, request, progress,
                   sent>>

ObserveCancel(j) ==
    /\ Move(j, "next", "stopping")
    /\ j \in cancelled
    /\ \E n \in Nodes : IsNext(j, n) /\ gate[j][n] = "open"
    /\ WriteRun(j, "cancelled")
    /\ UNCHANGED <<registry, cancelled, record, history, latest, view, request,
                   progress, sent>>

-----------------------------------------------------------------------------
(* One node: checkpoint, execution, retry, failure, completion.             *)

\* The token is looked at once per node, not again before its retry.
MayBegin_Unchecked(j) == pc[j] \in {"next", "retry"}

MayBegin(j) ==
    \/ pc[j] = "next" /\ j \notin cancelled
    \/ pc[j] = "retry"

BeforeNode(j) ==
    /\ MayBegin(j)
    /\ \E n \in Nodes :
        /\ IsNext(j, n)
        /\ gate[j][n] = "open"
        /\ WriteCheckpoint(j, "before_node", n, outs[j], todo[j])
    /\ Goto(j, "before_node")
    /\ UNCHANGED <<registry, cancelled, run, record, view, request, progress, sent>>

MarkRunning(j) ==
    /\ Move(j, "before_node", "running")
    /\ \E n \in Nodes :
        /\ IsNext(j, n)
        /\ WriteNode(j, n, "running")
        /\ Show(n, "running")
    /\ UNCHANGED <<registry, cancelled, run, history, latest, request, progress,
                   sent>>

MissingInput(j, n) == n \in DataDependent /\ ~(Deps[n] \subseteq outs[j])

\* executor.run and verifier.verify return.
Succeed(j) ==
    /\ Move(j, "running", "ran")
    /\ \E n \in Nodes :
        /\ IsNext(j, n)
        /\ ~MissingInput(j, n)
        /\ outs' = [outs EXCEPT ![j] = @ \cup {n}]
        /\ WriteNode(j, n, "completed")
    /\ UNCHANGED <<registry, cancelled, run, history, latest, view, request, todo,
                   retried, sent>>

\* _can_auto_continue: recovery_counts is a local of the call.
MayRetry_Always(j, n) == TRUE

MayRetry(j, n) == n \notin retried[j]

\* The output is empty and the suggestion is retry_node.
RetryNode(j) ==
    /\ Move(j, "running", "retry")
    /\ \E n \in Nodes :
        /\ IsNext(j, n)
        /\ ~MissingInput(j, n)
        /\ MayRetry(j, n)
        /\ retried' = [retried EXCEPT ![j] = @ \cup {n}]
        /\ WriteCheckpoint(j, "retrying", n, outs[j], todo[j])
    /\ UNCHANGED <<registry, cancelled, run, record, view, request, todo, outs, sent>>

FailNode_Swallowed(j) ==
    /\ Move(j, "running", "ran")
    /\ \E n \in Nodes : IsNext(j, n) /\ WriteNode(j, n, "failed")
    /\ UNCHANGED <<registry, cancelled, run, history, latest, view, request,
                   progress, sent>>

FailNode_UnknownStatus(j) ==
    /\ Move(j, "running", "failing")
    /\ \E n \in Nodes : IsNext(j, n) /\ WriteNode(j, n, "error")
    /\ UNCHANGED <<registry, cancelled, run, history, latest, view, request,
                   progress, sent>>

\* Any other error, or an empty output after the retry.  A partial error keeps
\* the values it has in the record, not in outputs.
FailNode(j) ==
    /\ Move(j, "running", "failing")
    /\ \E n \in Nodes, status \in {"failed", "partial"} :
        /\ IsNext(j, n)
        /\ MissingInput(j, n) => status = "failed"
        /\ WriteNode(j, n, status)
    /\ UNCHANGED <<registry, cancelled, run, history, latest, view, request,
                   progress, sent>>

\* After _auto_write_tool_failure_memory.
FailedCheckpoint(j) ==
    /\ Move(j, "failing", "failed")
    /\ \E n \in Nodes :
        /\ IsNext(j, n)
        /\ WriteCheckpoint(j, "failed", n, outs[j], todo[j])
    /\ UNCHANGED <<registry, cancelled, run, record, view, request, progress, sent>>

MarkFailed_NotWritten(j) ==
    /\ Move(j, "failed", "fail_node")
    /\ UNCHANGED <<registry, cancelled, disk, view, request, progress, sent>>

MarkFailed(j) ==
    /\ Move(j, "failed", "fail_node")
    /\ WriteRun(j, "failed")
    /\ UNCHANGED <<registry, cancelled, record, history, latest, view, request,
                   progress, sent>>

\* _pending_node_ids_after
PendingAfter_WithCurrent(j, n) == todo[j]

PendingAfter(j, n) == todo[j] \ {n}

AfterNode(j) ==
    /\ Move(j, "ran", "after_node")
    /\ \E n \in Nodes :
        /\ IsNext(j, n)
        /\ WriteCheckpoint(j, "after_node", n, outs[j], PendingAfter(j, n))
    /\ UNCHANGED <<registry, cancelled, run, record, view, request, progress, sent>>

\* node.completed and node.run_recorded reach the desktop; on to the next node.
DeliverCompleted(j) ==
    /\ Move(j, "after_node", "next")
    /\ \E n \in Nodes :
        /\ IsNext(j, n)
        /\ Show(n, "completed")
        /\ todo' = [todo EXCEPT ![j] = @ \ {n}]
    /\ UNCHANGED <<registry, cancelled, disk, request, outs, retried, sent>>

-----------------------------------------------------------------------------
(* The end of a job.                                                        *)

\* FinalVerifier also looks at artifacts, so it may refuse complete outputs.
FinalVerification(j) ==
    /\ pc[j] = "next"
    /\ todo[j] = {}
    /\ \/ /\ OutputNodes \subseteq outs[j]
          /\ WriteRun(j, "completed")
          /\ Goto(j, "memory")
       \/ /\ WriteRun(j, "failed")
          /\ Goto(j, "fail_run")
    /\ UNCHANGED <<registry, cancelled, record, history, latest, view, request,
                   progress, sent>>

\* After _auto_write_memory_records.
ReportCompleted(j) ==
    /\ Finish(j, "memory", "completed")
    /\ UNCHANGED <<cancelled, disk, view, request>>

ReportCancelled(j) ==
    /\ Finish(j, "stopping", "cancelled")
    /\ UNCHANGED <<cancelled, disk, view, request>>

ReportFailedNode(j) ==
    /\ \/ Finish(j, "fail_node", "failed")
          /\ \E n \in Nodes : IsNext(j, n) /\ Show(n, "failed")
       \/ Finish(j, "fail_permission", "failed")
          /\ \E n \in Nodes : IsNext(j, n) /\ Show(n, "needs_permission")
    /\ UNCHANGED <<cancelled, disk, request>>

ReportFailedRun(j) ==
    /\ Finish(j, "fail_run", "failed")
    /\ UNCHANGED <<cancelled, disk, view, request>>

\* The reader goes away at a yield (GeneratorExit) or a journal or memory write
\* raises: no event follows, and finally runs only inside the try block.
Abort(j) ==
    /\ pc[j] \in Live
    /\ Goto(j, "done")
    /\ IF pc[j] \in Protected THEN Release(j) ELSE UNCHANGED registry
    /\ Discard({j})
    /\ UNCHANGED <<cancelled, disk, view, request, sent>>

-----------------------------------------------------------------------------
(* The others: the stop button and a sidecar restart.                       *)

\* RunRegistry.cancel answers True.
Cancel(r) ==
    /\ registry[r] # NoJob
    /\ cancelled' = cancelled \cup {registry[r]}
    /\ UNCHANGED <<registry, disk, view, pc, request, progress, sent>>

\* The sidecar process dies and is started again: only the journal is left.
Restart ==
    /\ \E j \in Jobs : pc[j] \in Live
    /\ pc' = [j \in Jobs |-> IF pc[j] \in Live THEN "done" ELSE pc[j]]
    /\ registry' = [r \in Runs |-> NoJob]
    /\ cancelled' = {}
    /\ Discard(Jobs)
    /\ UNCHANGED <<disk, view, request, sent>>

Start(j) ==
    \/ Reject(j)
    \/ StartFull(j)
    \/ StartFromNode(j)
    \/ StartFailedOnly(j)
    \/ StartResume(j)

Advance(j) ==
    \/ LoadCheckpoint(j)
    \/ CheckpointMissing(j)
    \/ ReportMissing(j)
    \/ BlockOnScript(j)
    \/ EnterLoop(j)
    \/ RefuseDisabledTool(j)
    \/ RefusePermission(j)
    \/ ObserveCancel(j)
    \/ BeforeNode(j)
    \/ MarkRunning(j)
    \/ Succeed(j)
    \/ RetryNode(j)
    \/ FailNode(j)
    \/ FailedCheckpoint(j)
    \/ MarkFailed(j)
    \/ AfterNode(j)
    \/ DeliverCompleted(j)
    \/ FinalVerification(j)
    \/ ReportCompleted(j)
    \/ ReportCancelled(j)
    \/ ReportFailedNode(j)
    \/ ReportFailedRun(j)

Next ==
    \/ \E j \in Jobs : Start(j) \/ Advance(j) \/ Abort(j)
    \/ \E r \in Runs : Cancel(r)
    \/ Restart

\* The response pulls the generator and every executor call returns (models and
\* tools have timeouts); users start, stop and leave as they like.
Spec == Init /\ [][Next]_vars /\ \A j \in Jobs : WF_vars(Advance(j))

-----------------------------------------------------------------------------
(* What the executor promises.                                              *)

\* Runs started in full mode on a graph that keeps all its nodes.
WholeRuns ==
    {r \in Runs : SkipStatuses = {} /\ \E j \in Jobs : rid[j] = r /\ mode[j] = "full"}

\* A job of such a run that is past its start, and has not given up on a node,
\* has computed or still has to run every node, and none is both but the one it
\* is just recording (execution.py:1652-1657, 1880-1895, 2142-2182).
JobSplit(j) ==
    pc[j] \in Live \ {"missing", "fail_permission"} =>
        IF pc[j] = "started" /\ mode[j] = "resume"
        THEN outs[j] = {} /\ todo[j] = Nodes
        ELSE /\ outs[j] \cup todo[j] = Nodes
             /\ outs[j] \cap todo[j] = IF pc[j] \in {"ran", "after_node"}
                                      THEN {n \in Nodes : IsNext(j, n)}
                                      ELSE {}

JobsSplitGraph == \A j \in Jobs : rid[j] \in WholeRuns => JobSplit(j)

\* Every checkpoint a full run leaves, whatever crashes, cancels, retries and
\* resumes came before it, splits the graph into nodes whose output it holds and
\* nodes still to run: a resume neither loses a node nor runs one twice
\* (execution.py:1652-1657, 1880-1895, 2143-2156).
CheckpointsSplitGraph ==
    \A r \in WholeRuns : \A c \in history[r] :
        /\ c.done \cup c.pending = Nodes
        /\ c.done \cap c.pending = {}

\* A node of a full run, resumed any number of times from any of its
\* checkpoints, is only executed when the outputs of its dependencies are there,
\* although the executor checks that for DATA_DEPENDENT_NODE_IDS only
\* (execution.py:1911-1925, 2528-2544).
DependenciesComputed ==
    \A j \in Jobs : rid[j] \in WholeRuns /\ pc[j] = "running" =>
        \A n \in Nodes : IsNext(j, n) => Deps[n] \subseteq outs[j]

\* The latest checkpoint never claims an output whose node record does not say
\* completed: records are written before the checkpoint that counts them, and a
\* checkpoint that takes a node back is written before its record is overwritten
\* (execution.py:1880-1908, 2124-2156).
LatestCheckpointBacked ==
    \A r \in WholeRuns : latest[r] # NoCheckpoint =>
        \A n \in latest[r].done : record[r][n] = "completed"

\* run.json of a full run says completed only when every node record does, also
\* when several resumed jobs did the work (execution.py:2259-2269).
CompletedRunIsWhole ==
    \A r \in WholeRuns : run[r] = "completed" =>
        \A n \in Nodes : record[r][n] = "completed"

\* The terminal event a job emits is the status run.json has at that moment
\* (execution.py:1865-1878, 2080-2123, 2198-2224, 2259-2279).
VerdictOnDisk ==
    [][\A j \in Jobs : sent'[j] # sent[j] => run'[rid[j]] = sent'[j]]_vars

\* A partial run that completes has run every node it is about and everything
\* downstream of it, so nothing computed from the old outputs is left
\* (execution.py:2888-2910, 3015-3032; test_execution.py:3259
\* test_from_node_reruns_target_and_downstream).
PartialRunReruns ==
    [][\A j \in Jobs : sent[j] # "completed" /\ sent'[j] = "completed" =>
        \A n \in target[j] : \A m \in {n} \cup Downstream(n) :
            record[rid[j]][m] = "completed"]_vars

\* While a job of a run is alive a cancel of the run reaches that very job
\* (run_registry.py:17-37 with run_graph_events' start and finish).
CancelReachesJob ==
    \A j \in Jobs : pc[j] \in Live => registry[rid[j]] = j

\* A job that has told its verdict has no token left to cancel
\* (execution.py:1610-1618, 2280-2281).
NoTokenAfterVerdict ==
    \A j \in Jobs : sent[j] # "none" => registry[rid[j]] # j

\* A cancel acknowledged while a job still has another node to begin keeps the job
\* from ever reporting completion (execution.py:1858-1878).
CancelStopsRemainingNodes ==
    \A j \in Jobs :
        [](/\ j \in cancelled
           /\ pc[j] \in Protected
           /\ \E m, n \in todo[j] : m # n
           => [](sent[j] # "completed"))

\* Every job ends, and one that got into the try block gives its token back
\* whatever happens (execution.py:1668, 2280-2281).
EveryJobEnds == \A j \in Jobs : pc[j] \in Live ~> pc[j] = "done"
TokenReleased == \A j \in Jobs : pc[j] \in Protected ~> registry[rid[j]] # j
=============================================================================
