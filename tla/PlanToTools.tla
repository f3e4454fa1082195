----------------------------- MODULE PlanToTools -----------------------------
(***************************************************************************)
(* From a drafted plan to tool calls: the review of a plan                 *)
(* (deep_agent_planner.py), its graph (deep_agent_graph_compile.py), what  *)
(* a confirmation compiles (agent_plan_compile.py, execution_graph.py),    *)
(* and a run of that graph by the executor the graph's shape selects       *)
(* (execution.py), down to the calls of the tool gateway and of the ReAct  *)
(* loop.  Modes, cancellation and checkpoints of runs are in GraphRun, the *)
(* conversation around a plan is in DeepPlanning.                          *)
(***************************************************************************)
EXTENDS NodeCatalog

CONSTANTS
    Plans,           \* plans a model may draft: sets of steps
    SavedGraphs,     \* graphs of saved projects, run as they are
    Approvals,       \* sets of permissions a client sends with a run
    MaxAttached,     \* attachments of a run
    MaxSearchAttempts,  \* ResearchFlowExecutor.max_search_attempts
    NumQueries,      \* queries of a research question
    MaxBatch,        \* tool calls of one message of a model with native calls
    ResearchNames,   \* node ids that begin with "research-"
    WebNames,        \* _WEB_RESEARCH_NODE_IDS and _WEB_RESEARCH_CAPABILITIES
    UnknownTool,     \* a tool id no provider lists
    NoNode

Step == [id: STRING, caps: SUBSET STRING, prefs: Seq(STRING), deps: Seq(STRING),
         checked: BOOLEAN]
Policy == [on: BOOLEAN, native: BOOLEAN, steps: Nat, calls: Nat, tools: SUBSET ToolIds,
           perms: SUBSET Permissions]
NoReAct == [on |-> FALSE, native |-> FALSE, steps |-> 0, calls |-> 0, tools |-> {},
            perms |-> {}]
NodeKinds == {"fixed_tool", "model", "output", "planning", "temporary_script"}
\* Statuses a planner gives its nodes; those a run leaves behind are in GraphRun.
NodeStatuses == {"waiting", "completed", "needs_permission"}
Node == [kind: NodeKinds, status: NodeStatuses, tool: ToolIds \cup {NoTool, UnknownTool},
         perms: SUBSET Permissions, ports: SUBSET STRING, deps: Seq(STRING), caps: SUBSET STRING,
         checked: BOOLEAN, react: Policy]

SearchNode == "research-parallel-search"
ResearchFlow ==
    {"research-intent-analysis", "research-privacy-guard", "research-query-plan", SearchNode,
     "research-source-review", "research-source-reading", "research-report-synthesis",
     "research-report-quality-check", "research-markdown-output"}

ASSUME PlanAssumption ==
    /\ \A p \in Plans : IsFiniteSet(p) /\ p \subseteq Step /\ \A s \in p : s.id # NoNode
    /\ \A g \in SavedGraphs :
          g \in [DOMAIN g -> Node] /\ IsFiniteSet(DOMAIN g) /\ NoNode \notin DOMAIN g
    /\ Approvals \subseteq SUBSET Permissions
    /\ MaxAttached \in Nat /\ NumQueries \in Nat
    /\ MaxSearchAttempts \in Nat \ {0} /\ MaxBatch \in Nat \ {0}
    /\ UnknownTool \notin ToolIds
    /\ ResearchFlow \subseteq ResearchNames /\ NoNode \notin ResearchNames

VARIABLES
    stage,     \* where the plan, then the run, stands
    cause,     \* why it stopped
    plan,      \* the plan drafted last
    origin,    \* where the graph comes from
    graph,     \* node id -> node
    request,   \* what the run was started with
    outputs,   \* node id -> keys of its output
    node,      \* the node that is running
    work,      \* what its executor has left to do
    retried,   \* recovery_counts: nodes already retried
    recorded,  \* nodes this run has completed, with a record in its journal
    used,      \* tool calls of the run that reached a provider
    found      \* queries of the search node that have results

vars == <<stage, cause, plan, origin, graph, request, outputs, node, work, retried, recorded,
          used, found>>
planVars == <<plan, origin, graph>>
runVars == <<request, outputs, node, work, retried, recorded, used, found>>

NoCause == "none"
NoPlan == [steps |-> {}, web |-> FALSE, missing |-> FALSE]
NoRequest == [approved |-> {}, attached |-> 0, chosen |-> {}]
NoWork == [kind |-> "none", left |-> 0, step |-> 0, calls |-> 0]
DocumentNames == {"document-input", "document-parse", "content-organize",
                  "report-generate", "typst-export", "file-export"}
\* DATA_DEPENDENT_NODE_IDS.
DataDependent ==
    (DocumentNames \ {"document-input"}) \cup (ResearchFlow \ {"research-intent-analysis"})

----------------------------------------------------------------------------
(* A plan.                                                                 *)

IdsOf(p) == {s.id : s \in p}
Elements(seq) == {seq[i] : i \in DOMAIN seq}

\* PlanDraft._validate_plan_graph.
ValidDraft(p) ==
    /\ p # {}
    /\ \A s, t \in p : s.id = t.id => s = t
    /\ \A s \in p : Elements(s.deps) \subseteq IdsOf(p)
    /\ \A part \in SUBSET p : part # {} =>
          \E s \in part : Elements(s.deps) \cap IdsOf(part) = {}

\* The findings of review_plan, on a plan that lacks no information.  A step that names
\* no capability is not resolved here.
Unsupported_OneByOne(p) == \E s \in p : ~(s.caps \subseteq AvailableCapabilities)
Unsupported(p) ==
    \E s \in p : \/ ~(s.caps \subseteq AvailableCapabilities)
                 \/ s.caps # {} /\ Candidates(s.caps) = {}
Unchecked(p) == \E s \in p : ~s.checked
WithoutWebStep(p) ==
    \A s \in p : (Elements(s.prefs) \cup s.caps) \cap WebNames = {}
Findings(p, web) == Unsupported(p) \/ Unchecked(p) \/ (web /\ WithoutWebStep(p))

\* _compile_step_node.
KindOf(i) == CASE Catalog[i].kind = "tool" -> "fixed_tool"
               [] Catalog[i].kind = "model" -> "model"
               [] Catalog[i].kind = "output" -> "output"
               [] OTHER -> "planning"
CompileStep(s) ==
    LET i == Resolve(s.caps, s.prefs)
    IN [kind |-> KindOf(i), status |-> "waiting", tool |-> Catalog[i].tool, perms |-> Catalog[i].perms,
        ports |-> Catalog[i].ports, deps |-> s.deps, caps |-> s.caps,
        checked |-> s.checked, react |-> NoReAct]
GraphOf(p) == [n \in IdsOf(p) |-> CompileStep(CHOOSE s \in p : s.id = n)]

\* What stops compile_confirmed_agent_plan_graph and review_agent_compiled_graph: the
\* metadata every node must have, the tool of every tool node, the dependencies.
NotCompilable(g) ==
    \E n \in DOMAIN g :
        \/ g[n].caps = {}
        \/ ~g[n].checked
        \/ g[n].kind = "fixed_tool" /\ g[n].tool \notin ToolIds
        \/ ~(Elements(g[n].deps) \subseteq DOMAIN g)

----------------------------------------------------------------------------
(* A run of a graph.                                                       *)

IsResearch(g) == DOMAIN g \cap ResearchNames # {}
\* _is_planned_task_graph: planner graphs carry planning nodes and a taskKind.
IsPlanned(g) == \E n \in DOMAIN g : g[n].kind = "planning"
\* _uses_execution_graph_runtime.
HasTool(n) == n.kind = "fixed_tool" /\ n.tool # NoTool
IsBound(g) == ~IsResearch(g) /\ (IsPlanned(g) \/ \E n \in DOMAIN g : HasTool(g[n]))

\* is_executable_node: of a bound graph only these nodes are run.
Executable(g) ==
    IF IsBound(g)
    THEN {n \in DOMAIN g : g[n].kind # "planning" /\ g[n].status = "waiting"}
    ELSE DOMAIN g
Inputs(n) == Elements(graph[n].deps) \cap DOMAIN outputs

\* A node and everything that depends on it (_downstream_node_ids).
From(g, n) ==
    LET below[k \in Nat] ==
            IF k = 0 THEN {n}
            ELSE LET above == below[k - 1]
                 IN above \cup {b \in DOMAIN g : Elements(g[b].deps) \cap above # {}}
    IN DOMAIN g \cap below[Cardinality(DOMAIN g)]

\* _node_output_satisfies_data_type: "artifacts" stands for a list that is not empty, any
\* other key for a value that is not empty.
Satisfies(out, type) ==
    CASE type \in {"artifact", "file"} -> out \cap {"artifacts", "artifact", "source"} # {}
      [] type = "document" -> out \cap {"artifacts", "paths", "path"} # {}
      [] type \in {"text", "markdown"} -> out \cap {"text", "markdown", "report", "summary"} # {}
      [] type = "json" -> out \ {"artifacts"} # {}
      [] OTHER -> out # {}

\* _unsatisfied_input_ports; a node that failed before has its own partial output, too.
Seen(n) == {outputs[m] : m \in Inputs(n) \cup ({n} \cap DOMAIN outputs)}
UnsatisfiedPorts(n) ==
    {type \in graph[n].ports : \A out \in Seen(n) : ~Satisfies(out, type)}

\* _render_tool_invocations: the arguments that cannot be filled in.
SourceOf(n, need) == IF need.from = "first" THEN graph[n].deps[1] ELSE need.from
Missing(n, need) ==
    \/ need.from = "first" /\ graph[n].deps = <<>>
    \/ SourceOf(n, need) \notin Inputs(n)
    \/ need.key \notin outputs[SourceOf(n, need)]
CannotRender(n) ==
    \/ Tools[graph[n].tool].attachments # "none" /\ request.attached = 0
    \/ \E need \in Tools[graph[n].tool].needs : Missing(n, need)
Invocations(n) == IF Tools[graph[n].tool].attachments = "each" THEN request.attached ELSE 1

\* Which executor's branch runs a node (PlannedTaskExecutor.run, DocumentFlowExecutor.run,
\* ResearchFlowExecutor.run).  The document flow knows its nodes by their names only.
ResearchGives ==
    [n \in ResearchNames |->
        CASE n = "research-query-plan" -> {"queries"}
          [] n = SearchNode -> {"queries", "results", "completedQueries"}
          [] n \in {"research-report-synthesis", "research-report-quality-check"} ->
                {"markdown", "summary"}
          [] n = "research-markdown-output" -> {"artifact", "artifacts", "markdown"}
          [] OTHER -> {"values"}]
DocumentWork(n) ==
    CASE n \in {"content-organize", "report-generate"} -> "chat"
      [] n = "file-export" -> "plain"
      [] n \in DocumentNames \ {"content-organize", "report-generate", "file-export"} ->
            "attachment"
      [] OTHER -> "unsupported"
WorkOf(n) ==
    IF IsResearch(graph)
    THEN IF n = SearchNode THEN "search" ELSE IF n \in ResearchFlow THEN "research"
         ELSE "unsupported"
    ELSE IF graph[n].kind = "fixed_tool" /\ IsBound(graph)
         THEN IF graph[n].tool = NoTool THEN "unsupported" ELSE "tool"
    ELSE IF n \in DocumentNames \/ ~IsBound(graph) THEN DocumentWork(n)
    ELSE IF graph[n].kind = "temporary_script" THEN "script"
    ELSE IF graph[n].kind # "model" THEN "plain"
    ELSE IF graph[n].react.on THEN "react" ELSE "chat"

\* What a node's output holds once its work is done.
Carried(n) == {"artifacts"} \cap (UNION {outputs[m] : m \in Inputs(n)})
Gives(n) ==
    IF IsResearch(graph) THEN ResearchGives[n]
    ELSE IF WorkOf(n) = "tool" THEN Tools[graph[n].tool].gives
    ELSE CASE n = "content-organize" -> {"outline"}
           [] n = "report-generate" -> {"report"}
           [] n = "file-export" -> {"artifact", "artifacts"}
           [] graph[n].kind = "temporary_script" -> {"summary"}
           [] OTHER -> {"text", "summary"}
                          \cup (IF graph[n].kind = "output" THEN Carried(n) ELSE {})

\* default_document_verification_specs.
Demanded(n) == CASE n = "document-input" -> {"paths"}
                 [] n = "document-parse" -> {"text"}
                 [] n = "content-organize" -> {"outline"}
                 [] n = "report-generate" -> {"report"}
                 [] n \in {"file-export", "research-markdown-output"} -> {"artifact"}
                 [] OTHER -> {}

----------------------------------------------------------------------------
(* The plan and its graph.                                                 *)

NoOutputs == [n \in {} |-> {}]
Init ==
    /\ stage = "drafting" /\ cause = NoCause
    /\ plan = NoPlan /\ origin = "none"
    /\ graph = [n \in {} |-> {}]
    /\ request = NoRequest /\ outputs = NoOutputs /\ node = NoNode /\ work = NoWork
    /\ retried = {} /\ recorded = {} /\ used = {} /\ found = 0

\* The model drafts a plan for a message, which may ask for the web; the plan may say
\* that information is missing.  What is not a PlanDraft is asked for again.
DraftPlan(p, web, missing) ==
    /\ stage = "drafting"
    /\ IF ValidDraft(p)
       THEN plan' = [steps |-> p, web |-> web, missing |-> missing] /\ stage' = "drafted"
       ELSE UNCHANGED <<plan, stage>>
    /\ UNCHANGED <<cause, origin, graph, runVars>>

\* review_plan: a plan that is not approved is drafted again.
ReviewPlan ==
    /\ stage = "drafted"
    /\ IF plan.missing \/ Findings(plan.steps, plan.web)
       THEN stage' = "drafting" /\ plan' = NoPlan
       ELSE stage' = "approved" /\ UNCHANGED plan
    /\ UNCHANGED <<cause, origin, graph, runVars>>

\* compile_agent_plan_graph and review_compiled_graph, which finds what it compares equal
\* in a graph just compiled from the plan.  A capability nothing provides raises.
CompilePlan ==
    /\ stage = "approved"
    /\ IF \E s \in plan.steps : Candidates(s.caps) = {}
       THEN stage' = "refused" /\ cause' = "unresolved" /\ UNCHANGED <<origin, graph>>
       ELSE /\ stage' = "offered" /\ origin' = "plan" /\ graph' = GraphOf(plan.steps)
            /\ UNCHANGED cause
    /\ UNCHANGED <<plan, runVars>>

\* The user confirms the plan (compile_confirmed_agent_plan_graph, then
\* review_agent_compiled_graph) or turns to another, as after a graph that was refused.
ConfirmPlan ==
    /\ stage = "offered"
    /\ IF NotCompilable(graph) THEN stage' = "refused" /\ cause' = "compile_failed"
                               ELSE stage' = "ready" /\ UNCHANGED cause
    /\ UNCHANGED <<planVars, runVars>>
RevisePlan ==
    /\ stage \in {"offered", "refused"}
    /\ stage' = "drafting" /\ cause' = NoCause /\ plan' = NoPlan
    /\ origin' = "none" /\ graph' = [n \in {} |-> {}]
    /\ UNCHANGED runVars

\* A project opened with a graph on its canvas.
OpenSaved(g) ==
    /\ stage = "drafting"
    /\ stage' = "ready" /\ origin' = "saved" /\ graph' = g
    /\ UNCHANGED <<cause, plan, runVars>>

----------------------------------------------------------------------------
(* The run.                                                                *)

Ends(c) == stage' = "failed" /\ cause' = c

\* _validate_graph_tools.
ToolsKnown(g) == \A n \in DOMAIN g : HasTool(g[n]) => g[n].tool \in ToolIds
\* _permission_blocking_node: a script that waits for its approval keeps all of the
\* selected nodes from running.
Blocked(selected) ==
    \E n \in selected : graph[n].kind = "temporary_script" /\ graph[n].status = "needs_permission"
Starts(a, k, selected) ==
    /\ request' = [approved |-> a, attached |-> k, chosen |-> selected \cap Executable(graph)]
    /\ node' = NoNode /\ work' = NoWork /\ retried' = {} /\ recorded' = {} /\ used' = {}
    /\ IF ~ToolsKnown(graph) THEN Ends("unsupported_tool")
       ELSE IF Blocked(selected) THEN Ends("permission_required")
       ELSE stage' = "running" /\ cause' = NoCause
    /\ UNCHANGED planVars

PartialNodes_Dropped == {}
FailedNodes == IF cause = "permission_required" THEN {} ELSE {node} \ {NoNode}

PartialNodes == IF cause = "web_search_failed" THEN FailedNodes ELSE {}

\* A run in the full mode, the first or another.
StartRun(a, k) ==
    /\ stage \in {"ready", "completed", "failed"}
    /\ Starts(a, k, DOMAIN graph)
    /\ outputs' = NoOutputs /\ found' = 0

\* The run after a failed one in the failed_only mode: the nodes the journal of that run
\* records as failed and all behind them, with the outputs that journal records, those of
\* a search that failed half way among them.  It holds nothing of the runs before.
RetryFailed ==
    /\ stage = "failed"
    /\ Starts(request.approved, request.attached,
              UNION {From(graph, n) : n \in FailedNodes})
    /\ outputs' = [n \in DOMAIN outputs \cap (recorded \cup PartialNodes) |-> outputs[n]]
    /\ found' = IF SearchNode \in DOMAIN outputs' THEN found ELSE 0

\* The gate lets every research graph reach the network.
Granted == request.approved \cup (IF IsResearch(graph) THEN {"network"} ELSE {})
IsNext(n) ==
    /\ stage = "running" /\ node = NoNode
    /\ n \in request.chosen \ recorded
    /\ Elements(graph[n].deps) \cap request.chosen \subseteq recorded
EnterNode(n) ==
    /\ IsNext(n)
    /\ IF GateDenies(graph[n].perms, graph[n].tool, Granted) = {}
       THEN UNCHANGED <<stage, cause>> ELSE Ends("permission_required")
    /\ node' = n
    /\ UNCHANGED <<planVars, request, outputs, work, retried, recorded, used, found>>

\* The end of an attempt at the node: its output is verified, and an empty one is tried
\* once more (FailureReplanner, _can_auto_continue).
EndNode_AlwaysRetried(out) ==
    \/ /\ Demanded(node) \subseteq out
       /\ outputs' = [n \in DOMAIN outputs \cup {node} |-> IF n = node THEN out ELSE outputs[n]]
       /\ recorded' = recorded \cup {node} /\ node' = NoNode
       /\ UNCHANGED <<stage, cause, retried>>
    \/ /\ ~(Demanded(node) \subseteq out)
       /\ UNCHANGED <<stage, cause, outputs, recorded, node, retried>>
EndNode(out) ==
    \/ /\ Demanded(node) \subseteq out
       /\ outputs' = [n \in DOMAIN outputs \cup {node} |-> IF n = node THEN out ELSE outputs[n]]
       /\ recorded' = recorded \cup {node} /\ node' = NoNode
       /\ UNCHANGED <<stage, cause, retried>>
    \/ /\ ~(Demanded(node) \subseteq out) /\ node \notin retried
       /\ retried' = retried \cup {node}
       /\ UNCHANGED <<stage, cause, outputs, recorded, node>>
    \/ /\ ~(Demanded(node) \subseteq out) /\ node \in retried
       /\ Ends("empty_node_output")
       /\ UNCHANGED <<outputs, recorded, node, retried>>
FailNode_Recorded(c) ==
    Ends(c) /\ recorded' = recorded \cup {node} /\ UNCHANGED <<outputs, node, retried>>
FailNode(c) == Ends(c) /\ UNCHANGED <<outputs, recorded, node, retried>>
GoesOn == UNCHANGED <<stage, cause, outputs, recorded, node, retried>>
Idle == work' = NoWork /\ UNCHANGED <<planVars, request, used, found>>

Running(kind) == stage = "running" /\ node # NoNode /\ work.kind = kind

\* The dependencies, the ports, the arguments and the executor's branch decide whether a node can start.
MissingDependencies(n) ==
    n \in DataDependent
    /\ \E m \in Elements(graph[n].deps) : graph[m].kind # "planning" /\ m \notin DOMAIN outputs
AttachmentCause ==
    IF request.attached > 0 \/ node = "typst-export" THEN "unsupported_tool"
    ELSE IF node = "document-input" THEN "missing_input" ELSE NoCause
StartCause ==
    IF MissingDependencies(node) THEN "missing_dependency_output"
    ELSE IF UnsatisfiedPorts(node) # {} THEN "input_contract_unsatisfied"
    ELSE CASE WorkOf(node) = "unsupported" -> "unsupported_node"
           [] WorkOf(node) = "attachment" -> AttachmentCause
           [] WorkOf(node) = "tool" -> IF CannotRender(node) THEN "missing_input" ELSE NoCause
           [] OTHER -> NoCause
StartNode ==
    /\ Running("none")
    /\ \/ StartCause # NoCause /\ FailNode(StartCause) /\ Idle
       \/ StartCause = NoCause /\ WorkOf(node) = "plain" /\ EndNode(Gives(node)) /\ Idle
       \/ StartCause = NoCause /\ WorkOf(node) = "attachment" /\ EndNode({}) /\ Idle
       \/ /\ StartCause = NoCause /\ WorkOf(node) \notin {"plain", "attachment"}
          /\ work' = [NoWork EXCEPT !.kind = WorkOf(node),
                        !.left = CASE WorkOf(node) = "tool" -> Invocations(node)
                                   [] WorkOf(node) = "search" -> MaxSearchAttempts
                                   [] OTHER -> 0]
          /\ GoesOn /\ UNCHANGED <<planVars, request, used, found>>

\* UnifiedToolGateway.call_tool for the authority a run has: no grants, no domains.
Context == [toolIds |-> {}, approved |-> request.approved, domains |-> {}]
Verdict(tool, asks, inside) ==
    AuthorityCode(tool, Context, [asks |-> asks, domain |-> "none", inside |-> inside])
Dispatched(tool, by) ==
    used' = used \cup {[tool |-> tool, node |-> node, by |-> by]}

\* _run_fixed_tool_node: one call for each invocation.
CallTool ==
    LET tool == graph[node].tool
        verdict == Verdict(tool, graph[node].perms \cup Tools[tool].perms, TRUE)
    IN /\ Running("tool")
       /\ \/ verdict # "allowed" /\ FailNode(verdict) /\ Idle
          \/ /\ verdict = "allowed" /\ Dispatched(tool, "node")
             /\ \/ FailNode("tool_failed") /\ work' = NoWork
                \/ work.left = 1 /\ EndNode(Gives(node)) /\ work' = NoWork
                \/ work.left > 1 /\ work' = [work EXCEPT !.left = @ - 1] /\ GoesOn
             /\ UNCHANGED <<planVars, request, found>>

\* A model's answer, possibly empty, a script in the sandbox, or a step of the research
\* flow; each may fail.
Answer ==
    /\ \E kind \in {"chat", "script", "research"} : Running(kind)
    /\ \/ EndNode(Gives(node))
       \/ EndNode(Gives(node) \ Demanded(node))
       \/ FailNode("node_failed")
    /\ Idle

\* The search node asks for one query after another, each up to MaxSearchAttempts times.
Search ==
    /\ Running("search")
    /\ \/ found = NumQueries /\ EndNode(Gives(node)) /\ Idle
       \/ /\ found < NumQueries /\ found' = found + 1
          /\ work' = [work EXCEPT !.left = MaxSearchAttempts]
          /\ GoesOn /\ UNCHANGED <<planVars, request, used>>
       \/ /\ found < NumQueries /\ work.left > 1
          /\ work' = [work EXCEPT !.left = @ - 1]
          /\ GoesOn /\ UNCHANGED <<planVars, request, used, found>>
       \/ /\ found < NumQueries /\ work.left = 1
          /\ Ends("web_search_failed")
          /\ outputs' = [n \in DOMAIN outputs \cup {node} |->
                            IF n = node THEN Gives(node) ELSE outputs[n]]
          /\ UNCHANGED <<recorded, node, retried>> /\ Idle

\* ReActController.run: a step of the model ends the loop or asks for tool calls, one in
\* a text reply, several in a native one.
Think ==
    LET policy == graph[node].react
    IN /\ Running("react") /\ work.left = 0
       /\ \/ work.step = policy.steps /\ FailNode("step_budget_exceeded") /\ Idle
          \/ FailNode("runtime_budget_exceeded") /\ Idle
          \/ work.step < policy.steps /\ FailNode("malformed_action") /\ Idle
          \/ work.step < policy.steps /\ EndNode(Gives(node)) /\ Idle
          \/ /\ work.step < policy.steps
             /\ \E batch \in IF policy.native THEN 1..MaxBatch ELSE {1} :
                    work' = [work EXCEPT !.step = @ + 1, !.left = batch]
             /\ GoesOn /\ UNCHANGED <<planVars, request, used, found>>

\* _tool_policy_error and the call; a refusal of the gateway is an observation for the model.
PolicyError_AnyTool(policy, tool) ==
    IF work.calls >= policy.calls THEN "tool_budget_exceeded"
    ELSE IF tool \notin ToolIds THEN "tool_not_allowed"
    ELSE IF ~(Tools[tool].perms \subseteq policy.perms) THEN "permission_not_allowed"
    ELSE NoCause
PolicyError(policy, tool) ==
    IF work.calls >= policy.calls THEN "tool_budget_exceeded"
    ELSE IF tool \notin ToolIds \cap policy.tools THEN "tool_not_allowed"
    ELSE IF ~(Tools[tool].perms \subseteq policy.perms) THEN "permission_not_allowed"
    ELSE NoCause
Act(tool, inside) ==
    LET error == PolicyError(graph[node].react, tool)
    IN /\ Running("react") /\ work.left > 0
       /\ \/ error # NoCause /\ FailNode(error) /\ Idle
          \/ /\ error = NoCause
             /\ work' = [work EXCEPT !.left = @ - 1, !.calls = @ + 1]
             /\ IF Verdict(tool, Tools[tool].perms, inside) = "allowed"
                THEN Dispatched(tool, "model") ELSE UNCHANGED used
             /\ GoesOn /\ UNCHANGED <<planVars, request, found>>

\* Every selected node has run; FinalVerifier asks for the output of every output node.
FinishRun ==
    /\ stage = "running" /\ node = NoNode /\ request.chosen \subseteq recorded
    /\ IF \A n \in DOMAIN graph : graph[n].kind = "output" => n \in DOMAIN outputs
       THEN stage' = "completed" /\ UNCHANGED cause
       ELSE Ends("missing_final_output")
    /\ UNCHANGED <<planVars, runVars>>

RunStep ==
    \/ \E n \in DOMAIN graph : EnterNode(n)
    \/ StartNode \/ CallTool \/ Answer \/ Search \/ Think
    \/ \E tool \in ToolIds \cup {UnknownTool}, inside \in BOOLEAN : Act(tool, inside)
    \/ FinishRun
Next ==
    \/ \E p \in Plans, web, missing \in BOOLEAN : DraftPlan(p, web, missing)
    \/ ReviewPlan \/ CompilePlan \/ ConfirmPlan \/ RevisePlan
    \/ \E g \in SavedGraphs : OpenSaved(g)
    \/ \E a \in Approvals, k \in 0..MaxAttached : StartRun(a, k)
    \/ RetryFailed
    \/ RunStep

\* A run that has been started is worked through (the generator of run_graph_events is
\* read to its end); models and providers answer or fail within their time limits.
Spec == Init /\ [][Next]_vars /\ WF_vars(RunStep)

----------------------------------------------------------------------------
(* Properties.                                                             *)

Stages == {"drafting", "drafted", "approved", "offered", "refused", "ready", "running",
           "completed", "failed"}
Works == {"none", "tool", "chat", "script", "react", "research", "search"}

Keys == {"queries", "results", "completedQueries", "markdown", "summary", "artifact",
         "artifacts", "values", "outline", "report", "text"}
        \cup UNION {Tools[t].gives : t \in ToolIds}
Causes == {NoCause, "unresolved", "compile_failed", "unsupported_tool", "permission_required",
           "missing_dependency_output", "input_contract_unsatisfied", "unsupported_node",
           "missing_input", "empty_node_output", "tool_failed", "node_failed",
           "web_search_failed", "tool_denied", "permission_denied", "network_domain_required",
           "network_domain_denied", "path_denied", "step_budget_exceeded",
           "runtime_budget_exceeded", "malformed_action", "tool_budget_exceeded",
           "tool_not_allowed", "permission_not_allowed", "missing_final_output"}

\* Every variable has its type, and what a run knows is about nodes of its graph.
TypeOK ==
    /\ stage \in Stages /\ cause \in Causes
    /\ plan \in [steps: Plans \cup {{}}, web: BOOLEAN, missing: BOOLEAN]
    /\ origin \in {"none", "plan", "saved"}
    /\ graph \in [DOMAIN graph -> Node]
    /\ request \in [approved: SUBSET Permissions, attached: 0..MaxAttached,
                    chosen: SUBSET DOMAIN graph]
    /\ outputs \in [DOMAIN outputs -> SUBSET Keys] /\ DOMAIN outputs \subseteq DOMAIN graph
    /\ node \in DOMAIN graph \cup {NoNode}
    /\ work \in [kind: Works, left: Nat, step: Nat, calls: Nat]
    /\ retried \subseteq request.chosen /\ recorded \subseteq request.chosen \cap DOMAIN outputs
    /\ used \subseteq [tool: ToolIds, node: DOMAIN graph, by: {"node", "model"}]
    /\ found \in 0..NumQueries

\* A plan the review approved compiles into a graph the confirmation accepts, unless one
\* of its steps names no capability: the review does not look at such a step, the compiler
\* takes it for a reasoning step, and the metadata check after the confirmation refuses it.
ApprovedPlansCompile ==
    stage = "refused" => \E s \in plan.steps : s.caps = {}

\* The two places that decide on permissions agree: of a tool node the gate let pass, the
\* authority of the gateway refuses the call for nothing but its network domain.
AuthorityFollowsGate ==
    stage = "failed" => cause \notin {"tool_denied", "permission_denied",
                                      "network_domain_denied", "path_denied"}

\* Whatever reached a provider was allowed: the user approved the sensitive permissions
\* of the tool, no node and no model used the network (no call names its domain), and a
\* model stayed within the policy of its node.
UsesAreApproved ==
    \A u \in used :
        /\ Tools[u.tool].perms \cap Sensitive \subseteq request.approved
        /\ "network" \notin Tools[u.tool].perms /\ ~Tools[u.tool].network
        /\ u.by = "model" => /\ u.tool \in graph[u.node].react.tools
                             /\ Tools[u.tool].perms \subseteq graph[u.node].react.perms

RetriesASearch ==
    /\ stage = "failed" /\ cause = "web_search_failed"
    /\ stage' = "running" /\ request'.chosen # Executable(graph)
KeepsAnswers == RetriesASearch => found' = found

\* The retry of a search that failed half way keeps the queries already answered, however
\* often it is retried.
AnsweredQueriesStay == [][KeepsAnswers]_vars

\* A run ends, whatever the models answer and the tools do: attempts, steps, calls and
\* retries are bounded.
RunEnds == stage = "running" ~> stage \in {"completed", "failed"}

\* A node is not retried without the outputs it depends on.  The journal of a retry holds
\* only the nodes that retry ran, and the next retry reads no other.
RetriesHaveTheirInputs ==
    request.chosen # Executable(graph) => cause # "missing_dependency_output"
=============================================================================
