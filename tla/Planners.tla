------------------------------- MODULE Planners -------------------------------
(***************************************************************************)
(* The planners that draw a graph without a model: the task planner        *)
(* (task_planner.py), the document template (task_graph.py,                *)
(* graph_compiler.py), the tool catalog planner, the chain that chooses    *)
(* among them (planner_chain.py) and the research graph (web_research.py). *)
(* A message is what its words and attachments mean to them.               *)
(***************************************************************************)
EXTENDS PlanToTools, ToolChains
LOCAL INSTANCE SequencesExt

\* Which of the word lists a message hits; a word may be in several.
Message ==
    [attached: BOOLEAN,     \* it comes with attachments
     unsafe: BOOLEAN,       \* network, credentials, a shell, processes, all files
     converts: BOOLEAN,     \* convert, markdown, pdf, report ...
     renders: BOOLEAN,      \* pdf, export, report, organize
     inspects: BOOLEAN,     \* csv, local file ...
     deletes: BOOLEAN,      \* delete, overwrite ...
     acts: BOOLEAN,         \* summarize, convert, export: something done to a document
     refers: BOOLEAN,       \* document, file, pdf: the document itself
     web: BOOLEAN,          \* search, latest, version ...
     searches: BOOLEAN]     \* search, github: the web and nothing else

Drawn(kind, tool, ports, deps) ==
    [kind |-> kind, status |-> "waiting", tool |-> tool, perms |-> {}, ports |-> ports,
     deps |-> deps, caps |-> {}, checked |-> TRUE, react |-> NoReAct]
Done(n) == [n EXCEPT !.status = "completed"]
Joined(f, g) == [n \in DOMAIN f \cup DOMAIN g |-> IF n \in DOMAIN f THEN f[n] ELSE g[n]]

----------------------------------------------------------------------------
(* The task planner.                                                       *)

Requirement(cap) == [cap |-> cap, model |-> FALSE, script |-> FALSE, risky |-> FALSE]
Reasons == [Requirement(Generic) EXCEPT !.model = TRUE]
Scripted(cap, risky) == [Requirement(cap) EXCEPT !.script = TRUE, !.risky = risky]

\* analyze_task: what an unsafe message asks for is never planned.
TaskKind(m) ==
    IF m.unsafe THEN "unsupported" ELSE IF m.attached THEN "document"
    ELSE IF m.inspects THEN "local_file" ELSE IF m.deletes THEN "script" ELSE "content"
DocumentRequirements(m) ==
    {Requirement("document_input")}
    \cup (IF m.converts THEN {Requirement("document.convert.markdown")} ELSE {})
    \cup (IF m.renders THEN {Reasons, Requirement("document.render.typst_pdf")} ELSE {})
Requirements(m) ==
    CASE TaskKind(m) = "unsupported" -> {Requirement("unsafe")}
      [] TaskKind(m) = "document" -> DocumentRequirements(m)
      [] TaskKind(m) = "local_file" -> {Scripted("file.inspect", FALSE)}
      [] TaskKind(m) = "script" -> {Scripted("file.delete", TRUE)}
      [] OTHER -> {Reasons}

\* select_tools: of the tools with a capability one of a package before a virtual one, one
\* with a runtime before one without; the shipped ones do not differ in more.
Offers(cap) == {i \in DOMAIN Manifests : cap \in Manifests[i].caps}
Better(i, k) ==
    \/ ~Manifests[i].virtual /\ Manifests[k].virtual
    \/ Manifests[i].virtual = Manifests[k].virtual /\ (Manifests[i].runtime \/ ~Manifests[k].runtime)
BestOffer(cap) ==
    Manifests[CHOOSE i \in Offers(cap) : \A k \in Offers(cap) : Better(i, k)].id
SelectedTools(reqs) ==
    {BestOffer(r.cap) : r \in {q \in reqs : ~q.model /\ Offers(q.cap) # {}}}

\* resolve_tool_gaps: a script may stand in for a tool, the rest cannot be done.
Gaps(reqs) == {r \in reqs : ~r.model /\ Offers(r.cap) = {}}
HardGaps(reqs) == {r \in Gaps(reqs) : ~r.script}

PlanningChain ==
    << "task-analysis", "context-gathering", "evidence-summary", "plan-draft",
       "capability-analysis", "tool-selection", "plan-review", "execution-order-planning" >>
LastPlanning == PlanningChain[Len(PlanningChain)]
\* _planning_nodes.
PlanningNodes ==
    [n \in Elements(PlanningChain) |->
        LET i == CHOOSE k \in DOMAIN PlanningChain : PlanningChain[k] = n
        IN Done(Drawn("planning", NoTool, {}, IF i = 1 THEN << >> ELSE << PlanningChain[i - 1] >>))]

\* _document_task_graph: the attachment is received, converted if that is asked for, and
\* made into a report only where one is.
DocumentTool(n) ==
    CASE n = "document-input" -> "document.receive_attachment"
      [] n = "document-parse" -> "document.markitdown_convert"
      [] n = "typst-export" -> "document.typst_compile"
      [] OTHER -> NoTool
DocumentPorts(n) ==
    CASE n = "document-input" -> {}
      [] n = "document-parse" -> {"document"}
      [] n \in {"content-organize", "report-generate"} -> {"text"}
      [] n = "typst-export" -> {"json", "text"}
      [] OTHER -> {"artifact"}
DocumentKind(n) ==
    IF DocumentTool(n) # NoTool THEN "fixed_tool"
    ELSE IF n = "file-export" THEN "output" ELSE "model"
DocumentDeps_ReportOnly(n, nodes) ==
    CASE n = "document-input" -> << LastPlanning >>
      [] n = "document-parse" -> << "document-input" >>
      [] n \in {"content-organize", "report-generate"} -> << "document-parse" >>
      [] n = "typst-export" -> << "report-generate" >>
      [] OTHER -> IF "typst-export" \in nodes THEN << "typst-export" >>
                  ELSE IF "document-parse" \in nodes THEN << "document-parse" >>
                  ELSE << "document-input" >>
DocumentDeps(n, nodes) ==
    CASE n = "document-input" -> << LastPlanning >>
      [] n = "document-parse" -> << "document-input" >>
      [] n \in {"content-organize", "report-generate"} -> << "document-parse" >>
      [] n = "typst-export" -> << "content-organize", "report-generate" >>
      [] OTHER -> IF "typst-export" \in nodes THEN << "typst-export" >>
                  ELSE IF "document-parse" \in nodes THEN << "document-parse" >>
                  ELSE << "document-input" >>
DocumentNodes(m) ==
    IF m.renders THEN DocumentNames
    ELSE {"document-input", "file-export"} \cup (IF m.converts THEN {"document-parse"} ELSE {})
DocumentTaskGraph(m) ==
    [n \in DocumentNodes(m) |->
        Drawn(DocumentKind(n), DocumentTool(n), DocumentPorts(n), DocumentDeps(n, DocumentNodes(m)))]

\* build_task_graph for what is not a document: a node for each requirement a model, a
\* tool or a script (_temporary_script_for) meets, behind the planning, and the output.
NameOf(prefix, name) == prefix \o name
\* The names of the nodes a message can get: nothing but the research graph has names that
\* begin with "research-", and those made from a capability are no names of other nodes.
FixedNames == Elements(PlanningChain) \cup DocumentNames \cup {"task-output"}
StepNames ==
    {NameOf("model-", Generic), NameOf("temporary-script-", "file.inspect"),
     NameOf("temporary-script-", "file.delete")}
ASSUME NameAssumption ==
    /\ (FixedNames \cup StepNames) \cap ResearchNames = {}
    /\ StepNames \cap FixedNames = {}
    /\ NoNode \notin FixedNames \cup StepNames

ModelStep == Drawn("model", NoTool, {}, << LastPlanning >>)
ToolStep(t) == Drawn("fixed_tool", t, {}, << LastPlanning >>)
ScriptStep(r) ==
    [Drawn("temporary_script", NoTool, {}, << LastPlanning >>)
        EXCEPT !.status = IF r.risky THEN "needs_permission" ELSE "waiting"]
StepsOf(reqs) ==
    LET models == {r \in reqs : r.model}
        tools == SelectedTools(reqs)
        names == {NameOf("model-", r.cap) : r \in models} \cup {NameOf("tool-", t) : t \in tools}
                 \cup {NameOf("temporary-script-", r.cap) : r \in Gaps(reqs)}
    IN [n \in names |->
          IF \E r \in models : n = NameOf("model-", r.cap) THEN ModelStep
          ELSE IF \E t \in tools : n = NameOf("tool-", t)
               THEN ToolStep(CHOOSE t \in tools : n = NameOf("tool-", t))
          ELSE ScriptStep(CHOOSE r \in Gaps(reqs) : n = NameOf("temporary-script-", r.cap))]
TaskOutput(steps) ==
    [n \in {"task-output"} |->
        Drawn("output", NoTool, {}, IF steps = {} THEN << LastPlanning >> ELSE SetToSeq(steps))]
MissingToolResponse ==
    [n \in {"missing-tool-response"} |-> Done(Drawn("output", NoTool, {}, << LastPlanning >>))]
TaskGraph(m) ==
    LET reqs == Requirements(m)
        steps == StepsOf(reqs)
    IN Joined(PlanningNodes,
              IF HardGaps(reqs) # {} THEN MissingToolResponse
              ELSE IF TaskKind(m) = "document" THEN DocumentTaskGraph(m)
              ELSE Joined(steps, TaskOutput(DOMAIN steps)))

----------------------------------------------------------------------------
(* The document template.                                                  *)

\* build_document_task_graph and compile_task_graph_to_node_graph: an input counts as done.
TemplatePerms(n) ==
    CASE n \in {"document-input", "document-parse"} -> {"read_attachment"}
      [] n = "typst-export" -> {"write_project_artifact"}
      [] n = "file-export" -> {"read_attachment", "write_project_artifact"}
      [] OTHER -> {}
TemplateDeps(n) == IF n = "document-input" THEN << >> ELSE DocumentDeps(n, DocumentNames)
TemplateGraph ==
    [n \in DocumentNames |->
        [Drawn(DocumentKind(n), DocumentTool(n), DocumentPorts(n), TemplateDeps(n))
            EXCEPT !.perms = TemplatePerms(n),
                   !.status = IF n = "document-input" THEN "completed" ELSE "waiting"]]

\* validate_task_graph and validate_plan: known dependencies, no cycle, known tools.
ValidTaskGraph(g) ==
    /\ \A n \in DOMAIN g : Elements(g[n].deps) \subseteq DOMAIN g
    /\ \A part \in SUBSET DOMAIN g : part # {} =>
          \E n \in part : Elements(g[n].deps) \cap part = {}
    /\ \A n \in DOMAIN g : g[n].kind = "fixed_tool" => g[n].tool \in ManifestIds

----------------------------------------------------------------------------
(* The tool catalog's graph.                                               *)

\* ToolCatalogPlanner.plan.  The binding it writes into a node names its arguments, but
\* not the outputs they are mapped from: those stay the ones of the tool.
CatalogNodeOf(row, k, attached) ==
    [Drawn("fixed_tool", row[k], TemplatePorts(row[k]),
           [i \in DOMAIN SourcesOf(row[k], Before(row, k), attached) |->
               NameOf("tool-", SourcesOf(row[k], Before(row, k), attached)[i])])
        EXCEPT !.perms = ManifestOf(row[k]).perms]
CatalogOutput(last) ==
    [n \in {"task-output"} |-> Drawn("output", NoTool, {"json"}, << NameOf("tool-", last) >>)]
CatalogGraph(row, attached) ==
    Joined([n \in {NameOf("tool-", row[k]) : k \in DOMAIN row} |->
               CatalogNodeOf(row, CHOOSE k \in DOMAIN row : n = NameOf("tool-", row[k]), attached)],
           CatalogOutput(row[Len(row)]))

----------------------------------------------------------------------------
(* The chain of planners.                                                  *)

\* parse_goal_spec.
Goal(task, missing) == [task |-> task, missing |-> missing]
GoalOf(m) ==
    IF m.attached /\ (m.acts \/ m.refers \/ ~m.searches)
    THEN Goal("document_processing", FALSE)
    ELSE IF ~m.attached /\ m.acts /\ m.refers THEN Goal("document_processing", TRUE)
    ELSE IF m.web THEN Goal("research", FALSE) ELSE Goal("chat", FALSE)

\* A request: the message, its route, and the tools it names in order.
Request ==
    [message: Message,
     isTask: BOOLEAN,               \* the route's intent
     task: STRING,                  \* the route's task type
     missing: BOOLEAN,              \* the route misses inputs
     candidates: SUBSET ToolIds,    \* the route's tool candidates
     asks: SUBSET Permissions,      \* the route's required permissions
     named: Seq(ToolIds),           \* the tools of which two words are in the message
     operation: BOOLEAN,            \* an operation of document.read_write is
     explicit: BOOLEAN,             \* two terms of one tool's or of several tools' names are
     markdownOnly: BOOLEAN]         \* it asks to convert to Markdown and for no report

\* _action_policies_for_request: the models of a task planner's graph may use the route's
\* candidates, with permissions that read.
LowRisk == {"read_attachment", "read_project_files"}
ReActOf(r) ==
    [on |-> TRUE, native |-> FALSE, steps |-> 4,
     calls |-> IF Cardinality(r.candidates) < 3 THEN Cardinality(r.candidates) ELSE 3,
     tools |-> r.candidates, perms |-> r.asks \cap LowRisk]
LegacyGraph(r) ==
    [n \in DOMAIN TaskGraph(r.message) |->
        LET drawn == TaskGraph(r.message)[n]
        IN IF r.candidates # {} /\ drawn.kind = "model"
           THEN [drawn EXCEPT !.react = ReActOf(r)] ELSE drawn]

Refused == [strategy |-> "refused", graph |-> [n \in {} |-> {}]]
Planned(strategy, g) == [strategy |-> strategy, graph |-> g]
RowOf(r) == CatalogRow(r.named, r.operation, r.message.attached)
\* PlannerChain.plan.
Template(r) ==
    IF GoalOf(r.message).task = "document_processing" /\ ValidTaskGraph(TemplateGraph)
    THEN Planned("document_template", TemplateGraph) ELSE Refused
PlanOf(r) ==
    LET document == r.task = "document_processing"
    IN IF ~r.isTask \/ r.missing \/ GoalOf(r.message).missing THEN Refused
       ELSE IF (document => r.explicit) /\ RowOf(r) # << >>
            THEN Planned("tool_catalog", CatalogGraph(RowOf(r), r.message.attached))
       ELSE IF document /\ ~r.markdownOnly THEN Template(r)
       ELSE Planned("legacy_task_planner", LegacyGraph(r))

----------------------------------------------------------------------------
(* The research graph.                                                     *)

ResearchChain ==
    << "research-intent-analysis", "research-privacy-guard", "research-query-plan", SearchNode,
       "research-source-review", "research-source-reading", "research-report-synthesis",
       "research-report-quality-check", "research-markdown-output" >>
\* build_research_graph.
ResearchNode(i) ==
    LET deps == IF i = 1 THEN << >> ELSE << ResearchChain[i - 1] >>
        drawn(kind, tool) ==
            Drawn(kind, tool, IF i = 1 THEN {} ELSE IF i > 7 THEN {"text"} ELSE {"json"}, deps)
    IN CASE i = 1 -> Done(drawn("planning", NoTool))
         [] i \in 2..3 -> drawn("planning", NoTool)
         [] i = 4 -> drawn("fixed_tool", "web.search.parallel")
         [] i = 6 -> drawn("fixed_tool", "web.fetch.sources")
         [] i = 9 -> drawn("output", NoTool)
         [] OTHER -> drawn("model", NoTool)
ResearchGraph ==
    [n \in ResearchFlow |-> ResearchNode(CHOOSE i \in DOMAIN ResearchChain : ResearchChain[i] = n)]

----------------------------------------------------------------------------
(* A property of the planners and the executor together.                   *)

\* What the planner and not a provider, a model or a permission would be to blame for.
PlannersFaults ==
    {"unsupported_tool", "missing_dependency_output", "input_contract_unsatisfied",
     "unsupported_node", "missing_input", "missing_final_output"}

Feasible == {m \in Message : ~m.unsafe /\ (m.attached => m.converts)}
FeasibleGraphs == {<<TaskGraph(m), m.attached>> : m \in Feasible}

\* What the task planner draws for a message, a run with the message's attachments can do:
\* whichever nodes ran before, each finds its tool, its ports and its arguments filled.  A
\* message that only attaches a file and one that asks for what cannot be done get graphs
\* that never complete.
PlannedGraphsFit ==
    (/\ \E attached \in BOOLEAN :
          <<graph, attached>> \in FeasibleGraphs /\ (attached => request.attached > 0)
     /\ request.chosen = Executable(graph))
        => cause \notin PlannersFaults
=============================================================================
