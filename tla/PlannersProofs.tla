----------------------------- MODULE PlannersProofs -----------------------------
(***************************************************************************)
(* Proofs about the planners and the runs of what they draw.               *)
(***************************************************************************)
EXTENDS Planners, PlanToToolsProofs, SequenceTheorems

(***************************************************************************)
(* The shipped tools.                                                      *)
(***************************************************************************)

\* The manifests, one by one.
LEMMA ManifestRow ==
    /\ DOMAIN Manifests = 1..7
    /\ Manifests[1] = Packages[1] /\ Manifests[2] = Packages[2] /\ Manifests[3] = Packages[3]
    /\ Manifests[4] = Packages[4] /\ Manifests[5] = VirtualTools[1]
    /\ Manifests[6] = VirtualTools[2] /\ Manifests[7] = VirtualTools[3]
<1> DEFINE All == {Packages[1], Packages[2], Packages[3], Packages[4],
                   VirtualTools[1], VirtualTools[2], VirtualTools[3]}
<1>1. Packages \in Seq(All) /\ Len(Packages) = 4
  BY DEF Packages
<1>2. VirtualTools \in Seq(All) /\ Len(VirtualTools) = 3
  BY DEF VirtualTools
<1> HIDE DEF All
<1>3. /\ Packages \o VirtualTools \in Seq(All)
      /\ Len(Packages \o VirtualTools) = Len(Packages) + Len(VirtualTools)
      /\ \A i \in 1 .. Len(Packages) + Len(VirtualTools) : (Packages \o VirtualTools)[i] =
              IF i <= Len(Packages) THEN Packages[i] ELSE VirtualTools[i - Len(Packages)]
  BY <1>1, <1>2, ConcatProperties, ZenonT(30)
<1>4. /\ Manifests \in Seq(All) /\ Len(Manifests) = 7
      /\ \A i \in 1..7 : Manifests[i] = IF i <= 4 THEN Packages[i] ELSE VirtualTools[i - 4]
  <2>1. Len(Packages) + Len(VirtualTools) = 7
    BY <1>1, <1>2
  <2> QED BY <1>1, <1>3, <2>1, Zenon DEF Manifests
<1>5. DOMAIN Manifests = 1..7
  BY <1>4
<1>6. /\ Manifests[1] = Packages[1] /\ Manifests[2] = Packages[2] /\ Manifests[3] = Packages[3]
      /\ Manifests[4] = Packages[4]
  BY <1>4
<1>7. /\ Manifests[5] = VirtualTools[1] /\ Manifests[6] = VirtualTools[2]
      /\ Manifests[7] = VirtualTools[3]
  BY <1>4
<1> QED BY <1>5, <1>6, <1>7

\* Their ids and capabilities.
LEMMA ManifestFacts ==
    /\ Manifests[1].id = "document.read_write" /\ Manifests[1].caps = {}
    /\ Manifests[2].id = "document.markitdown_convert"
    /\ Manifests[2].caps = {"document.convert.markdown"}
    /\ Manifests[3].id = "test.echo" /\ Manifests[3].caps = {"test.echo"}
    /\ Manifests[4].id = "document.typst_compile"
    /\ Manifests[4].caps = {"document.render.typst_pdf"}
    /\ Manifests[5].id = "document.receive_attachment" /\ Manifests[5].caps = {"document_input"}
    /\ Manifests[6].id = "web.search.parallel"
    /\ Manifests[6].caps = {"web_search", "research.web_search"}
    /\ Manifests[7].id = "web.fetch.sources"
    /\ Manifests[7].caps = {"web_fetch", "research.web_fetch"}
BY ManifestRow DEF Packages, VirtualTools, Manifest

Receive == "document.receive_attachment"
Convert == "document.markitdown_convert"
Compile == "document.typst_compile"

\* The tools of the document graphs, as they are shipped.
LEMMA DocumentTools ==
    ASSUME Tools = ShippedTools
    PROVE  /\ {Receive, Convert, Compile} \subseteq ToolIds
           /\ Tools[Receive].needs = {} /\ Tools[Receive].gives = {"paths"}
           /\ Tools[Convert].needs = {}
           /\ Tools[Convert].gives = {"text", "artifact", "artifacts"}
           /\ Tools[Compile].attachments = "none"
           /\ Tools[Compile].needs = {[from |-> "content-organize", key |-> "outline"],
                                      [from |-> "report-generate", key |-> "report"]}
           /\ Tools[Compile].gives = {"source", "artifact", "artifacts"}
<1> USE DEF Receive, Convert, Compile
<1>1. {Receive, Convert, Compile} \subseteq ManifestIds
  BY ManifestRow, ManifestFacts DEF ManifestIds
<1>2. ToolIds = ManifestIds
  BY DEF ToolIds, ShippedTools
<1>3. \A t \in ManifestIds :
          /\ Tools[t].attachments = AttachmentsOf(t)
          /\ Tools[t].needs = NeedsOf(t)
          /\ Tools[t].gives = GivesOf(t)
  BY DEF ShippedTools
<1> QED BY <1>1, <1>2, <1>3 DEF AttachmentsOf, NeedsOf, GivesOf

\* What a tool is shipped for, and what none is shipped for.
LEMMA ShippedOffers ==
    /\ Offers("document_input") # {} /\ Offers("document.convert.markdown") # {}
    /\ Offers("document.render.typst_pdf") # {}
    /\ Offers("file.inspect") = {} /\ Offers("file.delete") = {}
<1>1. 2 \in Offers("document.convert.markdown") /\ 4 \in Offers("document.render.typst_pdf")
      /\ 5 \in Offers("document_input")
  BY ManifestRow, ManifestFacts DEF Offers
<1>2. ASSUME NEW cap \in {"file.inspect", "file.delete"}, NEW i \in Offers(cap) PROVE FALSE
  <2>1. i \in 1..7 /\ cap \in Manifests[i].caps
    BY ManifestRow DEF Offers
  <2>2. i \in {1, 2, 3, 4, 5, 6, 7}
    BY <2>1
  <2> QED BY <2>1, <2>2, ManifestFacts
<1> QED BY <1>1, <1>2

(***************************************************************************)
(* What the task planner draws.                                            *)
(***************************************************************************)

PlanningNames == Elements(PlanningChain)

\* The planning nodes: all of them done.
LEMMA PlanningDone ==
    /\ DOMAIN PlanningNodes = PlanningNames /\ PlanningNames # {}
    /\ PlanningNames \cap (DocumentNames \cup {"task-output"}) = {}
    /\ \A n \in PlanningNames :
          PlanningNodes[n].kind = "planning" /\ PlanningNodes[n].status = "completed"
<1>1. PlanningNames =
        {"task-analysis", "context-gathering", "evidence-summary", "plan-draft",
         "capability-analysis", "tool-selection", "plan-review", "execution-order-planning"}
  <2>1. DOMAIN PlanningChain = {1, 2, 3, 4, 5, 6, 7, 8}
    BY DEF PlanningChain
  <2>2. /\ PlanningChain[1] = "task-analysis" /\ PlanningChain[2] = "context-gathering"
        /\ PlanningChain[3] = "evidence-summary" /\ PlanningChain[4] = "plan-draft"
        /\ PlanningChain[5] = "capability-analysis" /\ PlanningChain[6] = "tool-selection"
        /\ PlanningChain[7] = "plan-review" /\ PlanningChain[8] = "execution-order-planning"
    BY DEF PlanningChain
  <2> QED BY <2>1, <2>2 DEF PlanningNames, Elements
<1>2. PlanningNames \cap (DocumentNames \cup {"task-output"}) = {}
  BY <1>1 DEF DocumentNames
<1>3. \A n \in PlanningNames :
          PlanningNodes[n].kind = "planning" /\ PlanningNodes[n].status = "completed"
  BY DEF PlanningNodes, PlanningNames, Done, Drawn
<1>4. DOMAIN PlanningNodes = PlanningNames
  BY DEF PlanningNodes, PlanningNames
<1> QED BY <1>1, <1>2, <1>3, <1>4

\* A graph whose every executable node can do its work once the executable nodes it depends
\* on have done theirs, in a run with attachments if it takes any.
Supplies(m, n) ==
    m \in Elements(graph[n].deps) \cap Executable(graph) /\ graph[m].kind # "output"
NodeFits(n, attached) ==
    /\ WorkOf(n) \notin {"unsupported", "attachment"}
    /\ n \in DataDependent => \A m \in Elements(graph[n].deps) :
          graph[m].kind # "planning" => m \in Executable(graph)
    /\ \A type \in graph[n].ports : \E m : Supplies(m, n) /\ Satisfies(Gives(m), type)
    /\ WorkOf(n) = "tool" =>
          /\ ~attached => Tools[graph[n].tool].attachments = "none"
          /\ \A need \in Tools[graph[n].tool].needs :
                /\ need.from # "first" /\ Supplies(need.from, n)
                /\ need.key \in Gives(need.from)
GraphFits(attached) ==
    /\ ~IsResearch(graph) /\ ToolsKnown(graph)
    /\ \A n \in DOMAIN graph : graph[n].kind = "output" => n \in Executable(graph)
    /\ \A n \in Executable(graph) : NodeFits(n, attached)

\* What a graph of the task planner is made of.
LEMMA GraphOfParts ==
    ASSUME NEW g, graph = Joined(PlanningNodes, g), DOMAIN g \cap PlanningNames = {},
           DOMAIN g \subseteq FixedNames \cup StepNames
    PROVE  /\ ~IsResearch(graph) /\ IsBound(graph)
           /\ DOMAIN graph = PlanningNames \cup DOMAIN g
           /\ \A n \in DOMAIN g : graph[n] = g[n]
           /\ \A n \in PlanningNames :
                 graph[n].kind = "planning" /\ n \notin Executable(graph)
           /\ \A n \in DOMAIN g :
                 n \in Executable(graph) <=> g[n].kind # "planning" /\ g[n].status = "waiting"
<1>1. DOMAIN graph = PlanningNames \cup DOMAIN g
  BY PlanningDone DEF Joined
<1>2. \A n \in DOMAIN g : graph[n] = g[n]
  BY PlanningDone DEF Joined
<1>3. \A n \in PlanningNames : graph[n] = PlanningNodes[n]
  BY PlanningDone DEF Joined
<1>4. PlanningNames \subseteq FixedNames
  BY DEF PlanningNames, FixedNames
<1>5. ~IsResearch(graph)
  BY <1>1, <1>4, NameAssumption DEF IsResearch
<1>6. IsBound(graph)
  BY <1>1, <1>3, <1>5, PlanningDone DEF IsBound, IsPlanned
<1> QED BY <1>1, <1>2, <1>3, <1>5, <1>6, PlanningDone DEF Executable

\* A graph for an attachment: it is converted, and made into a report where one is wanted.
LEMMA DocumentFits ==
    ASSUME Tools = ShippedTools, NEW m \in Message, m.attached, m.converts, ~m.unsafe,
           graph = TaskGraph(m)
    PROVE  GraphFits(TRUE)
<1> DEFINE g == DocumentTaskGraph(m)
           nodes == DocumentNodes(m)
<1>1. graph = Joined(PlanningNodes, g)
  <2>1. TaskKind(m) = "document" /\ Requirements(m) = DocumentRequirements(m)
    BY DEF TaskKind, Requirements
  <2>2. HardGaps(DocumentRequirements(m)) = {}
    <3>1. SUFFICES ASSUME NEW r \in DocumentRequirements(m), ~r.model PROVE Offers(r.cap) # {}
      BY DEF HardGaps, Gaps
    <3>2. \/ r = Requirement("document_input")
          \/ r = Requirement("document.convert.markdown")
          \/ r = Reasons
          \/ r = Requirement("document.render.typst_pdf")
      BY DEF DocumentRequirements
    <3>3. r # Reasons
      BY <3>1 DEF Reasons, Requirement
    <3>4. r.cap \in {"document_input", "document.convert.markdown", "document.render.typst_pdf"}
      BY <3>2, <3>3 DEF Requirement
    <3> QED BY <3>4, ShippedOffers
  <2> QED BY <2>1, <2>2 DEF TaskGraph
<1>2. /\ DOMAIN g = nodes /\ nodes \subseteq DocumentNames
      /\ \A n \in nodes : g[n] = Drawn(DocumentKind(n), DocumentTool(n), DocumentPorts(n),
                                       DocumentDeps(n, nodes))
  BY DEF DocumentTaskGraph, DocumentNodes, DocumentNames
<1> HIDE DEF g, nodes
<1>3. \A n \in nodes : g[n].kind # "planning" /\ g[n].status = "waiting"
  BY <1>2 DEF Drawn, DocumentKind
<1>4. /\ ~IsResearch(graph) /\ IsBound(graph) /\ DOMAIN graph = PlanningNames \cup nodes
      /\ Executable(graph) = nodes
      /\ \A n \in nodes : graph[n] = Drawn(DocumentKind(n), DocumentTool(n), DocumentPorts(n),
                                            DocumentDeps(n, nodes))
      /\ \A n \in PlanningNames : graph[n].kind = "planning"
  <2>1. DOMAIN g \cap PlanningNames = {} /\ DOMAIN g \subseteq FixedNames \cup StepNames
    BY <1>2, PlanningDone DEF FixedNames
  <2>2. /\ ~IsResearch(graph) /\ IsBound(graph) /\ DOMAIN graph = PlanningNames \cup nodes
        /\ \A n \in nodes : graph[n] = g[n] /\ n \in Executable(graph)
        /\ \A n \in PlanningNames : graph[n].kind = "planning" /\ n \notin Executable(graph)
    BY <1>1, <1>2, <1>3, <2>1, GraphOfParts
  <2>3. Executable(graph) \subseteq DOMAIN graph
    BY DEF Executable
  <2> QED BY <1>2, <2>2, <2>3
<1>5. \/ nodes = DocumentNames
      \/ nodes = {"document-input", "document-parse", "file-export"}
  BY DEF nodes, DocumentNodes
<1>6. NoTool \notin {Receive, Convert, Compile}
  BY DocumentTools, CatalogAssumption
<1>7. /\ graph["document-input"].kind = "fixed_tool" /\ graph["document-input"].tool = Receive
      /\ graph["document-input"].ports = {}
      /\ graph["document-parse"].kind = "fixed_tool" /\ graph["document-parse"].tool = Convert
      /\ graph["document-parse"].ports = {"document"}
      /\ Elements(graph["document-parse"].deps) = {"document-input"}
      /\ graph["file-export"].kind = "output" /\ graph["file-export"].tool = NoTool
      /\ graph["file-export"].ports = {"artifact"}
      /\ Elements(graph["file-export"].deps) =
            IF nodes = DocumentNames THEN {"typst-export"} ELSE {"document-parse"}
  <2>1. {"document-input", "document-parse", "file-export"} \subseteq nodes
    BY <1>5 DEF DocumentNames
  <2>2. "typst-export" \in nodes <=> nodes = DocumentNames
    BY <1>5 DEF DocumentNames
  <2> QED BY <1>4, <1>6, <2>1, <2>2
          DEF Drawn, DocumentKind, DocumentTool, DocumentPorts, DocumentDeps, Elements,
              Receive, Convert, Compile
<1>8. ASSUME nodes = DocumentNames
      PROVE  /\ \A n \in {"content-organize", "report-generate"} :
                  /\ graph[n].kind = "model" /\ graph[n].tool = NoTool
                  /\ graph[n].ports = {"text"} /\ Elements(graph[n].deps) = {"document-parse"}
             /\ graph["typst-export"].kind = "fixed_tool" /\ graph["typst-export"].tool = Compile
             /\ graph["typst-export"].ports = {"json", "text"}
             /\ Elements(graph["typst-export"].deps) = {"content-organize", "report-generate"}
  <2>1. {"content-organize", "report-generate", "typst-export"} \subseteq nodes
    BY <1>8 DEF DocumentNames
  <2>2. Elements(<< "content-organize", "report-generate" >>) =
            {"content-organize", "report-generate"}
    <3>1. DOMAIN << "content-organize", "report-generate" >> = {1, 2}
      OBVIOUS
    <3> QED BY <3>1 DEF Elements
  <2>3. graph["typst-export"].deps = << "content-organize", "report-generate" >>
    BY <1>4, <2>1 DEF Drawn, DocumentDeps
  <2>4. ASSUME NEW n \in {"content-organize", "report-generate"}
        PROVE  /\ graph[n].kind = "model" /\ graph[n].tool = NoTool
               /\ graph[n].ports = {"text"} /\ Elements(graph[n].deps) = {"document-parse"}
    BY <1>4, <2>1 DEF Drawn, DocumentKind, DocumentTool, DocumentPorts, DocumentDeps, Elements
  <2>5. graph["typst-export"].kind = "fixed_tool" /\ graph["typst-export"].tool = Compile
        /\ graph["typst-export"].ports = {"json", "text"}
    BY <1>4, <1>6, <2>1 DEF Drawn, DocumentKind, DocumentTool, DocumentPorts, Compile
  <2> QED BY <2>2, <2>3, <2>4, <2>5
<1>9. /\ WorkOf("document-input") = "tool" /\ WorkOf("document-parse") = "tool"
      /\ WorkOf("file-export") = "plain"
      /\ nodes = DocumentNames =>
            /\ WorkOf("typst-export") = "tool" /\ WorkOf("content-organize") = "chat"
            /\ WorkOf("report-generate") = "chat"
  BY <1>4, <1>6, <1>7, <1>8 DEF WorkOf, DocumentWork, DocumentNames
<1>10. /\ Gives("document-input") = {"paths"}
       /\ Gives("document-parse") = {"text", "artifact", "artifacts"}
       /\ nodes = DocumentNames =>
             /\ Gives("typst-export") = {"source", "artifact", "artifacts"}
             /\ Gives("content-organize") = {"outline"} /\ Gives("report-generate") = {"report"}
  BY <1>4, <1>7, <1>8, <1>9, DocumentTools DEF Gives
<1>11. ToolsKnown(graph)
  <2>1. \A n \in nodes : graph[n].tool \in ToolIds \cup {NoTool}
    BY <1>5, <1>7, <1>8, DocumentTools DEF DocumentNames
  <2> QED BY <1>4, <2>1 DEF ToolsKnown, HasTool
<1>12. NodeFits("document-input", TRUE)
  <2>1. "document-input" \notin DataDependent
    BY DEF DataDependent, DocumentNames, ResearchFlow, SearchNode
  <2> QED BY <1>7, <1>9, <2>1, DocumentTools DEF NodeFits
<1>13. NodeFits("document-parse", TRUE)
  <2>1. Supplies("document-input", "document-parse")
    BY <1>4, <1>5, <1>7 DEF Supplies, DocumentNames
  <2>2. Satisfies(Gives("document-input"), "document")
    BY <1>10 DEF Satisfies
  <2> QED BY <1>4, <1>7, <1>9, <2>1, <2>2, DocumentTools DEF NodeFits, Supplies
<1>14. NodeFits("file-export", TRUE)
  <2>1. \E n : /\ Elements(graph["file-export"].deps) = {n} /\ Supplies(n, "file-export")
               /\ Satisfies(Gives(n), "artifact")
    <3>1. CASE nodes = DocumentNames
      BY <1>4, <1>7, <1>8, <1>10, <3>1 DEF Supplies, Satisfies, DocumentNames
    <3>2. CASE nodes # DocumentNames
      BY <1>4, <1>5, <1>7, <1>10, <3>2 DEF Supplies, Satisfies
    <3> QED BY <3>1, <3>2
  <2> QED BY <1>7, <1>9, <2>1 DEF NodeFits, Supplies
<1>15. ASSUME nodes = DocumentNames, NEW n \in {"content-organize", "report-generate"}
       PROVE  NodeFits(n, TRUE)
  <2>1. Supplies("document-parse", n)
    BY <1>4, <1>7, <1>8, <1>15 DEF Supplies, DocumentNames
  <2>2. Satisfies(Gives("document-parse"), "text")
    BY <1>10 DEF Satisfies
  <2> QED BY <1>4, <1>8, <1>9, <1>15, <2>1, <2>2 DEF NodeFits, Supplies
<1>16. ASSUME nodes = DocumentNames PROVE NodeFits("typst-export", TRUE)
  <2>1. Supplies("content-organize", "typst-export") /\ Supplies("report-generate", "typst-export")
    BY <1>4, <1>8, <1>16 DEF Supplies, DocumentNames
  <2>2. Satisfies(Gives("content-organize"), "json") /\ Satisfies(Gives("report-generate"), "text")
    BY <1>10, <1>16 DEF Satisfies
  <2>3. \A need \in Tools[Compile].needs :
            /\ need.from # "first" /\ Supplies(need.from, "typst-export")
            /\ need.key \in Gives(need.from)
    BY <1>10, <1>16, <2>1, DocumentTools
  <2> QED BY <1>8, <1>9, <1>16, <2>1, <2>2, <2>3, DocumentTools DEF NodeFits, Supplies
<1>17. \A n \in nodes : NodeFits(n, TRUE)
  BY <1>5, <1>12, <1>13, <1>14, <1>15, <1>16 DEF DocumentNames
<1> QED
  BY <1>4, <1>11, <1>17 DEF GraphFits

\* A graph with one step of a model or a script, and the output behind it.
LEMMA StepFits ==
    ASSUME NEW steps, NEW name \in StepNames, DOMAIN steps = {name},
           steps[name].kind \in {"model", "temporary_script"}, steps[name].tool = NoTool,
           steps[name].ports = {}, steps[name].react = NoReAct,
           graph = Joined(PlanningNodes, Joined(steps, TaskOutput(DOMAIN steps)))
    PROVE  GraphFits(FALSE)
<1> DEFINE g == Joined(steps, TaskOutput(DOMAIN steps))
<1>1. name # "task-output" /\ name \notin DocumentNames /\ name \notin PlanningNames
      /\ name \notin ResearchNames
  BY NameAssumption DEF FixedNames, PlanningNames
<1>2. /\ DOMAIN g = {name, "task-output"} /\ g[name] = steps[name]
      /\ g["task-output"].kind = "output" /\ g["task-output"].tool = NoTool
      /\ g["task-output"].ports = {} /\ g["task-output"].status = "waiting"
  BY <1>1 DEF Joined, TaskOutput, Drawn
<1>3. graph = Joined(PlanningNodes, g)
  OBVIOUS
<1> HIDE DEF g
<1>4. "task-output" \notin DataDependent /\ name \notin DataDependent
  <2>1. name \notin ResearchFlow
    BY <1>1, PlanAssumption
  <2> QED BY <1>1, <2>1 DEF DataDependent, DocumentNames, ResearchFlow, SearchNode
<1>5. /\ ~IsResearch(graph) /\ IsBound(graph)
      /\ DOMAIN graph = PlanningNames \cup {name, "task-output"}
      /\ graph[name] = g[name] /\ graph["task-output"] = g["task-output"]
      /\ \A n \in PlanningNames : graph[n].kind = "planning" /\ n \notin Executable(graph)
      /\ "task-output" \in Executable(graph)
  <2>1. DOMAIN g \cap PlanningNames = {} /\ DOMAIN g \subseteq FixedNames \cup StepNames
    BY <1>1, <1>2, PlanningDone DEF FixedNames
  <2>2. /\ ~IsResearch(graph) /\ IsBound(graph)
        /\ DOMAIN graph = PlanningNames \cup DOMAIN g
        /\ \A n \in DOMAIN g : graph[n] = g[n]
        /\ \A n \in PlanningNames :
              graph[n].kind = "planning" /\ n \notin Executable(graph)
        /\ \A n \in DOMAIN g :
              n \in Executable(graph) <=> g[n].kind # "planning" /\ g[n].status = "waiting"
    BY <1>3, <2>1, GraphOfParts, Zenon
  <2> QED BY <1>2, <2>2
<1>6. ToolsKnown(graph)
  <2>1. ASSUME NEW n \in DOMAIN graph PROVE ~HasTool(graph[n])
    BY <1>2, <1>5 DEF HasTool
  <2> QED BY <2>1 DEF ToolsKnown
<1>7. Executable(graph) \subseteq {name, "task-output"}
  BY <1>5 DEF Executable
<1>8. WorkOf("task-output") = "plain" /\ WorkOf(name) \in {"chat", "script"}
  <2>1. "task-output" \notin DocumentNames
    BY DEF DocumentNames
  <2> QED BY <1>1, <1>2, <1>5, <2>1 DEF WorkOf, NoReAct
<1>9. \A n \in Executable(graph) : NodeFits(n, FALSE)
  BY <1>2, <1>4, <1>5, <1>7, <1>8 DEF NodeFits
<1>10. \A n \in DOMAIN graph : graph[n].kind = "output" => n \in Executable(graph)
  BY <1>2, <1>5
<1> QED BY <1>5, <1>6, <1>9, <1>10 DEF GraphFits

\* A graph for a message without attachments: a model, or a script where the message asks
\* for what no tool is shipped for.
LEMMA MessageFits ==
    ASSUME NEW m \in Message, ~m.attached, ~m.unsafe, graph = TaskGraph(m)
    PROVE  GraphFits(FALSE)
<1> DEFINE reqs == Requirements(m)
           steps == StepsOf(reqs)
<1>1. TaskKind(m) \in {"local_file", "script", "content"}
  BY DEF TaskKind
<1>2. \/ reqs = {Reasons}
      \/ \E cap \in {"file.inspect", "file.delete"}, risky \in BOOLEAN : reqs = {Scripted(cap, risky)}
  BY <1>1 DEF Requirements
<1>3. CASE reqs = {Reasons}
  <2>1. Reasons.model /\ Reasons.cap = Generic
    BY DEF Reasons, Requirement
  <2>2. Gaps(reqs) = {} /\ SelectedTools(reqs) = {} /\ {r \in reqs : r.model} = {Reasons}
    BY <1>3, <2>1 DEF Gaps, SelectedTools
  <2>3. DOMAIN steps = {NameOf("model-", Generic)} /\ steps[NameOf("model-", Generic)] = ModelStep
    BY <2>1, <2>2 DEF StepsOf
  <2>4. graph = Joined(PlanningNodes, Joined(steps, TaskOutput(DOMAIN steps)))
    BY <1>1, <2>2 DEF TaskGraph, HardGaps
  <2>5. /\ ModelStep.kind = "model" /\ ModelStep.tool = NoTool /\ ModelStep.ports = {}
        /\ ModelStep.react = NoReAct
    BY DEF ModelStep, Drawn
  <2>6. NameOf("model-", Generic) \in StepNames
    BY DEF StepNames
  <2> HIDE DEF steps
  <2> QED BY <2>3, <2>4, <2>5, <2>6, StepFits
<1>4. ASSUME NEW cap \in {"file.inspect", "file.delete"}, NEW risky \in BOOLEAN,
             reqs = {Scripted(cap, risky)}
      PROVE  GraphFits(FALSE)
  <2> DEFINE script == Scripted(cap, risky)
             name == NameOf("temporary-script-", cap)
  <2>1. ~script.model /\ script.script /\ script.cap = cap
    BY DEF Scripted, Requirement
  <2>2. Offers(cap) = {}
    BY ShippedOffers
  <2>3. /\ Gaps(reqs) = {script} /\ HardGaps(reqs) = {} /\ SelectedTools(reqs) = {}
        /\ {r \in reqs : r.model} = {}
    BY <1>4, <2>1, <2>2 DEF Gaps, HardGaps, SelectedTools
  <2>4. DOMAIN steps = {name} /\ steps[name] = ScriptStep(script)
    BY <2>1, <2>3 DEF StepsOf
  <2>5. graph = Joined(PlanningNodes, Joined(steps, TaskOutput(DOMAIN steps)))
    BY <1>1, <2>3 DEF TaskGraph
  <2>6. /\ ScriptStep(script).kind = "temporary_script" /\ ScriptStep(script).tool = NoTool
        /\ ScriptStep(script).ports = {} /\ ScriptStep(script).react = NoReAct
    BY DEF ScriptStep, Drawn
  <2>7. name \in StepNames
    BY DEF StepNames
  <2> HIDE DEF steps, name
  <2> QED BY <2>4, <2>5, <2>6, <2>7, StepFits
<1> QED BY <1>2, <1>3, <1>4

\* Every graph the task planner draws for a message it can serve.
LEMMA FeasibleFits ==
    ASSUME Tools = ShippedTools, NEW attached, <<graph, attached>> \in FeasibleGraphs
    PROVE  attached \in BOOLEAN /\ GraphFits(attached)
<1>1. PICK m \in Feasible : graph = TaskGraph(m) /\ attached = m.attached
  BY DEF FeasibleGraphs
<1>2. m \in Message /\ ~m.unsafe /\ (m.attached => m.converts) /\ m.attached \in BOOLEAN
  BY DEF Feasible, Message
<1>3. CASE m.attached
  <2>1. attached = TRUE
    BY <1>1, <1>2, <1>3
  <2> QED BY <1>1, <1>2, <1>3, <2>1, DocumentFits
<1>4. CASE ~m.attached
  <2>1. attached = FALSE
    BY <1>1, <1>2, <1>4
  <2> QED BY <1>1, <1>2, <1>4, <2>1, MessageFits
<1> QED BY <1>2, <1>3, <1>4

(***************************************************************************)
(* Runs of what it draws.                                                  *)
(***************************************************************************)

Drafted == \E attached : <<graph, attached>> \in FeasibleGraphs
\* What any run of such a graph has put out is what its nodes give; the node that is
\* running has waited for the nodes it depends on; a run takes nodes that can be run; and
\* only the end of a run leaves a cause that is the planner's fault.
OutputsFit ==
    Drafted => \A n \in DOMAIN outputs : graph[n].kind # "output" => outputs[n] = Gives(n)
HasWaited ==
    stage = "running" /\ node # NoNode =>
        Elements(graph[node].deps) \cap request.chosen \subseteq recorded
FitInv ==
    /\ cause \in PlannersFaults => stage = "failed"
    /\ request.chosen \subseteq Executable(graph)
    /\ OutputsFit /\ HasWaited /\ PlannedGraphsFit

\* What PlannedGraphsFit is about: a whole run of a graph of the task planner.
Whole ==
    /\ \E attached \in BOOLEAN :
          <<graph, attached>> \in FeasibleGraphs /\ (attached => request.attached > 0)
    /\ request.chosen = Executable(graph)

\* What a node gives and the work it takes depend on the graph alone, but for an output.
LEMMA GivesStays ==
    ASSUME graph' = graph, NEW n, graph[n].kind # "output"
    PROVE  Gives(n)' = Gives(n)
<1>1. WorkOf(n)' = WorkOf(n) /\ IsResearch(graph)' = IsResearch(graph)
  BY DEF WorkOf, IsResearch, IsBound, IsPlanned, HasTool
<1> QED BY <1>1 DEF Gives

LEMMA NotResearch ==
    ASSUME Tools = ShippedTools, Drafted
    PROVE  ~IsResearch(graph)
BY FeasibleFits DEF Drafted, GraphFits

\* The end of an attempt at a node keeps what the outputs hold.
LEMMA EndKeepsOutputs ==
    ASSUME Tools = ShippedTools, OutputsFit, UNCHANGED planVars, NEW out,
           Drafted => out \in {Gives(node), Gives(node) \ Demanded(node)}
                      \/ ~(Demanded(node) \subseteq out),
           EndNode(out)
    PROVE  OutputsFit'
<1>1. graph' = graph
  BY DEF planVars
<1>2. CASE Demanded(node) \subseteq out
  <2>1. outputs' = [n \in DOMAIN outputs \cup {node} |-> IF n = node THEN out ELSE outputs[n]]
    BY <1>2 DEF EndNode
  <2>2. SUFFICES ASSUME Drafted', NEW n \in DOMAIN outputs', graph'[n].kind # "output"
                 PROVE  outputs'[n] = Gives(n)'
    BY DEF OutputsFit
  <2>3. Drafted
    BY <1>1, <2>2 DEF Drafted
  <2>4. Gives(n)' = Gives(n) /\ graph[n].kind # "output"
    BY <1>1, <2>2, GivesStays
  <2>5. out = Gives(node)
    BY <1>2, <2>3
  <2>6. CASE n = node
    BY <2>1, <2>4, <2>5, <2>6
  <2>7. CASE n # node
    BY <2>1, <2>2, <2>3, <2>4, <2>7 DEF OutputsFit
  <2> QED BY <2>6, <2>7
<1>3. CASE ~(Demanded(node) \subseteq out)
  <2>1. outputs' = outputs
    BY <1>3 DEF EndNode
  <2> QED BY <1>1, <2>1, GivesStays DEF OutputsFit, Drafted
<1> QED BY <1>2, <1>3

\* In a whole run every node that was let in can start.
LEMMA NodesStart ==
    ASSUME Tools = ShippedTools, IInv, FitInv, Whole, stage = "running", node # NoNode
    PROVE  StartCause = NoCause
<1>1. PICK attached \in BOOLEAN :
          <<graph, attached>> \in FeasibleGraphs /\ (attached => request.attached > 0)
  BY DEF Whole
<1>2. GraphFits(attached) /\ Drafted
  BY <1>1, FeasibleFits DEF Drafted
<1>3. node \in Executable(graph) /\ request.chosen = Executable(graph)
  BY DEF IInv, RunInv, Whole
<1>4. NodeFits(node, attached) /\ ~IsResearch(graph)
  BY <1>2, <1>3 DEF GraphFits
<1>5. ASSUME NEW m \in Elements(graph[node].deps) \cap Executable(graph)
      PROVE  m \in DOMAIN outputs /\ m \in Inputs(node)
             /\ (graph[m].kind # "output" => outputs[m] = Gives(m))
  <2>1. m \in recorded
    BY <1>3, <1>5 DEF FitInv, HasWaited
  <2>2. m \in DOMAIN outputs
    BY <2>1 DEF IInv, TypeOK
  <2> QED BY <1>2, <1>5, <2>2 DEF FitInv, OutputsFit, Inputs
<1>6. ~MissingDependencies(node)
  BY <1>4, <1>5 DEF MissingDependencies, NodeFits
<1>7. UnsatisfiedPorts(node) = {}
  <2>1. SUFFICES ASSUME NEW type \in graph[node].ports
                 PROVE  \E out \in Seen(node) : Satisfies(out, type)
    BY DEF UnsatisfiedPorts
  <2>2. PICK m : Supplies(m, node) /\ Satisfies(Gives(m), type)
    BY <1>4 DEF NodeFits
  <2>3. m \in Inputs(node) /\ outputs[m] = Gives(m)
    BY <1>5, <2>2 DEF Supplies
  <2>4. outputs[m] \in Seen(node)
    BY <2>3 DEF Seen
  <2> QED BY <2>2, <2>3, <2>4
<1>8. WorkOf(node) \notin {"unsupported", "attachment"}
  BY <1>4 DEF NodeFits
<1>9. ASSUME WorkOf(node) = "tool" PROVE ~CannotRender(node)
  <2>1. attached => request.attached # 0
    BY <1>1 DEF IInv, TypeOK
  <2>2. Tools[graph[node].tool].attachments # "none" => request.attached # 0
    BY <1>4, <1>9, <2>1 DEF NodeFits
  <2>3. ASSUME NEW need \in Tools[graph[node].tool].needs PROVE ~Missing(node, need)
    <3>1. need.from # "first" /\ Supplies(need.from, node) /\ need.key \in Gives(need.from)
      BY <1>4, <1>9, <2>3 DEF NodeFits
    <3>2. need.from \in Inputs(node) /\ outputs[need.from] = Gives(need.from)
      BY <1>5, <3>1 DEF Supplies
    <3> QED BY <3>1, <3>2 DEF Missing, SourceOf
  <2> QED BY <2>2, <2>3 DEF CannotRender
<1> QED BY <1>6, <1>7, <1>8, <1>9 DEF StartCause

\* A step of a run keeps the invariant if its cause is not the planner's fault or the run is
\* no whole run.
LEMMA RunKeepsFit ==
    ASSUME FitInv, stage = "running", UNCHANGED planVars, request' = request,
           \/ cause' = cause /\ stage' \in {"running", "completed"}
           \/ stage' = "failed" /\ (cause' \notin PlannersFaults \/ ~Whole),
           OutputsFit', HasWaited'
    PROVE  FitInv'
<1>1. graph' = graph /\ request' = request
  BY DEF planVars
<1>2. request'.chosen \subseteq Executable(graph')
  BY <1>1 DEF FitInv
<1>3. cause \notin PlannersFaults
  BY DEF FitInv
<1>4. Whole' = Whole
  BY <1>1 DEF Whole, Executable, IsBound, IsPlanned, IsResearch, HasTool
<1>5. PlannedGraphsFit'
  BY <1>1, <1>3, <1>4 DEF PlannedGraphsFit, Whole
<1>6. Executable(graph)' = Executable(graph')
  BY DEF Executable, IsBound, IsPlanned, IsResearch, HasTool
<1> QED BY <1>2, <1>3, <1>5, <1>6 DEF FitInv

\* A step at the node that is running: its attempt ends, fails or goes on.
LEMMA AttemptKeepsFit ==
    ASSUME Tools = ShippedTools, IInv, FitInv, stage = "running", node # NoNode,
           UNCHANGED planVars, request' = request,
           \/ \E out : /\ EndNode(out)
                       /\ Drafted => out \in {Gives(node), Gives(node) \ Demanded(node)}
           \/ \E c : FailNode(c) /\ (c \notin PlannersFaults \/ ~Whole)
           \/ GoesOn
    PROVE  FitInv'
<1>1. graph' = graph /\ OutputsFit /\ HasWaited
  BY DEF planVars, FitInv
<1>2. ASSUME UNCHANGED outputs PROVE OutputsFit'
  BY <1>1, <1>2, GivesStays DEF OutputsFit, Drafted
<1>3. ASSUME node' \in {node, NoNode}, recorded \subseteq recorded' PROVE HasWaited'
  BY <1>1, <1>3 DEF HasWaited
<1>4. ASSUME NEW out, EndNode(out),
             Drafted => out \in {Gives(node), Gives(node) \ Demanded(node)}
      PROVE  FitInv'
  <2>1. OutputsFit'
    BY <1>1, <1>4, EndKeepsOutputs
  <2>2. node' \in {node, NoNode} /\ recorded \subseteq recorded'
    BY <1>4 DEF EndNode
  <2>3. \/ cause' = cause /\ stage' = stage
        \/ stage' = "failed" /\ cause' = "empty_node_output"
    BY <1>4 DEF EndNode, Ends
  <2>4. "empty_node_output" \notin PlannersFaults
    BY DEF PlannersFaults
  <2> QED BY <1>3, <2>1, <2>2, <2>3, <2>4, RunKeepsFit
<1>5. ASSUME NEW c, FailNode(c), c \notin PlannersFaults \/ ~Whole PROVE FitInv'
  <2>1. stage' = "failed" /\ cause' = c /\ UNCHANGED <<outputs, recorded, node>>
    BY <1>5 DEF FailNode, Ends
  <2> QED BY <1>2, <1>3, <1>5, <2>1, RunKeepsFit
<1>6. ASSUME GoesOn PROVE FitInv'
  <2>1. stage' = stage /\ cause' = cause /\ UNCHANGED <<outputs, recorded, node>>
    BY <1>6 DEF GoesOn
  <2> QED BY <1>2, <1>3, <2>1, RunKeepsFit
<1> QED BY <1>4, <1>5, <1>6

LEMMA EnterNodeKeepsFit ==
    ASSUME FitInv, NEW n \in DOMAIN graph, EnterNode(n)
    PROVE  FitInv'
<1>1. /\ stage = "running" /\ node = NoNode /\ node' = n
      /\ Elements(graph[n].deps) \cap request.chosen \subseteq recorded
      /\ UNCHANGED <<plan, origin, graph, request, outputs, recorded>> /\ UNCHANGED planVars
  BY DEF EnterNode, IsNext, planVars
<1>2. HasWaited'
  BY <1>1 DEF HasWaited
<1>3. OutputsFit'
  BY <1>1, GivesStays DEF FitInv, OutputsFit, Drafted
<1>4. \/ cause' = cause /\ stage' = "running"
      \/ stage' = "failed" /\ cause' = "permission_required"
  BY <1>1 DEF EnterNode, Ends
<1>5. "permission_required" \notin PlannersFaults
  BY DEF PlannersFaults
<1> QED BY <1>1, <1>2, <1>3, <1>4, <1>5, RunKeepsFit

LEMMA StartNodeKeepsFit ==
    ASSUME Tools = ShippedTools, IInv, FitInv, StartNode
    PROVE  FitInv'
<1>1. stage = "running" /\ node # NoNode /\ UNCHANGED planVars /\ request' = request
  BY DEF StartNode, Running, Idle
<1>2. Drafted => WorkOf(node) # "attachment"
  <2>1. SUFFICES ASSUME Drafted PROVE WorkOf(node) # "attachment"
    OBVIOUS
  <2>2. PICK attached : GraphFits(attached)
    BY <2>1, FeasibleFits DEF Drafted
  <2>3. node \in Executable(graph)
    BY <1>1 DEF IInv, RunInv, FitInv
  <2> QED BY <2>2, <2>3 DEF GraphFits, NodeFits
<1>3. StartCause # NoCause => ~Whole
  BY <1>1, NodesStart
<1>4. \/ FailNode(StartCause) /\ StartCause # NoCause
      \/ EndNode(Gives(node))
      \/ EndNode({}) /\ WorkOf(node) = "attachment"
      \/ GoesOn
  BY DEF StartNode
<1> QED BY <1>1, <1>2, <1>3, <1>4, AttemptKeepsFit

\* Refusals by the authority or by a policy are not the planner's fault.
LEMMA RefusalsAreNoFault ==
    /\ \A tool, asks, inside : Verdict(tool, asks, inside) \notin PlannersFaults
    /\ \A policy, tool : PolicyError(policy, tool) \notin PlannersFaults
BY DEF Verdict, AuthorityCode, PolicyError, NoCause, PlannersFaults

LEMMA WorkKeepsFit ==
    ASSUME Tools = ShippedTools, IInv, FitInv, CallTool \/ Answer \/ Think
    PROVE  FitInv'
<1>1. stage = "running" /\ node # NoNode /\ UNCHANGED planVars /\ request' = request
  BY DEF CallTool, Answer, Think, Running, Idle
<1>2. {"tool_failed", "node_failed", "step_budget_exceeded", "runtime_budget_exceeded",
       "malformed_action"} \cap PlannersFaults = {}
  BY DEF PlannersFaults
<1>3. CASE CallTool
  BY <1>1, <1>2, <1>3, RefusalsAreNoFault, AttemptKeepsFit DEF CallTool
<1>4. CASE Answer
  BY <1>1, <1>2, <1>4, AttemptKeepsFit DEF Answer
<1>5. CASE Think
  BY <1>1, <1>2, <1>5, AttemptKeepsFit DEF Think
<1> QED BY <1>3, <1>4, <1>5

LEMMA ActKeepsFit ==
    ASSUME Tools = ShippedTools, IInv, FitInv, NEW tool, NEW inside, Act(tool, inside)
    PROVE  FitInv'
<1>1. stage = "running" /\ node # NoNode /\ UNCHANGED planVars /\ request' = request
  BY DEF Act, Running, Idle
<1>2. (\E c : FailNode(c) /\ c \notin PlannersFaults) \/ GoesOn
  BY RefusalsAreNoFault DEF Act
<1> QED BY <1>1, <1>2, AttemptKeepsFit

\* No graph of the task planner has a search.
LEMMA SearchKeepsFit ==
    ASSUME Tools = ShippedTools, IInv, FitInv, Search
    PROVE  FitInv'
<1>1. /\ stage = "running" /\ node # NoNode /\ UNCHANGED planVars /\ request' = request
      /\ work.kind = "search" /\ WorkOf(node) = "search"
  BY DEF Search, Running, Idle, IInv, RunInv
<1>2. ~Drafted
  <2>1. SUFFICES ASSUME Drafted PROVE FALSE
    OBVIOUS
  <2>2. DocumentWork(node) # "search"
    BY DEF DocumentWork, DocumentNames
  <2> QED BY <1>1, <2>1, <2>2, NotResearch DEF WorkOf
<1>3. ~Drafted'
  BY <1>1, <1>2 DEF Drafted, planVars
<1>4. "web_search_failed" \notin PlannersFaults
  BY DEF PlannersFaults
<1>5. CASE EndNode(Gives(node)) \/ GoesOn
  BY <1>1, <1>5, AttemptKeepsFit
<1>6. CASE Ends("web_search_failed")
  <2>1. OutputsFit' /\ HasWaited'
    BY <1>3, <1>6 DEF OutputsFit, HasWaited, Ends
  <2> QED BY <1>1, <1>4, <1>6, <2>1, RunKeepsFit DEF Ends
<1> QED BY <1>5, <1>6 DEF Search

\* A whole run that ends has the output of every output node.
LEMMA FinishRunKeepsFit ==
    ASSUME Tools = ShippedTools, IInv, FitInv, FinishRun
    PROVE  FitInv'
<1>1. /\ stage = "running" /\ node = NoNode /\ request.chosen \subseteq recorded
      /\ UNCHANGED planVars /\ request' = request /\ UNCHANGED <<graph, outputs, node>>
  BY DEF FinishRun, planVars, runVars
<1>2. Whole => \A n \in DOMAIN graph : graph[n].kind = "output" => n \in DOMAIN outputs
  <2>1. SUFFICES ASSUME Whole, NEW n \in DOMAIN graph, graph[n].kind = "output"
                 PROVE  n \in DOMAIN outputs
    OBVIOUS
  <2>2. PICK attached : GraphFits(attached)
    BY <2>1, FeasibleFits DEF Whole
  <2>3. n \in recorded
    BY <1>1, <2>1, <2>2 DEF GraphFits, Whole
  <2> QED BY <2>3 DEF IInv, TypeOK
<1>3. \/ cause' = cause /\ stage' = "completed"
      \/ stage' = "failed" /\ ~Whole
  BY <1>2 DEF FinishRun, Ends
<1>4. OutputsFit' /\ HasWaited'
  BY <1>1, GivesStays DEF FitInv, OutputsFit, HasWaited, Drafted
<1> QED BY <1>1, <1>3, <1>4, RunKeepsFit

\* A run that starts or is taken up.
LEMMA StartsKeepsFit ==
    ASSUME Tools = ShippedTools, IInv, FitInv, NEW a, NEW k, NEW selected,
           Starts(a, k, selected), DOMAIN outputs' \subseteq DOMAIN outputs,
           \A n \in DOMAIN outputs' : outputs'[n] = outputs[n]
    PROVE  FitInv'
<1> DEFINE chosen == selected \cap Executable(graph)
<1>1. /\ request' = [approved |-> a, attached |-> k, chosen |-> chosen]
      /\ node' = NoNode /\ graph' = graph
      /\ \/ stage' = "running" /\ cause' = NoCause
         \/ stage' = "failed" /\ cause' = "permission_required"
         \/ stage' = "failed" /\ cause' = "unsupported_tool" /\ ~ToolsKnown(graph)
  BY DEF Starts, planVars, Ends
<1>2. Executable(graph)' = Executable(graph)
  BY <1>1 DEF Executable, IsBound, IsPlanned, IsResearch, HasTool
<1>3. request'.chosen \subseteq Executable(graph)'
  BY <1>1, <1>2
<1>4. OutputsFit' /\ HasWaited'
  BY <1>1, GivesStays DEF FitInv, OutputsFit, HasWaited, Drafted
<1>5. NoCause \notin PlannersFaults /\ "permission_required" \notin PlannersFaults
  BY DEF NoCause, PlannersFaults
<1>6. ASSUME Whole' PROVE ToolsKnown(graph)
  <2>1. PICK attached : GraphFits(attached)
    BY <1>1, <1>6, FeasibleFits DEF Whole
  <2> QED BY <2>1 DEF GraphFits
<1>7. PlannedGraphsFit'
  BY <1>1, <1>5, <1>6 DEF PlannedGraphsFit, Whole
<1> QED BY <1>1, <1>3, <1>4, <1>5, <1>7 DEF FitInv

LEMMA RetryKeepsFit ==
    ASSUME Tools = ShippedTools, IInv, FitInv,
           RetryFailed \/ \E a \in Approvals, k \in 0..MaxAttached : StartRun(a, k)
    PROVE  FitInv'
<1>1. DOMAIN outputs' \subseteq DOMAIN outputs /\ \A n \in DOMAIN outputs' : outputs'[n] = outputs[n]
  BY DEF RetryFailed, StartRun, NoOutputs
<1> QED BY <1>1, StartsKeepsFit DEF RetryFailed, StartRun

\* Before the first run nothing has been put out.
LEMMA BeforeKeepsFit ==
    ASSUME IInv, FitInv, stage \in NotRun, stage' \in NotRun, UNCHANGED runVars,
           cause' \notin PlannersFaults
    PROVE  FitInv'
<1>1. request' = NoRequest /\ outputs' = NoOutputs /\ node' = NoNode
  BY BeforeRuns
<1>2. OutputsFit' /\ HasWaited' /\ PlannedGraphsFit'
  BY <1>1 DEF OutputsFit, HasWaited, PlannedGraphsFit, NoOutputs
<1> QED BY <1>1, <1>2 DEF FitInv, NoRequest

LEMMA NextKeepsFit ==
    ASSUME Tools = ShippedTools, IInv, FitInv, [Next]_vars
    PROVE  FitInv'
<1>1. CASE stage \in NotRun /\ stage' \in NotRun /\ UNCHANGED runVars
           /\ cause' \in {cause, NoCause, "unresolved", "compile_failed"}
  <2>1. cause \notin PlannersFaults
    BY <1>1 DEF FitInv, NotRun
  <2>2. cause' \notin PlannersFaults
    BY <1>1, <2>1 DEF NoCause, PlannersFaults
  <2> QED BY <1>1, <2>2, BeforeKeepsFit
<1>2. CASE \E p \in Plans, web, missing \in BOOLEAN : DraftPlan(p, web, missing)
  <2>1. stage \in NotRun /\ stage' \in NotRun /\ UNCHANGED runVars /\ cause' = cause
    BY <1>2 DEF DraftPlan, NotRun
  <2> QED BY <1>1, <2>1
<1>3. CASE ReviewPlan \/ CompilePlan \/ ConfirmPlan \/ RevisePlan
  <2>1. stage \in NotRun /\ stage' \in NotRun /\ UNCHANGED runVars
        /\ cause' \in {cause, NoCause, "unresolved", "compile_failed"}
    BY <1>3 DEF ReviewPlan, CompilePlan, ConfirmPlan, RevisePlan, NotRun
  <2> QED BY <1>1, <2>1
<1>4. CASE \E g \in SavedGraphs : OpenSaved(g)
  <2>1. stage \in NotRun /\ stage' \in NotRun /\ UNCHANGED runVars /\ cause' = cause
    BY <1>4 DEF OpenSaved, NotRun
  <2> QED BY <1>1, <2>1
<1>5. CASE (\E a \in Approvals, k \in 0..MaxAttached : StartRun(a, k)) \/ RetryFailed
  BY <1>5, RetryKeepsFit
<1>6. CASE RunStep
  BY <1>6, EnterNodeKeepsFit, StartNodeKeepsFit, WorkKeepsFit, SearchKeepsFit, ActKeepsFit,
     FinishRunKeepsFit DEF RunStep
<1>7. CASE UNCHANGED vars
  <2>1. Executable(graph)' = Executable(graph) /\ graph' = graph
    BY <1>7 DEF vars, Executable, IsBound, IsPlanned, IsResearch, HasTool
  <2>2. PlannedGraphsFit'
    BY <1>7, <2>1 DEF vars, FitInv, PlannedGraphsFit
  <2>3. OutputsFit' /\ HasWaited'
    BY <1>7, <2>1, GivesStays DEF vars, FitInv, OutputsFit, HasWaited, Drafted
  <2> QED BY <1>7, <2>1, <2>2, <2>3 DEF vars, FitInv
<1> QED BY <1>2, <1>3, <1>4, <1>5, <1>6, <1>7 DEF Next

\* What the task planner draws for a message it can serve, a run with the message's
\* attachments can do, however often it is run and retried and whichever nodes ran before:
\* with the shipped tools no node of it lacks its tool, its dependencies, its ports or its
\* arguments, and no output is missing at the end (task_planner.py, execution_graph.py,
\* execution.py).
THEOREM PlannedGraphsAlwaysFit ==
    ASSUME Tools = ShippedTools
    PROVE  Spec => []PlannedGraphsFit
<1>1. Init => FitInv
  BY DEF Init, FitInv, OutputsFit, HasWaited, PlannedGraphsFit, NoOutputs, NoRequest, NoCause,
         PlannersFaults
<1>2. IInv /\ FitInv /\ [Next]_vars => FitInv'
  BY NextKeepsFit
<1>3. FitInv => PlannedGraphsFit
  BY DEF FitInv
<1> QED BY <1>1, <1>2, <1>3, Inductive, PTL DEF Spec
=============================================================================
