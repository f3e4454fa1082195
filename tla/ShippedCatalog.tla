---------------------------- MODULE ShippedCatalog ----------------------------
(***************************************************************************)
(* The tools and the catalog the program ships: the manifests under        *)
(* tool-packages and the virtual system tools (tool_registry.py), what the *)
(* executor fills their arguments with (execution_graph.py), what their    *)
(* adapters return (tool_execution.py), and the catalog nodes built from   *)
(* them (node_catalog.py).                                                 *)
(***************************************************************************)
EXTENDS NodeCatalog
LOCAL INSTANCE SequencesExt

Manifest(id, virtual, caps, perms) ==
    [id |-> id, virtual |-> virtual, runtime |-> TRUE, caps |-> caps, perms |-> perms,
     network |-> "network" \in perms]
Converts == {"read_project_files", "write_project_outputs", "run_python_plugin"}

\* ToolRegistry.from_packages_root: the packages in the order of their directories, then
\* the virtual tools.
Packages ==
    << Manifest("document.read_write", FALSE, {}, Converts),
       Manifest("document.markitdown_convert", FALSE, {"document.convert.markdown"}, Converts),
       Manifest("test.echo", FALSE, {"test.echo"}, {}),
       Manifest("document.typst_compile", FALSE, {"document.render.typst_pdf"},
                {"write_project_outputs", "run_local_cli"}) >>
VirtualTools ==
    << Manifest("document.receive_attachment", TRUE, {"document_input"}, {"read_project_files"}),
       Manifest("web.search.parallel", TRUE, {"web_search", "research.web_search"}, {"network"}),
       Manifest("web.fetch.sources", TRUE, {"web_fetch", "research.web_fetch"}, {"network"}) >>
Manifests == Packages \o VirtualTools
ManifestIds == {Manifests[i].id : i \in DOMAIN Manifests}
ManifestOf(t) == Manifests[CHOOSE i \in DOMAIN Manifests : Manifests[i].id = t]

\* The attachments an argument template takes: their paths in one call, or one call each.
AttachmentsOf(t) ==
    CASE t = "document.receive_attachment" -> "all"
      [] t = "document.markitdown_convert" -> "each"
      [] OTHER -> "none"

\* The outputs an argument is mapped from.  Placeholders nothing fills stay as they are.
NeedsOf(t) ==
    CASE t = "document.typst_compile" -> {[from |-> "content-organize", key |-> "outline"],
                                          [from |-> "report-generate", key |-> "report"]}
      [] t = "web.fetch.sources" -> {[from |-> "first", key |-> "results"]}
      [] OTHER -> {}

\* The keys of a tool's output that have a value.  A call of document.read_write names no
\* operation and never returns one.
GivesOf(t) ==
    CASE t = "document.receive_attachment" -> {"paths"}
      [] t = "document.markitdown_convert" -> {"text", "artifact", "artifacts"}
      [] t = "document.typst_compile" -> {"source", "artifact", "artifacts"}
      [] t = "test.echo" -> {"echo", "source_text", "metadata_value"}
      [] t = "web.search.parallel" -> {"query", "results"}
      [] t = "web.fetch.sources" -> {"sources", "text"}
      [] OTHER -> {}

ShippedTools ==
    [t \in ManifestIds |->
        [perms |-> ManifestOf(t).perms, network |-> ManifestOf(t).network,
         attachments |-> AttachmentsOf(t), needs |-> NeedsOf(t), gives |-> GivesOf(t)]]

----------------------------------------------------------------------------
(* The catalog.                                                            *)

\* _permissions_from_tool.
RiskOf(perms) ==
    IF perms \cap {"run_local_cli", "run_python_plugin", "call_external_mcp_tool"} # {} THEN 2
    ELSE IF perms \cap {"read_project_files", "write_project_outputs", "network"} # {} THEN 1
    ELSE 0

ToolNode(manifest, id, caps, port, available) ==
    [id |-> id, caps |-> caps, kind |-> "tool", tool |-> manifest.id,
     perms |-> manifest.perms, ports |-> {port}, risk |-> RiskOf(manifest.perms),
     available |-> available]

\* _nodes_from_tool_manifest: the nodes of document.read_write cannot run, and a manifest
\* it does not know gets no node.
NodesOf(manifest) ==
    CASE manifest.id = "document.read_write" ->
            << ToolNode(manifest, "document.read", {"document.read", "document.read_write"},
                        "document", FALSE),
               ToolNode(manifest, "document.write_markdown",
                        {"document.write", "document.write_markdown"}, "markdown", FALSE),
               ToolNode(manifest, "document.write_docx",
                        {"document.write", "document.write_docx"}, "markdown", FALSE) >>
      [] manifest.id = "document.markitdown_convert" ->
            << ToolNode(manifest, "document.convert.markdown",
                        {"document.convert", "document.convert.markdown",
                         "document.markitdown_convert"}, "document", TRUE) >>
      [] manifest.id = "document.typst_compile" ->
            << ToolNode(manifest, "document.render.typst_pdf",
                        {"document.render", "document.render_pdf", "document.render.typst_pdf",
                         "document.typst_compile"}, "markdown", TRUE) >>
      [] OTHER -> << >>

SystemNode(id, kind, port) ==
    [id |-> id, caps |-> {id}, kind |-> kind, tool |-> NoTool, perms |-> {},
     ports |-> {port} \ {"none"}, risk |-> 0, available |-> TRUE]
ModelNode(id, port) == SystemNode(id, "model", port)
\* A node no executor can run yet.
NotRunnable(id, kind, port) == [SystemNode(id, kind, port) EXCEPT !.available = FALSE]

ReasoningNodes ==
    << ModelNode("model.reasoning", "none"), ModelNode("document.summarize", "document") >>
WebSearchNode ==
    ToolNode(ManifestOf("web.search.parallel"), "web.search.parallel",
             {"web.search", "web.search.parallel", "web_search", "research.web_search"},
             "json", TRUE)
WebFetchNode ==
    ToolNode(ManifestOf("web.fetch.sources"), "web.fetch.sources",
             {"web.fetch", "web.fetch.sources", "source.fetch", "research.source_fetch"},
             "json", TRUE)
ClosingNodes ==
    << ModelNode("research.synthesize", "json"),
       NotRunnable("human.clarify", "human", "text"),
       NotRunnable("verify.artifact_exists", "verifier", "artifact"),
       SystemNode("output.final_response", "output", "markdown") >>
SystemNodes == ReasoningNodes \o << WebSearchNode, WebFetchNode >> \o ClosingNodes

\* Of the elements with one key the first.
Firsts(seq, key(_)) ==
    LET take(kept, x) ==
            IF \E i \in DOMAIN kept : key(kept[i]) = key(x) THEN kept ELSE Append(kept, x)
    IN FoldLeft(take, << >>, seq)
IdOf(x) == x.id
\* _deduplicate_nodes.
Deduplicated(nodes) == Firsts(nodes, IdOf)

\* NodeCatalogBuilder.build.
BuiltCatalog ==
    Deduplicated(FlattenSeq([i \in DOMAIN Manifests |-> NodesOf(Manifests[i])]) \o SystemNodes)
=============================================================================
