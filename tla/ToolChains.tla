------------------------------ MODULE ToolChains ------------------------------
(***************************************************************************)
(* The tool catalog planner (tool_catalog_planner.py): the tools a message *)
(* names are put in a row in which each takes its missing arguments from   *)
(* the outputs of the ones before, by the types of the ports               *)
(* (tool_ports.py).                                                        *)
(***************************************************************************)
EXTENDS ShippedCatalog
LOCAL INSTANCE SequencesExt

MaxToolNodes == 5

\* The required arguments of a tool but its operation, in order, and the properties of its
\* output: names with their JSON types.
Text(name) == [name |-> name, type |-> "string"]
List(name) == [name |-> name, type |-> "array"]
ArgumentsOf(t) ==
    CASE t = "document.read_write" -> << List("input_paths"), Text("output_path") >>
      [] t = "document.markitdown_convert" -> << Text("input_path"), Text("output_path") >>
      [] t = "test.echo" -> << Text("message"), Text("source_text"), Text("metadata_value") >>
      [] t = "document.typst_compile" ->
            << Text("title"), Text("outline"), Text("report"), Text("source_output_path"),
               Text("pdf_output_path") >>
      [] t = "web.search.parallel" -> << Text("query") >>
      [] t = "web.fetch.sources" -> << List("sources") >>
      [] OTHER -> << >>
ResultsOf(t) ==
    CASE t = "document.read_write" -> {List("artifacts"), Text("text")}
      [] t = "document.markitdown_convert" -> {Text("text"), List("artifacts")}
      [] t = "test.echo" -> {Text("echo"), Text("source_text"), Text("metadata_value")}
      [] t = "document.typst_compile" -> {Text("source"), Text("artifact"), List("artifacts")}
      [] t = "web.search.parallel" ->
            {Text("query"), List("queries"), List("results"), List("acceptedSources"),
             List("failures")}
      [] t = "web.fetch.sources" ->
            {List("sources"), List("sourceContents"), List("failedSourceReads"), Text("text")}
      [] OTHER -> {}

\* The input ports of a manifest's node template.
TemplatePorts(t) ==
    CASE t = "document.markitdown_convert" -> {"document"}
      [] t = "document.typst_compile" -> {"json", "text"}
      [] t = "test.echo" -> {"text"}
      [] OTHER -> {}

\* port_type_for_schema: the name decides before the JSON type does.
TextNames == {"content", "input", "message", "outline", "query", "report", "source_text",
              "text", "title"}
ArtifactNames == {"artifact", "artifacts", "artifact_path", "output_path", "source",
                  "source_output_path"}
PortType(p) ==
    CASE p.name \in {"pdf", "pdf_output_path"} -> "pdf"
      [] p.name = "input_paths" -> "file_paths"
      [] p.name = "input_path" -> "file_path"
      [] p.name \in ArtifactNames -> "artifact_path"
      [] p.name \in TextNames -> "text"
      [] OTHER -> IF p.type = "array" THEN "json" ELSE "text"

\* compatible_port_types.
Compatible(out, in) ==
    \/ in \in {out, "json"}
    \/ in = "file_path" /\ out \in {"artifact_path", "pdf"}
    \/ in = "artifact_path" /\ out = "pdf"
    \/ in = "text" /\ out = "url"

\* _argument_values_for_tool: what neither the message, an attachment nor a default gives.
ChainText == {"content", "outline", "report", "source_text", "text", "input"}
Unfilled(t, attached) ==
    {p \in ToSet(ArgumentsOf(t)) :
        p.name \in {"outline", "report", "sources"} \/ (p.name = "input_path" /\ ~attached)}

----------------------------------------------------------------------------
(* A row of tools.                                                         *)

\* _compatible_source_for_argument: the latest tool of the row with an output that fits.
Fitting(argument, row) ==
    {k \in DOMAIN row : \E out \in ResultsOf(row[k]) : Compatible(PortType(out), PortType(argument))}
Latest(S) == CHOOSE m \in S : \A k \in S : k <= m

\* _dependency_binding_for_plan: an argument without a value must find a source, one that
\* takes text from the message gives way to one.  A tool that takes nothing stays out.
Bindable(t, row, attached) ==
    SelectSeq(ArgumentsOf(t),
              LAMBDA p : /\ p \in Unfilled(t, attached) \/ p.name \in ChainText
                         /\ Fitting(p, row) # {})
Same(x) == x
SourcesOf(t, row, attached) ==
    Firsts([i \in DOMAIN Bindable(t, row, attached) |->
               row[Latest(Fitting(Bindable(t, row, attached)[i], row))]], Same)
Binds(t, row, attached) ==
    /\ Unfilled(t, attached) \subseteq ToSet(Bindable(t, row, attached))
    /\ Bindable(t, row, attached) # << >>

\* _best_tool_graph and _extend_tool_graph: the longest row, of those the search finds
\* first, which goes through the tools in the order the message names them.
Before(row, k) == SubSeq(row, 1, k - 1)
IsRow(row, attached) ==
    /\ Unfilled(row[1], attached) = {}
    /\ \A k \in 2..Len(row) : Binds(row[k], Before(row, k), attached)
Orders(n) ==
    {o \in UNION {[1..k -> 1..n] : k \in 1..n} :
        \A i, j \in DOMAIN o : o[i] = o[j] => i = j}
Precedes(a, b) ==
    \/ Len(a) > Len(b)
    \/ /\ Len(a) = Len(b)
       /\ \E k \in DOMAIN a : a[k] < b[k] /\ \A i \in 1..(k - 1) : a[i] = b[i]
Picked(tools, o) == [k \in DOMAIN o |-> tools[o[k]]]
BestRow(tools, attached) ==
    LET rows == {o \in Orders(Len(tools)) : IsRow(Picked(tools, o), attached)}
    IN IF rows = {} THEN << >>
       ELSE Picked(tools, CHOOSE o \in rows : \A other \in rows \ {o} : Precedes(o, other))

\* ToolCatalogPlanner.plan: of the tools a message names, in order, the first five that
\* have an operation; one of document.read_write's must be named with it.
WithOperation(named, operation) ==
    SelectSeq(SubSeq(named, 1, IF Len(named) < MaxToolNodes THEN Len(named) ELSE MaxToolNodes),
              LAMBDA t : t # "document.read_write" \/ operation)
CatalogRow(named, operation, attached) == BestRow(WithOperation(named, operation), attached)
=============================================================================
