---------------------------- MODULE MCPlanToTools ----------------------------
(***************************************************************************)
(* PlanToTools with the shipped catalog and tools, a family of plans, the  *)
(* graphs the planners draw for a family of messages, and four graphs of   *)
(* saved projects.                                                         *)
(***************************************************************************)
EXTENDS Planners

MCPermissions ==
    {"read_project_files", "write_project_outputs", "write_project_artifact",
     "read_attachment", "run_python_plugin", "run_local_cli", "network",
     "call_external_mcp_tool"}
MCSensitive == {"network", "run_local_cli", "run_python_plugin", "call_external_mcp_tool"}
MCDefaultAllowed == {"read_attachment", "read_project_files", "write_project_artifact"}
MCWebNames == {"web.search.parallel", "web.fetch.sources", "web.search", "web.fetch"}
MCResearchNames == ResearchFlow \cup {"research-notes"}

S(id, caps, deps) == [id |-> id, caps |-> caps, prefs |-> <<>>, deps |-> deps, checked |-> TRUE]
R1 == {"model.reasoning"}
Notes == S("notes", R1, <<>>)
Organize == S("content-organize", R1, <<>>)
Report == S("report-generate", R1, <<"content-organize">>)
Pdf == S("pdf", {"document.render"} \cup R1, <<"content-organize", "report-generate">>)
Search1(deps) == S("search", {"web.search"}, deps)
Fetch == S("fetch", {"web.fetch"}, <<"search">>)
Reply(dep) == S("answer", {"output.final_response"}, <<dep>>)
MCPlans ==
    { {}, {Notes}, {S("notes", {}, <<>>)}, {[Notes EXCEPT !.checked = FALSE]},
      {[Notes EXCEPT !.prefs = <<"web.search.parallel">>]},
      {[Search1(<<>>) EXCEPT !.prefs = <<"web.fetch.sources", "web.search.parallel">>]},
      {S("research-notes", R1, <<>>)}, {Organize}, {Organize, Report}, {Notes, Organize},
      {Organize, Report, Pdf}, {Organize, Report, Pdf, Reply("pdf")},
      {Organize, Report, Pdf, S("convert", {"document.convert"}, <<"pdf">>)},
      {Notes, S("pdf", {"document.render"}, <<"notes">>)},
      {S("convert", {"document.convert"}, <<>>)},
      {Search1(<<>>)}, {Notes, Search1(<<"notes">>), Fetch}, {Search1(<<>>), Fetch},
      {Notes, Reply("notes")}, {S("ask", {"human.clarify"}, <<>>)},
      {S("look", {"no.such.node"}, <<>>)}, {S("look", {"web.search", "web.fetch"}, <<>>)},
      {Reply("answer")}, {Reply("notes")}, {Notes, S("notes", R1, <<"notes">>)} }

\* Messages, by the word lists they hit.
Says(words) ==
    [attached |-> "attached" \in words, unsafe |-> "unsafe" \in words,
     converts |-> words \cap {"converts", "renders"} # {}, renders |-> "renders" \in words,
     inspects |-> "inspects" \in words, deletes |-> "deletes" \in words,
     acts |-> "acts" \in words, refers |-> "refers" \in words, web |-> "web" \in words,
     searches |-> FALSE]
MCMessages ==
    {Says(words) : words \in {{}, {"unsafe"}, {"inspects"}, {"deletes"}, {"attached"},
                              {"attached", "converts"}, {"attached", "renders"}}}

\* Requests to the chain of planners.
Asks(words, task, named) ==
    [message |-> Says(words), isTask |-> TRUE, task |-> task, missing |-> FALSE,
     candidates |-> {}, asks |-> {}, named |-> named, operation |-> TRUE, explicit |-> TRUE,
     markdownOnly |-> FALSE]
Markitdown == "document.markitdown_convert"
MCRequests ==
    { Asks({"attached", "renders", "acts"}, "document_processing", << >>),
      Asks({"acts", "refers"}, "document_processing", << >>),
      Asks({"attached", "converts"}, "document_processing", <<"test.echo", Markitdown>>),
      Asks({"attached"}, "chat", <<"document.typst_compile", Markitdown, "test.echo">>),
      Asks({}, "research", <<"web.fetch.sources", "web.search.parallel">>),
      Asks({}, "chat", <<"document.read_write">>),
      [Asks({"attached", "converts"}, "document_processing", << >>)
          EXCEPT !.markdownOnly = TRUE],
      [Asks({}, "chat", <<"web.fetch.sources">>)
          EXCEPT !.candidates = {"document.receive_attachment", Markitdown, "test.echo"},
                 !.asks = {"read_project_files", "network"}] }

Loop(native) == [on |-> TRUE, native |-> native, steps |-> 3, calls |-> 2,
                 tools |-> {Markitdown, "web.search.parallel"},
                 perms |-> {"read_project_files", "write_project_outputs",
                            "run_python_plugin", "network"}]
ReasonGraph(native) ==
    [n \in {"execution-order-planning", "reasoning"} |->
        IF n = "reasoning"
        THEN [Drawn("model", NoTool, {}, <<"execution-order-planning">>) EXCEPT !.react = Loop(native)]
        ELSE Done(Drawn("planning", NoTool, {}, << >>))]
GoneTool == [n \in {"lookup"} |-> Drawn("fixed_tool", UnknownTool, {}, <<>>)]
\* A graph whose tool node does not say which permissions it needs.
BareGraph ==
    [n \in {"export", "answer"} |->
        IF n = "export" THEN Drawn("fixed_tool", Markitdown, {}, <<>>)
                        ELSE Drawn("output", NoTool, {"text"}, <<"export">>)]
MCSavedGraphs ==
    {TaskGraph(m) : m \in MCMessages} \cup ({PlanOf(r).graph : r \in MCRequests} \ {Refused.graph})
    \cup {ResearchGraph, BareGraph, ReasonGraph(TRUE), ReasonGraph(FALSE), GoneTool}

Local == {"write_project_outputs", "run_python_plugin", "run_local_cli"}
MCApprovals == {{}, {"write_project_outputs"}, Local, Local \cup {"network"}}
=============================================================================
