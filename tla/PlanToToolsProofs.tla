-------------------------- MODULE PlanToToolsProofs --------------------------
(***************************************************************************)
(* Proofs about PlanToTools.                                               *)
(***************************************************************************)
EXTENDS PlanToTools, TLAPS, FiniteSetTheorems, WellFoundedInduction

(***************************************************************************)
(* The resolver.                                                           *)
(***************************************************************************)

\* A set of numbers that is not empty has a least one.
LEMMA LeastExists ==
    ASSUME NEW S, S \subseteq Nat, S # {}
    PROVE  Least(S) \in S /\ \A k \in S : Least(S) <= k
<1> DEFINE Below == {1..m : m \in S}
<1>1. Below \subseteq FiniteSubsetsOf(Nat)
  <2>1. SUFFICES ASSUME NEW m \in S PROVE 1..m \in FiniteSubsetsOf(Nat)
    OBVIOUS
  <2>2. m \in Nat /\ IsFiniteSet(1..m)
    BY FS_Interval
  <2> QED BY <2>2 DEF FiniteSubsetsOf
<1>2. PICK x \in Below : \A y \in Below : ~(<<y, x>> \in StrictSubsetOrdering(Nat))
  <2>1. IsWellFoundedOn(StrictSubsetOrdering(Nat), FiniteSubsetsOf(Nat))
    BY FS_StrictSubsetOrderingWellFounded
  <2>2. Below # {}
    OBVIOUS
  <2> HIDE DEF Below
  <2> QED BY <1>1, <2>1, <2>2, WFMin
<1>3. PICK m \in S : x = 1..m
  OBVIOUS
<1>4. ASSUME NEW k \in S PROVE m <= k
  <2>1. ~(<<1..k, 1..m>> \in StrictSubsetOrdering(Nat))
    BY <1>2, <1>3
  <2>2. m \in Nat /\ k \in Nat
    OBVIOUS
  <2>3. SUFFICES ASSUME k < m PROVE FALSE
    BY <2>2
  <2>4. 1..k \subseteq 1..m /\ m \in 1..m /\ m \notin 1..k
    BY <2>2, <2>3
  <2> QED BY <2>1, <2>2, <2>4 DEF StrictSubsetOrdering
<1> QED BY <1>4 DEF Least

\* An entry of the catalog, component by component.
LEMMA CatalogEntries ==
    /\ DOMAIN Catalog \subseteq Nat
    /\ \A i \in DOMAIN Catalog :
          /\ Catalog[i] \in CatalogNode
          /\ Catalog[i].risk \in 0..2
          /\ Catalog[i].kind = "tool" => Catalog[i].tool \in ToolIds
<1>1. DOMAIN Catalog \subseteq Nat /\ \A i \in DOMAIN Catalog : Catalog[i] \in CatalogNode
  BY CatalogAssumption
<1>2. ASSUME NEW i \in DOMAIN Catalog
      PROVE  Catalog[i].risk \in 0..2
             /\ (Catalog[i].kind = "tool" => Catalog[i].tool \in ToolIds)
  <2>1. Catalog[i].risk \in 0..2 /\ Catalog[i].tool \in ToolIds \cup {NoTool}
    BY <1>1 DEF CatalogNode
  <2>2. Catalog[i].kind = "tool" => Catalog[i].tool # NoTool
    BY CatalogAssumption
  <2> QED BY <2>1, <2>2
<1> QED BY <1>1, <1>2

\* Where something provides what a step requires, the resolver finds such a node.
LEMMA ResolveFinds ==
    ASSUME NEW caps, NEW prefs \in Seq(STRING), Candidates(caps) # {}
    PROVE  Resolve(caps, prefs) \in Candidates(caps)
<1>1. Candidates(caps) \subseteq Nat /\ Candidates(caps) \subseteq DOMAIN Catalog
  BY CatalogEntries DEF Candidates, Available
<1>2. CASE Wanted(caps, prefs) # {}
  <2> DEFINE first == Least(Wanted(caps, prefs))
             same == {i \in Candidates(caps) : Catalog[i].id = prefs[first]}
  <2>1. Wanted(caps, prefs) \subseteq Nat
    BY DEF Wanted
  <2>2. first \in Wanted(caps, prefs)
    BY <1>2, <2>1, LeastExists
  <2>3. same # {} /\ same \subseteq Nat
    BY <1>1, <2>2 DEF Wanted
  <2>4. Least(same) \in same
    BY <2>3, LeastExists
  <2> QED BY <1>2, <2>4 DEF Resolve
<1>3. CASE Wanted(caps, prefs) = {}
  <2>1. Pool(caps) # {} /\ Pool(caps) \subseteq Candidates(caps)
    BY DEF Pool, Direct
  <2>2. \A i \in Pool(caps) : Catalog[i].risk \in 0..2
    BY <1>1, <2>1, CatalogEntries
  <2>3. Safest(caps) # {}
    <3>1. CASE \E i \in Pool(caps) : Catalog[i].risk = 0
      BY <2>2, <3>1 DEF Safest
    <3>2. CASE /\ ~\E i \in Pool(caps) : Catalog[i].risk = 0
               /\ \E i \in Pool(caps) : Catalog[i].risk = 1
      BY <2>2, <3>2 DEF Safest
    <3>3. CASE ~\E i \in Pool(caps) : Catalog[i].risk \in {0, 1}
      BY <2>1, <2>2, <3>3 DEF Safest
    <3> QED BY <3>1, <3>2, <3>3
  <2>4. Safest(caps) \subseteq Candidates(caps) /\ Safest(caps) \subseteq Nat
    BY <1>1, <2>1 DEF Safest
  <2>5. Least(Safest(caps)) \in Safest(caps)
    BY <2>3, <2>4, LeastExists
  <2> QED BY <1>3, <2>4, <2>5 DEF Resolve
<1> QED BY <1>2, <1>3

\* The node compiled for a step has the step's metadata, and a tool if it is a tool node.
LEMMA CompiledSteps ==
    ASSUME NEW s \in Step, Candidates(s.caps) # {}
    PROVE  /\ CompileStep(s) \in Node
           /\ CompileStep(s).caps = s.caps /\ CompileStep(s).checked = s.checked
           /\ CompileStep(s).deps = s.deps
           /\ CompileStep(s).kind = "fixed_tool" => CompileStep(s).tool \in ToolIds
<1> DEFINE i == Resolve(s.caps, s.prefs)
<1>1. s.prefs \in Seq(STRING) /\ s.caps \in SUBSET STRING /\ s.deps \in Seq(STRING)
      /\ s.checked \in BOOLEAN
  BY DEF Step
<1>2. i \in DOMAIN Catalog
  BY <1>1, ResolveFinds DEF Candidates, Available
<1> HIDE DEF i
<1>3. /\ Catalog[i].tool \in ToolIds \cup {NoTool} /\ Catalog[i].perms \in SUBSET Permissions
      /\ Catalog[i].ports \in SUBSET STRING
      /\ Catalog[i].kind = "tool" => Catalog[i].tool \in ToolIds
  BY <1>2, CatalogEntries DEF CatalogNode
<1>4. KindOf(i) \in NodeKinds /\ (KindOf(i) = "fixed_tool" <=> Catalog[i].kind = "tool")
  BY DEF KindOf, NodeKinds
<1>5. NoReAct \in Policy
  BY DEF NoReAct, Policy
<1>6. CompileStep(s) =
        [kind |-> KindOf(i), status |-> "waiting", tool |-> Catalog[i].tool,
         perms |-> Catalog[i].perms, ports |-> Catalog[i].ports, deps |-> s.deps, caps |-> s.caps,
         checked |-> s.checked, react |-> NoReAct]
  BY DEF CompileStep, i
<1> QED BY <1>1, <1>3, <1>4, <1>5, <1>6 DEF Node, NodeStatuses

\* The graph of a plan whose every step resolves.
LEMMA CompiledGraphs ==
    ASSUME NEW p, p \subseteq Step, \A s \in p : Candidates(s.caps) # {}
    PROVE  /\ GraphOf(p) \in [IdsOf(p) -> Node]
           /\ \A n \in IdsOf(p) : \E s \in p : s.id = n /\ GraphOf(p)[n] = CompileStep(s)
<1>1. ASSUME NEW n \in IdsOf(p)
      PROVE  \E s \in p : s.id = n /\ GraphOf(p)[n] = CompileStep(s)
  <2>1. \E s \in p : s.id = n
    BY DEF IdsOf
  <2>2. (CHOOSE s \in p : s.id = n) \in p /\ (CHOOSE s \in p : s.id = n).id = n
    BY <2>1
  <2> QED BY <2>2 DEF GraphOf
<1>2. \A s \in p : CompileStep(s) \in Node
  BY CompiledSteps
<1>3. GraphOf(p) = [n \in IdsOf(p) |-> GraphOf(p)[n]]
  BY DEF GraphOf
<1> QED BY <1>1, <1>2, <1>3

(***************************************************************************)
(* The inductive invariant.                                                *)
(***************************************************************************)

\* What the review established of the plan stays true until the graph is confirmed.
ReviewedInv ==
    /\ stage \in {"drafted", "approved", "offered"} => ValidDraft(plan.steps)
    /\ stage \in {"approved", "offered"} => ~Unsupported(plan.steps) /\ ~Unchecked(plan.steps)
    /\ stage = "offered" => graph = GraphOf(plan.steps)

\* Before the first run of a graph nothing is known of any run.
FreshInv ==
    stage \in {"drafting", "drafted", "approved", "offered", "refused", "ready"} =>
        /\ request = NoRequest /\ outputs = NoOutputs /\ node = NoNode
        /\ retried = {} /\ recorded = {} /\ used = {}

\* The node of a run is one of those chosen and has passed the gate; the work in progress
\* is of the kind the node's executor gives it.
RunInv ==
    /\ stage = "running" /\ node # NoNode =>
          /\ node \in request.chosen
          /\ GateDenies(graph[node].perms, graph[node].tool, Granted) = {}
    /\ stage = "running" => ToolsKnown(graph)
    /\ work.kind # "none" => stage = "running" /\ node # NoNode /\ work.kind = WorkOf(node)

IInv ==
    /\ TypeOK /\ ReviewedInv /\ FreshInv /\ RunInv
    /\ ApprovedPlansCompile /\ AuthorityFollowsGate /\ UsesAreApproved

(***************************************************************************)
(* What the operators of a run return.                                     *)
(***************************************************************************)

\* The kinds of work, and what is known of a node that has each.
LEMMA WorkKinds ==
    ASSUME NEW n
    PROVE  /\ WorkOf(n) \in {"search", "research", "unsupported", "tool", "chat", "script", "plain",
                             "attachment", "react"}
           /\ WorkOf(n) = "tool" =>
                 ~IsResearch(graph) /\ graph[n].kind = "fixed_tool" /\ graph[n].tool # NoTool
           /\ IsResearch(graph) /\ WorkOf(n) # "unsupported" => n \in ResearchNames
<1>1. DocumentWork(n) \in {"chat", "plain", "attachment", "unsupported"}
  <2>1. CASE n \in {"content-organize", "report-generate"}
    BY <2>1 DEF DocumentWork, DocumentNames
  <2>2. CASE n = "file-export"
    BY <2>2 DEF DocumentWork, DocumentNames
  <2>3. CASE n \notin {"content-organize", "report-generate", "file-export"}
    BY <2>3 DEF DocumentWork, DocumentNames
  <2> QED BY <2>1, <2>2, <2>3
<1>2. ResearchFlow \subseteq ResearchNames /\ SearchNode \in ResearchFlow
  BY PlanAssumption DEF ResearchFlow
<1>3. CASE IsResearch(graph)
  BY <1>2, <1>3 DEF WorkOf
<1>4. CASE ~IsResearch(graph)
  BY <1>1, <1>4 DEF WorkOf
<1> QED BY <1>3, <1>4

\* What a node of a well-typed graph puts out is a set of keys.
LEMMA OutputTyped ==
    ASSUME TypeOK, NEW n \in DOMAIN graph, ToolsKnown(graph), WorkOf(n) # "unsupported"
    PROVE  Gives(n) \in SUBSET Keys
<1>1. CASE IsResearch(graph)
  <2>1. n \in ResearchNames
    BY <1>1, WorkKinds
  <2>2. ResearchGives[n] \in SUBSET Keys
    <3>1. CASE n = "research-query-plan"
      BY <2>1, <3>1 DEF ResearchGives, SearchNode, Keys
    <3>2. CASE n = SearchNode
      BY <2>1, <3>2 DEF ResearchGives, SearchNode, Keys
    <3>3. CASE n \in {"research-report-synthesis", "research-report-quality-check"}
      BY <2>1, <3>3 DEF ResearchGives, SearchNode, Keys
    <3>4. CASE n = "research-markdown-output"
      BY <2>1, <3>4 DEF ResearchGives, SearchNode, Keys
    <3>5. CASE n \notin {"research-query-plan", SearchNode, "research-report-synthesis",
                       "research-report-quality-check", "research-markdown-output"}
      BY <2>1, <3>5 DEF ResearchGives, SearchNode, Keys
    <3> QED BY <3>1, <3>2, <3>3, <3>4, <3>5
  <2> QED BY <1>1, <2>2 DEF Gives
<1>2. CASE ~IsResearch(graph) /\ WorkOf(n) = "tool"
  <2>1. graph[n].tool \in ToolIds
    BY <1>2, WorkKinds DEF ToolsKnown, HasTool
  <2>2. Tools[graph[n].tool].gives \in SUBSET Keys
    BY <2>1 DEF Keys
  <2> QED BY <1>2, <2>2 DEF Gives
<1>3. CASE ~IsResearch(graph) /\ WorkOf(n) # "tool"
  <2>1. Carried(n) \in SUBSET Keys
    BY DEF Carried, Keys
  <2>2. CASE n = "content-organize"
    BY <1>3, <2>2 DEF Gives, Keys
  <2>3. CASE n = "report-generate"
    BY <1>3, <2>3 DEF Gives, Keys
  <2>4. CASE n = "file-export"
    BY <1>3, <2>4 DEF Gives, Keys
  <2>5. CASE n \notin {"content-organize", "report-generate", "file-export"}
    BY <1>3, <2>1, <2>5 DEF Gives, Keys
  <2> QED BY <2>2, <2>3, <2>4, <2>5
<1> QED BY <1>1, <1>2, <1>3

\* The end of an attempt keeps the types.
LEMMA AttemptTyped ==
    ASSUME TypeOK, node \in request.chosen, NEW out \in SUBSET Keys,
           EndNode(out) \/ (\E c \in Causes : FailNode(c)) \/ GoesOn
    PROVE  /\ stage' \in {stage, "failed"} /\ cause' \in Causes
           /\ outputs' \in [DOMAIN outputs' -> SUBSET Keys]
           /\ DOMAIN outputs' \subseteq DOMAIN graph
           /\ node' \in {node, NoNode}
           /\ retried' \subseteq request.chosen
           /\ recorded' \subseteq request.chosen \cap DOMAIN outputs'
<1> USE DEF TypeOK
<1>1. CASE EndNode(out)
  <2>1. CASE Demanded(node) \subseteq out
    BY <1>1, <2>1 DEF EndNode, Ends
  <2>2. CASE ~(Demanded(node) \subseteq out) /\ node \notin retried
    <3>1. retried' = retried \cup {node} /\ UNCHANGED <<stage, cause, outputs, recorded, node>>
      BY <1>1, <2>2 DEF EndNode, Ends
    <3> QED BY <3>1
  <2>3. CASE ~(Demanded(node) \subseteq out) /\ node \in retried
    <3>1. stage' = "failed" /\ cause' = "empty_node_output"
          /\ UNCHANGED <<outputs, recorded, node, retried>>
      BY <1>1, <2>3 DEF EndNode, Ends
    <3>2. "empty_node_output" \in Causes
      BY DEF Causes
    <3> QED BY <3>1, <3>2
  <2> QED BY <2>1, <2>2, <2>3
<1>2. CASE \E c \in Causes : FailNode(c)
  BY <1>2 DEF FailNode, Ends
<1>3. CASE GoesOn
  BY <1>3 DEF GoesOn
<1> QED BY <1>1, <1>2, <1>3

\* Whatever is used within the graph and the request of the run stays approved.
LEMMA GateImpliesAuthority ==
    ASSUME TypeOK, NEW n \in DOMAIN graph, graph[n].tool \in ToolIds, ~IsResearch(graph),
           GateDenies(graph[n].perms, graph[n].tool, Granted) = {}
    PROVE  Verdict(graph[n].tool, graph[n].perms \cup Tools[graph[n].tool].perms, TRUE)
               \in {"allowed", "network_domain_required"}
<1> DEFINE tool == graph[n].tool
           asked == graph[n].perms \cup Tools[tool].perms
<1>1. Granted = request.approved
  BY DEF Granted
<1>2. asked \subseteq DefaultAllowed \cup request.approved
  BY <1>1 DEF GateDenies, NeededBy
<1>3. DefaultAllowed \cap Sensitive = {}
  BY CatalogAssumption
<1>4. (Tools[tool].perms \cup asked) \cap Sensitive \subseteq request.approved
  BY <1>2, <1>3
<1> QED BY <1>4 DEF Verdict, AuthorityCode, Context

\* What the authority allows.
LEMMA AllowedUses ==
    ASSUME NEW tool \in ToolIds, NEW asks, NEW inside, Verdict(tool, asks, inside) = "allowed"
    PROVE  /\ Tools[tool].perms \cap Sensitive \subseteq request.approved
           /\ "network" \notin Tools[tool].perms /\ ~Tools[tool].network
BY DEF Verdict, AuthorityCode, Context

(***************************************************************************)
(* Steps of a run.                                                         *)
(***************************************************************************)

Forbidden == {"tool_denied", "permission_denied", "network_domain_denied", "path_denied"}

\* A step at the node that is running keeps the invariant if its outcome is typed, if the
\* authority is not the cause of a failure, and if what it used was allowed.
LEMMA StepKeeps ==
    ASSUME IInv, stage = "running", node # NoNode,
           UNCHANGED <<planVars, request>>,
           stage' \in {"running", "failed"}, cause' \in Causes,
           stage' = "failed" => cause' \notin Forbidden,
           outputs' \in [DOMAIN outputs' -> SUBSET Keys], DOMAIN outputs' \subseteq DOMAIN graph,
           node' \in {node, NoNode}, retried' \subseteq request.chosen,
           recorded' \subseteq request.chosen \cap DOMAIN outputs',
           work' \in [kind: Works, left: Nat, step: Nat, calls: Nat],
           work'.kind # "none" =>
                stage' = "running" /\ node' = node /\ work'.kind = WorkOf(node),
           used' \subseteq used \cup [tool: ToolIds, node: {node}, by: {"node", "model"}],
           UsesAreApproved', found' \in 0..NumQueries
    PROVE  IInv'
<1>1. plan' = plan /\ origin' = origin /\ graph' = graph /\ request' = request
  BY DEF planVars
<1>2. node \in DOMAIN graph
  BY DEF IInv, TypeOK
<1>3. TypeOK'
  <2>1. used' \subseteq [tool: ToolIds, node: DOMAIN graph, by: {"node", "model"}]
    BY <1>2 DEF IInv, TypeOK
  <2> QED BY <1>1, <1>2, <2>1 DEF IInv, TypeOK, Stages
<1>4. ReviewedInv' /\ FreshInv' /\ ApprovedPlansCompile'
  BY DEF ReviewedInv, FreshInv, ApprovedPlansCompile
<1>5. RunInv'
  <2>1. Granted' = Granted
    BY <1>1 DEF Granted, IsResearch
  <2>2. ASSUME stage' = "running", node' # NoNode
        PROVE  node' \in request'.chosen
               /\ GateDenies(graph'[node'].perms, graph'[node'].tool, Granted') = {}
    BY <1>1, <2>1, <2>2 DEF IInv, RunInv
  <2>3. ToolsKnown(graph)
    BY DEF IInv, RunInv
  <2>4. ASSUME node' = node PROVE WorkOf(node)' = WorkOf(node)
    BY <1>1, <2>4 DEF WorkOf, IsResearch, IsBound, IsPlanned, HasTool
  <2> QED BY <1>1, <2>2, <2>3, <2>4 DEF RunInv
<1>6. AuthorityFollowsGate'
  BY DEF AuthorityFollowsGate, Forbidden
<1> QED BY <1>3, <1>4, <1>5, <1>6 DEF IInv

\* What was allowed stays allowed as long as the graph and the request stay.
LEMMA UsesStay ==
    ASSUME IInv, UNCHANGED <<planVars, request>>, UNCHANGED used
    PROVE  UsesAreApproved'
BY DEF IInv, UsesAreApproved, planVars

\* Idle steps.
LEMMA IdleKeeps ==
    ASSUME IInv, stage = "running", node # NoNode, Idle, NEW out \in SUBSET Keys,
           EndNode(out) \/ \E c \in Causes \ Forbidden : FailNode(c)
    PROVE  IInv'
<1>1. node \in request.chosen /\ TypeOK
  BY DEF IInv, RunInv
<1>2. /\ stage' \in {stage, "failed"} /\ cause' \in Causes
      /\ outputs' \in [DOMAIN outputs' -> SUBSET Keys]
      /\ DOMAIN outputs' \subseteq DOMAIN graph
      /\ node' \in {node, NoNode}
      /\ retried' \subseteq request.chosen
      /\ recorded' \subseteq request.chosen \cap DOMAIN outputs'
  <2>1. EndNode(out) \/ (\E c \in Causes : FailNode(c)) \/ GoesOn
    OBVIOUS
  <2> QED BY <1>1, <2>1, AttemptTyped
<1>3. stage' = "failed" => cause' \notin Forbidden
  BY DEF EndNode, FailNode, Ends, Forbidden
<1>4. /\ UNCHANGED <<planVars, request>> /\ UNCHANGED used /\ found' = found
      /\ work' = NoWork
  BY DEF Idle
<1>5. work' \in [kind: Works, left: Nat, step: Nat, calls: Nat] /\ work'.kind = "none"
  BY <1>4 DEF NoWork, Works
<1>6. found' \in 0..NumQueries
  BY <1>1, <1>4 DEF TypeOK
<1>7. UsesAreApproved'
  BY <1>4, UsesStay
<1>8. stage' \in {"running", "failed"}
  BY <1>2
<1> QED BY <1>2, <1>3, <1>4, <1>5, <1>6, <1>7, <1>8, StepKeeps

\* A step that leaves the attempt going.
LEMMA GoingKeeps ==
    ASSUME IInv, stage = "running", node # NoNode, GoesOn, UNCHANGED <<planVars, request>>,
           work' \in [kind: Works, left: Nat, step: Nat, calls: Nat],
           work'.kind = WorkOf(node),
           used' \subseteq used \cup [tool: ToolIds, node: {node}, by: {"node", "model"}],
           UsesAreApproved', found' \in 0..NumQueries
    PROVE  IInv'
<1>1. /\ stage' = "running" /\ cause' = cause /\ outputs' = outputs /\ recorded' = recorded
      /\ node' = node /\ retried' = retried
  BY DEF GoesOn
<1>2. TypeOK
  BY DEF IInv
<1>3. /\ cause' \in Causes /\ outputs' \in [DOMAIN outputs' -> SUBSET Keys]
      /\ DOMAIN outputs' \subseteq DOMAIN graph /\ retried' \subseteq request.chosen
      /\ recorded' \subseteq request.chosen \cap DOMAIN outputs'
  BY <1>1, <1>2 DEF TypeOK
<1> QED BY <1>1, <1>3, StepKeeps

(***************************************************************************)
(* The actions of a run.                                                   *)
(***************************************************************************)

LEMMA EnterNodeKeeps ==
    ASSUME IInv, NEW n \in DOMAIN graph, EnterNode(n)
    PROVE  IInv'
<1>1. /\ stage = "running" /\ n \in request.chosen /\ node = NoNode /\ node' = n
      /\ UNCHANGED <<plan, origin, graph, request, outputs, work, retried, recorded, used, found>>
  BY DEF EnterNode, IsNext, planVars
<1>2. TypeOK /\ RunInv
  BY DEF IInv
<1>3. work.kind = "none"
  BY <1>1, <1>2 DEF RunInv
<1>4. \/ /\ GateDenies(graph[n].perms, graph[n].tool, Granted) = {}
         /\ stage' = stage /\ cause' = cause
      \/ stage' = "failed" /\ cause' = "permission_required"
  BY DEF EnterNode, Ends
<1>5. TypeOK'
  BY <1>1, <1>2, <1>4 DEF TypeOK, Stages, Causes
<1>6. ReviewedInv' /\ FreshInv' /\ ApprovedPlansCompile'
  BY <1>1, <1>4 DEF ReviewedInv, FreshInv, ApprovedPlansCompile
<1>7. RunInv'
  <2>1. Granted' = Granted
    BY <1>1 DEF Granted, IsResearch
  <2> QED BY <1>1, <1>2, <1>3, <1>4, <2>1 DEF RunInv, ToolsKnown
<1>8. AuthorityFollowsGate'
  BY <1>1, <1>4 DEF AuthorityFollowsGate
<1>9. UsesAreApproved'
  BY <1>1 DEF IInv, UsesAreApproved
<1> QED BY <1>5, <1>6, <1>7, <1>8, <1>9 DEF IInv

\* The node of a run that works on it.
LEMMA AtNode ==
    ASSUME IInv, stage = "running", node # NoNode
    PROVE  /\ TypeOK /\ ToolsKnown(graph) /\ node \in DOMAIN graph /\ node \in request.chosen
           /\ WorkOf(node) # "unsupported" => Gives(node) \in SUBSET Keys
           /\ WorkOf(node) = "tool" => graph[node].tool \in ToolIds /\ ~IsResearch(graph)
           /\ GateDenies(graph[node].perms, graph[node].tool, Granted) = {}
<1>1. TypeOK /\ RunInv
  BY DEF IInv
<1>2. ToolsKnown(graph) /\ node \in DOMAIN graph /\ node \in request.chosen
      /\ GateDenies(graph[node].perms, graph[node].tool, Granted) = {}
  BY <1>1 DEF TypeOK, RunInv
<1>3. WorkOf(node) = "tool" => graph[node].tool \in ToolIds /\ ~IsResearch(graph)
  BY <1>2, WorkKinds DEF ToolsKnown, HasTool
<1> QED BY <1>1, <1>2, <1>3, OutputTyped

LEMMA StartNodeKeeps ==
    ASSUME IInv, StartNode
    PROVE  IInv'
<1>1. stage = "running" /\ node # NoNode
  BY DEF StartNode, Running
<1>2. StartCause \in Causes \ Forbidden
  BY DEF StartCause, AttachmentCause, Causes, Forbidden, NoCause
<1>3. WorkOf(node) = "unsupported" => StartCause # NoCause
  BY DEF StartCause, NoCause
<1>4. CASE StartCause # NoCause /\ FailNode(StartCause) /\ Idle
  BY <1>1, <1>2, <1>4, IdleKeeps
<1>5. CASE StartCause = NoCause /\ WorkOf(node) = "plain" /\ EndNode(Gives(node)) /\ Idle
  BY <1>1, <1>5, AtNode, IdleKeeps
<1>6. CASE StartCause = NoCause /\ WorkOf(node) = "attachment" /\ EndNode({}) /\ Idle
  BY <1>1, <1>6, IdleKeeps
<1>7. CASE /\ StartCause = NoCause /\ WorkOf(node) \notin {"plain", "attachment"}
           /\ work' = [NoWork EXCEPT !.kind = WorkOf(node),
                         !.left = CASE WorkOf(node) = "tool" -> Invocations(node)
                                    [] WorkOf(node) = "search" -> MaxSearchAttempts
                                    [] OTHER -> 0]
           /\ GoesOn /\ UNCHANGED <<planVars, request, used, found>>
  <2>1. WorkOf(node) \in Works \ {"none"}
    BY <1>3, <1>7, WorkKinds DEF Works
  <2>2. Invocations(node) \in Nat /\ MaxSearchAttempts \in Nat
    BY <1>1, AtNode, PlanAssumption DEF Invocations, TypeOK
  <2>3. work'.kind = WorkOf(node)
        /\ work' \in [kind: Works, left: Nat, step: Nat, calls: Nat]
    BY <1>7, <2>1, <2>2 DEF NoWork
  <2>4. UsesAreApproved' /\ found' \in 0..NumQueries
    BY <1>1, <1>7, AtNode, UsesStay DEF TypeOK
  <2> QED BY <1>1, <1>7, <2>3, <2>4, GoingKeeps
<1> QED BY <1>4, <1>5, <1>6, <1>7 DEF StartNode

LEMMA AnswerKeeps ==
    ASSUME IInv, Answer
    PROVE  IInv'
<1>1. stage = "running" /\ node # NoNode /\ work.kind \in {"chat", "script", "research"} /\ Idle
  BY DEF Answer, Running
<1>2. WorkOf(node) # "unsupported"
  BY <1>1 DEF IInv, RunInv
<1>3. Gives(node) \in SUBSET Keys /\ Gives(node) \ Demanded(node) \in SUBSET Keys
  BY <1>1, <1>2, AtNode
<1>4. "node_failed" \in Causes \ Forbidden
  BY DEF Causes, Forbidden
<1> QED BY <1>1, <1>3, <1>4, IdleKeeps DEF Answer

\* A use the authority allowed, and for a model its policy, keeps what is used approved.
LEMMA NewUse ==
    ASSUME IInv, NEW tool \in ToolIds, NEW by \in {"node", "model"}, NEW asks, NEW inside,
           Verdict(tool, asks, inside) = "allowed", Dispatched(tool, by),
           UNCHANGED <<planVars, request>>,
           by = "model" => /\ tool \in graph[node].react.tools
                           /\ Tools[tool].perms \subseteq graph[node].react.perms
    PROVE  /\ UsesAreApproved'
           /\ used' \subseteq used \cup [tool: ToolIds, node: {node}, by: {"node", "model"}]
<1> DEFINE new == [tool |-> tool, node |-> node, by |-> by]
<1>1. used' = used \cup {new} /\ new \in [tool: ToolIds, node: {node}, by: {"node", "model"}]
  BY DEF Dispatched
<1>2. /\ Tools[tool].perms \cap Sensitive \subseteq request.approved
      /\ "network" \notin Tools[tool].perms /\ ~Tools[tool].network
  BY AllowedUses
<1>3. graph' = graph /\ request' = request
  BY DEF planVars
<1>4. new.tool = tool /\ new.node = node /\ new.by = by
  OBVIOUS
<1> HIDE DEF new
<1>5. UsesAreApproved'
  BY <1>1, <1>2, <1>3, <1>4 DEF IInv, UsesAreApproved
<1> QED BY <1>1, <1>5

LEMMA CallToolKeeps ==
    ASSUME IInv, CallTool
    PROVE  IInv'
<1> DEFINE tool == graph[node].tool
           asks == graph[node].perms \cup Tools[tool].perms
<1>1. stage = "running" /\ node # NoNode /\ work.kind = "tool" /\ WorkOf(node) = "tool"
  BY DEF CallTool, Running, IInv, RunInv
<1>2. /\ TypeOK /\ tool \in ToolIds /\ ~IsResearch(graph) /\ node \in DOMAIN graph
      /\ node \in request.chosen /\ Gives(node) \in SUBSET Keys
      /\ GateDenies(graph[node].perms, tool, Granted) = {}
  BY <1>1, AtNode
<1>3. Verdict(tool, asks, TRUE) \in {"allowed", "network_domain_required"}
  BY <1>2, GateImpliesAuthority
<1>4. CASE Verdict(tool, asks, TRUE) # "allowed"
  <2>1. FailNode(Verdict(tool, asks, TRUE)) /\ Idle
    BY <1>4 DEF CallTool
  <2>2. Verdict(tool, asks, TRUE) \in Causes \ Forbidden
    BY <1>3, <1>4 DEF Causes, Forbidden
  <2> HIDE DEF tool, asks
  <2> QED BY <1>1, <2>1, <2>2, IdleKeeps
<1>5. CASE Verdict(tool, asks, TRUE) = "allowed"
  <2>1. /\ Dispatched(tool, "node") /\ UNCHANGED <<planVars, request, found>>
        /\ \/ FailNode("tool_failed") /\ work' = NoWork
           \/ EndNode(Gives(node)) /\ work' = NoWork
           \/ work' = [work EXCEPT !.left = @ - 1] /\ GoesOn /\ work.left > 1
    BY <1>5 DEF CallTool
  <2>2. /\ UsesAreApproved'
        /\ used' \subseteq used \cup [tool: ToolIds, node: {node}, by: {"node", "model"}]
    BY <1>2, <1>5, <2>1, NewUse
  <2>3. found' \in 0..NumQueries
    BY <1>2, <2>1 DEF TypeOK
  <2>4. CASE (FailNode("tool_failed") \/ EndNode(Gives(node))) /\ work' = NoWork
    <3>1. "tool_failed" \in Causes
      BY DEF Causes
    <3>2. /\ stage' \in {stage, "failed"} /\ cause' \in Causes
          /\ outputs' \in [DOMAIN outputs' -> SUBSET Keys]
          /\ DOMAIN outputs' \subseteq DOMAIN graph
          /\ node' \in {node, NoNode}
          /\ retried' \subseteq request.chosen
          /\ recorded' \subseteq request.chosen \cap DOMAIN outputs'
      BY <1>2, <2>4, <3>1, AttemptTyped
    <3>3. stage' = "failed" => cause' \notin Forbidden
      BY <1>1, <2>4 DEF EndNode, FailNode, Ends, Forbidden
    <3>4. work' \in [kind: Works, left: Nat, step: Nat, calls: Nat] /\ work'.kind = "none"
      BY <2>4 DEF NoWork, Works
    <3> QED BY <1>1, <2>1, <2>2, <2>3, <3>2, <3>3, <3>4, StepKeeps
  <2>5. CASE work' = [work EXCEPT !.left = @ - 1] /\ GoesOn /\ work.left > 1
    <3>1. work' \in [kind: Works, left: Nat, step: Nat, calls: Nat]
          /\ work'.kind = WorkOf(node)
      BY <1>1, <1>2, <2>5 DEF TypeOK
    <3> QED BY <1>1, <2>1, <2>2, <2>3, <2>5, <3>1, GoingKeeps
  <2> QED BY <2>1, <2>4, <2>5
<1> QED BY <1>4, <1>5

LEMMA SearchKeeps ==
    ASSUME IInv, Search
    PROVE  IInv'
<1>1. stage = "running" /\ node # NoNode /\ work.kind = "search" /\ WorkOf(node) = "search"
  BY DEF Search, Running, IInv, RunInv
<1>2. /\ TypeOK /\ node \in request.chosen /\ node \in DOMAIN graph
      /\ Gives(node) \in SUBSET Keys
  BY <1>1, AtNode
<1>3. CASE EndNode(Gives(node)) /\ Idle
  BY <1>1, <1>2, <1>3, IdleKeeps
<1>4. CASE /\ found < NumQueries /\ found' = found + 1
           /\ work' = [work EXCEPT !.left = MaxSearchAttempts]
           /\ GoesOn /\ UNCHANGED <<planVars, request, used>>
  <2>1. /\ work' \in [kind: Works, left: Nat, step: Nat, calls: Nat]
        /\ work'.kind = WorkOf(node) /\ found' \in 0..NumQueries
    BY <1>1, <1>2, <1>4, PlanAssumption DEF TypeOK
  <2> QED BY <1>1, <1>4, <2>1, UsesStay, GoingKeeps
<1>5. CASE /\ work.left > 1 /\ work' = [work EXCEPT !.left = @ - 1]
           /\ GoesOn /\ UNCHANGED <<planVars, request, used, found>>
  <2>1. /\ work' \in [kind: Works, left: Nat, step: Nat, calls: Nat]
        /\ work'.kind = WorkOf(node) /\ found' \in 0..NumQueries
    BY <1>1, <1>2, <1>5 DEF TypeOK
  <2> QED BY <1>1, <1>5, <2>1, UsesStay, GoingKeeps
<1>6. CASE /\ Ends("web_search_failed")
           /\ outputs' = [n \in DOMAIN outputs \cup {node} |->
                             IF n = node THEN Gives(node) ELSE outputs[n]]
           /\ UNCHANGED <<recorded, node, retried>> /\ Idle
  <2>1. /\ stage' = "failed" /\ cause' = "web_search_failed" /\ cause' \in Causes \ Forbidden
    BY <1>6 DEF Ends, Causes, Forbidden
  <2>2. /\ outputs' \in [DOMAIN outputs' -> SUBSET Keys] /\ DOMAIN outputs' \subseteq DOMAIN graph
        /\ retried' \subseteq request.chosen /\ node' = node
        /\ recorded' \subseteq request.chosen \cap DOMAIN outputs'
    BY <1>2, <1>6 DEF TypeOK
  <2>3. /\ work' \in [kind: Works, left: Nat, step: Nat, calls: Nat] /\ work'.kind = "none"
        /\ UNCHANGED <<planVars, request, used, found>>
    BY <1>6 DEF Idle, NoWork, Works
  <2>4. found' \in 0..NumQueries
    BY <1>2, <2>3 DEF TypeOK
  <2> QED BY <1>1, <2>1, <2>2, <2>3, <2>4, UsesStay, StepKeeps
<1> QED BY <1>3, <1>4, <1>5, <1>6 DEF Search

LEMMA ThinkKeeps ==
    ASSUME IInv, Think
    PROVE  IInv'
<1>1. stage = "running" /\ node # NoNode /\ work.kind = "react" /\ WorkOf(node) = "react"
  BY DEF Think, Running, IInv, RunInv
<1>2. TypeOK /\ Gives(node) \in SUBSET Keys
  BY <1>1, AtNode
<1>3. {"step_budget_exceeded", "runtime_budget_exceeded", "malformed_action"}
          \subseteq Causes \ Forbidden
  BY DEF Causes, Forbidden
<1>4. CASE Idle /\ (EndNode(Gives(node)) \/ \E c \in Causes \ Forbidden : FailNode(c))
  BY <1>1, <1>2, <1>4, IdleKeeps
<1>5. CASE /\ \E batch \in IF graph[node].react.native THEN 1..MaxBatch ELSE {1} :
                  work' = [work EXCEPT !.step = @ + 1, !.left = batch]
           /\ GoesOn /\ UNCHANGED <<planVars, request, used, found>>
  <2>1. (IF graph[node].react.native THEN 1..MaxBatch ELSE {1}) \subseteq Nat
    BY PlanAssumption
  <2>2. PICK batch \in Nat : work' = [work EXCEPT !.step = @ + 1, !.left = batch]
    BY <1>5, <2>1
  <2>3. work' = [kind |-> work.kind, left |-> batch, step |-> work.step + 1,
                 calls |-> work.calls]
    BY <1>2, <2>2 DEF TypeOK
  <2>4. /\ work' \in [kind: Works, left: Nat, step: Nat, calls: Nat]
        /\ work'.kind = WorkOf(node) /\ found' \in 0..NumQueries
    BY <1>1, <1>2, <1>5, <2>3 DEF TypeOK
  <2> QED BY <1>1, <1>5, <2>4, UsesStay, GoingKeeps
<1> QED BY <1>3, <1>4, <1>5 DEF Think

LEMMA ActKeeps ==
    ASSUME IInv, NEW tool, NEW inside, Act(tool, inside)
    PROVE  IInv'
<1> DEFINE policy == graph[node].react
<1>1. stage = "running" /\ node # NoNode /\ work.kind = "react" /\ WorkOf(node) = "react"
      /\ work.left > 0
  BY DEF Act, Running, IInv, RunInv
<1>2. TypeOK
  BY DEF IInv
<1>3. CASE PolicyError(policy, tool) # NoCause
  <2>1. PolicyError(policy, tool) \in Causes \ Forbidden
    BY <1>3 DEF PolicyError, Causes, Forbidden
  <2> QED BY <1>1, <1>3, <2>1, IdleKeeps DEF Act
<1>4. CASE PolicyError(policy, tool) = NoCause
  <2>1. tool \in ToolIds /\ tool \in policy.tools /\ Tools[tool].perms \subseteq policy.perms
    BY <1>4 DEF PolicyError, NoCause
  <2>2. /\ work' = [work EXCEPT !.left = @ - 1, !.calls = @ + 1]
        /\ IF Verdict(tool, Tools[tool].perms, inside) = "allowed"
           THEN Dispatched(tool, "model") ELSE UNCHANGED used
        /\ GoesOn /\ UNCHANGED <<planVars, request, found>>
    BY <1>4 DEF Act
  <2>3. /\ UsesAreApproved'
        /\ used' \subseteq used \cup [tool: ToolIds, node: {node}, by: {"node", "model"}]
    BY <2>1, <2>2, NewUse, UsesStay
  <2>4. work' = [kind |-> work.kind, left |-> work.left - 1, step |-> work.step,
                 calls |-> work.calls + 1]
    BY <1>2, <2>2 DEF TypeOK
  <2>5. /\ work' \in [kind: Works, left: Nat, step: Nat, calls: Nat]
        /\ work'.kind = WorkOf(node) /\ found' \in 0..NumQueries
    BY <1>1, <1>2, <2>2, <2>4 DEF TypeOK
  <2> QED BY <1>1, <2>2, <2>3, <2>5, GoingKeeps
<1> QED BY <1>3, <1>4

(***************************************************************************)
(* The plan, the start and the end of a run.                               *)
(***************************************************************************)

NotRun == {"drafting", "drafted", "approved", "offered", "refused", "ready"}

\* A step before the first run keeps what concerns runs.
LEMMA BeforeRuns ==
    ASSUME IInv, stage \in NotRun, stage' \in NotRun, UNCHANGED runVars
    PROVE  /\ request' = NoRequest /\ outputs' = NoOutputs /\ node' = NoNode
           /\ retried' = {} /\ recorded' = {} /\ used' = {}
           /\ work' = work /\ found' = found /\ work.kind = "none"
           /\ FreshInv' /\ RunInv' /\ AuthorityFollowsGate' /\ UsesAreApproved'
<1>1. /\ request' = NoRequest /\ outputs' = NoOutputs /\ node' = NoNode
      /\ retried' = {} /\ recorded' = {} /\ used' = {} /\ work' = work /\ found' = found
  BY DEF IInv, FreshInv, NotRun, runVars
<1>2. stage' # "running" /\ stage' # "failed" /\ work.kind = "none"
  BY DEF IInv, RunInv, NotRun
<1> QED BY <1>1, <1>2 DEF FreshInv, RunInv, AuthorityFollowsGate, UsesAreApproved

\* ... and its types, if the plan and the graph have theirs.
LEMMA BeforeRunsTyped ==
    ASSUME IInv, stage \in NotRun, stage' \in NotRun, UNCHANGED runVars, cause' \in Causes,
           plan' \in [steps: Plans \cup {{}}, web: BOOLEAN, missing: BOOLEAN],
           origin' \in {"none", "plan", "saved"}, graph' \in [DOMAIN graph' -> Node]
    PROVE  TypeOK'
<1>1. /\ request' = NoRequest /\ outputs' = NoOutputs /\ node' = NoNode
      /\ retried' = {} /\ recorded' = {} /\ used' = {} /\ work' = work /\ found' = found
  BY BeforeRuns
<1>2. NoRequest \in [approved: SUBSET Permissions, attached: 0..MaxAttached,
                     chosen: SUBSET DOMAIN graph']
  BY PlanAssumption DEF NoRequest
<1>3. NoOutputs \in [DOMAIN NoOutputs -> SUBSET Keys] /\ DOMAIN NoOutputs = {}
  BY DEF NoOutputs
<1>4. TypeOK
  BY DEF IInv
<1> QED BY <1>1, <1>2, <1>3, <1>4 DEF TypeOK, NotRun, Stages

LEMMA DraftPlanKeeps ==
    ASSUME IInv, NEW p \in Plans, NEW web \in BOOLEAN, NEW missing \in BOOLEAN,
           DraftPlan(p, web, missing)
    PROVE  IInv'
<1>1. stage = "drafting" /\ UNCHANGED <<cause, origin, graph, runVars>> /\ TypeOK
  BY DEF DraftPlan, IInv
<1>2. \/ /\ ValidDraft(p) /\ stage' = "drafted"
         /\ plan' = [steps |-> p, web |-> web, missing |-> missing]
      \/ stage' = "drafting" /\ plan' = plan
  BY <1>1 DEF DraftPlan
<1>3. stage \in NotRun /\ stage' \in NotRun /\ UNCHANGED runVars
  BY <1>1, <1>2 DEF NotRun
<1>4. TypeOK'
  BY <1>1, <1>2, <1>3, BeforeRunsTyped DEF TypeOK
<1>5. ReviewedInv' /\ ApprovedPlansCompile'
  BY <1>2 DEF ReviewedInv, ApprovedPlansCompile
<1> QED BY <1>3, <1>4, <1>5, BeforeRuns DEF IInv

LEMMA ReviewPlanKeeps ==
    ASSUME IInv, ReviewPlan
    PROVE  IInv'
<1>1. stage = "drafted" /\ UNCHANGED <<cause, origin, graph, runVars>> /\ TypeOK
  BY DEF ReviewPlan, IInv
<1>2. \/ stage' = "drafting" /\ plan' = NoPlan
      \/ stage' = "approved" /\ plan' = plan /\ ~Findings(plan.steps, plan.web)
  BY <1>1 DEF ReviewPlan
<1>3. stage \in NotRun /\ stage' \in NotRun /\ UNCHANGED runVars
  BY <1>1, <1>2 DEF NotRun
<1>4. TypeOK'
  <2>1. NoPlan \in [steps: Plans \cup {{}}, web: BOOLEAN, missing: BOOLEAN]
    BY DEF NoPlan
  <2>2. /\ plan' \in [steps: Plans \cup {{}}, web: BOOLEAN, missing: BOOLEAN]
        /\ origin' \in {"none", "plan", "saved"} /\ graph' \in [DOMAIN graph' -> Node]
        /\ cause' \in Causes
    BY <1>1, <1>2, <2>1 DEF TypeOK
  <2> QED BY <1>3, <2>2, BeforeRunsTyped
<1>5. ReviewedInv' /\ ApprovedPlansCompile'
  BY <1>1, <1>2 DEF IInv, ReviewedInv, ApprovedPlansCompile, Findings
<1> QED BY <1>3, <1>4, <1>5, BeforeRuns DEF IInv

\* The steps of the plan are typed, and those of an approved plan that name a capability
\* have a candidate.
LEMMA PlanSteps ==
    ASSUME TypeOK
    PROVE  plan.steps \subseteq Step
BY PlanAssumption DEF TypeOK

LEMMA CompilePlanKeeps ==
    ASSUME IInv, CompilePlan
    PROVE  IInv'
<1>1. stage = "approved" /\ UNCHANGED <<plan, runVars>> /\ TypeOK /\ ReviewedInv
  BY DEF CompilePlan, IInv
<1>2. CASE \E s \in plan.steps : Candidates(s.caps) = {}
  <2>1. stage' = "refused" /\ cause' = "unresolved" /\ origin' = origin /\ graph' = graph
    BY <1>2 DEF CompilePlan
  <2>2. stage \in NotRun /\ stage' \in NotRun /\ UNCHANGED runVars
    BY <1>1, <2>1 DEF NotRun
  <2>3. TypeOK'
    BY <1>1, <2>1, <2>2, BeforeRunsTyped DEF TypeOK, Causes
  <2>4. \E s \in plan.steps : s.caps = {}
    BY <1>1, <1>2 DEF ReviewedInv, Unsupported
  <2>5. ReviewedInv' /\ ApprovedPlansCompile'
    BY <1>1, <2>1, <2>4 DEF ReviewedInv, ApprovedPlansCompile
  <2> QED BY <2>2, <2>3, <2>5, BeforeRuns DEF IInv
<1>3. CASE ~\E s \in plan.steps : Candidates(s.caps) = {}
  <2>1. /\ stage' = "offered" /\ origin' = "plan" /\ graph' = GraphOf(plan.steps)
        /\ cause' = cause
    BY <1>3 DEF CompilePlan
  <2>2. stage \in NotRun /\ stage' \in NotRun /\ UNCHANGED runVars
    BY <1>1, <2>1 DEF NotRun
  <2>3. graph' \in [IdsOf(plan.steps) -> Node]
    BY <1>1, <1>3, <2>1, PlanSteps, CompiledGraphs
  <2>4. graph' \in [DOMAIN graph' -> Node]
    BY <2>3
  <2>5. TypeOK'
    BY <1>1, <2>1, <2>2, <2>4, BeforeRunsTyped DEF TypeOK
  <2>6. ReviewedInv' /\ ApprovedPlansCompile'
    BY <1>1, <2>1 DEF ReviewedInv, ApprovedPlansCompile
  <2> QED BY <2>2, <2>5, <2>6, BeforeRuns DEF IInv
<1> QED BY <1>2, <1>3

\* The metadata check after the confirmation refuses a graph only for a step without
\* capabilities.
LEMMA RefusedForCapabilities ==
    ASSUME IInv, stage = "offered", NotCompilable(graph)
    PROVE  \E s \in plan.steps : s.caps = {}
<1> SUFFICES ASSUME \A s \in plan.steps : s.caps # {} PROVE FALSE
  OBVIOUS
<1>1. /\ TypeOK /\ graph = GraphOf(plan.steps) /\ ValidDraft(plan.steps)
      /\ ~Unsupported(plan.steps) /\ ~Unchecked(plan.steps)
  BY DEF IInv, ReviewedInv
<1>2. plan.steps \subseteq Step /\ \A s \in plan.steps : Candidates(s.caps) # {}
  BY <1>1, PlanSteps DEF Unsupported
<1>3. DOMAIN graph = IdsOf(plan.steps)
      /\ \A n \in IdsOf(plan.steps) :
            \E s \in plan.steps : s.id = n /\ graph[n] = CompileStep(s)
  BY <1>1, <1>2, CompiledGraphs
<1>4. ASSUME NEW n \in DOMAIN graph
      PROVE  /\ graph[n].caps # {} /\ graph[n].checked
             /\ graph[n].kind = "fixed_tool" => graph[n].tool \in ToolIds
             /\ Elements(graph[n].deps) \subseteq DOMAIN graph
  <2>1. PICK s \in plan.steps : graph[n] = CompileStep(s)
    BY <1>3
  <2>2. /\ graph[n].caps = s.caps /\ graph[n].checked = s.checked /\ graph[n].deps = s.deps
        /\ graph[n].kind = "fixed_tool" => graph[n].tool \in ToolIds
    BY <1>2, <2>1, CompiledSteps
  <2>3. s.caps # {} /\ s.checked
    BY <1>1 DEF Unchecked
  <2>4. Elements(s.deps) \subseteq IdsOf(plan.steps)
    BY <1>1 DEF ValidDraft
  <2> QED BY <1>3, <2>2, <2>3, <2>4
<1> QED BY <1>4 DEF NotCompilable

LEMMA ConfirmPlanKeeps ==
    ASSUME IInv, ConfirmPlan
    PROVE  IInv'
<1>1. stage = "offered" /\ plan' = plan /\ origin' = origin /\ graph' = graph
      /\ UNCHANGED runVars /\ TypeOK
  BY DEF ConfirmPlan, IInv, planVars
<1>2. \/ NotCompilable(graph) /\ stage' = "refused" /\ cause' = "compile_failed"
      \/ stage' = "ready" /\ cause' = cause
  BY DEF ConfirmPlan
<1>3. stage \in NotRun /\ stage' \in NotRun
  BY <1>1, <1>2 DEF NotRun
<1>4. TypeOK'
  BY <1>1, <1>2, <1>3, BeforeRunsTyped DEF TypeOK, Causes
<1>5. ReviewedInv'
  BY <1>2 DEF ReviewedInv
<1>6. ApprovedPlansCompile'
  BY <1>1, <1>2, RefusedForCapabilities DEF ApprovedPlansCompile
<1> QED BY <1>1, <1>3, <1>4, <1>5, <1>6, BeforeRuns DEF IInv

LEMMA RevisePlanKeeps ==
    ASSUME IInv, RevisePlan
    PROVE  IInv'
<1>1. /\ stage \in {"offered", "refused"} /\ stage' = "drafting" /\ cause' = NoCause
      /\ plan' = NoPlan /\ origin' = "none" /\ graph' = [n \in {} |-> {}]
      /\ UNCHANGED runVars
  BY DEF RevisePlan
<1>2. stage \in NotRun /\ stage' \in NotRun
  BY <1>1 DEF NotRun
<1>3. TypeOK'
  BY <1>1, <1>2, BeforeRunsTyped DEF Causes, NoPlan
<1>4. ReviewedInv' /\ ApprovedPlansCompile'
  BY <1>1 DEF ReviewedInv, ApprovedPlansCompile
<1> QED BY <1>1, <1>2, <1>3, <1>4, BeforeRuns DEF IInv

LEMMA OpenSavedKeeps ==
    ASSUME IInv, NEW g \in SavedGraphs, OpenSaved(g)
    PROVE  IInv'
<1>1. /\ stage = "drafting" /\ stage' = "ready" /\ origin' = "saved" /\ graph' = g
      /\ UNCHANGED <<cause, plan, runVars>>
  BY DEF OpenSaved
<1>2. stage \in NotRun /\ stage' \in NotRun /\ UNCHANGED runVars
  BY <1>1 DEF NotRun
<1>3. g \in [DOMAIN g -> Node]
  BY PlanAssumption
<1>4. TypeOK'
  BY <1>1, <1>2, <1>3, BeforeRunsTyped DEF IInv, TypeOK
<1>5. ReviewedInv' /\ ApprovedPlansCompile'
  BY <1>1 DEF ReviewedInv, ApprovedPlansCompile
<1> QED BY <1>2, <1>4, <1>5, BeforeRuns DEF IInv

\* A run that starts or is taken up knows of the nodes it selects and of the outputs it is
\* given, and of no use of a tool.
LEMMA StartsKeeps ==
    ASSUME IInv, NEW a \in SUBSET Permissions, NEW k \in 0..MaxAttached,
           NEW selected \in SUBSET DOMAIN graph, Starts(a, k, selected),
           outputs' \in [DOMAIN outputs' -> SUBSET Keys], DOMAIN outputs' \subseteq DOMAIN graph,
           found' \in 0..NumQueries
    PROVE  IInv'
<1> DEFINE chosen == selected \cap Executable(graph)
<1>1. /\ request' = [approved |-> a, attached |-> k, chosen |-> chosen]
      /\ node' = NoNode /\ work' = NoWork /\ retried' = {} /\ recorded' = {} /\ used' = {}
      /\ plan' = plan /\ origin' = origin /\ graph' = graph
  BY DEF Starts, planVars
<1>2. \/ ToolsKnown(graph) /\ stage' = "running" /\ cause' = NoCause
      \/ stage' = "failed" /\ cause' \in {"unsupported_tool", "permission_required"}
  BY DEF Starts, Ends
<1>0. chosen \subseteq DOMAIN graph
  OBVIOUS
<1> HIDE DEF chosen
<1>3. work'.kind = "none" /\ work' \in [kind: Works, left: Nat, step: Nat, calls: Nat]
  BY <1>1 DEF NoWork, Works
<1>4. TypeOK
  BY DEF IInv
<1>5. TypeOK'
  BY <1>0, <1>1, <1>2, <1>3, <1>4 DEF TypeOK, Stages, Causes
<1>6. ReviewedInv' /\ FreshInv' /\ ApprovedPlansCompile'
  BY <1>2 DEF ReviewedInv, FreshInv, ApprovedPlansCompile
<1>7. RunInv'
  BY <1>1, <1>2, <1>3 DEF RunInv, ToolsKnown, HasTool
<1>8. AuthorityFollowsGate' /\ UsesAreApproved'
  BY <1>1, <1>2 DEF AuthorityFollowsGate, UsesAreApproved
<1> QED BY <1>5, <1>6, <1>7, <1>8 DEF IInv

LEMMA StartRunKeeps ==
    ASSUME IInv, NEW a \in Approvals, NEW k \in 0..MaxAttached, StartRun(a, k)
    PROVE  IInv'
<1>1. Starts(a, k, DOMAIN graph) /\ outputs' = NoOutputs /\ found' = 0
  BY DEF StartRun
<1>2. a \in SUBSET Permissions /\ 0 \in 0..NumQueries
  BY PlanAssumption
<1>3. DOMAIN graph \in SUBSET DOMAIN graph
  OBVIOUS
<1>4. NoOutputs \in [DOMAIN NoOutputs -> SUBSET Keys] /\ DOMAIN NoOutputs = {}
  BY DEF NoOutputs
<1> QED BY <1>1, <1>2, <1>3, <1>4, StartsKeeps

LEMMA RetryFailedKeeps ==
    ASSUME IInv, RetryFailed
    PROVE  IInv'
<1> DEFINE chosen == UNION {From(graph, n) : n \in FailedNodes}
<1>1. Starts(request.approved, request.attached, chosen) /\ TypeOK
  BY DEF RetryFailed, IInv
<1>2. /\ outputs' = [n \in DOMAIN outputs \cap (recorded \cup PartialNodes) |-> outputs[n]]
      /\ found' = IF SearchNode \in DOMAIN outputs' THEN found ELSE 0
  BY DEF RetryFailed
<1>3. chosen \in SUBSET DOMAIN graph
  BY DEF From
<1>4. request.approved \in SUBSET Permissions /\ request.attached \in 0..MaxAttached
  BY <1>1 DEF TypeOK
<1>5. /\ outputs' \in [DOMAIN outputs' -> SUBSET Keys]
      /\ DOMAIN outputs' \subseteq DOMAIN graph
  BY <1>1, <1>2 DEF TypeOK
<1>6. found' \in 0..NumQueries
  BY <1>1, <1>2, PlanAssumption DEF TypeOK
<1> HIDE DEF chosen
<1> QED BY <1>1, <1>3, <1>4, <1>5, <1>6, StartsKeeps

LEMMA FinishRunKeeps ==
    ASSUME IInv, FinishRun
    PROVE  IInv'
<1>1. /\ stage = "running" /\ node = NoNode
      /\ UNCHANGED <<plan, origin, graph, request, outputs, node, work, retried, recorded, used,
                     found>>
  BY DEF FinishRun, planVars, runVars
<1>2. \/ stage' = "completed" /\ cause' = cause
      \/ stage' = "failed" /\ cause' = "missing_final_output"
  BY DEF FinishRun, Ends
<1>3. TypeOK /\ RunInv /\ UsesAreApproved
  BY DEF IInv
<1>4. TypeOK'
  BY <1>1, <1>2, <1>3 DEF TypeOK, Stages, Causes
<1>5. ReviewedInv' /\ FreshInv' /\ ApprovedPlansCompile' /\ AuthorityFollowsGate'
  BY <1>2 DEF ReviewedInv, FreshInv, ApprovedPlansCompile, AuthorityFollowsGate
<1>6. RunInv' /\ UsesAreApproved'
  BY <1>1, <1>2, <1>3 DEF RunInv, UsesAreApproved
<1> QED BY <1>4, <1>5, <1>6 DEF IInv

LEMMA InitHolds == Init => IInv
<1> SUFFICES ASSUME Init PROVE IInv
  OBVIOUS
<1>1. TypeOK
  <2>1. NoOutputs \in [DOMAIN NoOutputs -> SUBSET Keys] /\ DOMAIN NoOutputs = {}
    BY DEF NoOutputs
  <2>2. NoRequest \in [approved: SUBSET Permissions, attached: 0..MaxAttached, chosen: {{}}]
    BY PlanAssumption DEF NoRequest
  <2>3. NoWork \in [kind: Works, left: Nat, step: Nat, calls: Nat]
    BY DEF NoWork, Works
  <2>4. NoPlan \in [steps: Plans \cup {{}}, web: BOOLEAN, missing: BOOLEAN]
    BY DEF NoPlan
  <2>5. [n \in {} |-> {}] \in [DOMAIN [n \in {} |-> {}] -> Node]
    OBVIOUS
  <2>6. 0 \in 0..NumQueries /\ NoCause \in Causes /\ "drafting" \in Stages
    BY PlanAssumption DEF Causes, Stages
  <2> QED BY <2>1, <2>2, <2>3, <2>4, <2>5, <2>6 DEF Init, TypeOK
<1>2. work.kind = "none"
  BY DEF Init, NoWork
<1> QED BY <1>1, <1>2 DEF Init, IInv, ReviewedInv, FreshInv, RunInv, ApprovedPlansCompile,
                          AuthorityFollowsGate, UsesAreApproved

LEMMA NextKeeps == IInv /\ [Next]_vars => IInv'
<1> SUFFICES ASSUME IInv, [Next]_vars PROVE IInv'
  OBVIOUS
<1>1. CASE \E p \in Plans, web, missing \in BOOLEAN : DraftPlan(p, web, missing)
  BY <1>1, DraftPlanKeeps
<1>2. CASE ReviewPlan \/ CompilePlan \/ ConfirmPlan \/ RevisePlan
  BY <1>2, ReviewPlanKeeps, CompilePlanKeeps, ConfirmPlanKeeps, RevisePlanKeeps
<1>3. CASE \E g \in SavedGraphs : OpenSaved(g)
  BY <1>3, OpenSavedKeeps
<1>4. CASE (\E a \in Approvals, k \in 0..MaxAttached : StartRun(a, k)) \/ RetryFailed
  BY <1>4, StartRunKeeps, RetryFailedKeeps
<1>5. CASE RunStep
  <2>1. CASE \E n \in DOMAIN graph : EnterNode(n)
    BY <2>1, EnterNodeKeeps
  <2>2. CASE StartNode \/ CallTool \/ Answer \/ Search \/ Think
    BY <2>2, StartNodeKeeps, CallToolKeeps, AnswerKeeps, SearchKeeps, ThinkKeeps
  <2>3. CASE \E tool \in ToolIds \cup {UnknownTool}, inside \in BOOLEAN : Act(tool, inside)
    BY <2>3, ActKeeps
  <2>4. CASE FinishRun
    BY <2>4, FinishRunKeeps
  <2> QED BY <1>5, <2>1, <2>2, <2>3, <2>4 DEF RunStep
<1>6. CASE UNCHANGED vars
  BY <1>6 DEF vars, IInv, TypeOK, ReviewedInv, FreshInv, RunInv, ApprovedPlansCompile,
              AuthorityFollowsGate, UsesAreApproved, Granted, WorkOf, ToolsKnown,
              IsResearch, IsBound, IsPlanned, HasTool
<1> QED BY <1>1, <1>2, <1>3, <1>4, <1>5, <1>6 DEF Next

(***************************************************************************)
(* The theorems.                                                           *)
(***************************************************************************)

LEMMA Inductive == Spec => []IInv
<1>1. Init => IInv
  BY InitHolds
<1>2. IInv /\ [Next]_vars => IInv'
  BY NextKeeps
<1> QED BY <1>1, <1>2, PTL DEF Spec

\* The plan, its graph, the run of it and the work at a node are well typed, for every
\* catalog, every set of tools and every family of plans.
THEOREM PlanTypeCorrect == Spec => []TypeOK
<1>1. IInv => TypeOK
  BY DEF IInv
<1> QED BY <1>1, Inductive, PTL

\* A plan approved by the review is refused only for a step that names no capability.
THEOREM ApprovedPlansCompileAlways == Spec => []ApprovedPlansCompile
<1>1. IInv => ApprovedPlansCompile
  BY DEF IInv
<1> QED BY <1>1, Inductive, PTL

\* The authority refuses no call that passed the gate but for its network domain.
THEOREM AuthorityAgrees == Spec => []AuthorityFollowsGate
<1>1. IInv => AuthorityFollowsGate
  BY DEF IInv
<1> QED BY <1>1, Inductive, PTL

\* No tool is used without the approval of its sensitive permissions, none over the
\* network, and none by a model outside the policy of its node.
THEOREM UsesApproved == Spec => []UsesAreApproved
<1>1. IInv => UsesAreApproved
  BY DEF IInv
<1> QED BY <1>1, Inductive, PTL

\* A search that failed half way has left its output.
SearchInv ==
    stage = "failed" /\ cause = "web_search_failed" =>
        node = SearchNode /\ SearchNode \in DOMAIN outputs

LEMMA SearchInvKeeps == IInv /\ SearchInv /\ [Next]_vars => SearchInv'
<1> SUFFICES ASSUME IInv, SearchInv, [Next]_vars, stage' = "failed",
                    cause' = "web_search_failed"
             PROVE  node' = SearchNode /\ SearchNode \in DOMAIN outputs'
  BY DEF SearchInv
<1>1. CASE Search
  <2>1. stage = "running" /\ node # NoNode /\ WorkOf(node) = "search"
    BY <1>1 DEF Search, Running, IInv, RunInv
  <2>2. node = SearchNode
    <3>1. DocumentWork(node) # "search"
      <4>1. CASE node \in {"content-organize", "report-generate"}
        BY <4>1 DEF DocumentWork, DocumentNames
      <4>2. CASE node = "file-export"
        BY <4>2 DEF DocumentWork, DocumentNames
      <4>3. CASE node \notin {"content-organize", "report-generate", "file-export"}
        BY <4>3 DEF DocumentWork, DocumentNames
      <4> QED BY <4>1, <4>2, <4>3
    <3> QED BY <2>1, <3>1 DEF WorkOf
  <2>3. ~EndNode(Gives(node)) /\ ~GoesOn
    BY <2>1 DEF EndNode, Ends, GoesOn
  <2>4. /\ outputs' = [n \in DOMAIN outputs \cup {node} |->
                          IF n = node THEN Gives(node) ELSE outputs[n]]
        /\ node' = node
    BY <1>1, <2>3 DEF Search
  <2> QED BY <2>2, <2>4
<1>2. CASE UNCHANGED vars
  BY <1>2 DEF vars, SearchInv
<1>3. ASSUME Next, ~Search PROVE FALSE
  <2>1. CASE \E p \in Plans, web, missing \in BOOLEAN : DraftPlan(p, web, missing)
    BY <2>1 DEF DraftPlan
  <2>2. CASE ReviewPlan \/ CompilePlan \/ ConfirmPlan \/ RevisePlan
    BY <2>2 DEF ReviewPlan, CompilePlan, ConfirmPlan, RevisePlan
  <2>3. CASE \E g \in SavedGraphs : OpenSaved(g)
    BY <2>3 DEF OpenSaved
  <2>4. CASE (\E a \in Approvals, k \in 0..MaxAttached : StartRun(a, k)) \/ RetryFailed
    BY <2>4 DEF StartRun, RetryFailed, Starts, Ends
  <2>5. CASE \E n \in DOMAIN graph : EnterNode(n)
    BY <2>5 DEF EnterNode, IsNext, Ends
  <2>6. CASE StartNode
    <3>1. StartCause # "web_search_failed"
      BY DEF StartCause, AttachmentCause, NoCause
    <3> QED BY <2>6, <3>1 DEF StartNode, Running, FailNode, Ends, EndNode, GoesOn
  <2>7. CASE CallTool
    <3>1. \A asks, inside : Verdict(graph[node].tool, asks, inside) # "web_search_failed"
      BY DEF Verdict, AuthorityCode
    <3> QED BY <2>7, <3>1 DEF CallTool, Running, FailNode, Ends, EndNode, GoesOn
  <2>8. CASE Answer
    BY <2>8 DEF Answer, Running, FailNode, Ends, EndNode
  <2>9. CASE Think
    BY <2>9 DEF Think, Running, FailNode, Ends, EndNode, GoesOn
  <2>10. CASE \E tool \in ToolIds \cup {UnknownTool}, inside \in BOOLEAN : Act(tool, inside)
    <3>1. \A tool : PolicyError(graph[node].react, tool) # "web_search_failed"
      BY DEF PolicyError, NoCause
    <3> QED BY <2>10, <3>1 DEF Act, Running, FailNode, Ends, GoesOn
  <2>11. CASE FinishRun
    BY <2>11 DEF FinishRun, Ends
  <2> QED BY <1>3, <2>1, <2>2, <2>3, <2>4, <2>5, <2>6, <2>7, <2>8, <2>9, <2>10, <2>11
          DEF Next, RunStep
<1> QED BY <1>1, <1>2, <1>3

LEMMA SearchKeepsAnswers ==
    ASSUME IInv, SearchInv, [Next]_vars PROVE [KeepsAnswers]_vars
<1> SUFFICES ASSUME RetriesASearch PROVE found' = found
  BY DEF KeepsAnswers
<1> USE DEF RetriesASearch
<1>1. CASE RetryFailed
  <2>1. node = SearchNode /\ SearchNode \in DOMAIN outputs
    BY DEF SearchInv
  <2>2. SearchNode # NoNode => SearchNode \in PartialNodes
    BY <2>1 DEF PartialNodes, FailedNodes
  <2>3. /\ outputs' = [n \in DOMAIN outputs \cap (recorded \cup PartialNodes) |-> outputs[n]]
        /\ found' = IF SearchNode \in DOMAIN outputs' THEN found ELSE 0
    BY <1>1 DEF RetryFailed
  <2>4. SearchNode # NoNode
    <3>1. SearchNode \in ResearchFlow
      BY DEF ResearchFlow
    <3> QED BY <3>1, PlanAssumption
  <2> QED BY <2>1, <2>2, <2>3, <2>4
<1>2. CASE \E a \in Approvals, k \in 0..MaxAttached : StartRun(a, k)
  <2>1. request'.chosen = DOMAIN graph \cap Executable(graph)
    BY <1>2 DEF StartRun, Starts
  <2> QED BY <2>1 DEF Executable
<1>3. CASE UNCHANGED vars
  BY <1>3 DEF vars
<1>4. CASE ~RetryFailed /\ ~(\E a \in Approvals, k \in 0..MaxAttached : StartRun(a, k))
           /\ Next
  BY <1>4 DEF Next, RunStep, DraftPlan, ReviewPlan, CompilePlan, ConfirmPlan,
                    RevisePlan, OpenSaved, EnterNode, IsNext, StartNode, Running, CallTool,
                    Answer, Search, Think, Act, FinishRun
<1> QED BY <1>1, <1>2, <1>3, <1>4

LEMMA SearchInvariant == Spec => []SearchInv
<1>1. Init => SearchInv
  BY DEF Init, SearchInv
<1>2. IInv /\ SearchInv /\ [Next]_vars => SearchInv'
  BY SearchInvKeeps
<1> QED BY <1>1, <1>2, Inductive, PTL DEF Spec

\* The retry of a search that failed half way keeps the answered queries, however often it
\* fails.
THEOREM SearchKeepsItsAnswers == Spec => AnsweredQueriesStay
<1>1. IInv /\ SearchInv /\ [Next]_vars => [KeepsAnswers]_vars
  BY SearchKeepsAnswers
<1> QED BY <1>1, Inductive, SearchInvariant, PTL DEF Spec, AnsweredQueriesStay

(***************************************************************************)
(* A run goes on.  These are the two facts RunEnds rests on: while nodes   *)
(* are left there is one whose turn it is, and every step of a run that    *)
(* does not end it brings it closer to its end.                            *)
(***************************************************************************)

\* _topological_nodes finds an order: in every part of the graph some node depends on none
\* of that part (execution.py:2284-2308, which refuses any other graph before its run).
Acyclic(g) ==
    \A part \in SUBSET DOMAIN g : part # {} =>
        \E n \in part : Elements(g[n].deps) \cap part = {}

\* Between two nodes of a run the next one can be entered, or the run can be finished.
RunsGoOn ==
    stage = "running" /\ node = NoNode =>
        request.chosen \subseteq recorded \/ \E n \in DOMAIN graph : IsNext(n)

\* What is left of a run: nodes, retries of them, the phase of the node at hand, the
\* queries or the steps of its model, and the calls or attempts before the next of these.
NodesAhead == Cardinality(request.chosen \ recorded)
RetriesAhead == Cardinality(request.chosen \ retried)
Phase == IF node = NoNode THEN 2 ELSE IF work.kind = "none" THEN 1 ELSE 0
TurnsAhead ==
    CASE work.kind = "search" -> NumQueries - found
      [] work.kind = "react" -> graph[node].react.steps - work.step
      [] OTHER -> 0
EffortBounded ==
    stage = "running" => {NodesAhead, RetriesAhead, Phase, TurnsAhead, work.left} \subseteq Nat

\* The five numbers get smaller in their lexicographic order.
Shrinks ==
    \/ NodesAhead' < NodesAhead
    \/ /\ NodesAhead' = NodesAhead
       /\ \/ RetriesAhead' < RetriesAhead
          \/ /\ RetriesAhead' = RetriesAhead
             /\ \/ Phase' < Phase
                \/ /\ Phase' = Phase
                   /\ \/ TurnsAhead' < TurnsAhead
                      \/ TurnsAhead' = TurnsAhead /\ work'.left < work.left
EveryStepCounts == [][stage = "running" /\ stage' = "running" => Shrinks]_vars

\* The graph is finite and names no node NoNode; the node at hand is not recorded; a tool
\* has calls left, a search attempts, and a model has not had more steps than its policy
\* gives it.
GraphInv == IsFiniteSet(DOMAIN graph) /\ NoNode \notin DOMAIN graph
AttemptInv ==
    stage = "running" =>
        /\ node # NoNode => node \notin recorded
        /\ work.kind \in {"tool", "search"} => work.left > 0
        /\ work.kind = "react" => work.step <= graph[node].react.steps

\* The ids of a finite plan are finitely many.
LEMMA PlansAreFinite ==
    ASSUME NEW p \in Plans
    PROVE  IsFiniteSet(IdsOf(p)) /\ NoNode \notin IdsOf(p)
<1>1. IsFiniteSet(p) /\ \A s \in p : s.id # NoNode
  BY PlanAssumption
<1> DEFINE id == [s \in p |-> s.id]
<1>2. id \in Surjection(p, IdsOf(p))
  BY DEF IdsOf, Surjection
<1>3. IsFiniteSet(IdsOf(p))
  BY <1>1, <1>2, FS_Surjection
<1> QED BY <1>1, <1>3 DEF IdsOf

\* Only a plan that was compiled and a project that was opened bring a graph.
LEMMA GraphSources ==
    ASSUME IInv, [Next]_vars
    PROVE  \/ graph' = graph
           \/ DOMAIN graph' = {}
           \/ stage = "approved" /\ graph' = GraphOf(plan.steps)
           \/ graph' \in SavedGraphs
<1>1. CASE \E p \in Plans, web, missing \in BOOLEAN : DraftPlan(p, web, missing)
  BY <1>1 DEF DraftPlan
<1>2. CASE ReviewPlan \/ CompilePlan \/ ConfirmPlan \/ RevisePlan
  BY <1>2 DEF ReviewPlan, CompilePlan, ConfirmPlan, RevisePlan, planVars
<1>3. CASE \E g \in SavedGraphs : OpenSaved(g)
  BY <1>3 DEF OpenSaved
<1>4. CASE (\E a \in Approvals, k \in 0..MaxAttached : StartRun(a, k)) \/ RetryFailed
  BY <1>4 DEF StartRun, RetryFailed, Starts, planVars
<1>5. CASE RunStep
  BY <1>5 DEF RunStep, EnterNode, StartNode, CallTool, Answer, Search, Think, Act, FinishRun,
              Idle, planVars
<1>6. CASE UNCHANGED vars
  BY <1>6 DEF vars
<1> QED BY <1>1, <1>2, <1>3, <1>4, <1>5, <1>6 DEF Next

LEMMA GraphInvKeeps == IInv /\ GraphInv /\ [Next]_vars => GraphInv'
<1> SUFFICES ASSUME IInv, GraphInv, [Next]_vars PROVE GraphInv'
  OBVIOUS
<1>1. CASE graph' = graph
  BY <1>1 DEF GraphInv
<1>2. CASE DOMAIN graph' = {}
  BY <1>2, FS_EmptySet DEF GraphInv
<1>3. CASE stage = "approved" /\ graph' = GraphOf(plan.steps)
  <2>1. plan.steps \in Plans \cup {{}}
    BY DEF IInv, TypeOK
  <2>2. plan.steps # {}
    BY <1>3 DEF IInv, ReviewedInv, ValidDraft
  <2>3. DOMAIN graph' = IdsOf(plan.steps)
    BY <1>3 DEF GraphOf
  <2> QED BY <2>1, <2>2, <2>3, PlansAreFinite DEF GraphInv
<1>4. CASE graph' \in SavedGraphs
  BY <1>4, PlanAssumption DEF GraphInv
<1> QED BY <1>1, <1>2, <1>3, <1>4, GraphSources

LEMMA GraphInvariant == Spec => []GraphInv
<1>1. Init => GraphInv
  BY FS_EmptySet DEF Init, GraphInv
<1> QED BY <1>1, GraphInvKeeps, Inductive, PTL DEF Spec

\* The graph compiled from a valid plan is acyclic as the plan is.
LEMMA CompiledGraphsAreAcyclic ==
    ASSUME NEW p, p \subseteq Step, ValidDraft(p)
    PROVE  Acyclic(GraphOf(p))
<1> DEFINE g == GraphOf(p)
<1>1. ASSUME NEW s \in p PROVE s.id \in IdsOf(p) /\ g[s.id].deps = s.deps
  <2>1. s.id \in IdsOf(p)
    BY DEF IdsOf
  <2>2. (CHOOSE t \in p : t.id = s.id) = s
    BY DEF ValidDraft
  <2>3. g[s.id] = CompileStep(s)
    BY <2>1, <2>2 DEF GraphOf
  <2> QED BY <2>1, <2>3 DEF CompileStep
<1>2. DOMAIN g = IdsOf(p)
  BY DEF GraphOf
<1> HIDE DEF g
<1>3. ASSUME NEW part \in SUBSET DOMAIN g, part # {}
      PROVE  \E n \in part : Elements(g[n].deps) \cap part = {}
  <2> DEFINE steps == {s \in p : s.id \in part}
  <2>1. IdsOf(steps) = part /\ steps \in SUBSET p
    BY <1>2 DEF IdsOf
  <2>2. steps # {}
    BY <1>3, <2>1 DEF IdsOf
  <2>3. PICK s \in steps : Elements(s.deps) \cap IdsOf(steps) = {}
    BY <2>1, <2>2 DEF ValidDraft
  <2>4. s.id \in part /\ g[s.id].deps = s.deps
    BY <1>1
  <2> QED BY <2>1, <2>3, <2>4
<1> QED BY <1>3 DEF Acyclic, g

\* While nodes of a run are left, the dependencies of one of them are done: no run of a
\* compiled plan, or of a saved graph that the executor takes, waits for a node that waits
\* for it.  With EveryStepCounts this is what RunEnds needs besides fairness.
THEOREM NoRunWaitsForItself ==
    ASSUME \A g \in SavedGraphs : Acyclic(g)
    PROVE  Spec => []RunsGoOn
<1>1. Init => Acyclic(graph)
  BY DEF Init, Acyclic
<1>2. IInv /\ Acyclic(graph) /\ [Next]_vars => Acyclic(graph)'
  <2> SUFFICES ASSUME IInv, Acyclic(graph), [Next]_vars PROVE Acyclic(graph')
    BY DEF Acyclic
  <2>1. CASE graph' = graph
    BY <2>1
  <2>2. CASE DOMAIN graph' = {}
    BY <2>2 DEF Acyclic
  <2>3. CASE stage = "approved" /\ graph' = GraphOf(plan.steps)
    <3>1. plan.steps \subseteq Step
      BY PlanAssumption DEF IInv, TypeOK
    <3>2. ValidDraft(plan.steps)
      BY <2>3 DEF IInv, ReviewedInv
    <3> QED BY <2>3, <3>1, <3>2, CompiledGraphsAreAcyclic
  <2>4. CASE graph' \in SavedGraphs
    BY <2>4
  <2> QED BY <2>1, <2>2, <2>3, <2>4, GraphSources
<1>3. IInv /\ Acyclic(graph) => RunsGoOn
  <2> SUFFICES ASSUME IInv, Acyclic(graph), stage = "running", node = NoNode,
                      ~(request.chosen \subseteq recorded)
               PROVE  \E n \in DOMAIN graph : IsNext(n)
    BY DEF RunsGoOn
  <2> DEFINE part == request.chosen \ recorded
  <2>1. part \in SUBSET DOMAIN graph /\ part # {}
    BY DEF IInv, TypeOK
  <2>2. PICK n \in part : Elements(graph[n].deps) \cap part = {}
    BY <2>1 DEF Acyclic
  <2> QED BY <2>1, <2>2 DEF IsNext
<1> QED BY <1>1, <1>2, <1>3, Inductive, PTL DEF Spec

\* A node that is done leaves fewer, and so does one that is retried.
LEMMA OneLess ==
    ASSUME NEW S, IsFiniteSet(S), NEW T \in SUBSET S, NEW x \in S \ T
    PROVE  /\ Cardinality(S \ T) \in Nat
           /\ Cardinality(S \ (T \cup {x})) < Cardinality(S \ T)
<1>1. IsFiniteSet(S \ T) /\ Cardinality(S \ T) \in Nat
  BY FS_Subset, FS_CardinalityType
<1>2. S \ (T \cup {x}) = (S \ T) \ {x}
  OBVIOUS
<1>3. Cardinality((S \ T) \ {x}) = Cardinality(S \ T) - 1
  BY <1>1, FS_RemoveElement
<1> QED BY <1>1, <1>2, <1>3

\* The attempt ends: the run has one node less, or the node one retry less.
LEMMA AttemptsEnd ==
    ASSUME IInv, GraphInv, AttemptInv, stage = "running", node # NoNode, NEW out,
           EndNode(out), stage' = "running", request' = request
    PROVE  Shrinks /\ (node' # NoNode => node' = node /\ recorded' = recorded)
<1>1. /\ TypeOK /\ node \in request.chosen \ recorded
      /\ IsFiniteSet(request.chosen)
      /\ recorded \in SUBSET request.chosen /\ retried \in SUBSET request.chosen
  BY FS_Subset DEF IInv, RunInv, AttemptInv, GraphInv, TypeOK
<1>2. CASE recorded' = recorded \cup {node} /\ node' = NoNode
  BY <1>1, <1>2, OneLess DEF Shrinks, NodesAhead
<1>3. CASE node \notin retried /\ retried' = retried \cup {node}
           /\ UNCHANGED <<recorded, node>>
  <2>1. RetriesAhead' < RetriesAhead
    BY <1>1, <1>3, OneLess DEF RetriesAhead
  <2>2. NodesAhead' = NodesAhead
    BY <1>3 DEF NodesAhead
  <2> QED BY <1>3, <2>1, <2>2 DEF Shrinks
<1> QED BY <1>2, <1>3 DEF EndNode, Ends

\* A step within an attempt keeps the nodes and the retries; it counts if the phase ends,
\* or a query or a step of the model is used, or a call.
LEMMA WithinAttempts ==
    ASSUME UNCHANGED <<request, recorded, retried>>,
           \/ Phase' < Phase
           \/ Phase' = Phase /\ TurnsAhead' < TurnsAhead
           \/ Phase' = Phase /\ TurnsAhead' = TurnsAhead /\ work'.left < work.left
    PROVE  Shrinks
<1>1. NodesAhead' = NodesAhead /\ RetriesAhead' = RetriesAhead
  BY DEF NodesAhead, RetriesAhead
<1> QED BY <1>1 DEF Shrinks

\* An attempt that ends leaves no work, and its node unrecorded if it is tried again.
LEMMA EndedAttempts ==
    ASSUME IInv, GraphInv, AttemptInv, stage = "running", node # NoNode, stage' = "running",
           request' = request, NEW out, EndNode(out), work' = NoWork
    PROVE  Shrinks /\ AttemptInv'
<1>1. Shrinks /\ (node' # NoNode => node' = node /\ recorded' = recorded)
  BY AttemptsEnd
<1> QED BY <1>1 DEF AttemptInv, NoWork

LEMMA EnterNodeCounts ==
    ASSUME IInv, AttemptInv, NEW n \in DOMAIN graph, NoNode \notin DOMAIN graph, EnterNode(n),
           stage' = "running"
    PROVE  Shrinks /\ AttemptInv'
<1>1. /\ stage = "running" /\ node = NoNode /\ node' = n /\ n \notin recorded /\ n # NoNode
      /\ UNCHANGED <<graph, request, work, retried, recorded, found>>
  BY DEF EnterNode, IsNext, planVars
<1>2. work.kind = "none"
  BY <1>1 DEF IInv, RunInv
<1>3. Phase = 2 /\ Phase' = 1
  BY <1>1, <1>2 DEF Phase
<1> QED BY <1>1, <1>2, <1>3, WithinAttempts DEF AttemptInv

LEMMA StartNodeCounts ==
    ASSUME IInv, GraphInv, AttemptInv, StartNode, stage' = "running"
    PROVE  Shrinks /\ AttemptInv'
<1>1. stage = "running" /\ node # NoNode /\ work.kind = "none"
  BY DEF StartNode, Running
<1>2. CASE \E out : EndNode(out) /\ Idle
  BY <1>1, <1>2, EndedAttempts DEF Idle
<1>3. CASE /\ StartCause = NoCause /\ WorkOf(node) \notin {"plain", "attachment"}
           /\ work' = [NoWork EXCEPT !.kind = WorkOf(node),
                         !.left = CASE WorkOf(node) = "tool" -> Invocations(node)
                                    [] WorkOf(node) = "search" -> MaxSearchAttempts
                                    [] OTHER -> 0]
           /\ GoesOn /\ UNCHANGED <<planVars, request, used, found>>
  <2>1. /\ work'.kind = WorkOf(node) /\ work'.step = 0
        /\ WorkOf(node) = "tool" => work'.left = Invocations(node)
        /\ WorkOf(node) = "search" => work'.left = MaxSearchAttempts
    BY <1>3 DEF NoWork
  <2>2. /\ node' = node /\ recorded' = recorded /\ retried' = retried
        /\ request' = request /\ graph' = graph
    BY <1>3 DEF GoesOn, planVars
  <2>3. WorkOf(node) # "none"
    BY WorkKinds
  <2>4. Phase = 1 /\ Phase' = 0
    BY <1>1, <2>1, <2>2, <2>3 DEF Phase
  <2>5. TypeOK /\ node \in DOMAIN graph /\ node \notin recorded
    BY <1>1, AtNode DEF AttemptInv
  <2>6. WorkOf(node) = "tool" => Invocations(node) > 0
    <3>1. SUFFICES ASSUME WorkOf(node) = "tool" PROVE Invocations(node) > 0
      OBVIOUS
    <3>2. ~CannotRender(node)
      BY <1>3, <3>1 DEF StartCause, NoCause
    <3>3. request.attached \in Nat
      BY <2>5, PlanAssumption DEF TypeOK
    <3> QED BY <3>2, <3>3 DEF CannotRender, Invocations
  <2>7. graph[node].react.steps \in Nat
    BY <2>5 DEF TypeOK, Node, Policy
  <2>8. AttemptInv'
    BY <2>1, <2>2, <2>5, <2>6, <2>7, PlanAssumption DEF AttemptInv
  <2> QED BY <2>2, <2>4, <2>8, WithinAttempts
<1>4. ~(\E c : FailNode(c))
  BY DEF FailNode, Ends
<1> QED BY <1>2, <1>3, <1>4 DEF StartNode

LEMMA CallToolCounts ==
    ASSUME IInv, GraphInv, AttemptInv, CallTool, stage' = "running"
    PROVE  Shrinks /\ AttemptInv'
<1>1. /\ stage = "running" /\ node # NoNode /\ work.kind = "tool" /\ TypeOK
      /\ node \notin recorded
  BY DEF CallTool, Running, IInv, AttemptInv
<1>2. ~(\E c : FailNode(c))
  BY DEF FailNode, Ends
<1>3. /\ UNCHANGED <<planVars, request, found>>
      /\ \/ EndNode(Gives(node)) /\ work' = NoWork
         \/ work.left > 1 /\ work' = [work EXCEPT !.left = @ - 1] /\ GoesOn
  BY <1>2 DEF CallTool
<1>4. CASE EndNode(Gives(node)) /\ work' = NoWork
  BY <1>1, <1>3, <1>4, EndedAttempts
<1>5. CASE work.left > 1 /\ work' = [work EXCEPT !.left = @ - 1] /\ GoesOn
  <2>1. work' = [kind |-> "tool", left |-> work.left - 1, step |-> work.step,
                 calls |-> work.calls] /\ work.left \in Nat
    BY <1>1, <1>5 DEF TypeOK
  <2>2. node' = node /\ recorded' = recorded /\ retried' = retried /\ request' = request
    BY <1>3, <1>5 DEF GoesOn
  <2>3. Phase' = Phase /\ TurnsAhead' = TurnsAhead
    BY <1>1, <2>1, <2>2 DEF Phase, TurnsAhead
  <2> QED BY <1>1, <1>5, <2>1, <2>2, <2>3, WithinAttempts DEF AttemptInv
<1> QED BY <1>3, <1>4, <1>5

LEMMA SearchCounts ==
    ASSUME IInv, GraphInv, AttemptInv, Search, stage' = "running"
    PROVE  Shrinks /\ AttemptInv'
<1>1. /\ stage = "running" /\ node # NoNode /\ work.kind = "search" /\ TypeOK
      /\ node \notin recorded
  BY DEF Search, Running, IInv, AttemptInv
<1>2. CASE EndNode(Gives(node)) /\ Idle
  BY <1>1, <1>2, EndedAttempts DEF Idle
<1>3. CASE /\ found < NumQueries /\ found' = found + 1
           /\ work' = [work EXCEPT !.left = MaxSearchAttempts]
           /\ GoesOn /\ UNCHANGED <<planVars, request, used>>
  <2>1. work'.kind = "search" /\ work'.left = MaxSearchAttempts
    BY <1>1, <1>3 DEF TypeOK
  <2>2. node' = node /\ recorded' = recorded /\ retried' = retried /\ request' = request
    BY <1>3 DEF GoesOn
  <2>3. Phase' = Phase /\ TurnsAhead' < TurnsAhead
    BY <1>1, <1>3, <2>1, <2>2, PlanAssumption DEF Phase, TurnsAhead, TypeOK
  <2> QED BY <1>1, <2>1, <2>2, <2>3, WithinAttempts, PlanAssumption DEF AttemptInv
<1>4. CASE /\ work.left > 1 /\ work' = [work EXCEPT !.left = @ - 1]
           /\ GoesOn /\ UNCHANGED <<planVars, request, used, found>>
  <2>1. work'.kind = "search" /\ work'.left = work.left - 1 /\ work.left \in Nat
    BY <1>1, <1>4 DEF TypeOK
  <2>2. /\ node' = node /\ recorded' = recorded /\ retried' = retried /\ request' = request
        /\ found' = found
    BY <1>4 DEF GoesOn
  <2>3. Phase' = Phase /\ TurnsAhead' = TurnsAhead
    BY <1>1, <2>1, <2>2 DEF Phase, TurnsAhead
  <2> QED BY <1>1, <1>4, <2>1, <2>2, <2>3, WithinAttempts DEF AttemptInv
<1> QED BY <1>2, <1>3, <1>4 DEF Search, Ends

LEMMA ThinkCounts ==
    ASSUME IInv, GraphInv, AttemptInv, Think, stage' = "running"
    PROVE  Shrinks /\ AttemptInv'
<1>1. /\ stage = "running" /\ node # NoNode /\ work.kind = "react" /\ TypeOK
      /\ node \notin recorded /\ node \in DOMAIN graph
  BY DEF Think, Running, IInv, AttemptInv, TypeOK
<1>2. ~(\E c : FailNode(c))
  BY DEF FailNode, Ends
<1>3. CASE EndNode(Gives(node)) /\ Idle
  BY <1>1, <1>3, EndedAttempts DEF Idle
<1>4. CASE /\ work.step < graph[node].react.steps
           /\ \E batch \in IF graph[node].react.native THEN 1..MaxBatch ELSE {1} :
                  work' = [work EXCEPT !.step = @ + 1, !.left = batch]
           /\ GoesOn /\ UNCHANGED <<planVars, request, used, found>>
  <2>1. work'.kind = "react" /\ work'.step = work.step + 1 /\ work.step \in Nat
    BY <1>1, <1>4 DEF TypeOK
  <2>2. /\ node' = node /\ recorded' = recorded /\ retried' = retried /\ request' = request
        /\ graph' = graph
    BY <1>4 DEF GoesOn, planVars
  <2>3. graph[node].react.steps \in Nat
    BY <1>1 DEF TypeOK, Node, Policy
  <2>4. Phase' = Phase /\ TurnsAhead' < TurnsAhead
    BY <1>1, <2>1, <2>2, <2>3 DEF Phase, TurnsAhead
  <2> QED BY <1>1, <1>4, <2>1, <2>2, <2>3, <2>4, WithinAttempts DEF AttemptInv
<1> QED BY <1>2, <1>3, <1>4 DEF Think

LEMMA ActCounts ==
    ASSUME IInv, GraphInv, AttemptInv, NEW tool, NEW inside, Act(tool, inside), stage' = "running"
    PROVE  Shrinks /\ AttemptInv'
<1>1. /\ stage = "running" /\ node # NoNode /\ work.kind = "react" /\ TypeOK
      /\ node \notin recorded /\ work.left > 0
  BY DEF Act, Running, IInv, AttemptInv
<1>2. ~(\E c : FailNode(c))
  BY DEF FailNode, Ends
<1>3. /\ work' = [work EXCEPT !.left = @ - 1, !.calls = @ + 1]
      /\ GoesOn /\ UNCHANGED <<planVars, request, found>>
  BY <1>2 DEF Act
<1>4. /\ work'.kind = "react" /\ work'.step = work.step /\ work'.left = work.left - 1
      /\ work.left \in Nat
  BY <1>1, <1>3 DEF TypeOK
<1>5. /\ node' = node /\ recorded' = recorded /\ retried' = retried /\ request' = request
      /\ graph' = graph
  BY <1>3 DEF GoesOn, planVars
<1>6. Phase' = Phase /\ TurnsAhead' = TurnsAhead
  BY <1>1, <1>4, <1>5 DEF Phase, TurnsAhead
<1> QED BY <1>1, <1>4, <1>5, <1>6, WithinAttempts DEF AttemptInv

\* Every step of a run that does not end it counts.
LEMMA RunningCounts ==
    ASSUME IInv, GraphInv, AttemptInv, Next, stage = "running", stage' = "running"
    PROVE  Shrinks /\ AttemptInv'
<1>1. ~(\E p \in Plans, web, missing \in BOOLEAN : DraftPlan(p, web, missing))
  BY DEF DraftPlan
<1>2. ~(ReviewPlan \/ CompilePlan \/ ConfirmPlan \/ RevisePlan)
  BY DEF ReviewPlan, CompilePlan, ConfirmPlan, RevisePlan
<1>3. ~(\E g \in SavedGraphs : OpenSaved(g))
  BY DEF OpenSaved
<1>4. ~((\E a \in Approvals, k \in 0..MaxAttached : StartRun(a, k)) \/ RetryFailed)
  BY DEF StartRun, RetryFailed
<1>5. ~FinishRun
  BY DEF FinishRun, Ends
<1>6. CASE \E n \in DOMAIN graph : EnterNode(n)
  BY <1>6, EnterNodeCounts DEF GraphInv
<1>7. CASE Answer
  <2>1. /\ stage = "running" /\ node # NoNode /\ Idle
        /\ \E out : EndNode(out)
    BY <1>7 DEF Answer, Running, FailNode, Ends
  <2> QED BY <2>1, EndedAttempts DEF Idle
<1>8. CASE \E tool \in ToolIds \cup {UnknownTool}, inside \in BOOLEAN : Act(tool, inside)
  BY <1>8, ActCounts
<1> QED BY <1>1, <1>2, <1>3, <1>4, <1>5, <1>6, <1>7, <1>8, StartNodeCounts, CallToolCounts,
           SearchCounts, ThinkCounts DEF Next, RunStep

\* What is known of the work at a node holds in every reachable state.
LEMMA AttemptInvariant == Spec => []AttemptInv
<1>1. Init => AttemptInv
  BY DEF Init, AttemptInv
<1>2. IInv /\ GraphInv /\ AttemptInv /\ [Next]_vars => AttemptInv'
  <2> SUFFICES ASSUME IInv, GraphInv, AttemptInv, [Next]_vars, stage' = "running"
               PROVE  AttemptInv'
    BY DEF AttemptInv
  <2>1. CASE UNCHANGED vars
    BY <2>1 DEF vars, AttemptInv
  <2>2. CASE Next /\ stage = "running"
    BY <2>2, RunningCounts
  <2>3. CASE (\E a \in Approvals, k \in 0..MaxAttached : StartRun(a, k)) \/ RetryFailed
    BY <2>3 DEF StartRun, RetryFailed, Starts, AttemptInv, NoWork
  <2>4. ASSUME Next, stage # "running",
               ~((\E a \in Approvals, k \in 0..MaxAttached : StartRun(a, k)) \/ RetryFailed)
        PROVE  FALSE
    BY <2>4 DEF Next, RunStep, DraftPlan, ReviewPlan, CompilePlan, ConfirmPlan, RevisePlan,
                OpenSaved, EnterNode, IsNext, StartNode, Running, CallTool, Answer, Search,
                Think, Act, FinishRun
  <2> QED BY <2>1, <2>2, <2>3, <2>4
<1> QED BY <1>1, <1>2, Inductive, GraphInvariant, PTL DEF Spec

\* Whatever the models answer and the tools do, every step of a run that does not end it
\* lowers, in their lexicographic order, five numbers of nodes, retries, turns and calls
\* left: attempts, steps, queries and retries are counted where the executor's loops turn,
\* for every graph and every policy.  RunEnds is this and fairness.
THEOREM RunsComeToTheirEnd == Spec => []EffortBounded /\ EveryStepCounts
<1>1. IInv /\ GraphInv /\ AttemptInv => EffortBounded
  <2> SUFFICES ASSUME IInv, GraphInv, AttemptInv, stage = "running"
               PROVE  {NodesAhead, RetriesAhead, Phase, TurnsAhead, work.left} \subseteq Nat
    BY DEF EffortBounded
  <2>1. TypeOK /\ IsFiniteSet(request.chosen)
    BY FS_Subset DEF IInv, GraphInv, TypeOK
  <2>2. NodesAhead \in Nat /\ RetriesAhead \in Nat
    BY <2>1, FS_Difference, FS_Subset, FS_CardinalityType DEF NodesAhead, RetriesAhead
  <2>3. Phase \in Nat /\ work.left \in Nat
    BY <2>1 DEF Phase, TypeOK
  <2>4. CASE work.kind = "react"
    <3>1. node \in DOMAIN graph
      BY <2>1, <2>4 DEF IInv, RunInv, TypeOK
    <3>2. graph[node].react.steps \in Nat /\ work.step \in Nat
      BY <2>1, <3>1 DEF TypeOK, Node, Policy
    <3>3. work.step <= graph[node].react.steps
      BY <2>4 DEF AttemptInv
    <3>4. TurnsAhead = graph[node].react.steps - work.step
      BY <2>4 DEF TurnsAhead
    <3> QED BY <2>2, <2>3, <3>2, <3>3, <3>4
  <2>5. CASE work.kind = "search"
    BY <2>1, <2>2, <2>3, <2>5, PlanAssumption DEF TurnsAhead, TypeOK
  <2>6. CASE work.kind \notin {"react", "search"}
    BY <2>2, <2>3, <2>6 DEF TurnsAhead
  <2> QED BY <2>4, <2>5, <2>6
<1>2. IInv /\ GraphInv /\ AttemptInv /\ [Next]_vars
          => [stage = "running" /\ stage' = "running" => Shrinks]_vars
  BY RunningCounts
<1> QED BY <1>1, <1>2, Inductive, GraphInvariant, AttemptInvariant, PTL
        DEF Spec, EveryStepCounts
=============================================================================
