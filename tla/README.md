# Alita: a TLA+ verification project

Alita is a desktop application: a React front end in a Tauri (Rust) shell, and a Python
sidecar that turns a message into a reviewed plan, the plan into a graph of nodes, and
executes the graph with local or remote models and tools. This directory models the parts
of it in which the *order* of steps, or the agreement of several places that decide the same
thing, makes the program right; checks the models with TLC; and proves the most important
results for every value of the constants with TLAPS. Paths below are relative to the
repository; `py/` stands for `python/agent_service/` and `rs/` for `src-tauri/src/`.

Contents: [inventory](#inventory) · [modules](#modules) · [GraphRun](#graphrun) ·
[DeepPlanning](#deepplanning) · [MessageTurn](#messageturn) · [PlanToTools](#plantotools) ·
[ProviderSettings](#providersettings) · [LocalServices](#localservices) · [runs](#runs) ·
[disagreements found](#disagreements-found) · [proofs](#proofs) ·
[what is not modelled](#what-is-not-modelled) · [plan](#plan) · [use](#use)

## Inventory

For each part: its state, its operations, whom it talks to, what is hard about it, and what
makes it correct. `PROJECT.json` lists the same parts with their files and status, and the
hazards with their lines.

**Node graph executor** (`py/execution.py`, `run_registry.py`, `run_journal.py`,
`runtime_loop.py`, `final_verifier.py`). State: a token per run id in the registry;
`run.json`, one record per node and `checkpoints.json` in the run's directory; the locals of
each call of `run_graph_events`. Operations: start a run (whole, from a node, failed nodes
only, resume from a checkpoint), execute nodes in order, retry once, fail, cancel, complete.
It is a generator pulled by an HTTP response, so a reader can leave at any yield and the
sidecar can die at any write. Hard: what a resume finds on disk; tokens of jobs that share a
run id; partial runs over a graph whose statuses come back from the client. Correct when no
node is lost, repeated or run without its inputs, when the disk never claims what was not
done, and when cancels reach the right job. → `GraphRun`; what each kind of graph makes of its
nodes → `PlanToTools`

**Planning conversation** (`py/deep_agent_runtime_graph.py`, `deep_agent_checkpointer.py`,
`agent_execution_runtime.py`, `plan_feedback.py`, `agent_runtime_engine.py`,
`src/app/App.tsx`, `src/app/backendEvents.ts`). State: a checkpointed LangGraph thread per
message; the offer ("confirm, revise or cancel this plan") the client shows. Operations:
plan, review, revise within a budget, ask for a clarification, present, confirm, compile,
execute, verify. Client and thread only share messages that can be lost or overtaken. Hard:
nodes that run again after a crash with a resume value meant for another question; answers
to offers that are no longer open. Correct when only the reviewed plan is shown, only the
confirmed graph runs, and the conversation ends. → `DeepPlanning`

**Engine routes without a graph, router and intent** (`py/agent_runtime_engine.py`,
`router_v2.py`, `semantic_router.py`, `capability_gate.py`, `intent.py`, `graph.py`,
`plan_feedback.py`). Stateless: a message comes with the canvas's graph and is routed, up to
three times, by a model that may fail; it is answered, handed to a planning thread, or taken
as feedback on the graph. The state is the desktop's: the canvas, the question whether to
overwrite it, whether it was ever run. Turns overlap. Hard: a stream has already passed events
on when it turns out that a graph was drawn; a yes that arrives when the graph asked about is
another one; a router that cannot be reached. Correct when an answer never touches the canvas,
an outage never starts a plan or redraws the canvas unasked, and a graph that was run is only replaced after a yes about it.
→ `MessageTurn`

**Planners and graph compilation** (`py/task_planner.py`, `task_graph.py`,
`tool_catalog_planner.py`, `planner_chain.py`, `deep_agent_planner.py`,
`deep_agent_graph_compile.py`, `agent_plan_compile.py`, `execution_graph.py`, …). Pure
functions from a message or a drafted plan to a graph. Hard: five places decide on their own
what a step or node is; what one accepts the next may refuse. Correct when what the review
approves compiles, and a graph a planner draws is one an executor can run. → `PlanToTools`,
`Planners`, `ToolChains`

**Tool gateway, authority, permissions** (`py/tool_gateway.py`, `authority.py`,
`permission_gate.py`, …). One call is looked up, validated, authorised and dispatched, after a
gate has decided about its node. Correct when nothing unapproved is dispatched and the two
decisions agree. → `NodeCatalog`, `PlanToTools`

**Tool execution, providers, node catalog** (`py/tool_execution.py`, `tool_registry.py`,
`node_catalog.py`, `sandbox.py`, `tool_providers/`, `mcp_*.py`). Static manifests and the nodes
built from them → `ShippedCatalog`; subprocesses and sockets with timeouts, whose calls
succeed or fail.

**ReAct controller, replanning** (`py/react_controller.py`, `replan.py`). A bounded loop of
think, act, observe inside a node, with a policy of tools and permissions; correct when it
stops within its budgets and stays within its policy. → `PlanToTools`

**Research and web search** (`py/web_research.py`, `web_search.py`). A fixed flow of nodes; a
search answers its queries one by one, over attempts and retries. Correct when what was
answered is not lost. → `PlanToTools`

**Preferences, credentials and model sessions** (`rs/preferences.rs`, `commands.rs`,
`api_credentials.rs`, `agent_model_config.rs`, `py/model_sessions.py`). State:
`preferences.json`, the system keyring, one-shot sessions with a TTL in the sidecar.
Operations: load with repairs, save, save/delete/select an API provider, switch the mode,
test a connection, register and consume a model session. The commands are `async fn`s run in
parallel. Hard: load-change-save races, a save in three file operations, two stores written
apart, rollback. Correct when a key only ever goes to the endpoint it was typed for and file
and keyring agree. → `ProviderSettings`

**Sidecar and llama.cpp life cycle** (`rs/lib.rs`, `sidecar.rs`, `llama_runtime.rs`,
`py/sidecar_entry.py`). One process per application on a fixed port, authenticated by a
token drawn by each application instance, ended by it or by a parent watch. Hard: a second
instance, a process that outlives its parent. Correct when an instance is only served by its
own sidecar and nothing it started outlives it. → `LocalServices`

**HTTP application** (`py/app.py`, `schemas.py`). Stateless routes around the executor, the
engine and the session registry; approval and rejection of temporary scripts rewrite the
graph in the request. `cancel_graph_run` is `GraphRun!Cancel`; session consumption is
`ProviderSettings!ServeSession`; the message route is a turn of `MessageTurn`.

**Model client, context, privacy** (`py/model_client.py`, `context_manager.py`,
`privacy.py`). One request at a time; text construction and redaction.

**Memory store** (`py/memory_store.py`). One JSONL file per project, read, changed and
written whole by whichever run ends. Hard: lost updates between runs.

**Evaluation** (`py/eval_harness.py`). Scoring of recorded runs.

**Speech** (`py/asr.py`, `rs/asr.rs`, `src/features/voice/`). A recording session with
asynchronous capture, transcription and insertion. Hard: a callback of a cancelled session.

**Project files** (`rs/project.rs`, `workspace.rs`, `src/features/project/`). Open, save,
recent list. Hard: opening a project while a run's events still arrive.

**Front end** (`src/app/backendEvents.ts`, `App.tsx`, `src/features/task/`, `chat/`,
`permissions/`, `canvas/`, `artifacts/`, `preferences/`, `workbench/`). A reducer over
backend events and controllers around it. Its statuses of nodes are in `GraphRun`, its
pending choice and run button in `DeepPlanning`, its canvas and overwrite question in
`MessageTurn`; the rest is views.

**Scripts, tool packages, CI**. Build and data files.

How they interact: the front end calls the shell by Tauri commands (preferences, sessions)
and the sidecar by HTTP streams (messages, graph runs, cancel). A message carries a model
session id the shell registered with the sidecar just before. A turn either answers, changes the
graph, or hands over to a planning thread. The thread executes its confirmed graph through the
same executor the canvas uses, and both report by events the reducer applies. Statuses and
graphs the reducer holds go back to the sidecar in the next request, which is how one run's or
turn's end becomes the next one's input.

## Modules

| module | what it is |
| --- | --- |
| `GraphRun` | the executor, its registry and journal, and the statuses the desktop keeps |
| `RunContract` | the abstract specification: what a run promises to a reader of its directory |
| `GraphRunContract` | the refinement mapping from `GraphRun` to `RunContract` |
| `MCGraphRun` | two graphs (a chain and a fork), what a request may hold back, symmetry |
| `GraphRunProofs` | theorems about `GraphRun` |
| `GraphRunContractProofs` | the refinement, and the theorems it rests on |
| `DeepPlanning` | the planning thread, the engine's gates before it and its client |
| `PlanContract` | the abstract specification: what the planning of a message promises its user; `DeepPlanning` has the refinement mapping |
| `DeepPlanningProofs` | theorems about `DeepPlanning`, the refinement among them |
| `MessageTurn` | overlapping turns of a conversation and the canvas they change |
| `MCMessageTurn` | ten messages, one of each kind the engine tells apart |
| `MessageTurnProofs` | theorems about `MessageTurn` |
| `NodeCatalog` | the resolver of plan steps, the permission gate and the authority, for any catalog |
| `ShippedCatalog` | the tools and catalog nodes the program ships |
| `PlanToTools` | from a drafted plan to the calls of tools, for any catalog |
| `ToolChains` | the tool catalog planner's rows of tools |
| `Planners` | the planners that draw a graph without a model |
| `MCPlanToTools` | plans, messages, saved graphs and approvals over the shipped catalog |
| `PlanToToolsProofs` | theorems about `PlanToTools` |
| `PlannersProofs` | theorems about `Planners` and the runs of what they draw |
| `ProviderSettings` | preferences file, credential store, model sessions and the commands on them |
| `MCProviderSettings` | symmetry for TLC |
| `ProviderSettingsProofs` | theorems about `ProviderSettings` |
| `LocalServices` | instances of the application, their sidecars and model servers, two ports |
| `LocalServicesProofs` | theorems about `LocalServices` |

`PlanToTools` extends `NodeCatalog`, `ToolChains` extends `ShippedCatalog`, and `Planners` brings
the two together. How the state machines meet: `DeepPlanning` leaves contents of plans to
`PlanToTools` and takes only verdicts; `MessageTurn` knows of a planning thread only what it may
say; `PlanToTools` knows of runs only which nodes they execute and which outputs they find, and
`GraphRun` knows of a node only that it succeeds or fails.

In every module an operator with a fault after its name (`Restore_WithoutOutputs`) is a bug
the operator it precedes could have. No action uses it; it is what a property is tried
against, to see that the property notices.

## GraphRun

A *job* is one call of `run_graph_events`; its `pc` names where the generator stands. Points
at which the code yields are points at which `Abort` (the reader leaves) can happen; `Restart`
(the sidecar dies) can happen anywhere. `Advance(j)` is one step of a job and is the only
action with fairness. The correspondence:

| model | code |
| --- | --- |
| `Start…`, `Begin`, `Reject` | building the request (`App.tsx` `runGraphWithMode`, `useTaskEvents.ts`), selecting nodes by mode, registering the token, writing `run.json` |
| `LoadCheckpoint`, `CheckpointMissing`, `Restore` | resume (`execution.py:1618-1668`) |
| `BlockOnScript`, `RefuseDisabledTool`, `RefusePermission` | checks before a node |
| `ObserveCancel`, `MayBegin` | the token is only looked at before a node and between attempts |
| `BeforeNode`, `MarkRunning`, `Succeed`, `RetryNode`, `FailNode`, `FailedCheckpoint`, `MarkFailed`, `AfterNode`, `DeliverCompleted` | the body of the node loop, split where it yields or writes |
| `FinalVerification`, `Report…` | the ends of a run, with memory records in between |
| `Cancel`, `Abort`, `Restart` | the cancel route, a closed response, the process |

Two details are deliberately kept: checkpoints and node records are different
files written at different moments, and only four node kinds (`DataDependent`) have their
inputs checked. What a node executor does is a choice between success, retryable failure and
failure. `ReportFailedNode` merges `node.failed` and `task.failed`. A checkpoint write is
atomic in the model.

The split properties (`CheckpointsSplitGraph`, `DependenciesComputed`,
`CompletedRunIsWhole`, …) are about *whole* runs: started in full mode on a graph no node of
which is filtered out. Partial runs are `PartialRunReruns`' business. Resuming from a
checkpoint is offered by the API; the desktop has no button for it. `LatestCheckpointBacked`
and `CompletedRunIsWhole` are promised for resumes from the *latest* checkpoint and do not
hold when a request names an older one, whose successors' records stay on disk; that is why
`ResumeFrom` is a constant, and an assumption of the theorems about them. A node outside
`DATA_DEPENDENT_NODE_IDS` is executed without a check of its inputs; that they are there
nevertheless is `DependenciesComputed`, proved. `Overlap` says whether a run id may have two
live jobs at once: the split is proved for every value of it, the others need that it is not
`"any"`.

`RunContract` is what is left when all of that is forgotten: a run has a status and a set of
computed nodes that only grows, one node at a time, in dependency order, survives everything,
and is the whole graph before the status says *completed*. `ImplementsContract` maps the
status to `run.json` and the set to the latest checkpoint.

## DeepPlanning

One thread and one client; a call drives the thread until it asks or ends. The state of
`deep_agent_runtime_graph` is kept by *which plan* each part is about: plans are numbered in
the order the model makes them, a review records the number it judged, a graph has the number
of the plan it was compiled from. `node` is the next node of the checkpointed thread, so a
node that dies runs again. Each operator is the node of its name. What is around the thread:

| model | code |
| --- | --- |
| `Invoke`, `Resume`, `GuardInput`, `TakeForFeedback` | a message and an answer, through the engine's gates in their order |
| `Tell`, `Mention`, `Quiet` | a node that changes the offer, one whose events only show progress, one without events |
| `Return`, `Interrupt` | the end of a call, with a reply that arrives or does not |
| `Cut` | a call that dies: the client keeps what it heard of a stream; a call in message mode puts the offer back |
| `FallBack`, `GiveUp` | a stream of which nothing was heard is sent again without streaming, or, when no session can be opened for that, its offer is put back |
| `RunCanvas` | the canvas |

LangGraph is external and modelled from how the code uses it: one checkpoint per superstep; a
resume value is seen by the first superstep of the call only; invoking a finished thread runs
nothing. One call drives a thread at a time (the desktop takes an offer off the screen when it is
answered, so a thread is only resumed again by the next offer; a direct caller is assumed to
wait for its reply). Both routes keep `runtime.run_started` and `runtime.state_delta` to
themselves (`app.py:275-276, 333-334`), so the first thing a client hears is the first event of a
node, and some nodes have none: `build_context`, `confirm_plan` for *approve* and *cancel*,
`execution_ready`, the ends of a failed or interrupted execution (`SilentEnds`). `heard` says
whether the client has applied an event of its last call, which is what decides over the offer
when the call fails (`restorePendingPlanningChoiceAfterFailure`). A stream that dies unheard is
sent again by `submitUserMessageWithStreamFallback`, with the same choice, wherever its thread has
got to; `fallback` is the time between the two. A call in message mode applies its events only
with the reply. `lost` is a reply that does not arrive although the thread moved on. The events of
a superstep and its checkpoint are one step of the model: a process that ends between the two
is not modelled. With
`Clients = {"desktop", "direct"}` both the desktop and a caller of the HTTP route may answer.
`RequireConfirmation` and `ExecuteAfterCompile` are parameters of the runtime; the shipped
engine uses TRUE for both, and the proofs hold for every combination.

`ApprovedWasSeen` ("a decision is about the graph the user saw") is only promised while no
call in message mode has ended without its reply (`unheard`, a history variable): after that
an old offer that was put back approves a newer graph, because `confirm_plan` takes a decision
without the number of the plan it is about. That is listed as a hazard, not as a finding: no
document promises otherwise. A choice that is sent again after a silent death is not excepted: it
meets the same question or a later node, which does not take it for a decision about another graph.

`OfferIsWaitedFor` speaks of a client that has applied an event of its last call, and holds
however that call ended, also where it was cut or its end was lost after that event. It cannot be said of
calls of which nothing was heard: when a stream dies after `confirm_plan` took *approve*, and the
message sent in its place dies too or cannot be sent, the offer comes back while the thread is at
`planning_confirmed`, and stays until the next answer (a hazard of `App.tsx:1606`). `PlansBounded`
counts checkpointed plans: a model call whose superstep died is not a plan.

`AsksBeforeItActs` maps the thread to `PlanContract`: a plan is asked about before anything is
done, it is reworked at most `Budget` times, what is approved is the plan that was asked about,
only that plan is executed, and a planning that is over stays over. The phase is read off the
checkpointed `node` (`Phase`): *asking* at `confirm_plan`, *approved* from `planning_confirmed` to
the result, *over* at the end nodes. A revision counts in the contract when it is ordered
(`Reworked`), in the code when `revise_plan` has run, so the mapping adds the one under way.
Deaths, cuts, streams sent again, lost replies, offers put back and whatever the client does besides are stutters. The
mapping implies `OnlyApprovedGraphsRun`, which is no longer checked by itself but is still proved.

## MessageTurn

A *turn* is one message and its answer. The sidecar keeps nothing between turns, so the state is
the desktop's (`canvas`, the `overwrite` question, the `plan` on offer, `history`: was anything
run) and, per turn, what the message was sent with and how far the engine is. The send button is
never disabled, so turns overlap: a message takes a copy of the canvas and of the question, and
what comes back is applied to the canvas as it is then, as a stream event by event, or as a
batch in one go.

| model | code |
| --- | --- |
| `Submit`, `Send`, `ClickPlan`, `ChoiceFor` | `handleSend`, `handlePlanningChoice`, `toGraphOverwriteSubmitChoice` (`App.tsx`) |
| `InputGuard`, `PreflightFeedback`, `AskForFeedback`, `SkipRoute`, `RouteMessage` | the gates of `run_from_state` in their order (`agent_runtime_engine.py`) |
| `RouteCodes`, `RouteObjects`, `RouterUnavailable`, `GateAllows`, `Routed` | the answers of the semantic router, its failure, the capability gate, the route in `router_v2.py` |
| `Feedback`, `Classify`, `StaleOffer`, `NeedsOverwriteConfirmation`, `Replanned`, `Edited` | `plan_feedback.py` |
| `RunThread` | the hand-over to a planning thread, and what the thread may say |
| `AnswerWithoutGraph`, `EventsByIntent`, `AnswerOnly` | `graph.py`, and the blocking of graphs drawn on the way |
| `Apply`, `Deliver`, `FallBack`, `LoseAnswer`, `RunGraph` | `backendEvents.ts`, `App.tsx` |

The model judges anew every time it is asked, so a message that was no feedback the first time
may be feedback the second; what it may answer is a set, not a function of the message. A graph
is told apart from another of the same `graphId` by the turn that made it: ids are made of the
project, so two different graphs often share one, and the code compares ids only.

`AnswersKeepTheCanvas`: a graph on the canvas came from feedback or from a plan, also where
`graph.py` drew one on the way to an answer and the stream had already passed on what came before
it. `OutageNeverPlans`: three places ask the router about one message, and `judged` says whether
the last call was answered. Where it was not, also where an earlier one was, a plan is started
only for a choice or a research flow, which are not routed, and what is about to be told draws a
graph, or asks to overwrite one, only from such a plan or from feedback that the words of the message or its
choice ask for (`Preflighted`). `AskedBeforeOverwrite` is about turns that no other turn and no run met (`alone`): a turn
uses what "was anything run" meant when it was sent, so a graph that is run while a turn is under
way is replaced without a question, and a yes is taken for any graph of the id it was asked
about. A planning thread puts its graph in the place of another one without asking, whatever is
on the canvas; the property excepts it. A message the router judges twice with different answers
(not feedback, then feedback) becomes a plan, which is the same exception.

A turn that fails unheard sets the plan on offer to the one it answered, or to none, whatever
another turn has put there meanwhile (`LoseAnswer`; `App.tsx:926-934, 1601-1607`): overlapping
turns can bring an old offer of a plan back or take a new one away. No property depends on it.

Not modelled here: `step`, `resume` and `interrupt` of the engine (the application never calls
them, and creates the engine without a store), the clock of a turn, and the graph a script
approval returns.

## PlanToTools

Five places decide what a step is: the review of a draft (`Findings`), the compiler
(`CompileStep`), the metadata check after the confirmation (`NotCompilable`), the executor chosen
by the shape of the graph (`IsResearch`, `IsPlanned`, `IsBound`; `execution.py`), and, at the call,
the gate and the authority (`NodeCatalog`). The state is a plan, the graph made of it (or a saved
one), and one run: which nodes are left, whose outputs are known by which keys, the `work` inside
the current node (calls of a tool per attachment, queries of a search, steps and calls of a ReAct
loop), and what reached a provider (`used`).

| model | code |
| --- | --- |
| `ValidDraft`, `ReviewPlan`, `RevisePlan` | `deep_agent_planner.py` |
| `Least`, the resolver of a step's node | `node_catalog_resolver.py` |
| `CompilePlan`, `CompileStep`, `ConfirmPlan`, `NotCompilable` | `deep_agent_graph_compile.py`, `agent_plan_compile.py` |
| `StartRun`, `Blocked`, `ToolsKnown`, `RetryFailed`, `PartialNodes` | the start of a run, whole or failed-only (`execution.py`) |
| `StartNode`, `UnsatisfiedPorts`, `Missing`, `WorkOf`, `EndNode`, `FailNode` | one node in its executor: what it needs, does, leaves, and when it is retried |
| `CallTool`, `Verdict`, `Dispatched`, `Answer` | `tool_gateway.py`, `authority.py` |
| `Think`, `Act`, `PolicyError` | `react_controller.py` |
| `Search` | the search node of the research flow, query by query |
| `Planners`, `ToolChains` | the planners without a model, from messages reduced to the word lists they hit |
| `ShippedCatalog` | manifests and catalog nodes (`tool_registry.py`, `node_catalog.py`, `tool-packages/`) |

Contents are reduced to keys: an output is the set of its keys, an argument the key it is mapped
from. Modes, cancels, crashes and checkpoints are `GraphRun`'s. `NodeCatalog` and `PlanToTools`
take catalog, tools and permissions as parameters, and the theorems hold for any of them;
`PlannedGraphsFit` is about the shipped tools, and is proved of every catalog of nodes for them.

What the model shows beside its properties, all of it in the code and none of it contradicted by
a document: an approved plan with a step that names no capability fails the check after the
confirmation (this is the exception in `ApprovedPlansCompile`); a confirmed graph of model and
output nodes only goes to the document executor, which knows none of its nodes; a tool that needs
the network is refused by the authority whatever is approved, because no call names a domain
(`network_domain_required`, the exception in `AuthorityFollowsGate`); a step whose id begins with
`research-` sends the whole graph to the research executor, which grants the network by itself;
a mere preference for a web tool satisfies the review's demand for a web step; the desktop never
sends `approved_permissions`; `planner_chain._allowed_react_permissions` compares plain tool ids
with prefixed ones and adds nothing; the document template's graph, a row that ends in a Typst
rendering, and the graph for an attachment without a request can never complete — `Feasible`
excludes the last one from `PlannedGraphsFit`, the others do not come from the task planner.
Graphs of the planner chain and research graphs are blocked on the message path
(`_legacy_response_only`) and reach a run as saved graphs or in the evaluation; the planner whose
graphs do reach the canvas, through feedback, is the task planner, hence `PlannedGraphsFit`.

## ProviderSettings

`Workers` are commands running at once. A command walks through `load` (with the save that a
repairing load makes), `run` (its edit of the loaded copy), `write`, `exists`, `remove`,
`rename` (the steps of `save_preferences_to_path`) and `vault` (the keyring), and ends in
`Answer`. Between any two of those steps other commands take theirs; Tauri runs `async`
commands on a thread pool, and neither shell nor interface serialises them. `disk` and `vault`
faults make any of these operations fail; `Crash` kills the application and with it the sidecar
and its sessions.

A provider's normalised type and base URL are one *endpoint*. Settings that only travel with
the file are one switch (`tools`); what `load_preferences_with_model_recovery` may repair is
`ready`. Writing the temporary file is one step: torn files are not modelled. The existence
check and the read of a load are one step as well: splitting them adds an error answer and no
new state. Provider ids are UUIDs, so each is issued once (`issued`). Disabled providers,
missing local models and an unreachable sidecar are the nondeterministic `NoKeyLeaves`.
History variables: `typed` (keys the user entered and for where), `sent` (keys that left),
`tidy` (no overlap, no crash and no disk error so far).

The properties come in two strengths, as the code does. Whatever happens,
`KeysStayWithTheirEndpoint` and `ActiveProviderIsListed` hold: the first because the keyring
entry carries the endpoint it was typed for and `get_api_key` treats another one as absent,
which is what makes the missing atomicity between file and keyring harmless. As long as
commands come one after the other, `ListedProvidersHaveTheirKey` and
`CommandsAreAllOrNothing` hold too, including the rollback after a keyring error. When
commands overlap, updates are lost, a deleted provider can come back without its key, and
the file itself can disappear (`PreferencesSurvive`, below).

## LocalServices

An instance of the application is launched once and walks through its setup hook
(`check_llama`, `spawn_llama`, `check_sidecar`, `spawn_sidecar`), is `open`, and ends `closed`
(`CloseWindow` kills the model server, `StopSidecar` the sidecar and ends the process) or
`crashed`. Probing a port and spawning are two steps, as in the code, and nothing keeps two
instances from taking them together. The token an instance draws is the instance itself. Every
step of a process that has been started is its own action: the one-file sidecar is
`unpacking` in the process the application holds, then `starting` in a second one PyInstaller's
loader starts, `running` once `_watch_parent_process` is over, and `serving` once it has the
port; a process that does not get a port ends. `Windows` selects the two forms of the watch: a
handle that must be obtained while the parent lives, or a poll.

A kill ends a process at once. Which model the model server loaded, process ids that are used
again, the development scripts and their unauthenticated sidecar are left out. An instance that
took another one's sidecar for its own stays without one for the rest of its life: its requests
are refused and, when the other one has ended, unreachable; the properties say what still holds.

## Runs

The cfgs of `PlanToTools` check deadlock: a plan that was refused is drafted again and a run that
has ended can be started again, so a state without a step would be a run that is stuck. All others say `CHECK_DEADLOCK FALSE` because their models have an end that is allowed:
all jobs done, the thread over, the bounded commands or messages used up, every instance ended.
That a *call* or a *job* is not stuck is checked as liveness instead (`EveryJobEnds`,
`CallReturns`, `RunEnds`).

| run | instance | shows |
| --- | --- | --- |
| `graph_run_resume` | fork of 3 nodes, 3 jobs on one run id, resumed from the latest checkpoint, no two alive at once; 613 k states | `TypeOK`; the split of the graph (`CheckpointsSplitGraph`, `DependenciesComputed`); what disk claims is true (`LatestCheckpointBacked`, `CompletedRunIsWhole`, `VerdictOnDisk`); the token follows one job of a run after another (`CancelReachesJob`); refinement (`ImplementsContract`) |
| `graph_run_modes` | chain of 2, two runs, every mode, blocked nodes; 1.85 M states | `PartialRunReruns`: a partial run that completes has rerun its target and everything below |
| `graph_run_live` | chain of 2, two jobs of a run, any checkpoint; 108 k states | `EveryJobEnds`, `TokenReleased`, `CancelStopsRemainingNodes` |
| `graph_run_from_node_skipped` | as `graph_run_modes`, statuses filtered | violation of `PartialRunReruns` |
| `deep_planning_faults` | 5 calls, budget 2, desktop and direct client, both faults; 280 k states | `TypeOK`, `ShownPlanIsReviewed`, `PlansBounded`, `OfferIsWaitedFor`, `ApprovedWasSeen`, `CallReturns`; refinement of `PlanContract` (`AsksBeforeItActs`) |
| `deep_planning_choice_taken` | 2 calls | violation of `ChoicesReachTheThread` |
| `message_turn` | 2 overlapping turns, 10 messages; 235 k states | `TypeOK`, `AnswersKeepTheCanvas`, `OutageNeverPlans`, `AskedBeforeOverwrite` |
| `plan_to_tools` | 25 plans, the graphs of 7 messages and 8 requests, 5 saved graphs, 4 sets of approvals, whole and failed-only runs; 20 k states | `TypeOK`, `ApprovedPlansCompile`, `AuthorityFollowsGate`, `UsesAreApproved`, `PlannedGraphsFit`, `AnsweredQueriesStay`, `RunEnds` |
| `plan_to_tools_retries` | the same | violation of `RetriesHaveTheirInputs` |
| `provider_settings` | 2 workers, 2 providers, endpoints and keys, 3 commands, crashes, disk and keyring errors; 844 k states | `TypeOK`, `KeysStayWithTheirEndpoint`, `ListedProvidersHaveTheirKey`, `ActiveProviderIsListed`, `CommandsAreAllOrNothing` |
| `provider_settings_survive` | 2 workers, 2 commands, no fault at all | violation of `PreferencesSurvive` |
| `local_services` | 2 instances on Windows, every interleaving of setup, processes, close and crash; 56 k states | `TypeOK`, `NoModelServerAfterClose`, `ServedAppIsWatched`, `ServedAppLeavesNoSidecar`, `SidecarComesUp` |

Bounds and why they suffice. *Graphs*: the executor treats a node by its position in one
order and by its dependencies; a fork has a node with two dependants and two branches, a chain
has something downstream, and every edge case of the selection operators (a target in the
middle, a failed leaf, a failed root) occurs. *Jobs*: a start and two resumes are the shortest
history in which a resumed job's own checkpoint is resumed again, which is where a repeated
mistake of `Restore` or `PendingAfter` would add up. *Calls*: clarification, revision,
confirmation and two repetitions after faults are five. *Budget* 2 lets an automatic revision
and one asked for by the user meet the limit. *Turns*: `AskedBeforeOverwrite` needs a turn that
makes a graph or a question and one that answers it; two that overlap are the smallest
interference; the graph on the canvas at the start stands for earlier ones. *Messages*: one of
each combination of words the engine branches on. *Plans*: one step of each kind the resolver
distinguishes, each dependency a renderer or a search needs present and absent, one cycle, one
duplicate, and the chains of the shipped tools. *Attachments* 2, *attempts* 3 (the code's value),
*queries* 3: a search can answer some queries per attempt, fail, be retried, and answer the
rest. *Batch* 2 meets the tool budget in the middle of a message of several calls. *Instances*:
two meet on a port in every order; a third would find what the second left. *Commands*: three
are two that overlap (saving a provider, moving it, deleting it) and a session or a test that
uses what they left; two endpoints and two keys let a key meet the wrong endpoint. Symmetry is
used only in runs without liveness properties; commands, providers, endpoints, keys and jobs are
unordered there. What the theorems state holds beyond these bounds.

Fairness. `GraphRun` assumes weak fairness of each job's `Advance`: the response pulls the
generator, and every executor call returns because model, tool and process calls have
timeouts. `DeepPlanning` assumes it of `Advance` and `PlanToTools` of `RunStep` for the same
reason. Users, cancels, readers leaving, crashes, the canvas and the commands are never fair.
`LocalServices` assumes that processes that were started go on (setup, unpacking, watch, port,
exit); launching, closing and asking are not fair. `ProviderSettings` and `MessageTurn` have no
liveness property and no fairness.

## Disagreements found

1. `PartialRunReruns` with filtered statuses (`graph_run_from_node_skipped`). Graphs run by the
   planned executor drop the nodes whose *client-side* status is completed. The desktop does
   not reset statuses, so "run from this node" on a finished graph executes nothing and
   completes; the tests and `Agent解读.md:774` describe a rerun.
2. `ChoicesReachTheThread` (`deep_planning_choice_taken`). Confirm and cancel are sent as a
   message without content, which the input guard answers before the thread is resumed; with a
   graph on the canvas the message is taken for graph feedback. The README of the repository
   describes the two buttons as working.
3. `RetriesHaveTheirInputs` (`plan_to_tools_retries`). A failed-only run reads the outputs of the
   nodes it does not run from the journal of its source run, and its own journal holds only what
   it ran. The desktop names the latest run as the source, so when a retry fails too, the next
   one finds none of the first run's outputs and its node fails for want of its inputs.
4. `PreferencesSurvive` (`provider_settings_survive`). Two overlapping saves use one temporary
   name: A renames it into place, B removes the file A has just put there and finds nothing to
   rename. No preferences file is left, and the next load starts from defaults, which
   `ensure_model_storage_dir` then makes it save. A kill between remove and rename does the
   same with a single command. The release plan's check list says preferences survive a restart.

Seen in the models, without a run of their own:

- The canvas runs a presented graph that nobody confirmed, while the phase 2 design calls it not
  executable until `approve`; `AsksBeforeItActs` and `OnlyApprovedGraphsRun` are therefore about the thread alone.
- On Windows a window closed while the sidecar is still unpacking leaves a sidecar nobody watches:
  `OpenProcess` finds no parent, `_watch_parent_process` returns, and the kill at exit reached only
  the process that unpacks. `ServedAppLeavesNoSidecar` is about instances that were served.
- A planning thread and a constraint on an agent's plan replace a graph that was run without a
  question; so does feedback sent before the graph was run and answered after. A text that is
  neither yes nor no to the overwrite question asks it again; a message that fails unheard
  restores the offer of a plan, wherever its thread is by then, but not that question.
- `research.choice_required` is never produced on the product path and `inquiry_choice` never sent
  by the desktop.
- The facts about plans and permissions listed under [PlanToTools](#plantotools).

## Proofs

TLAPS checks the following for every value of the constants that satisfies the modules'
assumptions: `GraphAssumption`, `RankAssumption`, `RunAssumption` (dependencies point backwards in
the order of execution; nothing else is said of the graph, nor of the number of runs and jobs);
`PlanningAssumption`; `ConstantsAssumption` (every message that is typed has text);
`CatalogAssumption` and `PlanAssumption` (a plan is a finite set of steps, a saved graph is finite,
neither has a step without an id; a catalog node of a tool has that tool's permissions);
`NameAssumption` (of the names `Planners` gives its nodes only those of the research graph are the
ones the executor knows, and steps and fixed nodes never share one); `SettingsAssumption` (`None`
is none of the other values);
`ServicesAssumption`. Further assumptions are in the statement of the theorem.

| theorem | states | inductive invariant |
| --- | --- | --- |
| `GraphRunProofs!TypeCorrect` | `[]TypeOK` | itself |
| `GraphSplit` | `[](JobsSplitGraph /\ CheckpointsSplitGraph)` | `SplitInv` |
| `NodesFindTheirInputs` | `[]DependenciesComputed` | from `GraphSplit` and the order |
| `CancelFindsItsJob` | if `Overlap # "any"`: `[](CancelReachesJob /\ NoTokenAfterVerdict)` | `TokenInv` |
| `CancelsAreKept` | `CancelStopsRemainingNodes` | `VerdictInv` and one invariant per job |
| `NoJobIsStuck` | `[]JobsGoOn`: wherever a live job is, what its next step needs is there | `GoOnInv` |
| `JobsComeToTheirEnd` | if the graph is finite: `EveryStepCounts`, a measure of what is left of a job gets smaller with its every step | `TypeOK` |
| `GraphRunContractProofs!VerdictsAreOnDisk` | if `Overlap # "any"`: `VerdictOnDisk` | `StatusInv` |
| `RecordsBackTheRun` | if also `ResumeFrom = "latest"`: `[](LatestCheckpointBacked /\ CompletedRunIsWhole)` | `BackedInv` |
| `CompletedRunsAreWhole` | under the same: `[]CompletedRunIsWhole` | `BackedInv` |
| `RunsKeepTheContract` | under the same: `ImplementsContract` | `BackedInv` |
| `PartialRunsRerun` | if `Overlap # "any"`, `SkipStatuses = {}`: `PartialRunReruns` | `RerunInv` |
| `DeepPlanningProofs!PlanningTypeCorrect` | `[]TypeOK` | `PlanningInv` |
| `PlanningIsBounded` | `[]PlansBounded` | `PlanningInv` |
| `ShownPlansAreReviewed` | `[]ShownPlanIsReviewed` | `PlanningInv` |
| `ConfirmationGuardsExecution` | `[]OnlyApprovedGraphsRun` | `PlanningInv /\ Approved` |
| `OffersAreWaitedFor` | `[]OfferIsWaitedFor`, of calls of which an event was heard | `Attended` |
| `DecisionsAreAboutWhatWasSeen` | `ApprovedWasSeen` | `Attended` |
| `PlanningKeepsTheContract` | `AsksBeforeItActs`: the thread implements `PlanContract` | `PlanningInv /\ Approved` |
| `CallsAreBounded` | `[]CallBounded /\ EveryNodeCounts`: a call runs at most `4 * Budget + 9` nodes | `TypeOK`, a running call is at a node |
| `MessageTurnProofs!TurnsTypeCorrect` | `[]TypeOK` | itself |
| `AnswersNeverDraw` | `[]AnswersKeepTheCanvas` | `DrawnInv` |
| `OutagesNeverPlan` | `[]OutageNeverPlans` | `PlanInv` |
| `FeedbackAsksFirst` | `AskedBeforeOverwrite` | `AloneInv` |
| `PlanToToolsProofs!PlanTypeCorrect` | `[]TypeOK` | `IInv` |
| `ApprovedPlansCompileAlways` | `[]ApprovedPlansCompile` | `IInv` |
| `AuthorityAgrees` | `[]AuthorityFollowsGate` | `IInv` |
| `UsesApproved` | `[]UsesAreApproved` | `IInv` |
| `SearchKeepsItsAnswers` | `AnsweredQueriesStay` | `IInv /\ SearchInv` |
| `NoRunWaitsForItself` | if the saved graphs have no cycles: `[]RunsGoOn` | `IInv /\ Acyclic(graph)` |
| `RunsComeToTheirEnd` | `[]EffortBounded /\ EveryStepCounts`: five numbers that say what is left of a run | `IInv /\ GraphInv /\ AttemptInv` |
| `PlannersProofs!PlannedGraphsAlwaysFit` | if `Tools = ShippedTools`: `[]PlannedGraphsFit` | `IInv /\ FitInv` |
| `ProviderSettingsProofs!SettingsTypeCorrect` | `[]TypeOK` | `SettingsInv` |
| `KeysAreBound` | `[]KeysStayWithTheirEndpoint` | `SettingsInv` |
| `ActiveIsListed` | `[]ActiveProviderIsListed` | `SettingsInv` |
| `ProvidersHaveTheirKey` | `[]ListedProvidersHaveTheirKey` | `TidyInv` |
| `CommandsLeaveNothingHalfDone` | `CommandsAreAllOrNothing` | `TidyInv` |
| `LocalServicesProofs!ServicesTypeCorrect` | `[]TypeOK` | `ServicesInv` |
| `ServedAppsAreWatched` | `[]ServedAppIsWatched` | `ServicesInv` |
| `ModelServersEnd` | `[]NoModelServerAfterClose` | `ServicesInv` |
| `ServedAppsLeaveNothing` | `[]SidecarSeesTheEnd /\ EndsForGood` | `ServicesInv /\ Answered` |
| `SidecarsGoOn` | `GoesOnItsWay` | `ServicesInv /\ Answered` |

*GraphRun.* That a job's outputs and its remaining nodes split the graph is preserved by its
own steps, but a resume takes both from a checkpoint, so the checkpoints must be split too;
and a checkpoint is written from the job's locals, so neither is inductive without the other.
`OneOrigin` adds that the jobs of a run begun in full mode only resume it, without which
"whole run" could begin to hold of a run with a partial history. A node of such a run then has
its inputs because its dependencies come earlier in the order and are therefore not among the
nodes still to run. Tokens need that no two live jobs share a run id (`OneLiveJobPerRun`),
which is what `Overlap # "any"` gives; with overlaps `RunRegistry.start` replaces a token and
the property is false. A cancel before the last node is kept because such a job can only reach
the head of the loop, where the token is looked at, or a label from which no way leads to a
completion (`StoppedBeforeTheEnd`); `VerdictInv` adds that memory is written, and a verdict told,
only with no node left. `GoOnInv` says that a job at a node has nodes left, that none of them
waits for the approval of a script, and that the last checkpoint of a run is one of its
checkpoints. That some node left has its turn follows because a set of nodes has a first one in the
order (`FirstOfAll`). A job's measure is the nodes to run, the retries left and the distance from
its label to the end of the node, in that order.

*The contract.* `RunJsonFits` ties the status on disk to the place a job has reached: it is
`running` from its start to the verdict, and is the verdict when that is reported. Resting on that,
`JobBacked` says that a live job's outputs are those the latest checkpoint counts, with at most the
one node it is just recording, and `RecordsBack` that every node the latest checkpoint counts has a
completed record; a resume must restore the latest checkpoint to keep the first, and that is where
`ResumeFrom = "latest"` is needed. The refinement is then a case
per action: a checkpoint that counts one more node is the contract's step of that node, whose
dependencies are in by the split; a verdict is a status step, `completed` only with the whole
graph because nothing is left to run; records, tokens, memory and events are stutters; `Abort` and
`Restart` change nothing a reader of the directory relies on. `RerunInv` says of a partial run that a
node it is about is still to run or has a record that this run wrote.

*DeepPlanning.* `Counted` counts a plan before it is made: `made` plus the plan owed by the
current node is at most one plus answers and revisions, and an answer under way is paid for by
the call that carries it. `Reviewed` says at each node which reviews are about the current draft
and graph; a call that dies keeps `node`, so nothing is skipped. `Approved` says from
`planning_confirmed` on that the approved graph is the thread's graph. `Attended` follows an offer
from the node that made it to the answer: once an event was heard, an offer on the screen is the one its thread
waits for; a stream that has told nothing yet has taken its offer away and brought no other; and
while every reply was heard, what was seen is about the thread's graph, also when a message is about
to be sent in a stream's place. `Paid` keeps a call for every answer that may still come: the one a
call carries, and the one that a stream of which nothing was heard, or the message sent in its place,
may bring again.
The refinement of `PlanContract` is a case per node: the nodes before `confirm_plan` are stutters
but for the review that orders a revision and the last one, which asks; `ConfirmPlan` approves,
reworks or ends; executing again after a death is a step of the contract, too, and `Approved` is
what makes the executed graph the approved one. `NodesAhead` bounds a call: the longest way to the
next question is eight nodes, a revision adds four, and the call that brings an answer begins one
node earlier. TLC finds a call that runs all of them.

*MessageTurn.* `DrawnInv` says of the events a turn has still to tell that those that draw carry the
turn's own number and path, so that the canvas can be traced to the turn it came from; a turn that
was told its first event is never routed again. `PlanInv` carries "the router answered when it was
last asked" from the route to the thread, and says of what is about to be told that it draws only
what was called for (`Called`): where `graph.py` asks again, `AnswerOnly` lets no graph through. `AloneInv` says what an undisturbed turn knows: its copies of canvas and
question are those of the screen, so a yes it carries is about the graph on the canvas; and that a
graph was run implies that the history is not empty, which is what the code looks at.

*PlanToTools.* The resolver takes the least of the candidates by an order of risk and position;
that there is a least one follows from the well-foundedness of strict inclusion, on intervals. What the review
accepts (for every step one available node provides all its capabilities) is kept as `ReviewedInv` until the
confirmation checks the compiled node's metadata, which the resolver's choice satisfies. `RunInv`
keeps what the gate established when the node started; the authority's checks then follow one by
one, and the ReAct policy bounds what a model may call. Nothing in it mentions the shipped catalog.
A compiled graph has no cycle because the compiler refuses one; a saved graph is assumed to have
none, which `_topological_nodes` checks before a run. Then among the nodes that are left one
depends on none of them, and it can be entered (`NoRunWaitsForItself`). The measure of a run is
the nodes and retries left, the phase of the node, the searches or steps of its model that are
left, and the calls before the next of those; a step that raises one of them lowers one before it.

*Planners.* `PlannedGraphsFit` forbids the causes that are the planner's fault, so the proof shows
at every node that one cannot arise. `OutputsFit` says that what a recorded node left is what a
node of its kind gives, `HasWaited` that the node that runs has waited for its dependencies; with
these each node of the task planner's graphs (the research graph, the chains of tools, the graph
of scripts) finds tool, ports and arguments. The rows of tools are constants of the shipped tools,
hence the hypothesis; that a name belongs to one node only is `NameAssumption`.

*ProviderSettings.* `JobInv` says what a command under way knows about itself: between its edit
and its last save its copy has the provider at the endpoint its form named, so the key it is
about to store belongs there. Hence `VaultInv`: every keyring entry is a key typed for that very
endpoint. Sessions and tests read the entry through `KeyOf`, which compares endpoints. Other
commands' steps only enlarge `typed` (`StepsAreAlone`, `OthersFit`). `CopiesInv` carries "the
selected provider is listed" through files, temporary files and copies in memory. `TidyInv` is
about the one command running while nothing overlaps: the copy it began with agrees with the keyring until its last step
(`Agrees`), its changes are its own provider's endpoint and nothing else (`Edited`), and from the
write to the rename the temporary file is its copy (`AtHand`).

*LocalServices.* That a running sidecar of a living instance watches it (`Follows`) needs that
an instance that is not launched has none: being alive begins once. An answer comes from the
sidecar that has the port and the instance's token, which therefore runs, hence watches.
`Answered` adds that an instance that was answered is past its setup, and its sidecar past its
start, so that after its end the sidecar has ended or sees that its parent is gone; and neither is
undone. A sidecar on its way with nothing of another instance left is not turned back: nobody
answers for it, nobody has its port, and each of its steps is one of three.

Only model-checked: the six properties about what eventually happens. They assume fairness, and
whether a step is enabled is beyond the prover. What they rest on besides fairness is proved: that
a next step can be taken as long as the end is not reached, and that every step brings it closer.

| liveness property | its safety part |
| --- | --- |
| `EveryJobEnds`, `TokenReleased` | `NoJobIsStuck`, `JobsComeToTheirEnd` |
| `CallReturns` | `CallsAreBounded` |
| `RunEnds` | `NoRunWaitsForItself`, `RunsComeToTheirEnd` |
| `ServedAppLeavesNoSidecar` | `ServedAppsLeaveNothing` |
| `SidecarComesUp` | `SidecarsGoOn` |

## What is not modelled

Contents: prompts, wording, model output, the values of tool arguments, layout; what a message means
is the word lists it hits, what a model answers is a choice. Pure I/O (downloads, sandboxed
processes, parsing of documents): a call succeeds or fails. Torn writes of single files. Approvals
of temporary scripts beyond holding a node back. Disabled tools, authority grants that outlive a
run (the application never issues any), the files behind artifacts. Edits of a graph by a
constraint are one step without their content. Retrieval, scoring, privacy rules and context
construction have no steps of their own. Parts of the shell (model import and scanning,
MCP settings) save the same file the same way as the commands that are modelled. The parts that
have steps and are left for the plan: journal and memory files below the level of one write, the
reducer's merging of streams, the voice session, project switching.

## Plan

Done, in the order of importance: `GraphRun` and `DeepPlanning`, each with its contract and
the refinement proved, `ProviderSettings`, `LocalServices`, `PlanToTools` with the shipped
catalog and the planners, `MessageTurn`, each with proofs. Left:

1. `RunFiles`: `_write_json`'s temporary name, the read-append-rewrite of `checkpoints.json` by two
   jobs of one run, and `memory.jsonl` rewritten by two finishing runs. Abstract specification: the
   `history` of `GraphRun` as an append-only set, which overlapping jobs do not implement.
2. `GraphReducer`: backend events of two runs and a message applied to one canvas, project
   switching in between. Property: an event only changes the run and project it belongs to.
3. `VoiceSession`: callbacks of a cancelled recording.
4. Composition of `MessageTurn` with `DeepPlanning`: two threads of one conversation whose graphs
   meet on the canvas.

## Use

```
tlc -workers 2 -config GraphRunResume.cfg MCGraphRun.tla
tlc -workers 2 -config DeepPlanningFaults.cfg DeepPlanning.tla
tlc -workers 2 -config MessageTurn.cfg MCMessageTurn.tla
tlc -workers 2 -config PlanToTools.cfg MCPlanToTools.tla
tlc -workers 2 -config ProviderSettings.cfg MCProviderSettings.tla
tlc -workers 2 -config LocalServices.cfg LocalServices.tla
tlapm GraphRunProofs.tla
tlapm GraphRunContractProofs.tla
tlapm PlannersProofs.tla
```

and `tlapm` of the other modules whose name ends in `Proofs`. `PROJECT.json` names module and cfg of
every run.
