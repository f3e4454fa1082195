---------------------------- MODULE DeepPlanning ----------------------------
(***************************************************************************)
(* The planning thread of the Python sidecar: the LangGraph graph of       *)
(* deep_agent_runtime_graph, the checkpointed thread it runs on, the gates *)
(* AgentRuntimeEngine puts before it and the client that answers its       *)
(* questions (App.tsx with the planning events of backendEvents.ts).       *)
(*                                                                         *)
(* A thread serves one message.  A call of the runtime drives it from node *)
(* to node, each node one superstep with a checkpoint at its end, until it *)
(* asks the user something (interrupt) or ends; the user's choice comes    *)
(* with another call.  One call drives a thread at a time.  Plans are      *)
(* numbered in the order the model makes them and a graph has the number   *)
(* of the plan it was compiled from; 0 is no plan.                         *)
(***************************************************************************)
EXTENDS Naturals

CONSTANTS
    Budget,                 \* revision_budget
    MaxCalls,               \* bound: calls made for one message
    RequireConfirmation,    \* require_confirmation
    ExecuteAfterCompile,    \* execute_after_compile
    Clients,                \* who answers: App.tsx ("desktop"), or a caller of the
                            \* route that sends text and no graph ("direct")
    Faults                  \* "cut": a call dies, "lost": only its reply does

ASSUME PlanningAssumption ==
    /\ Budget \in Nat
    /\ MaxCalls \in Nat
    /\ RequireConfirmation \in BOOLEAN
    /\ ExecuteAfterCompile \in BOOLEAN
    /\ Clients \subseteq {"desktop", "direct"}
    /\ Faults \subseteq {"cut", "lost"}

VARIABLES
    node,           \* the thread's next node
    calling,        \* a call drives the thread
    calls,          \* calls made so far
    command,        \* the resume payload the call came with, until a node ran
    made,           \* plans the model has made
    draft,          \* plan_draft
    review,         \* plan_review and the plan it is about
    graph,          \* compiled_graph
    graphReview,    \* graph_review and the graph it is about
    compiled,       \* agent_compiled_graph
    revisions,      \* revision_count
    answers,        \* answered clarifications
    result,         \* agent_execution_result.status
    terminal,       \* terminal_status
    approved,       \* the graph of planning.confirmed
    ran,            \* the graphs whose execution has begun, and what began it
    via,            \* how events reach the client: one by one or all at the end
    screen,         \* what the client shows
    reply,          \* what it would show had it applied every event of the call
    captured,       \* the offer the client took when it made the call
    heard,          \* the client has applied an event of its last call
    fallback,       \* the stream died unheard: the client is to send the message again
    routed,         \* where the engine sent the last choice
    unheard         \* a call ended without the reply that brings its events

planVars == <<made, draft, review, graph, graphReview, revisions, answers>>
runVars == <<compiled, result, terminal, approved, ran>>
clientVars == <<via, screen, reply, captured, heard, fallback, routed, unheard>>
vars == <<node, calling, calls, command, planVars, runVars, clientVars>>

Plans == 0..(MaxCalls + Budget + 1)

EndNodes ==
    {"agent_execution_final", "agent_execution_failed", "agent_execution_interrupted",
     "agent_execution_repair_proposed", "compile_failed", "planning_cancelled",
     "simple_reasoning_final", "deep_agent_failed"}
PlanningNodes ==
    {"reasoning_gate", "build_context", "deep_plan", "review_plan", "revise_plan",
     "compile_agent_plan_graph", "review_graph", "clarify_required",
     "resume_after_clarification"}
PresentedNodes == {"present_plan", "confirm_plan"}
ConfirmedNodes ==
    {"planning_confirmed", "compile_confirmed_plan_graph",
     "review_agent_compiled_graph", "execution_ready", "execute_agent_compiled_graph",
     "verify_agent_execution_result"}
Asking == {"clarify_required", "confirm_plan"}
GraphNodes == PlanningNodes \cup PresentedNodes \cup ConfirmedNodes \cup EndNodes

Verdicts == {"none", "approved", "invalid", "needs_clarification"}
Reviews == [of : Plans, verdict : Verdicts]
NoReview == [of |-> 0, verdict |-> "none"]

Offers == [kind : {"none", "clarification", "confirmation"}, of : Plans]
NoOffer == [kind |-> "none", of |-> 0]

Commands ==
    [kind : {"none", "clarification", "confirmation"},
     decision : {"none", "approve", "revise", "cancel"}]
NoCommand == [kind |-> "none", decision |-> "none"]

\* pendingPlanningChoice, the plan on the canvas and whether anything is on it.
Screens == [offer : Offers, seen : Plans, graph : BOOLEAN]

Compiled == [of : Plans, status : {"none", "compiled", "execution_ready"}]
NotCompiled == [of |-> 0, status |-> "none"]

TypeOK ==
    /\ node \in GraphNodes \cup {"none", "end"}
    /\ calling \in BOOLEAN
    /\ calls \in 0..MaxCalls
    /\ command \in Commands
    /\ made \in Plans
    /\ draft \in Plans
    /\ review \in Reviews
    /\ graph \in Plans
    /\ graphReview \in Reviews
    /\ compiled \in Compiled
    /\ revisions \in Nat
    /\ answers \in 0..MaxCalls
    /\ result \in {"none", "completed", "failed", "interrupted"}
    /\ terminal \in {"", "planning_confirmed", "execution_ready", "final", "cancelled",
                     "compile_failed", "execution_failed", "execution_interrupted",
                     "execution_repair_proposed"}
    /\ approved \in Plans
    /\ ran \subseteq [of : Plans, by : {"thread", "canvas"}]
    /\ via \in {"stream", "message"}
    /\ screen \in Screens
    /\ reply \in Screens
    /\ captured \in Offers
    /\ heard \in BOOLEAN
    /\ fallback \in BOOLEAN
    /\ routed \in [choice : Commands,
                   to : {"none", "thread", "input_guard", "graph_feedback"}]
    /\ unheard \in BOOLEAN

-----------------------------------------------------------------------------
(* Effects the nodes share.                                                 *)

\* A node has run: the checkpoint holds its update and the node it goes to.
Step(from, to) ==
    /\ calling
    /\ node = from
    /\ node' = to
    /\ command' = NoCommand
    /\ UNCHANGED <<calling, calls>>

\* The reducer applies a streamed event at once, the others with the reply.
Tell(new) ==
    /\ reply' = new
    /\ screen' = IF via = "stream" THEN new ELSE screen
    /\ heard' = (heard \/ via = "stream")
    /\ UNCHANGED <<via, captured, fallback, routed, unheard>>

\* An event that leaves the offer and the canvas alone.
Mention == Tell(reply)

\* No event, or only those the routes keep to themselves.
Quiet == UNCHANGED clientVars

Offering(kind, of) == [reply EXCEPT !.offer = [kind |-> kind, of |-> of]]
Withdrawn == [reply EXCEPT !.offer = NoOffer]

\* restorePendingPlanningChoiceAfterFailure, when no event was applied.
PutBack == [screen EXCEPT !.offer = captured]


RevisionAvailable_OneMore == revisions <= Budget

RevisionAvailable_Always == revisions >= 0

RevisionAvailable == revisions < Budget

ClarificationAllowed == revisions = 0

Begun(plan, who) == ran' = ran \cup {[of |-> plan, by |-> who]}

Judged(of, verdict) == [of |-> of, verdict |-> verdict]

-----------------------------------------------------------------------------
Init ==
    /\ node = "none"
    /\ calling = FALSE
    /\ calls = 0
    /\ command = NoCommand
    /\ made = 0 /\ draft = 0 /\ graph = 0 /\ approved = 0
    /\ review = NoReview /\ graphReview = NoReview
    /\ compiled = NotCompiled
    /\ revisions = 0 /\ answers = 0
    /\ result = "none" /\ terminal = ""
    /\ ran = {}
    /\ via = "stream"
    /\ \E old \in BOOLEAN : screen = [offer |-> NoOffer, seen |-> 0, graph |-> old]
    /\ reply = screen
    /\ captured = NoOffer
    /\ heard = FALSE /\ fallback = FALSE
    /\ routed = [choice |-> NoCommand, to |-> "none"]
    /\ unheard = FALSE

-----------------------------------------------------------------------------
(* Planning.                                                                *)

\* A preset decision or the model's; a model error fails the plan.
ReasoningGate ==
    /\ \/ Step("reasoning_gate", "build_context") /\ Mention
       \/ Step("reasoning_gate", "simple_reasoning_final") /\ Mention
       \/ Step("reasoning_gate", "clarify_required") /\ Tell(Offering("clarification", 0))
       \/ Step("reasoning_gate", "deep_agent_failed") /\ Tell(Withdrawn)
    /\ UNCHANGED <<planVars, runVars>>

BuildContext ==
    /\ Step("build_context", "deep_plan")
    /\ Quiet
    /\ UNCHANGED <<planVars, runVars>>

\* DeepPlanningEngine.plan succeeds or raises DeepPlanningError.
NewPlan ==
    /\ made' = made + 1
    /\ draft' = made'

DeepPlan ==
    /\ \/ Step("deep_plan", "review_plan") /\ NewPlan /\ Mention
       \/ /\ Step("deep_plan", "deep_agent_failed")
          /\ Tell(Withdrawn)
          /\ UNCHANGED <<made, draft>>
    /\ UNCHANGED <<review, graph, graphReview, revisions, answers, runVars>>

ReviewPlan ==
    /\ \/ /\ review' = Judged(draft, "approved")
          /\ Step("review_plan", "compile_agent_plan_graph") /\ Mention
       \/ /\ review' = Judged(draft, "invalid")
          /\ \/ RevisionAvailable /\ Step("review_plan", "revise_plan") /\ Mention
             \/ /\ ~RevisionAvailable
                /\ Step("review_plan", "deep_agent_failed")
                /\ Tell(Withdrawn)
       \/ /\ review' = Judged(draft, "needs_clarification")
          /\ \/ /\ ClarificationAllowed
                /\ Step("review_plan", "clarify_required")
                /\ Tell(Offering("clarification", 0))
             \/ /\ ~ClarificationAllowed
                /\ Step("review_plan", "deep_agent_failed")
                /\ Tell(Withdrawn)
    /\ UNCHANGED <<made, draft, graph, graphReview, revisions, answers, runVars>>

RevisePlan_KeepsReview ==
    /\ Step("revise_plan", "compile_agent_plan_graph") /\ NewPlan /\ Mention
    /\ revisions' = revisions + 1
    /\ UNCHANGED <<review, graph, graphReview, answers, runVars>>

RevisePlan_ForgetsFailure ==
    /\ \/ /\ Step("revise_plan", "review_plan") /\ NewPlan
          /\ revisions' = revisions + 1
       \/ /\ Step("revise_plan", "review_plan")
          /\ UNCHANGED <<made, draft, revisions>>
    /\ Mention
    /\ UNCHANGED <<review, graph, graphReview, answers, runVars>>

RevisePlan ==
    /\ \/ Step("revise_plan", "review_plan") /\ NewPlan /\ Mention
       \/ /\ Step("revise_plan", "deep_agent_failed")
          /\ Tell(Withdrawn)
          /\ UNCHANGED <<made, draft>>
    /\ revisions' = revisions + 1
    /\ UNCHANGED <<review, graph, graphReview, answers, runVars>>

CompileAgentPlanGraph ==
    /\ Step("compile_agent_plan_graph", "review_graph")
    /\ graph' = draft
    /\ Mention
    /\ UNCHANGED <<made, draft, review, graphReview, revisions, answers, runVars>>

ReviewGraph_SkipsPresenting ==
    /\ graphReview' = Judged(graph, "approved")
    /\ Step("review_graph", IF revisions = 0 THEN "present_plan" ELSE "confirm_plan")
    /\ Mention
    /\ UNCHANGED <<made, draft, review, graph, revisions, answers, runVars>>

ReviewGraph ==
    /\ \/ /\ graphReview' = Judged(graph, "approved")
          /\ Step("review_graph", "present_plan") /\ Mention
       \/ /\ graphReview' = Judged(graph, "invalid")
          /\ \/ RevisionAvailable /\ Step("review_graph", "revise_plan") /\ Mention
             \/ /\ ~RevisionAvailable
                /\ Step("review_graph", "deep_agent_failed")
                /\ Tell(Withdrawn)
    /\ UNCHANGED <<made, draft, review, graph, revisions, answers, runVars>>

-----------------------------------------------------------------------------
(* The user: clarification and confirmation.                                *)

\* node_graph.created, then confirmation_required.
PresentPlan ==
    /\ Step("present_plan", IF RequireConfirmation THEN "confirm_plan" ELSE "end")
    /\ Tell([offer |-> IF RequireConfirmation
                       THEN [kind |-> "confirmation", of |-> graph] ELSE NoOffer,
             seen |-> graph, graph |-> TRUE])
    /\ UNCHANGED <<planVars, runVars>>

\* interrupt() without a resume value: the call returns what was asked.
Interrupt ==
    /\ calling
    /\ node \in Asking
    /\ command = NoCommand
    /\ calling' = FALSE
    /\ \/ LET asked == IF node = "confirm_plan" THEN Offering("confirmation", graph)
                                                ELSE Offering("clarification", 0)
          IN  reply' = asked /\ screen' = asked /\ heard' = TRUE /\ UNCHANGED unheard
       \/ /\ "lost" \in Faults /\ via = "message"
          /\ screen' = PutBack
          /\ unheard' = TRUE
          /\ UNCHANGED <<reply, heard>>
    /\ UNCHANGED <<node, calls, command, planVars, runVars, via, captured, fallback, routed>>

\* Any resume payload is taken for an answer.
ClarifyRequired ==
    /\ command # NoCommand
    /\ Step("clarify_required", "resume_after_clarification")
    /\ answers' = answers + 1
    /\ Tell(Withdrawn)
    /\ UNCHANGED <<made, draft, review, graph, graphReview, revisions, runVars>>

ResumeAfterClarification ==
    /\ Step("resume_after_clarification", "build_context")
    /\ draft' = 0
    /\ graph' = 0
    /\ review' = NoReview
    /\ graphReview' = NoReview
    /\ compiled' = NotCompiled
    /\ Mention
    /\ UNCHANGED <<made, revisions, answers, result, terminal, approved, ran>>

ConfirmPlan_AnythingConfirms ==
    /\ command # NoCommand
    /\ Step("confirm_plan", "planning_confirmed")
    /\ approved' = IF command.decision = "approve" THEN graph ELSE approved
    /\ Quiet
    /\ UNCHANGED <<planVars, compiled, result, terminal, ran>>

\* The decision is not compared with the graph it was made about; an answer to a
\* clarification is an invalid decision.
ConfirmPlan ==
    /\ command # NoCommand
    /\ \/ /\ command.decision = "approve"
          /\ Step("confirm_plan", "planning_confirmed")
          /\ approved' = graph
          /\ Quiet
       \/ /\ command.decision = "cancel"
          /\ Step("confirm_plan", "planning_cancelled")
          /\ UNCHANGED approved
          /\ Quiet
       \/ /\ command.decision = "revise"
          /\ Step("confirm_plan",
                  IF RevisionAvailable THEN "revise_plan" ELSE "deep_agent_failed")
          /\ UNCHANGED approved
          /\ Tell(Withdrawn)
       \/ /\ command.decision = "none"
          /\ Step("confirm_plan", "deep_agent_failed")
          /\ UNCHANGED approved
          /\ Tell(Withdrawn)
    /\ UNCHANGED <<planVars, compiled, result, terminal, ran>>

-----------------------------------------------------------------------------
(* The confirmed plan: compilation and execution.                           *)

PlanningConfirmed ==
    /\ Step("planning_confirmed", "compile_confirmed_plan_graph")
    /\ terminal' = "planning_confirmed"
    /\ Tell(Withdrawn)
    /\ UNCHANGED <<planVars, compiled, result, approved, ran>>

CompileConfirmedPlanGraph ==
    /\ \/ /\ Step("compile_confirmed_plan_graph", "review_agent_compiled_graph")
          /\ compiled' = [of |-> graph, status |-> "compiled"]
          /\ result' = "none"
       \/ /\ Step("compile_confirmed_plan_graph", "compile_failed")
          /\ compiled' = NotCompiled
          /\ UNCHANGED result
    /\ Mention
    /\ UNCHANGED <<planVars, terminal, approved, ran>>

ReviewAgentCompiledGraph ==
    /\ \/ /\ Step("review_agent_compiled_graph", "execution_ready")
          /\ compiled' = [compiled EXCEPT !.status = "execution_ready"]
       \/ /\ Step("review_agent_compiled_graph", "compile_failed")
          /\ UNCHANGED compiled
    /\ Mention
    /\ UNCHANGED <<planVars, result, terminal, approved, ran>>

ExecutionReady ==
    /\ Step("execution_ready",
            IF ExecuteAfterCompile THEN "execute_agent_compiled_graph" ELSE "end")
    /\ terminal' = "execution_ready"
    /\ Quiet
    /\ UNCHANGED <<planVars, compiled, result, approved, ran>>

\* run_graph_events runs inside the node; an exception before or after it has
\* begun is a failed execution.
ExecuteAgentCompiledGraph ==
    /\ \/ /\ compiled.status = "execution_ready"
          /\ Step("execute_agent_compiled_graph", "verify_agent_execution_result")
          /\ result' \in {"completed", "failed", "interrupted"}
          /\ Begun(compiled.of, "thread")
       \/ /\ Step("execute_agent_compiled_graph", "agent_execution_failed")
          /\ result' = "none"
          /\ \/ compiled.status = "execution_ready" /\ Begun(compiled.of, "thread")
             \/ UNCHANGED ran
    /\ Mention
    /\ UNCHANGED <<planVars, compiled, terminal, approved>>

\* approved, needs_repair, interrupted, failed; a completed run may lack artifacts.
VerifyAgentExecutionResult ==
    /\ \/ /\ result = "completed"
          /\ Step("verify_agent_execution_result", "agent_execution_final")
       \/ /\ result # "completed"
          /\ Step("verify_agent_execution_result", "agent_execution_repair_proposed")
       \/ /\ result = "interrupted"
          /\ Step("verify_agent_execution_result", "agent_execution_interrupted")
       \/ /\ result # "interrupted"
          /\ Step("verify_agent_execution_result", "agent_execution_failed")
    /\ Mention
    /\ UNCHANGED <<planVars, runVars>>

TerminalStatus_Outdated == [last \in EndNodes |-> "done"]

\* The nodes before END: what terminal_status they leave, if any.
TerminalStatus ==
    [agent_execution_final |-> "final",
     agent_execution_failed |-> "execution_failed",
     agent_execution_interrupted |-> "execution_interrupted",
     agent_execution_repair_proposed |-> "execution_repair_proposed",
     compile_failed |-> "compile_failed",
     planning_cancelled |-> "cancelled"]

SilentEnds ==
    {"agent_execution_failed", "agent_execution_interrupted", "compile_failed",
     "deep_agent_failed"}

Conclude ==
    /\ \E last \in EndNodes :
        /\ Step(last, "end")
        /\ terminal' = IF last \in DOMAIN TerminalStatus THEN TerminalStatus[last]
                                                         ELSE terminal
        /\ CASE last = "planning_cancelled" -> Tell(Withdrawn)
             [] last \in SilentEnds -> Quiet
             [] OTHER -> Mention
    /\ UNCHANGED <<planVars, compiled, result, approved, ran>>

-----------------------------------------------------------------------------
(* Calls and the client.                                                    *)

\* A thread at its end, or that was resumed there, has nothing left to run; the engine
\* says so when the thread said nothing.
Return ==
    /\ calling
    /\ node = "end"
    /\ calling' = FALSE
    /\ command' = NoCommand
    /\ \/ screen' = reply /\ heard' = TRUE /\ UNCHANGED unheard
       \/ /\ "lost" \in Faults /\ via = "message"
          /\ screen' = PutBack
          /\ unheard' = TRUE
          /\ UNCHANGED heard
    /\ UNCHANGED <<node, calls, planVars, runVars, via, reply, captured, fallback, routed>>

\* The client takes its offer down and makes a call.
Call(how) ==
    /\ ~calling
    /\ calls < MaxCalls
    /\ calls' = calls + 1
    /\ calling' = TRUE
    /\ via' = how
    /\ captured' = screen.offer
    /\ screen' = [screen EXCEPT !.offer = NoOffer]
    /\ reply' = screen'
    /\ heard' = FALSE
    /\ fallback' = FALSE

Invoke ==
    /\ node = "none"
    /\ \E how \in {"stream", "message"} : Call(how)
    /\ node' = "reasoning_gate"
    /\ UNCHANGED <<command, planVars, runVars, routed, unheard>>

\* What an offer may be answered with; App.tsx sends a button's choice with the
\* content empty, and the graph on the canvas with every message.
Choices ==
    {c \in Commands :
        /\ c.kind = screen.offer.kind
        /\ c.kind = "confirmation" <=> c.decision # "none"}

IsEmpty(who, c) == who = "desktop" /\ c.decision \in {"approve", "cancel"}
SendsGraph(who) == who = "desktop" /\ screen.graph

Offered == node # "none" /\ screen.offer # NoOffer

Resume ==
    /\ Offered
    /\ \E who \in Clients, c \in Choices :
        /\ ~SendsGraph(who)
        /\ ~IsEmpty(who, c)
        /\ command' = c
        /\ routed' = [choice |-> c, to |-> "thread"]
    /\ \E how \in {"stream", "message"} : Call(how)
    /\ UNCHANGED <<node, planVars, runVars, unheard>>

\* The engine answers a message without content, or whose text asks for a document
\* that is not attached, itself: input.required.
GuardInput ==
    /\ Offered /\ ~calling
    /\ \E c \in Choices : routed' = [choice |-> c, to |-> "input_guard"]
    /\ screen' = [screen EXCEPT !.offer = NoOffer]
    /\ UNCHANGED <<node, calling, calls, command, planVars, runVars, via, reply,
                   captured, heard, fallback, unheard>>

\* A choice that comes with a graph is taken for feedback on the graph, which is
\* kept or replaced by one of plan_feedback's making.
TakeForFeedback ==
    /\ Offered /\ ~calling
    /\ \E who \in Clients, c \in Choices :
        /\ SendsGraph(who)
        /\ ~IsEmpty(who, c)
        /\ routed' = [choice |-> c, to |-> "graph_feedback"]
    /\ \E shown \in {screen.seen, 0} :
        screen' = [offer |-> NoOffer, seen |-> shown, graph |-> TRUE]
    /\ UNCHANGED <<node, calling, calls, command, planVars, runVars, via, reply,
                   captured, heard, fallback, unheard>>

\* The run button of the canvas needs a graph and nothing else.
RunCanvas ==
    /\ "desktop" \in Clients
    /\ screen.seen # 0
    /\ Begun(screen.seen, "canvas")
    /\ UNCHANGED <<node, calling, calls, command, planVars, compiled, result, terminal,
                   approved, clientVars>>

\* The call dies with the sidecar, an exception or a reader that left; the node it was
\* running is run again by the next call.
Dies ==
    /\ "cut" \in Faults
    /\ calling
    /\ calling' = FALSE
    /\ command' = NoCommand
    /\ \/ UNCHANGED ran
       \/ /\ node = "execute_agent_compiled_graph"
          /\ compiled.status = "execution_ready"
          /\ Begun(compiled.of, "thread")
    /\ UNCHANGED <<node, calls, planVars, compiled, result, terminal, approved, via,
                   reply, captured, heard, routed>>

Cut_PutsBackAlways ==
    /\ Dies
    /\ screen' = PutBack
    /\ unheard' = (unheard \/ via = "message")
    /\ UNCHANGED fallback

\* The client keeps what a stream has told it; a stream that died before its first event
\* is tried again without streaming; with a reply the offer comes back.
Cut ==
    /\ Dies
    /\ \/ /\ via = "stream" /\ heard
          /\ UNCHANGED <<screen, fallback, unheard>>
       \/ /\ via = "stream" /\ ~heard
          /\ fallback' = TRUE
          /\ UNCHANGED <<screen, unheard>>
       \/ /\ via = "message"
          /\ screen' = PutBack
          /\ unheard' = TRUE
          /\ UNCHANGED fallback

\* The same message again, in a session of its own: a new thread when it opened one, the
\* same choice when it answered one, wherever the stream has taken the thread.
FallBack ==
    /\ fallback
    /\ fallback' = FALSE
    /\ calling' = TRUE
    /\ via' = "message"
    /\ command' = routed.choice
    /\ reply' = screen
    /\ UNCHANGED <<node, calls, planVars, runVars, screen, captured, heard, routed,
                   unheard>>

\* No session can be opened for it.
GiveUp ==
    /\ fallback
    /\ fallback' = FALSE
    /\ screen' = PutBack
    /\ UNCHANGED <<node, calling, calls, command, planVars, runVars, via, reply, captured,
                   heard, routed, unheard>>

Advance ==
    \/ ReasoningGate
    \/ BuildContext
    \/ DeepPlan
    \/ ReviewPlan
    \/ RevisePlan
    \/ CompileAgentPlanGraph
    \/ ReviewGraph
    \/ PresentPlan
    \/ Interrupt
    \/ ClarifyRequired
    \/ ResumeAfterClarification
    \/ ConfirmPlan
    \/ PlanningConfirmed
    \/ CompileConfirmedPlanGraph
    \/ ReviewAgentCompiledGraph
    \/ ExecutionReady
    \/ ExecuteAgentCompiledGraph
    \/ VerifyAgentExecutionResult
    \/ Conclude
    \/ Return

Next ==
    \/ Advance
    \/ Invoke
    \/ Resume
    \/ GuardInput
    \/ TakeForFeedback
    \/ RunCanvas
    \/ Cut
    \/ FallBack
    \/ GiveUp

\* Nodes return: the model and the tools have timeouts.  The user is not fair.
Spec == Init /\ [][Next]_vars /\ WF_vars(Advance)

-----------------------------------------------------------------------------
(* What the planning thread promises.                                       *)

\* A plan that is presented, confirmed, compiled or executed is the thread's last
\* draft, and both that very draft and that very graph passed their reviews: no
\* revision, clarification or resumed call lets an older verdict stand for it.
ShownPlanIsReviewed ==
    node \in PresentedNodes \cup ConfirmedNodes =>
        /\ graph # 0
        /\ graph = draft
        /\ review = Judged(draft, "approved")
        /\ graphReview = Judged(graph, "approved")

\* The thread executes nothing but the graph the user confirmed.
OnlyApprovedGraphsRun ==
    \A run \in ran : run.by = "thread" => run.of = approved /\ approved # 0

\* What of the thread the contract of a planning speaks about.
Phase ==
    CASE node = "confirm_plan" -> "asking"
      [] node \in ConfirmedNodes -> "approved"
      [] node \in EndNodes \cup {"end"} -> "over"
      [] OTHER -> "planning"
Asked == IF node = "confirm_plan" THEN graph ELSE 0
Executed == {run.of : run \in {r \in ran : r.by = "thread"}}
Reworked == IF node = "revise_plan" THEN revisions + 1 ELSE revisions

Contract ==
    INSTANCE PlanContract WITH NoPlan <- 0, phase <- Phase, asked <- Asked,
                               executed <- Executed, reworked <- Reworked

\* Through cuts, lost replies and stale or misdirected choices the thread asks before it
\* acts, executes what was approved when it asked and nothing after its end
\* (deep_agent_runtime_graph.py:363-475, 944-1055).
AsksBeforeItActs == Contract!Spec

\* The thread takes one plan from the model, one more per answer and one per revision,
\* however often it is cut and resumed, and never revises more than the budget allows.
PlansBounded ==
    /\ revisions <= Budget
    /\ made <= 1 + answers + revisions

\* Once the client has applied an event of its last call, what it offers to answer is what
\* the thread waits for, about the very graph it holds, however the call ended.  A call of
\* which it heard nothing leaves the offer it answered behind, wherever the thread is.
OfferIsWaitedFor ==
    ~calling /\ heard /\ screen.offer # NoOffer =>
        /\ node = IF screen.offer.kind = "confirmation" THEN "confirm_plan"
                                                        ELSE "clarify_required"
        /\ screen.offer.kind = "confirmation" => screen.offer.of = graph

\* A decision is about the graph the user saw when making it, however calls are cut,
\* unless the reply that would have shown a newer graph was lost.
ApprovedWasSeen == [][approved' # approved /\ ~unheard => approved' = screen.seen]_vars

\* A call ends: it asks the user something or says how the planning ended.
CallReturns == calling ~> ~calling

\* What the user answers reaches the thread that asked.
ChoicesReachTheThread ==
    routed.choice.decision \in {"approve", "cancel"} => routed.to = "thread"
=============================================================================
