------------------------- MODULE DeepPlanningProofs -------------------------
(***************************************************************************)
(* Theorems about the planning thread.  PlanningInv is inductive: its parts *)
(* say what each of the four properties needs to know of the nodes the     *)
(* thread may be at.                                                       *)
(***************************************************************************)
EXTENDS DeepPlanning, TLAPS

\* Nodes a thread is at while its next plan is still to be made.
PlanOwed ==
    {"none", "reasoning_gate", "build_context", "deep_plan", "resume_after_clarification"}

Owed == IF node \in PlanOwed THEN 1 ELSE 0

\* The call under way, or the one to be made again, may still bring an answer.
Carried ==
    IF \/ command # NoCommand
       \/ fallback
       \/ calling /\ via = "stream" /\ ~heard
    THEN 1 ELSE 0

Counted ==
    /\ revisions <= Budget
    /\ node = "revise_plan" => revisions < Budget
    /\ made + Owed <= 1 + answers + revisions

\* Every answer came with a call of its own.
Paid ==
    /\ answers + Carried <= calls
    /\ fallback => ~calling

Reviewed ==
    /\ node \in {"review_plan", "compile_agent_plan_graph", "review_graph"}
                    \cup PresentedNodes \cup ConfirmedNodes => draft # 0
    /\ node \in {"compile_agent_plan_graph", "review_graph"}
                    \cup PresentedNodes \cup ConfirmedNodes
            => review = Judged(draft, "approved")
    /\ node \in {"review_graph"} \cup PresentedNodes \cup ConfirmedNodes => graph = draft
    /\ node \in PresentedNodes \cup ConfirmedNodes
            => graphReview = Judged(graph, "approved")

ExecutedNodes ==
    {"review_agent_compiled_graph", "execution_ready", "execute_agent_compiled_graph",
     "verify_agent_execution_result"}

Approved ==
    /\ approved # 0 => node \in ConfirmedNodes \cup EndNodes \cup {"end"}
    /\ node \in ConfirmedNodes => approved = graph
    /\ node \in ExecutedNodes => compiled.of = graph
    /\ OnlyApprovedGraphsRun

PlanningInv == TypeOK /\ Counted /\ Paid /\ Reviewed

\* The type invariant by the part of the state it is about.
ThreadOK ==
    /\ node \in GraphNodes \cup {"none", "end"}
    /\ calling \in BOOLEAN
    /\ calls \in 0..MaxCalls
    /\ command \in Commands
PlanOK ==
    /\ made \in Plans
    /\ draft \in Plans
    /\ review \in Reviews
    /\ graph \in Plans
    /\ graphReview \in Reviews
    /\ revisions \in Nat
    /\ answers \in 0..MaxCalls
RunOK ==
    /\ compiled \in Compiled
    /\ result \in {"none", "completed", "failed", "interrupted"}
    /\ terminal \in {"", "planning_confirmed", "execution_ready", "final", "cancelled",
                     "compile_failed", "execution_failed", "execution_interrupted",
                     "execution_repair_proposed"}
    /\ approved \in Plans
    /\ ran \subseteq [of : Plans, by : {"thread", "canvas"}]
ClientOK ==
    /\ via \in {"stream", "message"}
    /\ screen \in Screens
    /\ reply \in Screens
    /\ captured \in Offers
    /\ heard \in BOOLEAN
    /\ fallback \in BOOLEAN
    /\ routed \in [choice : Commands,
                   to : {"none", "thread", "input_guard", "graph_feedback"}]
    /\ unheard \in BOOLEAN

LEMMA TypeParts == TypeOK <=> ThreadOK /\ PlanOK /\ RunOK /\ ClientOK
BY DEF TypeOK, ThreadOK, PlanOK, RunOK, ClientOK

-----------------------------------------------------------------------------
(* Which actions touch which part of the state.                             *)

Walk ==
    \/ ReasoningGate \/ BuildContext \/ DeepPlan \/ ReviewPlan \/ RevisePlan
    \/ CompileAgentPlanGraph \/ ReviewGraph \/ PresentPlan \/ ClarifyRequired
    \/ ResumeAfterClarification \/ ConfirmPlan \/ PlanningConfirmed
    \/ CompileConfirmedPlanGraph \/ ReviewAgentCompiledGraph \/ ExecutionReady
    \/ ExecuteAgentCompiledGraph \/ VerifyAgentExecutionResult \/ Conclude

\* A node's superstep ends at a node or at the end and consumes the command.
LEMMA WalkIsAStep ==
  ASSUME Walk
  PROVE  \E from \in GraphNodes, to \in GraphNodes \cup {"end"} : Step(from, to)
<1> USE DEF GraphNodes, PlanningNodes, PresentedNodes, ConfirmedNodes, EndNodes
<1>1. CASE ReasoningGate BY <1>1 DEF ReasoningGate
<1>2. CASE BuildContext BY <1>2 DEF BuildContext
<1>3. CASE DeepPlan BY <1>3 DEF DeepPlan
<1>4. CASE ReviewPlan BY <1>4 DEF ReviewPlan
<1>5. CASE RevisePlan BY <1>5 DEF RevisePlan
<1>6. CASE CompileAgentPlanGraph BY <1>6 DEF CompileAgentPlanGraph
<1>7. CASE ReviewGraph BY <1>7 DEF ReviewGraph
<1>8. CASE PresentPlan BY <1>8 DEF PresentPlan
<1>9. CASE ClarifyRequired BY <1>9 DEF ClarifyRequired
<1>10. CASE ResumeAfterClarification BY <1>10 DEF ResumeAfterClarification
<1>11. CASE ConfirmPlan BY <1>11 DEF ConfirmPlan
<1>12. CASE PlanningConfirmed BY <1>12 DEF PlanningConfirmed
<1>13. CASE CompileConfirmedPlanGraph BY <1>13 DEF CompileConfirmedPlanGraph
<1>14. CASE ReviewAgentCompiledGraph BY <1>14 DEF ReviewAgentCompiledGraph
<1>15. CASE ExecutionReady BY <1>15 DEF ExecutionReady
<1>16. CASE ExecuteAgentCompiledGraph BY <1>16 DEF ExecuteAgentCompiledGraph
<1>17. CASE VerifyAgentExecutionResult BY <1>17 DEF VerifyAgentExecutionResult
<1>18. CASE Conclude BY <1>18 DEF Conclude
<1> QED
  BY <1>1, <1>2, <1>3, <1>4, <1>5, <1>6, <1>7, <1>8, <1>9, <1>10, <1>11, <1>12, <1>13,
     <1>14, <1>15, <1>16, <1>17, <1>18 DEF Walk

LEMMA NextCases ==
  ASSUME [Next]_vars
  PROVE  \/ Walk \/ Interrupt \/ Return \/ Invoke \/ Resume \/ GuardInput
         \/ TakeForFeedback \/ RunCanvas \/ Cut \/ FallBack \/ GiveUp \/ UNCHANGED vars
BY DEF Next, Advance, Walk

LEMMA ThreadTyped == ASSUME ThreadOK, ClientOK, [Next]_vars PROVE ThreadOK'
<1> USE PlanningAssumption DEF ThreadOK
<1>1. CASE Walk
  <2>1. PICK from \in GraphNodes, to \in GraphNodes \cup {"end"} : Step(from, to)
    BY <1>1, WalkIsAStep
  <2> QED
    BY <2>1 DEF Step, Commands, NoCommand
<1>2. CASE Interrupt BY <1>2 DEF Interrupt
<1>3. CASE Return BY <1>3 DEF Return, Commands, NoCommand
<1>4. CASE Invoke
  BY <1>4 DEF Invoke, Call, GraphNodes, PlanningNodes
<1>5. CASE Resume BY <1>5 DEF Resume, Call, Choices
<1>6. CASE GuardInput BY <1>6 DEF GuardInput
<1>7. CASE TakeForFeedback BY <1>7 DEF TakeForFeedback
<1>8. CASE RunCanvas BY <1>8 DEF RunCanvas
<1>9. CASE Cut BY <1>9 DEF Cut, Dies, Commands, NoCommand
<1>10. CASE FallBack BY <1>10 DEF FallBack, ClientOK
<1>11. CASE GiveUp BY <1>11 DEF GiveUp
<1>12. CASE UNCHANGED vars BY <1>12 DEF vars
<1> QED
  BY <1>1, <1>2, <1>3, <1>4, <1>5, <1>6, <1>7, <1>8, <1>9, <1>10, <1>11, <1>12, NextCases

Planners ==
    \/ DeepPlan \/ ReviewPlan \/ RevisePlan \/ CompileAgentPlanGraph \/ ReviewGraph
    \/ ClarifyRequired \/ ResumeAfterClarification

\* Only the planning nodes change a plan, its reviews or the counters.
LEMMA PlanFrame == ASSUME [Next]_vars PROVE Planners \/ UNCHANGED planVars
<1> USE DEF planVars
<1>1. CASE Walk
  BY <1>1 DEF Walk, Planners, ReasoningGate, BuildContext, PresentPlan, ConfirmPlan,
     PlanningConfirmed, CompileConfirmedPlanGraph, ReviewAgentCompiledGraph,
     ExecutionReady, ExecuteAgentCompiledGraph, VerifyAgentExecutionResult, Conclude
<1>2. CASE ~Walk
  BY <1>2, NextCases DEF Interrupt, Return, Invoke, Resume, GuardInput, TakeForFeedback,
     RunCanvas, Cut, Dies, FallBack, GiveUp, vars
<1> QED
  BY <1>1, <1>2

\* A superstep leaves the offer alone, takes it down, asks to clarify or presents the plan
\* (deep_agent_runtime_graph.py's events of each node).
LEMMA WalkTells ==
  ASSUME Walk
  PROVE  /\ calling /\ calling' /\ command' = NoCommand
         /\ \/ /\ Quiet \/ Mention
               /\ node' # "confirm_plan"
               /\ node \in Asking => command # NoCommand
            \/ Tell(Withdrawn) /\ node' # "confirm_plan"
            \/ Tell(Offering("clarification", 0)) /\ node' = "clarify_required"
            \/ PresentPlan
<1> USE DEF Step, Asking
<1>1. CASE ReasoningGate BY <1>1 DEF ReasoningGate
<1>2. CASE BuildContext BY <1>2 DEF BuildContext
<1>3. CASE DeepPlan BY <1>3 DEF DeepPlan
<1>4. CASE ReviewPlan BY <1>4 DEF ReviewPlan
<1>5. CASE RevisePlan BY <1>5 DEF RevisePlan
<1>6. CASE CompileAgentPlanGraph BY <1>6 DEF CompileAgentPlanGraph
<1>7. CASE ReviewGraph BY <1>7 DEF ReviewGraph
<1>8. CASE PresentPlan BY <1>8 DEF PresentPlan
<1>9. CASE ClarifyRequired BY <1>9 DEF ClarifyRequired
<1>10. CASE ResumeAfterClarification BY <1>10 DEF ResumeAfterClarification
<1>11. CASE ConfirmPlan BY <1>11 DEF ConfirmPlan
<1>12. CASE PlanningConfirmed BY <1>12 DEF PlanningConfirmed
<1>13. CASE CompileConfirmedPlanGraph BY <1>13 DEF CompileConfirmedPlanGraph
<1>14. CASE ReviewAgentCompiledGraph BY <1>14 DEF ReviewAgentCompiledGraph
<1>15. CASE ExecutionReady BY <1>15 DEF ExecutionReady
<1>16. CASE ExecuteAgentCompiledGraph BY <1>16 DEF ExecuteAgentCompiledGraph
<1>17. CASE VerifyAgentExecutionResult BY <1>17 DEF VerifyAgentExecutionResult
<1>18. CASE Conclude BY <1>18 DEF Conclude, EndNodes
<1> QED
  BY <1>1, <1>2, <1>3, <1>4, <1>5, <1>6, <1>7, <1>8, <1>9, <1>10, <1>11, <1>12, <1>13,
     <1>14, <1>15, <1>16, <1>17, <1>18 DEF Walk

\* No superstep takes an answer on board that its call did not carry, and a question that
\* was answered is told of.
LEMMA CarriedStep ==
  ASSUME Walk, fallback => ~calling
  PROVE  /\ Carried \in 0..1 /\ Carried' \in 0..1
         /\ Carried' <= Carried
         /\ ~fallback'
         /\ ClarifyRequired => Carried = 1 /\ Carried' = 0
<1>1. calling /\ calling' /\ command' = NoCommand /\ ~fallback
  BY WalkTells
<1>2. Carried \in 0..1 /\ Carried' \in 0..1
  BY DEF Carried
<1>3. CASE Quiet
  <2>1. UNCHANGED <<via, heard, fallback>>
    BY <1>3 DEF Quiet, clientVars
  <2>2. ASSUME Carried = 0 PROVE Carried' = 0
    BY <1>1, <2>1, <2>2 DEF Carried
  <2>3. ~ClarifyRequired \/ Carried' = 0
    <3>1. CASE ClarifyRequired
      <4>1. Tell(Withdrawn)
        BY <3>1 DEF ClarifyRequired
      <4>2. via = "stream" => heard'
        BY <4>1 DEF Tell
      <4> QED
        BY <1>1, <2>1, <4>2 DEF Carried
    <3> QED
      BY <3>1
  <2>4. ClarifyRequired => Carried = 1
    BY DEF ClarifyRequired, Carried
  <2> QED
    BY <1>1, <1>2, <2>1, <2>2, <2>3, <2>4
<1>4. ASSUME NEW new, Tell(new) PROVE Carried' = 0 /\ ~fallback'
  <2>1. via' = via /\ ~fallback' /\ (via = "stream" => heard')
    BY <1>1, <1>4 DEF Tell
  <2> QED
    BY <1>1, <2>1 DEF Carried
<1>5. ClarifyRequired => Carried = 1
  BY DEF ClarifyRequired, Carried
<1> QED
  BY <1>2, <1>3, <1>4, <1>5, WalkTells DEF Mention, PresentPlan

\* A superstep pays for the plan it makes with an answer or a revision.
LEMMA CountStep == ASSUME PlanOK, Counted, [Next]_vars PROVE Counted'
<1> USE PlanningAssumption
<1> USE DEF Counted, Owed, PlanOwed, PlanOK, Plans
<1>1. CASE Planners
  <2> USE DEF Step
  <2>1. CASE DeepPlan BY <2>1 DEF DeepPlan, NewPlan
  <2>2. CASE ReviewPlan BY <2>2 DEF ReviewPlan, RevisionAvailable
  <2>3. CASE RevisePlan BY <2>3 DEF RevisePlan, NewPlan
  <2>4. CASE CompileAgentPlanGraph BY <2>4 DEF CompileAgentPlanGraph
  <2>5. CASE ReviewGraph BY <2>5 DEF ReviewGraph, RevisionAvailable
  <2>6. CASE ClarifyRequired BY <2>6 DEF ClarifyRequired
  <2>7. CASE ResumeAfterClarification BY <2>7 DEF ResumeAfterClarification
  <2> QED BY <1>1, <2>1, <2>2, <2>3, <2>4, <2>5, <2>6, <2>7 DEF Planners
<1>2. CASE UNCHANGED planVars /\ Walk
  <2> USE <1>2 DEF Step, planVars
  <2>1. CASE ReasoningGate BY <2>1 DEF ReasoningGate
  <2>2. CASE BuildContext BY <2>2 DEF BuildContext
  <2>3. CASE PresentPlan BY <2>3 DEF PresentPlan
  <2>4. CASE ConfirmPlan BY <2>4 DEF ConfirmPlan, RevisionAvailable
  <2>5. CASE PlanningConfirmed BY <2>5 DEF PlanningConfirmed
  <2>6. CASE CompileConfirmedPlanGraph BY <2>6 DEF CompileConfirmedPlanGraph
  <2>7. CASE ReviewAgentCompiledGraph BY <2>7 DEF ReviewAgentCompiledGraph
  <2>8. CASE ExecutionReady BY <2>8 DEF ExecutionReady
  <2>9. CASE ExecuteAgentCompiledGraph BY <2>9 DEF ExecuteAgentCompiledGraph
  <2>10. CASE VerifyAgentExecutionResult BY <2>10 DEF VerifyAgentExecutionResult
  <2>11. CASE Conclude BY <2>11 DEF Conclude
  <2>12. CASE Planners BY <1>1, <2>12
  <2> HIDE DEF Counted, Owed, PlanOwed, PlanOK, Plans, Step, planVars
  <2> QED
    BY <1>2, <2>1, <2>2, <2>3, <2>4, <2>5, <2>6, <2>7, <2>8, <2>9, <2>10, <2>11, <2>12
       DEF Walk, Planners
<1>3. CASE UNCHANGED planVars /\ ~Walk
  <2>1. node' = node \/ (node = "none" /\ node' = "reasoning_gate")
    BY <1>3, NextCases DEF Interrupt, Return, Invoke, Resume, GuardInput,
       TakeForFeedback, RunCanvas, Cut, Dies, FallBack, GiveUp, Call, vars
  <2> QED
    BY <1>3, <2>1 DEF planVars
<1> QED
  BY <1>1, <1>2, <1>3, PlanFrame

\* Sums of a count and what may still come.
LEMMA Sums ==
  ASSUME NEW a \in Nat, NEW n \in Nat, NEW k \in 0..1, NEW l \in 0..1, a + k <= n
  PROVE  /\ l <= k => a + l <= n
         /\ a + l <= n + 1
OBVIOUS

\* A command is carried by a call of its own and answers one question at most.
LEMMA PaidStep ==
  ASSUME ThreadOK, PlanOK, Paid, [Next]_vars
  PROVE  Paid'
<1>1. /\ answers \in Nat /\ calls \in Nat
      /\ Carried \in 0..1 /\ Carried' \in 0..1
  BY PlanningAssumption DEF ThreadOK, PlanOK, Carried
<1>2. CASE Walk
  <2>1. /\ Carried' <= Carried
        /\ ~fallback'
        /\ ClarifyRequired => Carried = 1 /\ Carried' = 0
    BY <1>2, CarriedStep DEF Paid
  <2>2. calls' = calls
    BY <1>2, WalkIsAStep DEF Step
  <2>3. (ClarifyRequired /\ answers' = answers + 1) \/ answers' = answers
    BY PlanFrame DEF Planners, planVars, DeepPlan, ReviewPlan, RevisePlan,
       CompileAgentPlanGraph, ReviewGraph, ClarifyRequired, ResumeAfterClarification
  <2>4. answers + Carried <= calls
    BY DEF Paid
  <2>5. answers' + Carried' <= calls'
    BY <1>1, <2>1, <2>2, <2>3, <2>4
  <2> QED
    BY <2>1, <2>5 DEF Paid
<1>3. CASE ~Walk
  <2>1. answers' = answers
    BY <1>3, PlanFrame DEF Planners, Walk, planVars
  <2>2. CASE Invoke \/ Resume
    <3>1. calls' = calls + 1 /\ ~fallback'
      BY <2>2 DEF Invoke, Resume, Call
    <3>2. answers + Carried <= calls
      BY DEF Paid
    <3>3. answers + Carried' <= calls + 1
      BY <1>1, <3>2, Sums
    <3> QED
      BY <2>1, <3>1, <3>3 DEF Paid
  <2>3. CASE ~(Invoke \/ Resume)
    <3>1. calls' = calls
      BY <1>3, <2>3, NextCases DEF Interrupt, Return, GuardInput, TakeForFeedback,
         RunCanvas, Cut, Dies, FallBack, GiveUp, vars
    <3>2. ASSUME Carried = 0 PROVE Carried' = 0
      <4> USE <3>2 DEF Carried
      <4>1. CASE Interrupt BY <4>1 DEF Interrupt
      <4>2. CASE Return BY <4>2 DEF Return
      <4>3. CASE GuardInput \/ TakeForFeedback
        BY <4>3 DEF GuardInput, TakeForFeedback
      <4>4. CASE RunCanvas BY <4>4 DEF RunCanvas, clientVars
      <4>5. CASE Cut BY <4>5 DEF Cut, Dies
      <4>6. CASE FallBack \/ GiveUp BY <4>6 DEF FallBack, GiveUp
      <4>7. CASE UNCHANGED vars BY <4>7 DEF vars, clientVars
      <4> QED
        BY <1>3, <2>3, <4>1, <4>2, <4>3, <4>4, <4>5, <4>6, <4>7, NextCases
    <3>3. fallback' => ~calling'
      BY <1>3, <2>3, NextCases DEF Paid, Interrupt, Return, GuardInput, TakeForFeedback,
         RunCanvas, Cut, Dies, FallBack, GiveUp, vars, clientVars
    <3>4. Carried' <= Carried
      BY <1>1, <3>2
    <3>5. answers + Carried' <= calls
      BY <1>1, <3>4, Sums DEF Paid
    <3>6. answers' + Carried' <= calls'
      BY <2>1, <3>1, <3>5
    <3> QED
      BY <3>3, <3>6 DEF Paid
  <2> QED
    BY <2>2, <2>3
<1> QED
  BY <1>2, <1>3

\* The arithmetic of the bounds.
LEMMA Arithmetic ==
  ASSUME NEW m \in Nat, NEW o \in Nat, NEW a \in Nat, NEW k \in Nat, NEW n \in Nat,
         NEW r \in Nat, r <= Budget, m + o <= 1 + a + r, a + k <= n, n <= MaxCalls
  PROVE  m \in 0..(MaxCalls + Budget + 1) /\ a \in 0..MaxCalls
BY PlanningAssumption

\* The counting bounds the numbers plans can have.
LEMMA PlanTyped ==
  ASSUME ThreadOK, PlanOK, ThreadOK', Counted', Paid', [Next]_vars
  PROVE  PlanOK'
<1> USE PlanningAssumption DEF PlanOK, ThreadOK
<1>1. ASSUME made' \in Nat, answers' \in Nat, revisions' \in Nat
      PROVE  made' \in Plans /\ answers' \in 0..MaxCalls
  <2>1. Owed' \in Nat /\ Carried' \in Nat
    BY DEF Owed, Carried
  <2>2. calls' \in Nat /\ calls' <= MaxCalls
    OBVIOUS
  <2>3. /\ revisions' <= Budget
        /\ made' + Owed' <= 1 + answers' + revisions'
        /\ answers' + Carried' <= calls'
    BY DEF Counted, Paid
  <2> QED
    BY <1>1, <2>1, <2>2, <2>3, Arithmetic DEF Plans
<1> USE DEF Reviews, NoReview, Verdicts, Judged, Plans
<1>2. CASE DeepPlan BY <1>1, <1>2 DEF DeepPlan, NewPlan
<1>3. CASE ReviewPlan BY <1>3 DEF ReviewPlan
<1>4. CASE RevisePlan BY <1>1, <1>4 DEF RevisePlan, NewPlan
<1>5. CASE CompileAgentPlanGraph BY <1>5 DEF CompileAgentPlanGraph
<1>6. CASE ReviewGraph BY <1>6 DEF ReviewGraph
<1>7. CASE ClarifyRequired BY <1>1, <1>7 DEF ClarifyRequired
<1>8. CASE ResumeAfterClarification BY <1>8 DEF ResumeAfterClarification
<1>9. CASE UNCHANGED planVars BY <1>9 DEF planVars
<1> QED
  BY <1>2, <1>3, <1>4, <1>5, <1>6, <1>7, <1>8, <1>9, PlanFrame DEF Planners

-----------------------------------------------------------------------------
(* The rest of the type invariant.                                          *)

Runners ==
    \/ ResumeAfterClarification \/ ConfirmPlan \/ PlanningConfirmed
    \/ CompileConfirmedPlanGraph \/ ReviewAgentCompiledGraph \/ ExecutionReady
    \/ ExecuteAgentCompiledGraph \/ Conclude \/ RunCanvas \/ Cut

\* Only these change what was compiled, approved, executed or concluded.
LEMMA RunFrame == ASSUME [Next]_vars PROVE Runners \/ UNCHANGED runVars
<1> USE DEF runVars
<1>1. CASE Walk
  BY <1>1 DEF Walk, Runners, ReasoningGate, BuildContext, DeepPlan, ReviewPlan,
     RevisePlan, CompileAgentPlanGraph, ReviewGraph, PresentPlan, ClarifyRequired,
     VerifyAgentExecutionResult
<1>2. CASE ~Walk
  BY <1>2, NextCases DEF Runners, Interrupt, Return, Invoke, Resume, GuardInput,
     TakeForFeedback, FallBack, GiveUp, vars
<1> QED
  BY <1>1, <1>2

LEMMA RunTyped ==
  ASSUME PlanOK, RunOK, ClientOK, [Next]_vars
  PROVE  RunOK'
<1>1. /\ NotCompiled \in Compiled
      /\ [of |-> graph, status |-> "compiled"] \in Compiled
  <2>1. 0 \in Plans /\ graph \in Plans
    BY PlanningAssumption DEF Plans, PlanOK
  <2> QED
    BY <2>1 DEF NotCompiled, Compiled
<1> DEFINE Runs == [of : Plans, by : {"thread", "canvas"}]
<1>runs. /\ [of |-> compiled.of, by |-> "thread"] \in Runs
         /\ [of |-> screen.seen, by |-> "canvas"] \in Runs
  BY DEF RunOK, Compiled, ClientOK, Screens
<1>begun. /\ Begun(compiled.of, "thread") => ran' \subseteq Runs
          /\ Begun(screen.seen, "canvas") => ran' \subseteq Runs
  BY <1>runs DEF RunOK, Begun
<1> USE DEF RunOK, PlanOK
<1>2. CASE ResumeAfterClarification
  BY <1>1, <1>2 DEF ResumeAfterClarification
<1>3. CASE ConfirmPlan BY <1>3 DEF ConfirmPlan
<1>4. CASE PlanningConfirmed BY <1>4 DEF PlanningConfirmed
<1>5. CASE CompileConfirmedPlanGraph
  BY <1>1, <1>5 DEF CompileConfirmedPlanGraph
<1>6. CASE ReviewAgentCompiledGraph BY <1>6 DEF ReviewAgentCompiledGraph, Compiled
<1>7. CASE ExecutionReady BY <1>7 DEF ExecutionReady
<1>8. CASE ExecuteAgentCompiledGraph
  BY <1>8, <1>begun DEF ExecuteAgentCompiledGraph
<1>9. CASE Conclude
  <2>1. \A last \in DOMAIN TerminalStatus :
            TerminalStatus[last] \in
                {"final", "cancelled", "compile_failed", "execution_failed",
                 "execution_interrupted", "execution_repair_proposed"}
    <3>1. DOMAIN TerminalStatus =
            {"agent_execution_final", "agent_execution_failed",
             "agent_execution_interrupted", "agent_execution_repair_proposed",
             "compile_failed", "planning_cancelled"}
      BY DEF TerminalStatus
    <3>2. /\ TerminalStatus["agent_execution_final"] = "final"
          /\ TerminalStatus["agent_execution_failed"] = "execution_failed"
          /\ TerminalStatus["agent_execution_interrupted"] = "execution_interrupted"
          /\ TerminalStatus["agent_execution_repair_proposed"]
                = "execution_repair_proposed"
          /\ TerminalStatus["compile_failed"] = "compile_failed"
          /\ TerminalStatus["planning_cancelled"] = "cancelled"
      BY DEF TerminalStatus
    <3> QED
      BY <3>1, <3>2
  <2> QED
    BY <1>9, <2>1 DEF Conclude
<1>10. CASE RunCanvas BY <1>10, <1>begun DEF RunCanvas
<1>11. CASE Cut BY <1>11, <1>begun DEF Cut, Dies
<1>12. CASE UNCHANGED runVars BY <1>12 DEF runVars
<1> QED
  BY <1>2, <1>3, <1>4, <1>5, <1>6, <1>7, <1>8, <1>9, <1>10, <1>11, <1>12, RunFrame
     DEF Runners

\* What a node tells the client is a screen.
LEMMA ToldScreens ==
  ASSUME ClientOK, PlanOK
  PROVE  /\ Withdrawn \in Screens
         /\ Offering("clarification", 0) \in Screens
         /\ Offering("confirmation", graph) \in Screens
         /\ PutBack \in Screens
         /\ reply \in Screens
         /\ [screen EXCEPT !.offer = NoOffer] \in Screens
         /\ NoOffer \in Offers
<1>1. 0 \in Plans /\ graph \in Plans
  BY PlanningAssumption DEF Plans, PlanOK
<1> QED
  BY <1>1 DEF ClientOK, Screens, Offers, NoOffer, Withdrawn, Offering, PutBack

LEMMA TellTyped ==
  ASSUME ClientOK, NEW new \in Screens, Tell(new)
  PROVE  ClientOK'
BY DEF ClientOK, Tell

LEMMA QuietTyped == ASSUME ClientOK, Quiet PROVE ClientOK'
BY DEF ClientOK, Quiet, clientVars

LEMMA ClientTyped ==
  ASSUME PlanOK, ClientOK, [Next]_vars
  PROVE  ClientOK'
<1>1. CASE Walk
  <2> USE ToldScreens, TellTyped, QuietTyped DEF Mention
  <2>1. CASE ReasoningGate BY <2>1 DEF ReasoningGate
  <2>2. CASE BuildContext BY <2>2 DEF BuildContext
  <2>3. CASE DeepPlan BY <2>3 DEF DeepPlan
  <2>4. CASE ReviewPlan BY <2>4 DEF ReviewPlan
  <2>5. CASE RevisePlan BY <2>5 DEF RevisePlan
  <2>6. CASE CompileAgentPlanGraph BY <2>6 DEF CompileAgentPlanGraph
  <2>7. CASE ReviewGraph BY <2>7 DEF ReviewGraph
  <2>8. CASE PresentPlan
    <3> DEFINE shown == [offer |-> IF RequireConfirmation
                                   THEN [kind |-> "confirmation", of |-> graph]
                                   ELSE NoOffer,
                         seen |-> graph, graph |-> TRUE]
    <3>1. shown \in Screens
      BY PlanningAssumption DEF Screens, Offers, PlanOK
    <3>2. Tell(shown)
      BY <2>8 DEF PresentPlan
    <3> QED
      BY <3>1, <3>2
  <2>9. CASE ClarifyRequired BY <2>9 DEF ClarifyRequired
  <2>10. CASE ResumeAfterClarification BY <2>10 DEF ResumeAfterClarification
  <2>11. CASE ConfirmPlan BY <2>11 DEF ConfirmPlan
  <2>12. CASE PlanningConfirmed BY <2>12 DEF PlanningConfirmed
  <2>13. CASE CompileConfirmedPlanGraph BY <2>13 DEF CompileConfirmedPlanGraph
  <2>14. CASE ReviewAgentCompiledGraph BY <2>14 DEF ReviewAgentCompiledGraph
  <2>15. CASE ExecutionReady BY <2>15 DEF ExecutionReady
  <2>16. CASE ExecuteAgentCompiledGraph BY <2>16 DEF ExecuteAgentCompiledGraph
  <2>17. CASE VerifyAgentExecutionResult BY <2>17 DEF VerifyAgentExecutionResult
  <2>18. CASE Conclude BY <2>18 DEF Conclude
  <2> QED
    BY <1>1, <2>1, <2>2, <2>3, <2>4, <2>5, <2>6, <2>7, <2>8, <2>9, <2>10, <2>11, <2>12,
       <2>13, <2>14, <2>15, <2>16, <2>17, <2>18 DEF Walk
<1>2. CASE Interrupt
  BY <1>2, ToldScreens DEF Interrupt, ClientOK
<1>3. CASE Return BY <1>3, ToldScreens DEF Return, ClientOK
<1>4. CASE Invoke
  BY <1>4, ToldScreens DEF Invoke, Call, ClientOK, Screens
<1>5. CASE Resume
  <2>1. routed' \in [choice : Commands,
                     to : {"none", "thread", "input_guard", "graph_feedback"}]
    BY <1>5 DEF Resume, Choices
  <2>2. PICK how \in {"stream", "message"} : Call(how)
    BY <1>5 DEF Resume
  <2> QED
    BY <1>5, <2>1, <2>2, ToldScreens DEF Resume, Call, ClientOK, Screens
<1>6. CASE GuardInput
  BY <1>6, ToldScreens DEF GuardInput, Choices, ClientOK, Screens
<1>7. CASE TakeForFeedback
  BY <1>7, ToldScreens, PlanningAssumption DEF TakeForFeedback, Choices, ClientOK, Screens, Plans
<1>8. CASE RunCanvas BY <1>8 DEF RunCanvas, ClientOK, clientVars
<1>9. CASE Cut BY <1>9, ToldScreens DEF Cut, Dies, ClientOK
<1>10. CASE FallBack BY <1>10 DEF FallBack, ClientOK
<1>11. CASE GiveUp BY <1>11, ToldScreens DEF GiveUp, ClientOK
<1>12. CASE UNCHANGED vars BY <1>12 DEF vars, clientVars, ClientOK
<1> QED
  BY <1>1, <1>2, <1>3, <1>4, <1>5, <1>6, <1>7, <1>8, <1>9, <1>10, <1>11, <1>12, NextCases

-----------------------------------------------------------------------------
(* Verdicts follow the draft they are about.                                *)

\* A node reached with a draft, a reviewed draft or a reviewed graph was reached from
\* the node that made or judged it, or from one that already had it.
LEMMA ReviewStep == ASSUME PlanOK, Reviewed, [Next]_vars PROVE Reviewed'
<1> USE DEF Reviewed, PresentedNodes, ConfirmedNodes
<1>1. CASE Planners
  <2> USE DEF Step
  <2>1. CASE DeepPlan
    <3>1. made + 1 # 0
      BY DEF PlanOK, Plans
    <3> QED
      BY <2>1, <3>1 DEF DeepPlan, NewPlan
  <2>2. CASE ReviewPlan BY <2>2 DEF ReviewPlan
  <2>3. CASE RevisePlan
    <3>1. made + 1 # 0
      BY DEF PlanOK, Plans
    <3> QED
      BY <2>3, <3>1 DEF RevisePlan, NewPlan
  <2>4. CASE CompileAgentPlanGraph BY <2>4 DEF CompileAgentPlanGraph
  <2>5. CASE ReviewGraph BY <2>5 DEF ReviewGraph
  <2>6. CASE ClarifyRequired BY <2>6 DEF ClarifyRequired
  <2>7. CASE ResumeAfterClarification BY <2>7 DEF ResumeAfterClarification
  <2> QED
    BY <1>1, <2>1, <2>2, <2>3, <2>4, <2>5, <2>6, <2>7 DEF Planners
<1>2. CASE UNCHANGED planVars /\ Walk
  <2> USE <1>2 DEF Step, planVars
  <2>1. CASE ReasoningGate BY <2>1 DEF ReasoningGate
  <2>2. CASE BuildContext BY <2>2 DEF BuildContext
  <2>3. CASE PresentPlan BY <2>3 DEF PresentPlan
  <2>4. CASE ConfirmPlan BY <2>4 DEF ConfirmPlan
  <2>5. CASE PlanningConfirmed BY <2>5 DEF PlanningConfirmed
  <2>6. CASE CompileConfirmedPlanGraph BY <2>6 DEF CompileConfirmedPlanGraph
  <2>7. CASE ReviewAgentCompiledGraph BY <2>7 DEF ReviewAgentCompiledGraph
  <2>8. CASE ExecutionReady BY <2>8 DEF ExecutionReady
  <2>9. CASE ExecuteAgentCompiledGraph BY <2>9 DEF ExecuteAgentCompiledGraph
  <2>10. CASE VerifyAgentExecutionResult BY <2>10 DEF VerifyAgentExecutionResult
  <2>11. CASE Conclude BY <2>11 DEF Conclude
  <2>12. CASE Planners BY <1>1, <2>12
  <2> HIDE DEF Reviewed, PresentedNodes, ConfirmedNodes, Step, planVars
  <2> QED
    BY <1>2, <2>1, <2>2, <2>3, <2>4, <2>5, <2>6, <2>7, <2>8, <2>9, <2>10, <2>11, <2>12
       DEF Walk, Planners
<1>3. CASE UNCHANGED planVars /\ ~Walk
  <2>1. node' = node \/ node' = "reasoning_gate"
    BY <1>3, NextCases DEF Interrupt, Return, Invoke, Resume, GuardInput,
       TakeForFeedback, RunCanvas, Cut, Dies, FallBack, GiveUp, Call, vars
  <2> QED
    BY <1>3, <2>1 DEF planVars
<1> QED
  BY <1>1, <1>2, <1>3, PlanFrame

\* The thread executes only what it has confirmed: nothing but the end follows a
\* confirmation, and what the canvas runs on its own does not count.
LEMMA ApproveStep ==
  ASSUME RunOK, PlanOK, Reviewed, Approved, [Next]_vars
  PROVE  Approved'
<1> USE DEF Approved, ExecutedNodes, ConfirmedNodes, OnlyApprovedGraphsRun
<1>1. CASE Walk
  <2> USE DEF Step, EndNodes
  <2>1. CASE ReasoningGate BY <2>1 DEF ReasoningGate, planVars, runVars
  <2>2. CASE BuildContext BY <2>2 DEF BuildContext, planVars, runVars
  <2>3. CASE DeepPlan BY <2>3 DEF DeepPlan, runVars
  <2>4. CASE ReviewPlan BY <2>4 DEF ReviewPlan, runVars
  <2>5. CASE RevisePlan BY <2>5 DEF RevisePlan, runVars
  <2>6. CASE CompileAgentPlanGraph BY <2>6 DEF CompileAgentPlanGraph, runVars
  <2>7. CASE ReviewGraph BY <2>7 DEF ReviewGraph, runVars
  <2>8. CASE PresentPlan BY <2>8 DEF PresentPlan, planVars, runVars
  <2>9. CASE ClarifyRequired BY <2>9 DEF ClarifyRequired, runVars
  <2>10. CASE ResumeAfterClarification BY <2>10 DEF ResumeAfterClarification
  <2>11. CASE ConfirmPlan
    <3>1. graph # 0
      BY <2>11 DEF ConfirmPlan, Reviewed, PresentedNodes
    <3>2. approved = 0 /\ \A run \in ran : run.by # "thread"
      BY <2>11 DEF ConfirmPlan
    <3> QED
      BY <2>11, <3>1, <3>2 DEF ConfirmPlan, planVars
  <2>12. CASE PlanningConfirmed BY <2>12 DEF PlanningConfirmed, planVars
  <2>13. CASE CompileConfirmedPlanGraph
    BY <2>13 DEF CompileConfirmedPlanGraph, planVars
  <2>14. CASE ReviewAgentCompiledGraph
    BY <2>14 DEF ReviewAgentCompiledGraph, planVars, RunOK, Compiled
  <2>15. CASE ExecutionReady BY <2>15 DEF ExecutionReady, planVars
  <2>16. CASE ExecuteAgentCompiledGraph
    BY <2>16 DEF ExecuteAgentCompiledGraph, Begun, planVars, Reviewed, PresentedNodes
  <2>17. CASE VerifyAgentExecutionResult
    BY <2>17 DEF VerifyAgentExecutionResult, planVars, runVars
  <2>18. CASE Conclude BY <2>18 DEF Conclude, planVars
  <2> QED
    BY <1>1, <2>1, <2>2, <2>3, <2>4, <2>5, <2>6, <2>7, <2>8, <2>9, <2>10, <2>11, <2>12,
       <2>13, <2>14, <2>15, <2>16, <2>17, <2>18 DEF Walk
<1>2. CASE Invoke BY <1>2 DEF Invoke, Call, planVars, runVars, EndNodes
<1>3. CASE Cut
  BY <1>3 DEF Cut, Dies, Begun, planVars, Reviewed, PresentedNodes
<1>4. CASE Interrupt \/ Return \/ Resume \/ GuardInput \/ TakeForFeedback \/ UNCHANGED vars
  BY <1>4 DEF Interrupt, Return, Resume, Call, GuardInput, TakeForFeedback, planVars,
     runVars, vars
<1>5. CASE RunCanvas
  BY <1>5 DEF RunCanvas, Begun, planVars
<1>6. CASE FallBack \/ GiveUp
  BY <1>6 DEF FallBack, GiveUp, planVars, runVars
<1> QED
  BY <1>1, <1>2, <1>3, <1>4, <1>5, <1>6, NextCases

-----------------------------------------------------------------------------
(* The theorems.                                                            *)

\* A thread starts with nothing planned, counted or shown.
LEMMA PlanningInit == ASSUME Init PROVE PlanningInv /\ Approved
<1>1. 0 \in Plans /\ 0 \in 0..MaxCalls /\ 0 \in Nat /\ 0 <= Budget
  BY PlanningAssumption DEF Plans
<1>0. 0 + 1 <= 1 + 0 + 0 /\ 0 + 0 <= 0
  OBVIOUS
<1>2. /\ NoCommand \in Commands
      /\ NoReview \in Reviews
      /\ NotCompiled \in Compiled
      /\ NoOffer \in Offers
  BY <1>1 DEF NoCommand, Commands, NoReview, Reviews, Verdicts, NotCompiled, Compiled,
     NoOffer, Offers
<1> USE DEF Init
<1>3. ThreadOK
  BY <1>1, <1>2 DEF ThreadOK
<1>4. PlanOK
  BY <1>1, <1>2 DEF PlanOK
<1>5. RunOK
  BY <1>1, <1>2 DEF RunOK
<1>6. ClientOK
  <2>1. PICK old \in BOOLEAN : screen = [offer |-> NoOffer, seen |-> 0, graph |-> old]
    OBVIOUS
  <2>2. screen \in Screens /\ reply \in Screens
    BY <1>1, <1>2, <2>1 DEF Screens
  <2>3. routed \in [choice : Commands,
                    to : {"none", "thread", "input_guard", "graph_feedback"}]
    BY <1>2
  <2> QED
    BY <1>2, <2>2, <2>3 DEF ClientOK
<1>7. Counted /\ Paid
  <2>1. Owed = 1 /\ Carried = 0
    BY DEF Owed, Carried, PlanOwed
  <2>2. /\ node # "revise_plan" /\ ~fallback
        /\ revisions = 0 /\ made = 0 /\ answers = 0 /\ calls = 0
    OBVIOUS
  <2> HIDE DEF Init
  <2> QED
    BY <1>1, <1>0, <2>1, <2>2 DEF Counted, Paid
<1>8. Reviewed /\ Approved
  BY DEF Reviewed, Approved, OnlyApprovedGraphsRun, PresentedNodes, ConfirmedNodes,
     ExecutedNodes
<1> QED
  BY <1>3, <1>4, <1>5, <1>6, <1>7, <1>8, TypeParts DEF PlanningInv

\* Every step keeps the inductive invariant.
LEMMA PlanningStep == ASSUME PlanningInv, [Next]_vars PROVE PlanningInv'
<1>1. ThreadOK /\ PlanOK /\ RunOK /\ ClientOK /\ Counted /\ Paid /\ Reviewed
  BY TypeParts DEF PlanningInv
<1>2. ThreadOK' /\ Counted' /\ Paid'
  BY <1>1, ThreadTyped, CountStep, PaidStep
<1>3. PlanOK' /\ RunOK' /\ ClientOK' /\ Reviewed'
  BY <1>1, <1>2, PlanTyped, RunTyped, ClientTyped, ReviewStep
<1>4. TypeOK'
  BY <1>2, <1>3 DEF TypeOK, ThreadOK, PlanOK, RunOK, ClientOK
<1> QED
  BY <1>2, <1>3, <1>4 DEF PlanningInv

\* The inductive invariant holds of every thread, whatever is cut, lost or resumed.
THEOREM PlanningInvariant == Spec => []PlanningInv
<1>1. Init => PlanningInv
  BY PlanningInit
<1>2. PlanningInv /\ [Next]_vars => PlanningInv'
  BY PlanningStep
<1> QED
  BY <1>1, <1>2, PTL DEF Spec

\* Every variable of a planning thread and its client keeps its type: with it, plans
\* and answers are bounded by the calls and the budget.
THEOREM PlanningTypeCorrect == Spec => []TypeOK
<1>1. PlanningInv => TypeOK
  BY DEF PlanningInv
<1> QED
  BY <1>1, PlanningInvariant, PTL

\* Revisions stay within the budget, and a plan is made for the message, an answer or a
\* revision and for nothing else, for every budget and number of calls.
THEOREM PlanningIsBounded == Spec => []PlansBounded
<1>1. PlanningInv => PlansBounded
  <2> SUFFICES ASSUME PlanningInv PROVE PlansBounded
    OBVIOUS
  <2>1. made \in Nat /\ answers \in Nat /\ revisions \in Nat
    BY PlanningAssumption, TypeParts DEF PlanningInv, PlanOK, Plans
  <2>2. Owed \in Nat
    BY DEF Owed
  <2>3. revisions <= Budget /\ made + Owed <= 1 + answers + revisions
    BY DEF PlanningInv, Counted
  <2>4. ASSUME NEW m \in Nat, NEW o \in Nat, NEW n \in Nat, m + o <= n PROVE m <= n
    BY <2>4
  <2> QED
    BY <2>1, <2>2, <2>3, <2>4 DEF PlansBounded
<1> QED
  BY <1>1, PlanningInvariant, PTL

\* What is presented, confirmed or executed is the last draft, and its own reviews
\* approved it.
THEOREM ShownPlansAreReviewed == Spec => []ShownPlanIsReviewed
<1>1. PlanningInv => ShownPlanIsReviewed
  BY DEF PlanningInv, Reviewed, ShownPlanIsReviewed
<1> QED
  BY <1>1, PlanningInvariant, PTL

\* What a confirmation leaves behind holds in every reachable state, too.
LEMMA ApprovedInvariant == Spec => [](PlanningInv /\ Approved)
<1>1. Init => PlanningInv /\ Approved
  BY PlanningInit
<1>2. PlanningInv /\ Approved /\ [Next]_vars => (PlanningInv /\ Approved)'
  <2> SUFFICES ASSUME PlanningInv, Approved, [Next]_vars
               PROVE  PlanningInv' /\ Approved'
    OBVIOUS
  <2>1. PlanOK /\ RunOK /\ Reviewed
    BY TypeParts DEF PlanningInv
  <2> QED
    BY <2>1, PlanningStep, ApproveStep
<1> QED
  BY <1>1, <1>2, PTL DEF Spec

\* The thread never executes anything but the graph the user confirmed, whatever calls
\* die, replies get lost or choices come late.
THEOREM ConfirmationGuardsExecution == Spec => []OnlyApprovedGraphsRun
<1>1. PlanningInv /\ Approved => OnlyApprovedGraphsRun
  BY DEF Approved
<1> QED
  BY <1>1, ApprovedInvariant, PTL

-----------------------------------------------------------------------------
(* Offers.  What a call has told is what the thread waits for, and as long as *)
(* every reply was heard the client has seen the graph that is offered.       *)

\* What is offered is what the thread asks, about the graph it holds.
Heeds(shown) ==
    shown.offer # NoOffer =>
        /\ node = IF shown.offer.kind = "confirmation" THEN "confirm_plan"
                                                       ELSE "clarify_required"
        /\ shown.offer.kind = "confirmation" => shown.offer.of = graph

Attended ==
    /\ ~calling => command = NoCommand
    /\ command # NoCommand => screen = reply /\ reply.offer = NoOffer
    /\ calling /\ via = "stream" => screen = reply
    /\ calling /\ via = "stream" /\ ~heard => reply.offer = NoOffer
    /\ calling /\ via = "message" => ~heard
    /\ fallback => ~calling /\ ~heard /\ screen.offer = NoOffer
    /\ calling => Heeds(reply)
    /\ ~calling /\ heard => Heeds(screen)
    /\ node = "confirm_plan" /\ ~unheard =>
        /\ calling => reply.seen = graph
        /\ fallback \/ (~calling /\ screen.offer # NoOffer) => screen.seen = graph

\* What the fields of a told screen are.
LEMMA ToldFields ==
  ASSUME ClientOK
  PROVE  /\ Withdrawn.offer = NoOffer /\ Withdrawn.seen = reply.seen
         /\ \A kind, of : /\ Offering(kind, of).offer = [kind |-> kind, of |-> of]
                          /\ Offering(kind, of).seen = reply.seen
         /\ NoOffer.kind = "none"
BY DEF ClientOK, Screens, Withdrawn, Offering, NoOffer

\* Every step keeps offers in step with the thread.
LEMMA AttendStep ==
  ASSUME TypeOK, Attended, [Next]_vars
  PROVE  Attended'
<1>1. ClientOK
  BY TypeParts
<1> USE DEF Attended, Heeds
<1>2. CASE Walk
  <2>1. /\ calling /\ calling' /\ command' = NoCommand
        /\ \/ /\ Quiet \/ Mention
              /\ node' # "confirm_plan"
              /\ node \in Asking => command # NoCommand
           \/ Tell(Withdrawn) /\ node' # "confirm_plan"
           \/ Tell(Offering("clarification", 0)) /\ node' = "clarify_required"
           \/ PresentPlan
    BY <1>2, WalkTells
  <2>2. CASE /\ Quiet \/ Mention
             /\ node' # "confirm_plan"
             /\ node \in Asking => command # NoCommand
    <3>1. reply.offer = NoOffer
      BY <2>1, <2>2 DEF Asking
    <3>2. /\ UNCHANGED <<via, reply, fallback>>
          /\ \/ UNCHANGED <<screen, heard>>
             \/ /\ screen' = IF via = "stream" THEN reply ELSE screen
                /\ heard' = (heard \/ via = "stream")
      BY <2>2 DEF Quiet, Mention, Tell, clientVars
    <3>3. node' # "confirm_plan" /\ Heeds(reply)'
      BY <2>2, <3>1, <3>2
    <3>4. via = "stream" => screen' = reply'
      BY <2>1, <3>2
    <3>5. /\ calling' /\ ~fallback' /\ command' = NoCommand /\ reply'.offer = NoOffer
      BY <2>1, <3>1, <3>2
    <3>6. calling' /\ via' = "message" => ~heard'
      BY <2>1, <3>2
    <3> HIDE DEF Heeds
    <3> QED
      BY <3>2, <3>3, <3>4, <3>5, <3>6
  <2>3. CASE Tell(Withdrawn) /\ node' # "confirm_plan"
    BY <1>1, <2>1, <2>3, ToldFields DEF Tell
  <2>4. CASE Tell(Offering("clarification", 0)) /\ node' = "clarify_required"
    <3>1. reply'.offer = [kind |-> "clarification", of |-> 0]
      BY <1>1, <2>4, ToldFields DEF Tell
    <3>2. reply'.offer.kind = "clarification"
      BY <3>1
    <3>3. /\ via' = via /\ unheard' = unheard /\ fallback' = fallback
          /\ screen' = IF via = "stream" THEN reply' ELSE screen
          /\ heard' = (heard \/ via = "stream")
      BY <2>4 DEF Tell
    <3> QED
      BY <2>1, <2>4, <3>2, <3>3
  <2>5. CASE PresentPlan
    BY <1>1, <2>1, <2>5, ToldFields DEF PresentPlan, Tell, Step, planVars
  <2> QED
    BY <2>1, <2>2, <2>3, <2>4, <2>5
<1>3. CASE Interrupt
  <2>1. /\ calling /\ ~calling' /\ command = NoCommand /\ command' = NoCommand
        /\ node \in Asking /\ UNCHANGED <<node, graph, via, fallback>>
    BY <1>3 DEF Interrupt, planVars
  <2>2. CASE unheard' /\ via = "message" /\ UNCHANGED <<heard, reply>>
    BY <2>1, <2>2
  <2>3. CASE /\ unheard' = unheard
             /\ screen' = reply'
             /\ reply' = IF node = "confirm_plan" THEN Offering("confirmation", graph)
                                                  ELSE Offering("clarification", 0)
    <3>1. CASE node = "confirm_plan"
      <4>1. screen'.offer = [kind |-> "confirmation", of |-> graph] /\ screen'.seen = reply.seen
        BY <1>1, <2>3, <3>1, ToldFields
      <4>2. screen'.offer.kind = "confirmation" /\ screen'.offer.of = graph
        BY <4>1
      <4> QED
        BY <2>1, <2>3, <3>1, <4>1, <4>2
    <3>2. CASE node = "clarify_required"
      <4>1. screen'.offer = [kind |-> "clarification", of |-> 0]
        BY <1>1, <2>3, <3>2, ToldFields
      <4>2. screen'.offer.kind = "clarification"
        BY <4>1
      <4> QED
        BY <2>1, <2>3, <3>2, <4>2
    <3> QED
      BY <2>1, <3>1, <3>2 DEF Asking
  <2> QED
    BY <1>3, <2>2, <2>3 DEF Interrupt
<1>4. CASE Return
  BY <1>1, <1>4, ToldFields DEF Return, planVars
<1>5. CASE Invoke
  BY <1>1, <1>5, ToldFields DEF Invoke, Call, planVars, ClientOK, Screens
<1>6. CASE Resume
  <2>1. /\ ~calling /\ calling' /\ ~fallback' /\ ~heard'
        /\ UNCHANGED <<node, graph, unheard>>
    BY <1>6 DEF Resume, Call, planVars
  <2>2. screen'.offer = NoOffer /\ screen'.seen = screen.seen /\ reply' = screen'
    BY <1>1, <1>6 DEF Resume, Call, ClientOK, Screens
  <2>3. screen.offer # NoOffer
    BY <1>6 DEF Resume, Offered
  <2> QED
    BY <2>1, <2>2, <2>3
<1>7. CASE GuardInput
  BY <1>1, <1>7, ToldFields DEF GuardInput, Offered, planVars, ClientOK, Screens
<1>8. CASE TakeForFeedback
  BY <1>1, <1>8, ToldFields DEF TakeForFeedback, Offered, planVars, ClientOK, Screens
<1>9. CASE RunCanvas
  BY <1>9 DEF RunCanvas, planVars, clientVars
<1>10. CASE Cut
  <2>1. /\ calling /\ ~calling' /\ command' = NoCommand
        /\ UNCHANGED <<node, graph, via, reply, heard>>
    BY <1>10 DEF Cut, Dies, planVars
  <2>2. CASE via = "message" /\ unheard' /\ UNCHANGED fallback
    BY <2>1, <2>2
  <2>3. CASE via = "stream" /\ heard /\ UNCHANGED <<screen, fallback, unheard>>
    BY <2>1, <2>3
  <2>4. CASE via = "stream" /\ ~heard /\ fallback' /\ UNCHANGED <<screen, unheard>>
    BY <2>1, <2>4
  <2> QED
    BY <1>10, <2>2, <2>3, <2>4 DEF Cut
<1>11. CASE FallBack
  BY <1>11 DEF FallBack, planVars
<1>12. CASE GiveUp
  <2>1. /\ fallback /\ ~fallback' /\ screen'.seen = screen.seen
        /\ UNCHANGED <<node, calling, command, graph, via, reply, heard, unheard>>
    BY <1>1, <1>12 DEF GiveUp, PutBack, planVars, ClientOK, Screens
  <2> QED
    BY <2>1
<1>13. CASE UNCHANGED vars
  BY <1>13 DEF vars, planVars, clientVars
<1> QED
  BY <1>2, <1>3, <1>4, <1>5, <1>6, <1>7, <1>8, <1>9, <1>10, <1>11, <1>12, <1>13, NextCases

\* Offers stay in step with the thread in every reachable state.
LEMMA AttendedInvariant == Spec => [](TypeOK /\ Attended)
<1>1. Init => Attended
  <2> SUFFICES ASSUME Init PROVE Attended
    OBVIOUS
  <2>1. /\ screen.offer = NoOffer /\ reply = screen /\ ~calling /\ command = NoCommand
        /\ ~fallback /\ node = "none"
    <3>1. PICK old \in BOOLEAN : screen = [offer |-> NoOffer, seen |-> 0, graph |-> old]
      BY DEF Init
    <3> QED
      BY <3>1 DEF Init
  <2> QED
    BY <2>1 DEF Attended, Heeds
<1>2. TypeOK /\ Attended /\ [Next]_vars => Attended'
  BY AttendStep
<1> QED
  BY <1>1, <1>2, PlanningTypeCorrect, PTL DEF Spec

\* Once the client has applied an event of its last call, however that call ended, what it
\* offers to answer is what the thread waits for, about the very graph it holds: a cut stream
\* never leaves an offer its thread has gone past, as long as it said anything at all.
THEOREM OffersAreWaitedFor == Spec => []OfferIsWaitedFor
<1>1. TypeOK /\ Attended => OfferIsWaitedFor
  BY DEF Attended, Heeds, OfferIsWaitedFor
<1> QED
  BY <1>1, AttendedInvariant, PTL

\* A decision is about the graph the client showed when it was made, however calls are
\* cut, stale offers put back or choices taken for something else, as long as every reply
\* was heard.
THEOREM DecisionsAreAboutWhatWasSeen == Spec => ApprovedWasSeen
<1>1. TypeOK /\ Attended /\ [Next]_vars
        => [approved' # approved /\ ~unheard => approved' = screen.seen]_vars
  <2> SUFFICES ASSUME TypeOK, Attended, [Next]_vars, approved' # approved, ~unheard
               PROVE  approved' = screen.seen
    OBVIOUS
  <2>1. ConfirmPlan
    <3>1. CASE Walk
      BY <3>1 DEF Walk, runVars, ReasoningGate, BuildContext, DeepPlan, ReviewPlan,
         RevisePlan, CompileAgentPlanGraph, ReviewGraph, PresentPlan, ClarifyRequired,
         ResumeAfterClarification, PlanningConfirmed, CompileConfirmedPlanGraph,
         ReviewAgentCompiledGraph, ExecutionReady, ExecuteAgentCompiledGraph,
         VerifyAgentExecutionResult, Conclude
    <3>2. CASE ~Walk
      BY <3>2, NextCases DEF runVars, Interrupt, Return, Invoke, Resume, GuardInput,
         TakeForFeedback, RunCanvas, Cut, Dies, FallBack, GiveUp, vars
    <3> QED
      BY <3>1, <3>2
  <2>2. calling /\ node = "confirm_plan" /\ command # NoCommand /\ approved' = graph
    BY <2>1 DEF ConfirmPlan, Step
  <2> QED
    BY <2>2 DEF Attended
<1> QED
  BY <1>1, AttendedInvariant, PTL DEF Spec, ApprovedWasSeen

-----------------------------------------------------------------------------
(* A call ends: every node it runs brings it closer to a question or the end. *)

\* The nodes a call runs from this one on when no revision comes between.
NodesFrom(n) ==
    CASE n \in {"reasoning_gate", "resume_after_clarification"} -> 8
      [] n \in {"build_context", "planning_confirmed"} -> 7
      [] n \in {"deep_plan", "compile_confirmed_plan_graph"} -> 6
      [] n \in {"review_plan", "review_agent_compiled_graph"} -> 5
      [] n \in {"compile_agent_plan_graph", "execution_ready"} -> 4
      [] n \in {"review_graph", "execute_agent_compiled_graph"} -> 3
      [] n \in {"revise_plan", "present_plan", "verify_agent_execution_result"} -> 2
      [] n \in Asking \cup EndNodes -> 1
      [] OTHER -> 0

\* A revision costs a call four nodes; one that brings an answer goes on from the question.
NodesAhead ==
    4 * (Budget - revisions)
    + (IF node \in Asking /\ command # NoCommand THEN 9 ELSE NodesFrom(node))

\* A call that runs is at a node, with no more nodes ahead than the budget pays for.
CallBounded ==
    calling => node # "none" /\ NodesAhead \in 0..(4 * Budget + 9)

EveryNodeCounts ==
    [][/\ Advance /\ calling' => NodesAhead' < NodesAhead
       /\ calling /\ calling' /\ ~Advance
             => UNCHANGED <<node, command, revisions>>]_vars

LEMMA NodesFromTyped == ASSUME NEW n PROVE NodesFrom(n) \in 0..8
BY DEF NodesFrom

\* A node that ran leaves fewer ahead: it went forward, paid with a revision or took
\* the answer to its question.
LEMMA FewerNodes ==
  ASSUME revisions \in Nat, revisions' \in Nat, command' = NoCommand,
         \/ revisions' = revisions /\ NodesFrom(node') < NodesFrom(node)
         \/ /\ revisions' = revisions + 1
            /\ NodesFrom(node') < NodesFrom(node) + 4
         \/ revisions' = revisions /\ node \in Asking /\ command # NoCommand
  PROVE  NodesAhead' < NodesAhead
<1>1. /\ Budget \in Nat
      /\ NodesFrom(node) \in 0..8 /\ NodesFrom(node') \in 0..8
  BY PlanningAssumption, NodesFromTyped
<1>2. NodesAhead' = 4 * (Budget - revisions') + NodesFrom(node')
  BY DEF NodesAhead
<1>3. CASE node \in Asking /\ command # NoCommand
  <2>1. NodesAhead = 4 * (Budget - revisions) + 9
    BY <1>3 DEF NodesAhead
  <2> QED
    BY <1>1, <1>2, <2>1
<1>4. CASE ~(node \in Asking /\ command # NoCommand)
  <2>1. NodesAhead = 4 * (Budget - revisions) + NodesFrom(node)
    BY <1>4 DEF NodesAhead
  <2> QED
    BY <1>1, <1>2, <1>4, <2>1
<1> QED
  BY <1>3, <1>4

LEMMA WalkCounts == ASSUME PlanOK, Walk PROVE NodesAhead' < NodesAhead
<1>1. revisions \in Nat /\ command' = NoCommand
  BY WalkIsAStep DEF PlanOK, Step
<1> USE DEF Step, NodesFrom, Asking, EndNodes, planVars
<1>2. CASE RevisePlan
  <2>1. /\ revisions' = revisions + 1 /\ node = "revise_plan"
        /\ node' \in {"review_plan", "deep_agent_failed"}
    BY <1>2 DEF RevisePlan
  <2>2. NodesFrom(node) = 2 /\ NodesFrom(node') <= 5
    BY <2>1
  <2> HIDE DEF NodesFrom
  <2>3. revisions' \in Nat /\ NodesFrom(node') < NodesFrom(node) + 4
    BY <1>1, <2>1, <2>2, NodesFromTyped
  <2> QED
    BY <1>1, <2>1, <2>3, FewerNodes
<1>3. CASE ClarifyRequired \/ ConfirmPlan
  <2>1. UNCHANGED revisions /\ node \in Asking /\ command # NoCommand
    BY <1>3 DEF ClarifyRequired, ConfirmPlan
  <2> QED
    BY <1>1, <2>1, FewerNodes
<1>4. CASE ~(RevisePlan \/ ClarifyRequired \/ ConfirmPlan)
  <2>1. UNCHANGED revisions
    BY <1>4 DEF Walk, ReasoningGate, BuildContext, DeepPlan, ReviewPlan,
       CompileAgentPlanGraph, ReviewGraph, PresentPlan, ResumeAfterClarification,
       PlanningConfirmed, CompileConfirmedPlanGraph, ReviewAgentCompiledGraph,
       ExecutionReady, ExecuteAgentCompiledGraph, VerifyAgentExecutionResult, Conclude
  <2>2. NodesFrom(node') < NodesFrom(node)
    <3>1. CASE ReasoningGate BY <3>1 DEF ReasoningGate
    <3>2. CASE BuildContext BY <3>2 DEF BuildContext
    <3>3. CASE DeepPlan BY <3>3 DEF DeepPlan
    <3>4. CASE ReviewPlan BY <3>4 DEF ReviewPlan
    <3>5. CASE CompileAgentPlanGraph BY <3>5 DEF CompileAgentPlanGraph
    <3>6. CASE ReviewGraph BY <3>6 DEF ReviewGraph
    <3>7. CASE PresentPlan BY <3>7 DEF PresentPlan
    <3>8. CASE ResumeAfterClarification BY <3>8 DEF ResumeAfterClarification
    <3>9. CASE PlanningConfirmed BY <3>9 DEF PlanningConfirmed
    <3>10. CASE CompileConfirmedPlanGraph BY <3>10 DEF CompileConfirmedPlanGraph
    <3>11. CASE ReviewAgentCompiledGraph BY <3>11 DEF ReviewAgentCompiledGraph
    <3>12. CASE ExecutionReady BY <3>12 DEF ExecutionReady
    <3>13. CASE ExecuteAgentCompiledGraph BY <3>13 DEF ExecuteAgentCompiledGraph
    <3>14. CASE VerifyAgentExecutionResult BY <3>14 DEF VerifyAgentExecutionResult
    <3>15. CASE Conclude BY <3>15 DEF Conclude
    <3> QED
      BY <1>4, <3>1, <3>2, <3>3, <3>4, <3>5, <3>6, <3>7, <3>8, <3>9, <3>10, <3>11, <3>12,
         <3>13, <3>14, <3>15 DEF Walk
  <2> HIDE DEF NodesFrom
  <2> QED
    BY <1>1, <2>1, <2>2, FewerNodes
<1> QED
  BY <1>2, <1>3, <1>4

\* A call is made, or to be made again, only of a thread that has a node.
Recalls == calling \/ fallback => node # "none"

\* No call is made before the thread has a node, and none leaves it without one.
LEMMA CallsHaveANode ==
  ASSUME ThreadOK, Recalls, [Next]_vars
  PROVE  Recalls'
<1> USE DEF Recalls
<1>1. CASE Walk
  <2>1. PICK from \in GraphNodes, to \in GraphNodes \cup {"end"} : Step(from, to)
    BY <1>1, WalkIsAStep
  <2> QED
    BY <2>1 DEF Step, GraphNodes, PlanningNodes, PresentedNodes, ConfirmedNodes, EndNodes
<1>2. CASE Invoke \/ Resume
  BY <1>2 DEF Invoke, Resume, Offered
<1>3. CASE Interrupt \/ Return \/ GuardInput \/ TakeForFeedback \/ RunCanvas \/ Cut
               \/ GiveUp
  BY <1>3 DEF Interrupt, Return, GuardInput, TakeForFeedback, RunCanvas, Cut, Dies, GiveUp,
     clientVars
<1>4. CASE FallBack
  BY <1>4 DEF FallBack
<1> QED
  BY <1>1, <1>2, <1>3, <1>4, NextCases DEF vars, clientVars

\* However the model and the reviews judge and whatever the user answered, a call is never
\* without a node to run, every node it runs leaves fewer ahead, and none of the client's
\* doings sets it back: it runs at most 4 * Budget + 9 nodes, revisions, clarification
\* and execution included.  CallReturns is this and fairness.
THEOREM CallsAreBounded == Spec => []CallBounded /\ EveryNodeCounts
<1>1. Init => Recalls
  BY DEF Init, Recalls
<1>2. Spec => []Recalls
  <2>1. TypeOK /\ Recalls /\ [Next]_vars => Recalls'
    BY TypeParts, CallsHaveANode
  <2> QED
    BY <1>1, <2>1, PlanningTypeCorrect, PTL DEF Spec
<1>3. PlanningInv /\ Recalls => CallBounded
  <2> SUFFICES ASSUME PlanningInv, calling => node # "none", calling
               PROVE  NodesAhead \in 0..(4 * Budget + 9)
    BY DEF CallBounded, Recalls
  <2>1. revisions \in Nat /\ revisions <= Budget /\ Budget \in Nat
    BY PlanningAssumption DEF PlanningInv, Counted, TypeOK
  <2>2. NodesFrom(node) \in 0..8
    BY NodesFromTyped
  <2> QED
    BY <2>1, <2>2 DEF NodesAhead
<1>4. PlanningInv /\ [Next]_vars
        => [/\ Advance /\ calling' => NodesAhead' < NodesAhead
            /\ calling /\ calling' /\ ~Advance
                  => UNCHANGED <<node, command, revisions>>]_vars
  <2> SUFFICES ASSUME PlanningInv, [Next]_vars
               PROVE  /\ Advance /\ calling' => NodesAhead' < NodesAhead
                      /\ calling /\ calling' /\ ~Advance
                            => UNCHANGED <<node, command, revisions>>
    OBVIOUS
  <2>1. ASSUME Advance, calling' PROVE NodesAhead' < NodesAhead
    <3>1. Walk
      BY <2>1 DEF Advance, Walk, Interrupt, Return
    <3> QED
      BY <3>1, TypeParts, WalkCounts DEF PlanningInv
  <2>2. ASSUME calling, calling', ~Advance PROVE UNCHANGED <<node, command, revisions>>
    <3>1. ~(Walk \/ Interrupt \/ Return)
      BY <2>2 DEF Advance, Walk
    <3>2. ~(Invoke \/ Resume \/ GuardInput \/ TakeForFeedback \/ Cut \/ FallBack)
      BY <2>2 DEF Invoke, Resume, GuardInput, TakeForFeedback, Call, Cut, Dies, FallBack,
         PlanningInv, Paid
    <3> QED
      BY <3>1, <3>2, NextCases DEF RunCanvas, GiveUp, vars, planVars
  <2> QED
    BY <2>1, <2>2
<1> QED
  BY <1>2, <1>3, <1>4, PlanningInvariant, PlanningTypeCorrect, PTL DEF Spec, EveryNodeCounts

-----------------------------------------------------------------------------
(* The thread implements PlanContract.                                      *)

LEMMA ExecutionsCounted ==
  ASSUME NEW plan
  PROVE  /\ UNCHANGED ran => Executed' = Executed
         /\ Begun(plan, "canvas") => Executed' = Executed
         /\ Begun(plan, "thread") => Executed' = Executed \cup {plan}
<1>1. UNCHANGED ran => Executed' = Executed
  BY DEF Executed
<1>2. Begun(plan, "canvas") => Executed' = Executed
  BY DEF Executed, Begun
<1>3. Begun(plan, "thread") => Executed' = Executed \cup {plan}
  <2> DEFINE new == [of |-> plan, by |-> "thread"]
             byThread == {r \in ran : r.by = "thread"}
  <2> SUFFICES ASSUME ran' = ran \cup {new} PROVE Executed' = Executed \cup {plan}
    BY DEF Begun
  <2>1. {r \in ran' : r.by = "thread"} = byThread \cup {new}
    OBVIOUS
  <2>2. Executed' = {run.of : run \in byThread \cup {new}}
    BY <2>1 DEF Executed
  <2>3. new.of = plan /\ Executed = {run.of : run \in byThread}
    BY DEF Executed
  <2> HIDE DEF new, byThread
  <2> QED
    BY <2>2, <2>3
<1> QED
  BY <1>1, <1>2, <1>3

\* A node that ran takes a step of the contract, or one the user knows nothing of.
LEMMA WalkImplements ==
  ASSUME PlanningInv, Approved, Walk
  PROVE  Contract!Next \/ UNCHANGED Contract!vars
<1>1. /\ PlanOK /\ Reviewed /\ Counted /\ Approved
      /\ revisions \in Nat /\ graph \in Plans
  BY TypeParts DEF PlanningInv, PlanOK
<1> USE ExecutionsCounted DEF Step, Phase, Asked, Reworked, ConfirmedNodes, EndNodes,
        Contract!vars, planVars, runVars
<1>2. CASE RevisePlan
  BY <1>1, <1>2 DEF RevisePlan, Contract!Next, Contract!End
<1>3. CASE ReviewPlan
  <2>1. CASE node' = "revise_plan"
    BY <1>1, <1>3, <2>1 DEF ReviewPlan, RevisionAvailable, Contract!Next, Contract!Rework
  <2>2. CASE node' # "revise_plan"
    BY <1>1, <1>3, <2>2 DEF ReviewPlan, Contract!Next, Contract!End
  <2> QED
    BY <2>1, <2>2
<1>4. CASE ReviewGraph
  <2>1. CASE node' = "revise_plan"
    BY <1>1, <1>4, <2>1 DEF ReviewGraph, RevisionAvailable, Contract!Next, Contract!Rework
  <2>2. CASE node' # "revise_plan"
    BY <1>1, <1>4, <2>2 DEF ReviewGraph, Contract!Next, Contract!End
  <2> QED
    BY <2>1, <2>2
<1>5. CASE PresentPlan
  <2>1. CASE node' = "confirm_plan"
    <3>1. graph \in Plans \ {0}
      BY <1>1, <1>5 DEF PresentPlan, Reviewed, PresentedNodes
    <3>2. Contract!Ask(graph)
      BY <1>5, <2>1 DEF PresentPlan, Contract!Ask
    <3> QED
      BY <3>1, <3>2 DEF Contract!Next
  <2>2. CASE node' = "end"
    BY <1>5, <2>2 DEF PresentPlan, Contract!Next, Contract!End
  <2> QED
    BY <1>5, <2>1, <2>2 DEF PresentPlan
<1>6. CASE ConfirmPlan
  <2>1. CASE node' = "planning_confirmed"
    BY <1>1, <1>6, <2>1 DEF ConfirmPlan, Contract!Next, Contract!Approve
  <2>2. CASE node' = "revise_plan"
    BY <1>1, <1>6, <2>2 DEF ConfirmPlan, RevisionAvailable, Contract!Next, Contract!Rework
  <2>3. CASE node' \in {"planning_cancelled", "deep_agent_failed"}
    BY <1>1, <1>6, <2>3 DEF ConfirmPlan, Contract!Next, Contract!End
  <2> QED
    BY <1>6, <2>1, <2>2, <2>3 DEF ConfirmPlan
<1>7. CASE ExecuteAgentCompiledGraph
  <2>1. compiled.of = approved
    BY <1>1, <1>7 DEF ExecuteAgentCompiledGraph, Approved, ExecutedNodes
  <2>2. CASE Begun(compiled.of, "thread")
    BY <1>1, <1>7, <2>1, <2>2
       DEF ExecuteAgentCompiledGraph, Contract!Next, Contract!Execute
  <2>3. CASE UNCHANGED ran /\ node' = "agent_execution_failed"
    BY <1>1, <1>7, <2>3 DEF ExecuteAgentCompiledGraph, Contract!Next, Contract!End
  <2> QED
    BY <1>7, <2>2, <2>3 DEF ExecuteAgentCompiledGraph
<1>8. CASE ReasoningGate \/ BuildContext \/ DeepPlan
  BY <1>8 DEF ReasoningGate, BuildContext, DeepPlan, Contract!Next, Contract!End
<1>9. CASE CompileAgentPlanGraph \/ ClarifyRequired \/ ResumeAfterClarification
  BY <1>9 DEF CompileAgentPlanGraph, ClarifyRequired, ResumeAfterClarification
<1>10. CASE PlanningConfirmed \/ CompileConfirmedPlanGraph \/ ReviewAgentCompiledGraph
  BY <1>10 DEF PlanningConfirmed, CompileConfirmedPlanGraph, ReviewAgentCompiledGraph,
     Contract!Next, Contract!End
<1>11. CASE ExecutionReady \/ VerifyAgentExecutionResult \/ Conclude
  BY <1>11 DEF ExecutionReady, VerifyAgentExecutionResult, Conclude, Contract!Next,
     Contract!End
<1> QED
  BY <1>2, <1>3, <1>4, <1>5, <1>6, <1>7, <1>8, <1>9, <1>10, <1>11 DEF Walk

\* Calls, replies and the client's doings are no steps of the contract, except for the
\* execution a dying call had begun.
LEMMA CallsImplement ==
  ASSUME PlanningInv, Approved, [Next]_vars, ~Walk
  PROVE  Contract!Next \/ UNCHANGED Contract!vars
<1> USE ExecutionsCounted DEF Phase, Asked, Reworked, ConfirmedNodes, EndNodes,
        Contract!vars, planVars, runVars
<1>1. CASE Interrupt \/ Return \/ Invoke \/ Resume
  BY <1>1 DEF Interrupt, Return, Invoke, Resume, Call
<1>2. CASE GuardInput \/ TakeForFeedback \/ FallBack \/ GiveUp
  BY <1>2 DEF GuardInput, TakeForFeedback, FallBack, GiveUp
<1>3. CASE RunCanvas
  BY <1>3 DEF RunCanvas
<1>4. CASE Cut
  <2>1. CASE UNCHANGED ran
    BY <1>4, <2>1 DEF Cut, Dies
  <2>2. CASE node = "execute_agent_compiled_graph" /\ Begun(compiled.of, "thread")
    <3>1. compiled.of = approved
      BY <2>2 DEF Approved, ExecutedNodes
    <3> QED
      BY <1>4, <2>2, <3>1 DEF Cut, Dies, Contract!Next, Contract!Execute
  <2> QED
    BY <1>4, <2>1, <2>2 DEF Cut, Dies
<1>5. CASE UNCHANGED vars
  BY <1>5 DEF vars
<1> QED
  BY <1>1, <1>2, <1>3, <1>4, <1>5, NextCases

\* Every step of a planning thread, its calls and its client is a step of PlanContract or
\* none at all: for every budget and number of calls, and through every cut, lost reply and
\* stale choice, the thread asks before it acts, reworks within the budget, executes what
\* it was approved when it asked, and nothing once it is over
\* (deep_agent_runtime_graph.py:363-475, 944-1055).
THEOREM PlanningKeepsTheContract == Spec => AsksBeforeItActs
<1>1. Init => Contract!Init
  BY DEF Init, Contract!Init, Phase, Asked, Executed, Reworked, ConfirmedNodes, EndNodes
<1>2. PlanningInv /\ Approved /\ [Next]_vars => [Contract!Next]_Contract!vars
  BY WalkImplements, CallsImplement
<1> QED
  BY <1>1, <1>2, ApprovedInvariant, PTL DEF Spec, AsksBeforeItActs, Contract!Spec
=============================================================================
