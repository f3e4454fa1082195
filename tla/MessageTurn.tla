------------------------------ MODULE MessageTurn ------------------------------
(***************************************************************************)
(* A conversation: the desktop sends messages about the graph on its       *)
(* canvas (src/src/app/App.tsx, backendEvents.ts) and                      *)
(* AgentRuntimeEngine.run_from_state or stream_from_state answers each     *)
(* (agent_runtime_engine.py, semantic_router.py, router_v2.py,             *)
(* capability_gate.py, graph.py, plan_feedback.py).  A turn is one message *)
(* and its answer.  The send button is never disabled, so turns overlap;   *)
(* they share no state in the sidecar and meet again on the canvas.        *)
(*                                                                         *)
(* The model's judgement is a choice, made anew every time it is asked.    *)
(* What a planning thread does with a message is the module DeepPlanning;  *)
(* here it is only what the thread may say.  The HTTP application refuses  *)
(* a message without a model session (app.py:221-231), so the router       *)
(* always has a model, which may fail.                                     *)
(***************************************************************************)
EXTENDS Naturals, Sequences

CONSTANTS
    Messages,   \* what a client sends
    MaxTurns    \* messages that are sent

Turns == 1..MaxTurns

\* A message, by what the engine tells apart without a model: has it text and
\* attachments, does it ask to process a document, the words of
\* classify_graph_feedback, the phrases of _is_explicit_graph_constraint_feedback
\* the words of toGraphOverwriteSubmitChoice and inquiry_choice, which the
\* endpoints take and the desktop never sends.
MessageKinds ==
    [text : BOOLEAN, files : BOOLEAN, document : BOOLEAN,
     words : {"none", "restart", "step", "constraint"}, explicit : BOOLEAN,
     reply : {"confirm_overwrite", "cancel", "pending-graph-overwrite"},
     inquiry : {"none", "quick_answer", "research_flow"}]

ASSUME ConstantsAssumption ==
    /\ MaxTurns \in Nat
    /\ Messages \subseteq MessageKinds
    /\ \A m \in Messages : m.text

Plain == [text |-> TRUE, files |-> FALSE, document |-> FALSE, words |-> "none",
          explicit |-> FALSE, reply |-> "pending-graph-overwrite", inquiry |-> "none"]

\* The buttons of a plan send no text.
Blank == [Plain EXCEPT !.text = FALSE]

VARIABLES
    canvas,     \* the graph on the canvas
    overwrite,  \* pendingGraphOverwriteChoice
    plan,       \* pendingPlanningChoice
    history,    \* runHistory or artifacts is not empty
    sent,       \* how many messages were sent
    turn,       \* the turns
    applying,   \* the turn whose events the desktop applies in one go, or 0
    ran         \* the graphs that were run, by the turn that made them

vars == <<canvas, overwrite, plan, history, sent, turn, applying, ran>>

-----------------------------------------------------------------------------
(* Graphs, choices and events.                                              *)

\* graphId is made of the project's id: one for the graphs of threads, one for
\* those of the planner, and one with a random suffix when a planner's graph
\* replaces the planner's.  "turn" tells two graphs of one id apart.
ThreadId == 1
PlannerId == 2
FreshId(t) == PlannerId + t
Ids == 1..(PlannerId + MaxTurns)

NoGraph == [id |-> 0, by |-> "none", turn |-> 0]
Graphs == [id : Ids, by : {"thread", "planner"}, turn : 0..MaxTurns]
Canvases == Graphs \cup {NoGraph}

FeedbackKinds == {"full_replan", "local_modification", "constraint_update", "new_task"}

\* An offer to overwrite a graph, of which the code keeps the id; "alone": no
\* other turn and no run met the one that made it.
Offers == [graph : Canvases, kind : FeedbackKinds, alone : BOOLEAN]
NoOffer == [graph |-> NoGraph, kind |-> "new_task", alone |-> TRUE]

\* The choice a message answers, and the id the answer gives it.
Choices == [about : {"none", "overwrite", "clarification", "confirmation"}, offer : Offers,
            id : {"confirm_overwrite", "cancel", "pending-graph-overwrite"}]
NoChoice == [about |-> "none", offer |-> NoOffer, id |-> "pending-graph-overwrite"]

\* Events that put a graph on the canvas, and _LEGACY_GRAPH_EVENT_TYPES.
Draws == {"graph_created", "graph_replanned"}
LegacyGraphEvents == Draws \cup {"overwrite_confirmation"}
EventTypes == LegacyGraphEvents \cup
    {"message", "input_required", "progress", "clarification", "confirmation",
     "planning_failed", "blocked", "task_failed"}
Events == [type : EventTypes, graph : Canvases, kind : FeedbackKinds]

Says(type) == [type |-> type, graph |-> NoGraph, kind |-> "new_task"]
Shows(type, graph) == [Says(type) EXCEPT !.graph = graph]
Asks(kind, graph) == [Shows("overwrite_confirmation", graph) EXCEPT !.kind = kind]

-----------------------------------------------------------------------------
(* The router: route_semantically and what it becomes in router_v2.         *)

Routes == {"response_only", "local_answer", "simple_tool_answer", "web_answer",
           "graph_feedback", "clarification_required", "deep_planning",
           "research_planning"}

\* "code": a bare route code; "files", "lacks": it names files, or a capability
\* that is not available.
Decisions == [route : Routes, code : BOOLEAN, files : BOOLEAN, lacks : BOOLEAN]

RouterUnavailable_Plans(u) ==
    [route |-> "deep_planning", code |-> FALSE, files |-> FALSE, lacks |-> TRUE]

\* The model failed, or its answer and the repair of it could not be read.
RouterUnavailable(u) ==
    LET answerable == /\ u.msg.text /\ ~u.msg.files
                      /\ u.graph = NoGraph /\ u.choice.about = "none"
    IN  [route |-> IF answerable THEN "response_only" ELSE "clarification_required",
         code |-> FALSE, files |-> FALSE, lacks |-> ~answerable]

\* A route code says nothing of files or capabilities but what the message holds.
RouteCodes(u) == {d \in Decisions : d.code /\ d.files = u.msg.files /\ ~d.lacks}
RouteObjects == {d \in Decisions : ~d.code}

\* A chat, a local and a simple web inquiry are all answered by a message.
Intent(route, inquiry) ==
    CASE route \in {"response_only", "local_answer", "simple_tool_answer", "web_answer"} ->
             "inquiry"
      [] route = "research_planning" /\ inquiry = "quick_answer" -> "inquiry"
      [] route = "research_planning" /\ inquiry # "quick_answer" -> "research"
      [] route \in {"deep_planning", "graph_feedback"} -> "task"
      [] OTHER -> "missing_input"

\* _semantic_route_allows_pre_deep_response
AnswerRoutes == {"response_only", "local_answer", "simple_tool_answer", "web_answer",
                 "clarification_required"}

GateAllows(u, d) == ~(d.files /\ ~u.msg.files) /\ ~d.lacks

-----------------------------------------------------------------------------
(* The turns.                                                               *)

Phases == {"unsent", "received", "unrouted", "planning", "answering", "telling",
           "ended", "lost"}
Intents == {"inquiry", "research", "task", "missing_input", "none"}
Paths == {"none", "guard", "feedback", "plan", "answer", "blocked"}

\* What the message was sent with, how far the engine is, and the events the
\* desktop has still to apply.  "judged": the model answered when the router was last
\* asked about the message; "alone": no other turn and no run of a graph met this one.
TurnRecords ==
    [at : Phases, via : {"stream", "batch"}, msg : MessageKinds,
     graph : Canvases, history : BOOLEAN, choice : Choices, intent : Intents,
     preset : BOOLEAN, says : Seq(Events),
     told : BOOLEAN, path : Paths, judged : BOOLEAN, alone : BOOLEAN]

Unsent == [at |-> "unsent", via |-> "stream", msg |-> Blank, graph |-> NoGraph,
           history |-> FALSE, choice |-> NoChoice, intent |-> "none",
           preset |-> FALSE, says |-> <<>>, told |-> FALSE, path |-> "none", judged |-> FALSE, alone |-> TRUE]

InFlight(t) == turn[t].at \notin {"unsent", "ended", "lost"}

TypeOK ==
    /\ canvas \in Canvases
    /\ overwrite \in Offers
    /\ plan \in {"none", "clarification", "confirmation"}
    /\ history \in BOOLEAN
    /\ sent \in 0..MaxTurns
    /\ turn \in [Turns -> TurnRecords]
    /\ applying \in 0..MaxTurns
    /\ ran \subseteq 0..MaxTurns

clientVars == <<canvas, overwrite, plan, history, sent, applying, ran>>

\* The engine goes on with a turn; the desktop knows nothing of it yet.
Becomes(t, u) ==
    /\ turn' = [turn EXCEPT ![t] = u]
    /\ UNCHANGED clientVars

Answered(u, says, path) ==
    [u EXCEPT !.at = "telling", !.says = says, !.path = path, !.intent = "none",
              !.preset = FALSE]

Init ==
    /\ \/ canvas = NoGraph /\ history = FALSE /\ ran = {}
       \/ /\ canvas = [id |-> ThreadId, by |-> "thread", turn |-> 0]
          /\ history \in BOOLEAN
          /\ ran = IF history THEN {0} ELSE {}
    /\ overwrite = NoOffer
    /\ plan = "none"
    /\ sent = 0
    /\ turn = [t \in Turns |-> Unsent]
    /\ applying = 0

-----------------------------------------------------------------------------
(* Feedback on a graph: apply_graph_feedback.                               *)

\* The semantic router's word for feedback stands for a constraint.
Classify(m, semantic) ==
    CASE m.words = "restart" -> "full_replan"
      [] m.words = "step" -> "local_modification"
      [] m.words = "constraint" \/ (m.words = "none" /\ semantic) -> "constraint_update"
      [] OTHER -> "new_task"

Confirmed(u) == u.choice.id = "confirm_overwrite"

\* _has_stale_pending_graph: the ids of the graphs are compared.
StaleOffer(u) ==
    /\ u.choice.about = "overwrite"
    /\ u.choice.id \in {"confirm_overwrite", "cancel"}
    /\ u.choice.offer.graph.id # u.graph.id

NeedsOverwriteConfirmation_RunGraphsOnly(u) ==
    ~Confirmed(u) /\ u.history /\ u.graph.by = "planner"

NeedsOverwriteConfirmation(u) == ~Confirmed(u) /\ u.history

Replanned_Suffix(u, t) ==
    [id |-> u.graph.id + PlannerId, by |-> "planner", turn |-> t]

\* _build_replanned_graph gives the planner's id, or a new one where it is taken.
Replanned(u, t) ==
    [id |-> IF u.graph.id = PlannerId THEN FreshId(t) ELSE PlannerId,
     by |-> "planner", turn |-> t]

Edited(u, t) == [u.graph EXCEPT !.turn = t]

\* A constraint leaves a graph its shape only where the planner made it.
ConstraintUpdates(u, t) ==
    {Replanned(u, t)} \cup (IF u.graph.by = "planner" THEN {Edited(u, t)} ELSE {})

Feedback(u, t, semantic) ==
    LET kind == IF Confirmed(u) THEN u.choice.offer.kind ELSE Classify(u.msg, semantic)
    IN  IF StaleOffer(u) \/ u.choice.id = "cancel" THEN {Says("message")}
        ELSE IF NeedsOverwriteConfirmation(u) THEN {Asks(kind, u.graph)}
        ELSE CASE kind = "full_replan" -> {Shows("graph_replanned", Replanned(u, t))}
               [] kind = "constraint_update" ->
                      {Shows("graph_replanned", g) : g \in ConstraintUpdates(u, t)}
               [] kind = "local_modification" ->
                      {Shows("graph_replanned", Edited(u, t))}
               [] kind = "new_task" ->
                      {Shows(IF Confirmed(u) THEN "graph_replanned" ELSE "graph_created",
                             Replanned(u, t))}

-----------------------------------------------------------------------------
(* The engine.                                                              *)

\* _deterministic_input_guard_event
Refused(u) ==
    \/ ~u.msg.text /\ ~u.msg.files
    \/ u.msg.document /\ ~u.msg.files

InputGuard(t) ==
    LET u == turn[t] IN
    /\ u.at = "received"
    /\ Refused(u)
    /\ Becomes(t, Answered(u, <<Says("input_required")>>, "guard"))

\* _should_preflight_graph_feedback
Preflighted(u) ==
    /\ u.graph # NoGraph
    /\ \/ u.choice.about # "none"
       \/ u.msg.words = "step"
       \/ u.msg.explicit

PreflightFeedback(t) ==
    LET u == turn[t] IN
    /\ u.at = "received"
    /\ ~Refused(u)
    /\ Preflighted(u)
    /\ \E e \in Feedback(u, t, FALSE) : Becomes(t, Answered(u, <<e>>, "feedback"))

\* The router is asked whether a message about the canvas is feedback.
AskForFeedback(t) ==
    LET u == turn[t] IN
    /\ u.at = "received"
    /\ ~Refused(u)
    /\ u.graph # NoGraph
    /\ ~Preflighted(u)
    /\ \/ Becomes(t, [u EXCEPT !.at = "unrouted"])
       \/ Becomes(t, [u EXCEPT !.at = "unrouted", !.judged = TRUE])
       \/ \E e \in Feedback(u, t, TRUE) :
              Becomes(t, Answered([u EXCEPT !.judged = TRUE], <<e>>, "feedback"))

ToRoute(u) ==
    \/ u.at = "unrouted"
    \/ u.at = "received" /\ ~Refused(u) /\ u.graph = NoGraph

\* A choice and a research flow are not routed.
SkipRoute(t) ==
    LET u == turn[t] IN
    /\ ToRoute(u)
    /\ u.choice.about # "none" \/ u.msg.inquiry = "research_flow"
    /\ Becomes(t, [u EXCEPT !.at = "planning"])

\* _initial_reasoning_decision_from_route_result: a route code stands for the
\* judgement of the reasoning gate.
Preset(d) ==
    d.code /\ d.route \in {"deep_planning", "research_planning", "graph_feedback"}

\* What the turn becomes with a decision of the router.
Routed(u, d) ==
    LET intent == Intent(d.route, u.msg.inquiry) IN
    IF d.route \notin AnswerRoutes
    THEN [u EXCEPT !.at = "planning", !.preset = Preset(d)]
    ELSE [u EXCEPT !.at = "answering", !.intent =
                      IF GateAllows(u, d) THEN intent ELSE "missing_input"]

\* The router is asked, for a message about the canvas a second time.
RouteMessage(t) ==
    LET u == turn[t] IN
    /\ ToRoute(u)
    /\ u.choice.about = "none"
    /\ u.msg.inquiry # "research_flow"
    /\ \/ Becomes(t, [Routed(u, RouterUnavailable(u)) EXCEPT !.judged = FALSE])
       \/ \E r \in {Routed(u, d) : d \in RouteCodes(u) \cup RouteObjects} :
              Becomes(t, [r EXCEPT !.judged = TRUE])

Blocked == <<Says("blocked"), Says("task_failed")>>

\* The thread handles the message, or its reasoning gate judges that it needs no
\* plan (_deep_agent_product_path_decision).
RunThread(t) ==
    LET u == turn[t]
        gate == ~u.preset /\ u.choice.about = "none"
        shown == [id |-> ThreadId, by |-> "thread", turn |-> t]
    IN
    /\ u.at = "planning"
    /\ \/ Becomes(t, Answered(u, <<Shows("graph_created", shown), Says("confirmation")>>,
                              "plan"))
       \/ Becomes(t, Answered(u, <<Says("clarification")>>, "plan"))
       \/ Becomes(t, Answered(u, <<Says("planning_failed")>>, "plan"))
       \/ gate /\ Becomes(t, Answered(u, Blocked, "blocked"))
       \/ gate /\ Becomes(t, [u EXCEPT !.at = "answering", !.intent =
                                 IF u.msg.inquiry = "none" THEN "inquiry" ELSE "none"])

\* _should_handle_graph_feedback, on the way to an answer.
TakenForFeedback(u) ==
    /\ u.graph # NoGraph
    /\ u.choice.about # "none" \/ u.msg.words \in {"restart", "step"} \/ u.msg.explicit

\* _events_for_routed_run_state and stream_agent_events_from_state
EventsByIntent(u, t, intent) ==
    LET drawn == Shows("graph_created", [id |-> PlannerId, by |-> "planner", turn |-> t])
    IN  CASE intent = "inquiry" -> <<Says("message")>>
          [] intent = "missing_input" -> <<Says("input_required")>>
          [] intent = "task" /\ u.via = "stream" -> <<Says("progress"), drawn>>
          [] OTHER -> <<drawn>>

\* What graph.py answers with an intent, or after it has asked for a decision.
Responses(u, t, intent) ==
    IF TakenForFeedback(u) THEN {<<e>> : e \in Feedback(u, t, FALSE)}
    ELSE {EventsByIntent(u, t, intent)}

AskedResponses(u, t, d) ==
    IF ~TakenForFeedback(u) /\ u.graph # NoGraph /\ d.route = "graph_feedback"
    THEN {<<e>> : e \in Feedback(u, t, TRUE)}
    ELSE Responses(u, t, Intent(d.route, u.msg.inquiry))

IsLegacyGraph(e) == e.type \in LegacyGraphEvents

AnswerOnly_LooksAhead(u, events) ==
    IF IsLegacyGraph(events[1]) THEN Blocked ELSE events

\* A stream has let through what came before the first graph event, a batch has
\* not.
AnswerOnly(u, events) ==
    IF \A i \in 1..Len(events) : ~IsLegacyGraph(events[i]) THEN events
    ELSE IF u.via = "stream" /\ ~IsLegacyGraph(events[1]) THEN <<events[1]>> \o Blocked
    ELSE Blocked

Response(t, u, events) ==
    Becomes(t, Answered(u, AnswerOnly(u, events),
                        IF AnswerOnly(u, events) = events THEN "answer" ELSE "blocked"))

\* The answer of a message that was routed, or that asks the router again.
AnswerWithoutGraph(t) ==
    LET u == turn[t] IN
    /\ u.at = "answering"
    /\ \/ /\ u.intent # "none"
          /\ \E r \in Responses(u, t, u.intent) : Response(t, u, r)
       \/ /\ u.intent = "none"
          /\ \E r \in AskedResponses(u, t, RouterUnavailable(u)) :
                 Response(t, [u EXCEPT !.judged = FALSE], r)
       \/ /\ u.intent = "none"
          /\ \E r \in UNION {AskedResponses(u, t, d) : d \in RouteCodes(u) \cup RouteObjects} :
                 Response(t, [u EXCEPT !.judged = TRUE], r)

-----------------------------------------------------------------------------
(* The desktop.                                                             *)

\* The choice a message answers: a plan goes before an overwrite, and a text that
\* is neither yes nor no leaves the offer as it was.
ChoiceFor(m) ==
    IF plan # "none" THEN [NoChoice EXCEPT !.about = plan]
    ELSE IF overwrite # NoOffer
    THEN [about |-> "overwrite", offer |-> overwrite, id |-> m.reply]
    ELSE NoChoice

\* A message takes the choices from the screen and the canvas as it is now; the
\* turns under way are not alone any more.
Submit(m, choice) ==
    LET t == sent + 1 IN
    /\ applying = 0
    /\ sent < MaxTurns
    /\ sent' = t
    /\ turn' = [i \in Turns |->
           IF i = t
           THEN [Unsent EXCEPT !.at = "received", !.msg = [m EXCEPT !.reply = Plain.reply],
                               !.graph = canvas, !.history = history,
                               !.choice = choice,
                               !.alone = \A o \in Turns : ~InFlight(o)]
           ELSE [turn[i] EXCEPT !.alone = @ /\ ~InFlight(i)]]
    /\ overwrite' = NoOffer
    /\ plan' = "none"
    /\ UNCHANGED <<canvas, history, applying, ran>>

\* handleSend
Send == \E m \in Messages : Submit(m, ChoiceFor(m))

\* handlePlanningChoice
ClickPlan ==
    /\ plan = "confirmation"
    /\ Submit(Blank, ChoiceFor(Blank))

\* The run of a graph begins (run.started).
RunGraph ==
    /\ applying = 0
    /\ canvas # NoGraph
    /\ ran' = ran \cup {canvas.turn}
    /\ history' = TRUE
    /\ turn' = [i \in Turns |-> [turn[i] EXCEPT !.alone = @ /\ ~InFlight(i)]]
    /\ UNCHANGED <<canvas, overwrite, plan, sent, applying>>

\* What an event does to the screen: every answer takes the choices away.
Apply(t, e) ==
    /\ canvas' = IF e.type \in Draws THEN e.graph ELSE canvas
    /\ overwrite' = CASE e.type = "overwrite_confirmation" ->
                              [graph |-> e.graph, kind |-> e.kind, alone |-> turn[t].alone]
                      [] e.type = "task_failed" -> overwrite
                      [] OTHER -> NoOffer
    /\ plan' = CASE e.type \in {"clarification", "confirmation"} -> e.type
                 [] e.type = "task_failed" -> plan
                 [] OTHER -> "none"
    /\ history' = (history \/ e.type = "task_failed")

\* A stream is applied event by event, a batch in one go.
Deliver(t) ==
    LET u == turn[t]
        last == Len(u.says) = 1
    IN
    /\ u.says # <<>>
    /\ applying \in {0, t}
    /\ Apply(t, Head(u.says))
    /\ turn' = [turn EXCEPT ![t] =
           [Unsent EXCEPT !.at = IF last THEN "ended" ELSE "telling", !.via = u.via,
                          !.says = Tail(u.says), !.told = TRUE, !.path = u.path,
                          !.alone = u.alone \/ last]]
    /\ applying' = IF u.via = "batch" /\ ~last THEN t ELSE 0
    /\ UNCHANGED <<sent, ran>>

\* A stream that breaks before its first event is asked for again as a batch.
FallBack(t) ==
    LET u == turn[t] IN
    /\ InFlight(t) /\ u.via = "stream" /\ ~u.told /\ applying = 0
    /\ Becomes(t, [u EXCEPT !.at = "received", !.via = "batch", !.intent = "none",
                            !.preset = FALSE, !.says = <<>>, !.path = "none", !.judged = FALSE])

\* The rest of a stream is lost, or a batch.  Where nothing was heard the plan the
\* message answered is asked about again, or none, whatever another turn has asked
\* meanwhile; an overwrite is not.
LoseAnswer(t) ==
    LET u == turn[t] IN
    /\ InFlight(t) /\ applying = 0
    /\ u.told = (u.via = "stream")
    /\ turn' = [turn EXCEPT ![t] = [Unsent EXCEPT !.at = "lost", !.path = u.path]]
    /\ plan' = IF u.told THEN plan
               ELSE IF u.choice.about \in {"clarification", "confirmation"}
                    THEN u.choice.about ELSE "none"
    /\ UNCHANGED <<canvas, overwrite, history, sent, applying, ran>>

-----------------------------------------------------------------------------
Engine(t) ==
    \/ InputGuard(t) \/ PreflightFeedback(t) \/ AskForFeedback(t)
    \/ SkipRoute(t) \/ RouteMessage(t) \/ RunThread(t) \/ AnswerWithoutGraph(t)

Next ==
    \/ Send \/ ClickPlan \/ RunGraph
    \/ \E t \in Turns : Engine(t) \/ Deliver(t) \/ FallBack(t) \/ LoseAnswer(t)

Spec == Init /\ [][Next]_vars

-----------------------------------------------------------------------------
\* A turn that answers without a plan or feedback never changes the canvas,
\* also where its stream had begun before graph.py drew a graph
\* (agent_runtime_engine.py:276-332, 381-417, 600-650: legacy graph events).
AnswersKeepTheCanvas ==
    canvas.turn # 0 => turn[canvas.turn].path \in {"feedback", "plan"}

\* Feedback replaces a graph that was run only where the user was asked about
\* that very graph and said yes, as long as nothing else happened meanwhile
\* (plan_feedback.py:94-152, 199-265; App.tsx:860-897).
AskedBeforeOverwrite ==
    [][canvas' # canvas /\ canvas # NoGraph /\ canvas.turn \in ran =>
        LET u == turn[canvas'.turn] IN
            \/ u.path = "plan"
            \/ ~u.alone
            \/ /\ Confirmed(u) /\ u.choice.about = "overwrite"
               /\ u.choice.offer.alone => u.choice.offer.graph = canvas]_vars

\* Where the router's last call about a message failed, a plan is started only for a
\* choice or a research flow, which are not routed, and what is about to be told
\* draws a graph or asks to overwrite one only from such a plan, or from feedback
\* that the words of the message or its choice ask for
\* (semantic_router.py:357-424, capability_gate.py:17-115,
\* agent_runtime_engine.py:646-692, 866-924).
OutageNeverPlans ==
    \A t \in Turns : LET u == turn[t] IN
        u.at = "telling" /\ ~u.told /\ ~u.judged =>
            /\ u.path = "plan" => u.choice.about # "none" \/ u.msg.inquiry = "research_flow"
            /\ (\E i \in DOMAIN u.says : IsLegacyGraph(u.says[i])) =>
                   u.path = "plan" \/ (u.path = "feedback" /\ Preflighted(u))
=============================================================================
