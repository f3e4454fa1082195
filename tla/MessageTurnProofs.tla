--------------------------- MODULE MessageTurnProofs ---------------------------
(***************************************************************************)
(* Proofs about MessageTurn, for any set of messages and any number of     *)
(* turns.  Types first, with a lemma for each value a turn may become;     *)
(* then where a graph on the canvas may come from (DrawnInv), what starts  *)
(* a plan (PlanInv) and what an undisturbed turn knows of the canvas       *)
(* (AloneInv), each an inductive invariant above the one before.           *)
(***************************************************************************)
EXTENDS MessageTurn, TLAPS

-----------------------------------------------------------------------------
(* Values.                                                                  *)

\* Sequences of one event, of two, and of two after one.
LEMMA ShortSequences ==
    ASSUME NEW S, NEW a \in S, NEW b \in S, NEW c \in S
    PROVE  /\ <<a>> \in Seq(S) \ {<<>>}
           /\ <<a, b>> \in Seq(S) \ {<<>>}
           /\ <<a>> \o <<b, c>> \in Seq(S)
           /\ Len(<<a>> \o <<b, c>>) = 3
           /\ \A i \in 1..3 : (<<a>> \o <<b, c>>)[i] =
                                  IF i = 1 THEN a ELSE IF i = 2 THEN b ELSE c
<1>1. <<a>> \in Seq(S) /\ <<a, b>> \in Seq(S)
  OBVIOUS
<1>2. Len(<<a>>) = 1 /\ Len(<<a, b>>) = 2 /\ Len(<<>>) = 0
  OBVIOUS
<1>3. /\ <<a>> \o <<b, c>> \in Seq(S)
      /\ Len(<<a>> \o <<b, c>>) = 3
      /\ \A i \in 1..3 : (<<a>> \o <<b, c>>)[i] =
                             IF i = 1 THEN a ELSE IF i = 2 THEN b ELSE c
  OBVIOUS
<1> QED
  BY <1>1, <1>2, <1>3

\* The graphs, choices and turns the specification starts from are typed.
LEMMA FirstValues ==
    /\ NoGraph \in Canvases
    /\ NoOffer \in Offers
    /\ NoChoice \in Choices
    /\ Unsent \in TurnRecords
    /\ Messages \cup {Blank} \subseteq MessageKinds
<1>1. NoGraph \in Canvases
  BY DEF Canvases
<1>2. NoOffer \in Offers
  BY <1>1 DEF Offers, NoOffer, FeedbackKinds
<1>3. NoChoice \in Choices
  BY <1>2 DEF Choices, NoChoice
<1>4. Messages \cup {Blank} \subseteq MessageKinds
  BY ConstantsAssumption DEF MessageKinds, Blank, Plain
<1>5. Unsent \in TurnRecords
  BY <1>1, <1>3, <1>4 DEF Unsent, TurnRecords, Phases, Intents, Paths
<1> QED
  BY <1>1, <1>2, <1>3, <1>4, <1>5

\* An event without a graph, and one with.
LEMMA EventTyped ==
    ASSUME NEW type \in EventTypes, NEW graph \in Canvases, NEW kind \in FeedbackKinds
    PROVE  /\ Says(type) \in Events
           /\ Shows(type, graph) \in Events
           /\ Asks(kind, graph) \in Events
<1>1. Says(type) \in Events
  BY FirstValues DEF Says, Events, FeedbackKinds
<1>2. Shows(type, graph) \in Events
  BY DEF Shows, Says, Events, FeedbackKinds
<1>3. Asks(kind, graph) \in Events
  BY DEF Asks, Shows, Says, Events, EventTypes, LegacyGraphEvents
<1> QED
  BY <1>1, <1>2, <1>3

\* A turn that has its answer.
LEMMA AnsweredTyped ==
    ASSUME NEW u \in TurnRecords, NEW says \in Seq(Events), NEW path \in Paths
    PROVE  Answered(u, says, path) \in TurnRecords
BY DEF Answered, TurnRecords, Phases, Intents

\* The graphs that feedback puts in the place of one.
LEMMA FeedbackGraphs ==
    ASSUME NEW u \in TurnRecords, NEW t \in Turns
    PROVE  /\ Replanned(u, t) \in Graphs
           /\ Replanned(u, t).turn = t
           /\ u.graph # NoGraph => Edited(u, t) \in Graphs /\ Edited(u, t).turn = t
           /\ Graphs \subseteq Canvases
<1>1. u.graph \in Canvases /\ t \in 1..MaxTurns
  BY DEF TurnRecords, Turns
<1>2. Replanned(u, t) \in Graphs /\ Replanned(u, t).turn = t
  BY <1>1, ConstantsAssumption DEF Replanned, Graphs, Ids, PlannerId, FreshId
<1>3. u.graph # NoGraph => Edited(u, t) \in Graphs /\ Edited(u, t).turn = t
  BY <1>1 DEF Edited, Graphs, Canvases
<1> QED
  BY <1>2, <1>3 DEF Canvases

\* What feedback may answer: a word, the question, or a graph of the turn's own.
LEMMA FeedbackAnswers ==
    ASSUME NEW u \in TurnRecords, NEW t \in Turns, NEW semantic \in BOOLEAN,
           u.graph # NoGraph, NEW e \in Feedback(u, t, semantic)
    PROVE  /\ e \in Events
           /\ e.type \in Draws => /\ e.graph.turn = t
                                  /\ Confirmed(u) \/ ~u.history
           /\ e.type = "overwrite_confirmation" => e.graph = u.graph
           /\ e.type \in Draws \/ e.type = "overwrite_confirmation" \/ e.type = "message"
           /\ e.type \in Draws /\ u.choice.about = "overwrite" /\ Confirmed(u) =>
                  u.choice.offer.graph.id = u.graph.id
<1> DEFINE kind == IF Confirmed(u) THEN u.choice.offer.kind ELSE Classify(u.msg, semantic)
           Drawn(x) == \E type \in Draws, g \in Graphs : x = Shows(type, g) /\ g.turn = t
<1>1. kind \in FeedbackKinds
  <2>1. u.choice.offer.kind \in FeedbackKinds
    BY DEF TurnRecords, Choices, Offers
  <2>2. Classify(u.msg, semantic) \in FeedbackKinds
    BY DEF Classify, FeedbackKinds
  <2> QED
    BY <2>1, <2>2
<1>2. u.graph \in Canvases
  BY DEF TurnRecords
<1>3. CASE StaleOffer(u) \/ u.choice.id = "cancel"
  <2>1. e = Says("message")
    BY <1>3 DEF Feedback
  <2> QED
    BY <2>1, FirstValues DEF Says, Events, EventTypes, Draws, FeedbackKinds
<1>4. CASE ~(StaleOffer(u) \/ u.choice.id = "cancel") /\ NeedsOverwriteConfirmation(u)
  <2>1. e = Asks(kind, u.graph)
    BY <1>4 DEF Feedback
  <2> QED
    BY <1>1, <1>2, <2>1, FirstValues
    DEF Asks, Shows, Says, Events, EventTypes, LegacyGraphEvents, Draws, FeedbackKinds
<1>5. CASE ~(StaleOffer(u) \/ u.choice.id = "cancel") /\ ~NeedsOverwriteConfirmation(u)
  <2>1. ConstraintUpdates(u, t) \subseteq {Replanned(u, t), Edited(u, t)}
    BY DEF ConstraintUpdates
  <2>2. Drawn(e)
    <3>1. \E type \in Draws, g \in {Replanned(u, t), Edited(u, t)} : e = Shows(type, g)
      BY <1>1, <1>5, <2>1 DEF Feedback, FeedbackKinds, Draws
    <3> QED
      BY <3>1, FeedbackGraphs
  <2>3. e \in Events /\ e.type \in Draws /\ e.graph.turn = t
    BY <2>2 DEF Shows, Says, Events, EventTypes, LegacyGraphEvents, Draws, FeedbackKinds,
       Canvases
  <2>4. Confirmed(u) \/ ~u.history
    BY <1>5 DEF NeedsOverwriteConfirmation
  <2>5. u.choice.about = "overwrite" /\ Confirmed(u) =>
            u.choice.offer.graph.id = u.graph.id
    BY <1>5 DEF StaleOffer, Confirmed
  <2> QED
    BY <2>3, <2>4, <2>5 DEF Draws
<1> QED
  BY <1>3, <1>4, <1>5

\* What graph.py may answer is a sequence of events.
LEMMA ResponsesTyped ==
    ASSUME NEW u \in TurnRecords, NEW t \in Turns
    PROVE  /\ \A intent : Responses(u, t, intent) \subseteq Seq(Events) \ {<<>>}
           /\ \A d : AskedResponses(u, t, d) \subseteq Seq(Events) \ {<<>>}
<1>1. ASSUME NEW intent
      PROVE  EventsByIntent(u, t, intent) \in Seq(Events) \ {<<>>}
  <2> DEFINE drawn == Shows("graph_created",
                            [id |-> PlannerId, by |-> "planner", turn |-> t])
  <2>1. [id |-> PlannerId, by |-> "planner", turn |-> t] \in Canvases
    BY ConstantsAssumption DEF PlannerId, Canvases, Graphs, Ids, Turns
  <2>2. {drawn, Says("message"), Says("input_required"), Says("progress")} \subseteq Events
    BY <2>1, EventTyped DEF EventTypes, LegacyGraphEvents, Draws, FeedbackKinds
  <2> HIDE DEF drawn
  <2>3. EventsByIntent(u, t, intent) \in
            {<<Says("message")>>, <<Says("input_required")>>, <<Says("progress"), drawn>>,
             <<drawn>>}
    BY DEF EventsByIntent, drawn
  <2>4. /\ <<Says("message")>> \in Seq(Events) \ {<<>>}
        /\ <<Says("input_required")>> \in Seq(Events) \ {<<>>}
        /\ <<Says("progress"), drawn>> \in Seq(Events) \ {<<>>}
        /\ <<drawn>> \in Seq(Events) \ {<<>>}
    BY <2>2, ShortSequences
  <2> QED
    BY <2>3, <2>4
<1>2. ASSUME NEW semantic \in BOOLEAN, u.graph # NoGraph
      PROVE  {<<e>> : e \in Feedback(u, t, semantic)} \subseteq Seq(Events) \ {<<>>}
  <2>1. \A e \in Feedback(u, t, semantic) : e \in Events
    BY <1>2, FeedbackAnswers
  <2>2. \A e \in Events : <<e>> \in Seq(Events) \ {<<>>}
    BY ShortSequences
  <2> QED
    BY <2>1, <2>2
<1>3. \A intent : Responses(u, t, intent) \subseteq Seq(Events) \ {<<>>}
  BY <1>1, <1>2 DEF Responses, TakenForFeedback
<1> QED
  BY <1>2, <1>3 DEF AskedResponses

\* What is blocked is told in the same way.
LEMMA AnswerOnlyTyped ==
    ASSUME NEW u \in TurnRecords, NEW events \in Seq(Events), events # <<>>
    PROVE  /\ AnswerOnly(u, events) \in Seq(Events)
           /\ \A i \in 1..Len(AnswerOnly(u, events)) :
                  AnswerOnly(u, events)[i].type \notin LegacyGraphEvents
<1>1. Says("blocked") \in Events /\ Says("task_failed") \in Events
  BY EventTyped, FirstValues DEF EventTypes, LegacyGraphEvents, Draws, FeedbackKinds
<1>2. Says("blocked").type = "blocked" /\ Says("task_failed").type = "task_failed"
  BY DEF Says
<1>3. CASE \A i \in 1..Len(events) : ~IsLegacyGraph(events[i])
  BY <1>3 DEF AnswerOnly, IsLegacyGraph, LegacyGraphEvents
<1>4. CASE /\ ~\A i \in 1..Len(events) : ~IsLegacyGraph(events[i])
           /\ u.via = "stream" /\ ~IsLegacyGraph(events[1])
  <2> DEFINE told == <<events[1]>> \o Blocked
  <2>1. AnswerOnly(u, events) = told
    BY <1>4 DEF AnswerOnly
  <2>2. events[1] \in Events
    OBVIOUS
  <2>3. /\ told \in Seq(Events) /\ Len(told) = 3
        /\ \A i \in 1..3 : told[i] \in {events[1], Says("blocked"), Says("task_failed")}
    BY <1>1, <2>2, ShortSequences DEF Blocked
  <2>4. events[1].type \notin LegacyGraphEvents
    BY <1>4 DEF IsLegacyGraph
  <2> HIDE DEF told
  <2>5. \A i \in 1..3 : told[i].type \notin LegacyGraphEvents
    BY <1>2, <2>3, <2>4 DEF LegacyGraphEvents, Draws
  <2> QED
    BY <2>1, <2>3, <2>5
<1>5. CASE /\ ~\A i \in 1..Len(events) : ~IsLegacyGraph(events[i])
           /\ ~(u.via = "stream" /\ ~IsLegacyGraph(events[1]))
  <2>1. AnswerOnly(u, events) = Blocked
    BY <1>5 DEF AnswerOnly
  <2> QED
    BY <1>1, <1>2, <2>1 DEF Blocked, LegacyGraphEvents, Draws
<1> QED
  BY <1>3, <1>4, <1>5

-----------------------------------------------------------------------------
(* What the engine makes of a turn.                                         *)

\* The events a turn may be told by: only feedback and a plan draw a graph, one of
\* the turn's own, and feedback where the user was asked or need not be; the first
\* event alone draws or asks.
Proper(u, says, path, t) ==
    \A i \in 1..Len(says) :
        /\ says[i].type \in Draws =>
               /\ says[i].graph.turn = t
               /\ path \in {"plan", "feedback"}
               /\ path = "feedback" =>
                      /\ u.graph # NoGraph
                      /\ Confirmed(u) \/ ~u.history
                      /\ u.choice.about = "overwrite" /\ Confirmed(u) =>
                             u.choice.offer.graph.id = u.graph.id
        /\ says[i].type = "overwrite_confirmation" => says[i].graph = u.graph
        /\ says[i].type \in LegacyGraphEvents => i = 1

\* What may start a plan.
Planned(u) == u.judged \/ u.choice.about # "none" \/ u.msg.inquiry = "research_flow"

\* What may draw a graph or ask to overwrite one.
Called(u, says, path) ==
    (\E i \in DOMAIN says : IsLegacyGraph(says[i])) =>
        u.judged \/ path = "plan" \/ (path = "feedback" /\ Preflighted(u))

SameQuestion(u, v) ==
    /\ v.msg = u.msg /\ v.graph = u.graph /\ v.history = u.history
    /\ v.choice = u.choice /\ v.told = u.told /\ v.alone = u.alone

\* The engine goes on with u, which becomes v.
GoesOn(u, v, t) ==
    /\ v \in TurnRecords
    /\ u.at \in {"received", "unrouted", "planning", "answering"}
    /\ SameQuestion(u, v)
    /\ \/ /\ v.at \in {"unrouted", "planning", "answering"}
          /\ v.says = u.says /\ v.path = u.path
          /\ v.at = "planning" => Planned(v)
       \/ /\ v.at = "telling"
          /\ Proper(u, v.says, v.path, t)
          /\ Called(v, v.says, v.path)
          /\ v.path = "plan" => u.at = "planning" /\ (u.judged => v.judged)

\* An answer is one of these turns, whether the router was asked again or not.
LEMMA AnsweredGoesOn ==
    ASSUME NEW u \in TurnRecords, NEW w \in TurnRecords, SameQuestion(u, w),
           NEW t \in Turns, NEW says \in Seq(Events), NEW path \in Paths,
           Proper(u, says, path, t), Called(w, says, path),
           u.at \in {"received", "unrouted", "planning", "answering"},
           path = "plan" => u.at = "planning" /\ (u.judged => w.judged)
    PROVE  GoesOn(u, Answered(w, says, path), t)
<1> DEFINE v == Answered(w, says, path)
<1>1. v \in TurnRecords
  BY AnsweredTyped
<1>2. /\ SameQuestion(w, v) /\ v.at = "telling" /\ v.says = says /\ v.path = path
      /\ v.judged = w.judged
  BY DEF Answered, SameQuestion, TurnRecords
<1> HIDE DEF v
<1>3. SameQuestion(u, v)
  BY <1>2 DEF SameQuestion
<1>4. Called(v, v.says, v.path)
  BY <1>2 DEF Called, Preflighted, SameQuestion
<1>5. GoesOn(u, v, t)
  BY <1>1, <1>2, <1>3, <1>4 DEF GoesOn
<1> QED
  BY <1>5 DEF v

\* A turn the model judges, or fails to, asks the same.
LEMMA JudgedAsksTheSame ==
    ASSUME NEW u \in TurnRecords, NEW b \in BOOLEAN
    PROVE  LET w == [u EXCEPT !.judged = b] IN
           /\ w \in TurnRecords /\ SameQuestion(u, w) /\ SameQuestion(u, u)
           /\ w.judged = b /\ w.via = u.via
BY DEF TurnRecords, SameQuestion

\* One word is proper whatever the path.
LEMMA ProperWord ==
    ASSUME NEW u, NEW type \in EventTypes \ LegacyGraphEvents, NEW path, NEW t
    PROVE  /\ <<Says(type)>> \in Seq(Events) /\ Proper(u, <<Says(type)>>, path, t)
           /\ Called(u, <<Says(type)>>, path)
<1>1. Says(type) \in Events
  BY EventTyped, FirstValues DEF FeedbackKinds
<1>2. <<Says(type)>> \in Seq(Events) /\ Len(<<Says(type)>>) = 1
  BY <1>1
<1>3. \A i \in 1..1 : <<Says(type)>>[i].type = type
  BY DEF Says
<1> QED
  BY <1>2, <1>3 DEF Proper, Called, IsLegacyGraph, LegacyGraphEvents, Draws

\* Every step of the engine.
LEMMA EngineGoesOn ==
    ASSUME TypeOK, NEW t \in Turns, Engine(t)
    PROVE  \E v : Becomes(t, v) /\ GoesOn(turn[t], v, t)
<1> DEFINE u == turn[t]
           before == {"received", "unrouted", "planning", "answering"}
<1>1. u \in TurnRecords
  BY DEF TypeOK
<1>2. CASE InputGuard(t)
  <2>1. "input_required" \in EventTypes \ LegacyGraphEvents
    BY DEF EventTypes, LegacyGraphEvents, Draws
  <2>2. GoesOn(u, Answered(u, <<Says("input_required")>>, "guard"), t)
    BY <1>1, <1>2, <2>1, JudgedAsksTheSame, AnsweredGoesOn, ProperWord DEF InputGuard, Paths
  <2> QED
    BY <1>2, <2>2 DEF InputGuard
<1>3. ASSUME NEW semantic \in BOOLEAN, u.graph # NoGraph, u.at \in before,
             NEW e \in Feedback(u, t, semantic)
      PROVE  /\ Preflighted(u) => GoesOn(u, Answered(u, <<e>>, "feedback"), t)
             /\ GoesOn(u, Answered([u EXCEPT !.judged = TRUE], <<e>>, "feedback"), t)
  <2>1. <<e>> \in Seq(Events) /\ Len(<<e>>) = 1
    BY <1>1, <1>3, FeedbackAnswers
  <2>2. \A i \in 1..1 : <<e>>[i] = e
    OBVIOUS
  <2>3. Proper(u, <<e>>, "feedback", t)
    BY <1>1, <1>3, <2>1, <2>2, FeedbackAnswers DEF Proper
  <2> DEFINE w == [u EXCEPT !.judged = TRUE]
  <2>4. w \in TurnRecords /\ SameQuestion(u, w) /\ SameQuestion(u, u) /\ w.judged
    BY <1>1, JudgedAsksTheSame
  <2> HIDE DEF w
  <2>5. GoesOn(u, Answered(w, <<e>>, "feedback"), t)
    BY <1>1, <1>3, <2>1, <2>3, <2>4, AnsweredGoesOn DEF Paths, Called
  <2>6. Preflighted(u) => GoesOn(u, Answered(u, <<e>>, "feedback"), t)
    BY <1>1, <1>3, <2>1, <2>3, <2>4, AnsweredGoesOn DEF Paths, Called
  <2> QED
    BY <2>5, <2>6 DEF w
<1>4. CASE PreflightFeedback(t)
  BY <1>3, <1>4 DEF PreflightFeedback, Preflighted
<1>5. CASE AskForFeedback(t)
  <2>1. /\ GoesOn(u, [u EXCEPT !.at = "unrouted"], t)
        /\ GoesOn(u, [u EXCEPT !.at = "unrouted", !.judged = TRUE], t)
    BY <1>1, <1>5 DEF AskForFeedback, GoesOn, SameQuestion, TurnRecords, Phases
  <2> QED
    BY <1>3, <1>5, <2>1 DEF AskForFeedback
<1>6. CASE SkipRoute(t)
  <2>1. GoesOn(u, [u EXCEPT !.at = "planning"], t)
    BY <1>1, <1>6 DEF SkipRoute, ToRoute, GoesOn, SameQuestion, Planned, TurnRecords, Phases
  <2> QED
    BY <1>6, <2>1 DEF SkipRoute
<1>7. CASE RouteMessage(t)
  <2>1. ASSUME NEW d, NEW b \in BOOLEAN, b \/ d.route \in AnswerRoutes
        PROVE  GoesOn(u, [Routed(u, d) EXCEPT !.judged = b], t)
    <3>1. Preset(d) \in BOOLEAN
      BY DEF Preset
    <3>2. Intent(d.route, u.msg.inquiry) \in Intents
      BY DEF Intent, Intents
    <3> DEFINE v == Routed(u, d)
               w == [v EXCEPT !.judged = b]
    <3>3. /\ v \in TurnRecords /\ SameQuestion(u, v) /\ v.says = u.says /\ v.path = u.path
          /\ v.at \in {"planning", "answering"}
          /\ d.route \in AnswerRoutes => v.at = "answering"
      BY <1>1, <3>1, <3>2 DEF Routed, TurnRecords, Phases, Intents, SameQuestion
    <3>4. /\ w \in TurnRecords /\ SameQuestion(u, w) /\ w.says = u.says /\ w.path = u.path
          /\ w.at = v.at /\ w.judged = b
      BY <3>3 DEF TurnRecords, SameQuestion
    <3>5. u.at \in before
      BY <1>7 DEF RouteMessage, ToRoute
    <3> HIDE DEF v, w
    <3>6. GoesOn(u, w, t)
      BY <2>1, <3>3, <3>4, <3>5 DEF GoesOn, Planned
    <3> QED
      BY <3>6 DEF v, w
  <2>2. RouterUnavailable(u).route \in AnswerRoutes
    BY DEF RouterUnavailable, AnswerRoutes
  <2> QED
    BY <1>7, <2>1, <2>2 DEF RouteMessage
<1>8. CASE RunThread(t)
  <2> DEFINE shown == [id |-> ThreadId, by |-> "thread", turn |-> t]
             drawn == <<Shows("graph_created", shown), Says("confirmation")>>
             intent == IF u.msg.inquiry = "none" THEN "inquiry" ELSE "none"
             asked == [u EXCEPT !.at = "answering", !.intent = intent]
  <2>1. u.at = "planning"
    BY <1>8 DEF RunThread
  <2>2. shown \in Canvases /\ shown.turn = t
    BY ConstantsAssumption DEF ThreadId, Canvases, Graphs, Ids, PlannerId, Turns
  <2>3. /\ Shows("graph_created", shown) \in Events /\ Says("confirmation") \in Events
        /\ Shows("graph_created", shown).graph = shown
        /\ Shows("graph_created", shown).type = "graph_created"
        /\ Says("confirmation").type = "confirmation"
    BY <2>2, EventTyped DEF EventTypes, LegacyGraphEvents, Draws, FeedbackKinds, Shows, Says
  <2>4. drawn \in Seq(Events) /\ Proper(u, drawn, "plan", t)
    <3> HIDE DEF shown
    <3>1. drawn \in Seq(Events) /\ Len(drawn) = 2
      BY <2>3
    <3>2. drawn[1] = Shows("graph_created", shown) /\ drawn[2] = Says("confirmation")
      OBVIOUS
    <3> HIDE DEF drawn
    <3>3. \A i \in 1..2 : i = 1 \/ i = 2
      OBVIOUS
    <3> QED
      BY <2>2, <2>3, <3>1, <3>2, <3>3 DEF Proper, LegacyGraphEvents, Draws, shown
  <2>5. {"clarification", "planning_failed"} \subseteq EventTypes \ LegacyGraphEvents
    BY DEF EventTypes, LegacyGraphEvents, Draws
  <2>6. /\ Blocked \in Seq(Events) /\ Proper(u, Blocked, "blocked", t)
        /\ Called(u, Blocked, "blocked")
    <3>1. /\ Says("blocked") \in Events /\ Says("task_failed") \in Events
          /\ Says("blocked").type = "blocked" /\ Says("task_failed").type = "task_failed"
      BY EventTyped, FirstValues DEF EventTypes, FeedbackKinds, Says
    <3>2. Blocked \in Seq(Events) /\ Len(Blocked) = 2
      BY <3>1 DEF Blocked
    <3>3. \A i \in 1..2 : Blocked[i].type \notin LegacyGraphEvents
      BY <3>1 DEF Blocked, LegacyGraphEvents, Draws
    <3> QED
      BY <3>2, <3>3 DEF Proper, Called, IsLegacyGraph, LegacyGraphEvents, Draws
  <2>7. GoesOn(u, asked, t)
    BY <1>1, <2>1 DEF GoesOn, SameQuestion, TurnRecords, Phases, Intents
  <2>8. /\ GoesOn(u, Answered(u, drawn, "plan"), t)
        /\ GoesOn(u, Answered(u, <<Says("clarification")>>, "plan"), t)
        /\ GoesOn(u, Answered(u, <<Says("planning_failed")>>, "plan"), t)
        /\ GoesOn(u, Answered(u, Blocked, "blocked"), t)
    <3>1. Called(u, drawn, "plan") /\ SameQuestion(u, u)
      BY <1>1, JudgedAsksTheSame DEF Called
    <3> HIDE DEF drawn, u
    <3> QED
      BY <1>1, <2>1, <2>4, <2>5, <2>6, <3>1, AnsweredGoesOn, ProperWord DEF Paths
  <2>9. \/ Becomes(t, Answered(u, drawn, "plan"))
        \/ Becomes(t, Answered(u, <<Says("clarification")>>, "plan"))
        \/ Becomes(t, Answered(u, <<Says("planning_failed")>>, "plan"))
        \/ Becomes(t, Answered(u, Blocked, "blocked"))
        \/ Becomes(t, asked)
    BY <1>8 DEF RunThread
  <2> HIDE DEF drawn, asked, u
  <2> QED
    BY <2>7, <2>8, <2>9 DEF u
<1>9. CASE AnswerWithoutGraph(t)
  <2>1. PICK w \in TurnRecords, r \in Seq(Events) \ {<<>>} :
            SameQuestion(u, w) /\ Response(t, w, r)
    <3>1. CASE \E r \in Responses(u, t, u.intent) : Response(t, u, r)
      BY <1>1, <3>1, ResponsesTyped, JudgedAsksTheSame
    <3>2. CASE \E d : \E r \in AskedResponses(u, t, d) :
                   \E b \in BOOLEAN : Response(t, [u EXCEPT !.judged = b], r)
      BY <1>1, <3>2, ResponsesTyped, JudgedAsksTheSame
    <3> QED
      BY <1>9, <3>1, <3>2 DEF AnswerWithoutGraph
  <2> DEFINE answer == AnswerOnly(w, r)
             path == IF answer = r THEN "answer" ELSE "blocked"
  <2>2. /\ answer \in Seq(Events)
        /\ \A i \in 1..Len(answer) : answer[i].type \notin LegacyGraphEvents
    BY AnswerOnlyTyped
  <2> HIDE DEF answer
  <2>3. Proper(u, answer, path, t) /\ Called(w, answer, path)
    BY <2>2 DEF Proper, Called, IsLegacyGraph, LegacyGraphEvents, Draws
  <2>4. GoesOn(u, Answered(w, answer, path), t)
    BY <1>1, <1>9, <2>1, <2>2, <2>3, AnsweredGoesOn DEF AnswerWithoutGraph, Paths
  <2> QED
    BY <2>1, <2>4 DEF Response, answer
<1> QED
  BY <1>2, <1>4, <1>5, <1>6, <1>7, <1>8, <1>9 DEF Engine

-----------------------------------------------------------------------------
(* Types.                                                                   *)

LEMMA BecomesTyped ==
    ASSUME TypeOK, NEW t \in Turns, NEW u \in TurnRecords, Becomes(t, u)
    PROVE  TypeOK'
BY DEF TypeOK, Becomes, clientVars

\* The engine leaves turns typed.
LEMMA EngineTyped ==
    ASSUME TypeOK, NEW t \in Turns, Engine(t)
    PROVE  TypeOK'
BY EngineGoesOn, BecomesTyped DEF GoesOn

\* A message that is sent is a turn, with what is on the screen.
LEMMA SubmitTyped ==
    ASSUME TypeOK, NEW m \in Messages \cup {Blank}, Submit(m, ChoiceFor(m))
    PROVE  TypeOK' /\ sent + 1 \in Turns
<1>1. sent + 1 \in Turns /\ sent' \in 0..MaxTurns
  <2>1. sent < MaxTurns /\ sent' = sent + 1
    BY DEF Submit
  <2>2. sent \in 0..MaxTurns /\ MaxTurns \in Nat
    BY ConstantsAssumption DEF TypeOK
  <2> QED
    BY <2>1, <2>2 DEF Turns
<1>2. m \in MessageKinds
  BY FirstValues
<1>3. ChoiceFor(m) \in Choices
  BY <1>2, FirstValues DEF ChoiceFor, Choices, NoChoice, TypeOK, MessageKinds
<1> DEFINE alone == \A o \in Turns : ~InFlight(o)
           asked == [m EXCEPT !.reply = Plain.reply]
           new == [Unsent EXCEPT !.at = "received", !.msg = asked, !.graph = canvas,
                                 !.history = history, !.choice = ChoiceFor(m),
                                 !.alone = alone]
<1>4. \A i \in Turns : [turn[i] EXCEPT !.alone = @ /\ ~InFlight(i)] \in TurnRecords
  BY DEF TypeOK, TurnRecords
<1>5. asked \in MessageKinds
  BY <1>2 DEF MessageKinds, Plain
<1>6. alone \in BOOLEAN
  OBVIOUS
<1>7. new \in TurnRecords
  <2> HIDE DEF alone, asked
  <2> QED
    BY <1>3, <1>5, <1>6, FirstValues DEF TypeOK, TurnRecords, Phases
<1>8. turn' \in [Turns -> TurnRecords]
  <2> HIDE DEF new
  <2> QED
    BY <1>4, <1>7 DEF Submit, new, alone, asked
<1> QED
  BY <1>1, <1>8, FirstValues DEF Submit, TypeOK

\* A run that starts.
LEMMA RunGraphTyped ==
    ASSUME TypeOK, RunGraph
    PROVE  TypeOK'
<1>1. \A i \in Turns : [turn[i] EXCEPT !.alone = @ /\ ~InFlight(i)] \in TurnRecords
  BY DEF TypeOK, TurnRecords
<1>2. canvas.turn \in 0..MaxTurns
  BY DEF TypeOK, RunGraph, Canvases, Graphs
<1> QED
  BY <1>1, <1>2 DEF TypeOK, RunGraph

\* An event that is applied.
LEMMA DeliverTyped ==
    ASSUME TypeOK, NEW t \in Turns, Deliver(t)
    PROVE  /\ TypeOK'
           /\ Head(turn[t].says) \in Events
           /\ Tail(turn[t].says) \in Seq(Events)
<1> DEFINE u == turn[t]
           e == Head(u.says)
           last == Len(u.says) = 1
           new == [Unsent EXCEPT !.at = IF last THEN "ended" ELSE "telling", !.via = u.via,
                                 !.says = Tail(u.says), !.told = TRUE, !.path = u.path,
                                 !.alone = u.alone \/ last]
<1>1. u \in TurnRecords /\ u.says \in Seq(Events) /\ u.says # <<>>
  BY DEF TypeOK, TurnRecords, Deliver
<1>2. e \in Events /\ Tail(u.says) \in Seq(Events)
  BY <1>1
<1>3. new \in TurnRecords
  BY <1>1, <1>2, FirstValues DEF TurnRecords, Phases
<1>4. turn' \in [Turns -> TurnRecords]
  BY <1>3 DEF Deliver, TypeOK
<1>5. /\ canvas' \in Canvases
      /\ plan' \in {"none", "clarification", "confirmation"}
      /\ history' \in BOOLEAN
  BY <1>2 DEF Deliver, Apply, TypeOK, Events
<1>6. overwrite' \in Offers
  <2>1. [graph |-> e.graph, kind |-> e.kind, alone |-> u.alone] \in Offers
    BY <1>1, <1>2 DEF Offers, Events, TurnRecords
  <2> QED
    BY <2>1, FirstValues DEF Deliver, Apply, TypeOK
<1>7. applying' \in 0..MaxTurns /\ UNCHANGED <<sent, ran>>
  BY ConstantsAssumption DEF Deliver, Turns
<1> QED
  BY <1>2, <1>4, <1>5, <1>6, <1>7 DEF TypeOK

\* A stream that is asked for again, and an answer that is lost.
LEMMA LossTyped ==
    ASSUME TypeOK, NEW t \in Turns, FallBack(t) \/ LoseAnswer(t)
    PROVE  TypeOK'
<1> DEFINE u == turn[t]
<1>1. u \in TurnRecords
  BY DEF TypeOK
<1>2. CASE FallBack(t)
  <2>1. [u EXCEPT !.at = "received", !.via = "batch", !.intent = "none",
                  !.preset = FALSE, !.says = <<>>, !.path = "none",
                  !.judged = FALSE] \in TurnRecords
    <3>1. <<>> \in Seq(Events)
      OBVIOUS
    <3> QED
      BY <1>1, <3>1 DEF TurnRecords, Phases, Intents, Paths
  <2> QED
    BY <1>2, <2>1, BecomesTyped DEF FallBack
<1>3. CASE LoseAnswer(t)
  <2>1. [Unsent EXCEPT !.at = "lost", !.path = u.path] \in TurnRecords
    BY <1>1, FirstValues DEF TurnRecords, Phases
  <2> QED
    BY <1>3, <2>1 DEF LoseAnswer, TypeOK
<1> QED
  BY <1>2, <1>3

LEMMA InitTyped == Init => TypeOK
<1> SUFFICES ASSUME Init PROVE TypeOK
  OBVIOUS
<1>1. 0 \in 0..MaxTurns
  BY ConstantsAssumption
<1>2. canvas \in Canvases
  BY <1>1, ConstantsAssumption
  DEF Init, Canvases, Graphs, Ids, ThreadId, PlannerId, NoGraph
<1>3. history \in BOOLEAN /\ ran \subseteq 0..MaxTurns
  BY <1>1 DEF Init
<1> QED
  BY <1>1, <1>2, <1>3, FirstValues DEF Init, TypeOK

LEMMA NextTyped == TypeOK /\ [Next]_vars => TypeOK'
<1> SUFFICES ASSUME TypeOK, [Next]_vars PROVE TypeOK'
  OBVIOUS
<1>1. CASE Send
  BY <1>1, SubmitTyped DEF Send
<1>2. CASE ClickPlan
  BY <1>2, SubmitTyped DEF ClickPlan
<1>3. CASE RunGraph
  BY <1>3, RunGraphTyped
<1>4. ASSUME NEW t \in Turns, Engine(t) \/ Deliver(t) \/ FallBack(t) \/ LoseAnswer(t)
      PROVE  TypeOK'
  BY <1>4, EngineTyped, DeliverTyped, LossTyped
<1>5. CASE UNCHANGED vars
  BY <1>5 DEF TypeOK, vars
<1> QED
  BY <1>1, <1>2, <1>3, <1>4, <1>5 DEF Next

\* The canvas, the choices on the screen and every turn are well typed, for any
\* set of messages and any number of overlapping turns.
THEOREM TurnsTypeCorrect == Spec => []TypeOK
BY InitTyped, NextTyped, PTL DEF Spec

-----------------------------------------------------------------------------
(* Where the graph on the canvas comes from.                                *)

\* A turn whose events have begun to be applied, or never will be.
Settled(u) == u.at \in {"ended", "lost"} \/ (u.at = "telling" /\ u.told)

\* A turn only draws graphs of its own, for a plan or for feedback, and only while
\* it is telling.
Own(u, t) ==
    /\ \A i \in 1..Len(u.says) : u.says[i].type \in Draws =>
           u.says[i].graph.turn = t /\ u.path \in {"plan", "feedback"}
    /\ u.says # <<>> => u.at = "telling"

DrawnInv ==
    /\ TypeOK
    /\ \A t \in Turns : Own(turn[t], t)
    /\ \A t \in Turns : t > sent => turn[t].at = "unsent"
    /\ canvas.turn # 0 => Settled(turn[canvas.turn])
    /\ AnswersKeepTheCanvas

\* The canvas is as the prose says of its turn.
LEMMA CanvasTurn ==
    ASSUME TypeOK
    PROVE  canvas.turn # 0 => canvas.turn \in Turns
BY ConstantsAssumption DEF TypeOK, Canvases, Graphs, NoGraph, Turns

\* One turn becomes another while the canvas stays.
LEMMA DrawnKept ==
    ASSUME DrawnInv, NEW t \in Turns, NEW v, Own(v, t),
           TypeOK', UNCHANGED <<canvas, sent>>, turn' = [turn EXCEPT ![t] = v],
           turn[t].at # "unsent",
           Settled(turn[t]) => Settled(v) /\ v.path = turn[t].path
    PROVE  DrawnInv'
<1>1. turn'[t] = v /\ \A i \in Turns \ {t} : turn'[i] = turn[i]
  BY DEF DrawnInv, TypeOK
<1>2. \A i \in Turns : Own(turn'[i], i)
  BY <1>1 DEF DrawnInv
<1>3. \A i \in Turns : i > sent' => turn'[i].at = "unsent"
  BY <1>1 DEF DrawnInv
<1>4. canvas.turn # 0 => /\ Settled(turn'[canvas.turn])
                         /\ turn'[canvas.turn].path = turn[canvas.turn].path
  BY <1>1, CanvasTurn DEF DrawnInv
<1> QED
  BY <1>2, <1>3, <1>4 DEF DrawnInv, AnswersKeepTheCanvas

\* A turn that may only lose its being alone.
Unmoved(u, v) ==
    /\ v.at = u.at /\ v.path = u.path /\ v.told = u.told /\ v.says = u.says
    /\ v.graph = u.graph /\ v.history = u.history /\ v.choice = u.choice
    /\ v.msg = u.msg /\ v.judged = u.judged
    /\ v.alone => u.alone /\ u.at \in {"unsent", "ended", "lost"}

\* What a new message and a run that starts do to the turns under way.
LEMMA Disturbed ==
    ASSUME TypeOK, NEW i \in Turns
    PROVE  Unmoved(turn[i], [turn[i] EXCEPT !.alone = @ /\ ~InFlight(i)])
BY DEF TypeOK, TurnRecords, Unmoved, InFlight

LEMMA DrawnSubmit ==
    ASSUME DrawnInv, NEW m \in Messages \cup {Blank}, Submit(m, ChoiceFor(m))
    PROVE  DrawnInv'
<1> DEFINE n == sent + 1
<1>1. TypeOK' /\ n \in Turns /\ sent' = n /\ UNCHANGED canvas
  BY SubmitTyped DEF DrawnInv, Submit
<1>2. \A i \in Turns \ {n} : Unmoved(turn[i], turn'[i])
  <2>1. \A i \in Turns \ {n} : turn'[i] = [turn[i] EXCEPT !.alone = @ /\ ~InFlight(i)]
    BY DEF Submit
  <2> QED
    BY <2>1, Disturbed DEF DrawnInv
<1>3. turn'[n].says = <<>> /\ turn'[n].at = "received"
  BY <1>1 DEF Submit, Unsent
<1>4. turn[n].at = "unsent"
  BY <1>1 DEF DrawnInv, Turns, TypeOK
<1>5. \A i \in Turns : Own(turn'[i], i)
  BY <1>2, <1>3 DEF DrawnInv, Own, Unmoved
<1>6. \A i \in Turns : i > sent' => turn'[i].at = "unsent"
  <2> SUFFICES ASSUME NEW i \in Turns, i > sent' PROVE turn'[i].at = "unsent"
    OBVIOUS
  <2>1. i > sent /\ i # n
    BY <1>1, ConstantsAssumption DEF Turns, DrawnInv, TypeOK
  <2> QED
    BY <1>2, <2>1 DEF DrawnInv, Unmoved
<1>7. canvas.turn # 0 => canvas.turn \in Turns \ {n}
  BY <1>4, CanvasTurn DEF DrawnInv, Settled
<1>8. canvas.turn # 0 => /\ Settled(turn'[canvas.turn])
                         /\ turn'[canvas.turn].path = turn[canvas.turn].path
  BY <1>2, <1>7 DEF DrawnInv, Unmoved, Settled
<1> QED
  BY <1>1, <1>5, <1>6, <1>8 DEF DrawnInv, AnswersKeepTheCanvas

LEMMA DrawnRunGraph ==
    ASSUME DrawnInv, RunGraph
    PROVE  DrawnInv'
<1>1. TypeOK' /\ UNCHANGED <<canvas, sent>>
  BY RunGraphTyped DEF DrawnInv, RunGraph
<1>2. \A i \in Turns : Unmoved(turn[i], turn'[i])
  <2>1. \A i \in Turns : turn'[i] = [turn[i] EXCEPT !.alone = @ /\ ~InFlight(i)]
    BY DEF RunGraph
  <2> QED
    BY <2>1, Disturbed DEF DrawnInv
<1>3. /\ \A i \in Turns : Own(turn'[i], i)
      /\ \A i \in Turns : i > sent => turn'[i].at = "unsent"
  BY <1>2 DEF DrawnInv, Unmoved, Own
<1>4. canvas.turn # 0 => /\ Settled(turn'[canvas.turn])
                         /\ turn'[canvas.turn].path = turn[canvas.turn].path
  BY <1>2, CanvasTurn DEF DrawnInv, Unmoved, Settled
<1> QED
  BY <1>1, <1>3, <1>4 DEF DrawnInv, AnswersKeepTheCanvas

LEMMA DrawnDeliver ==
    ASSUME DrawnInv, NEW t \in Turns, Deliver(t)
    PROVE  DrawnInv'
<1> DEFINE u == turn[t]
           v == turn'[t]
<1>1. TypeOK' /\ u.says \in Seq(Events) /\ u.says # <<>> /\ UNCHANGED sent
  BY DeliverTyped DEF DrawnInv, TypeOK, TurnRecords, Deliver
<1>2. /\ turn' = [turn EXCEPT ![t] = v]
      /\ v.says = Tail(u.says) /\ v.told /\ v.path = u.path
      /\ v.at = IF Len(u.says) = 1 THEN "ended" ELSE "telling"
  BY DEF Deliver, DrawnInv, TypeOK, Unsent
<1>3. /\ Len(Tail(u.says)) = Len(u.says) - 1 /\ Len(u.says) \in Nat \ {0}
      /\ \A i \in 1..Len(Tail(u.says)) : Tail(u.says)[i] = u.says[i + 1]
      /\ Head(u.says) = u.says[1]
      /\ Len(u.says) = 1 => Tail(u.says) = <<>>
      /\ u.at = "telling"
  BY <1>1 DEF DrawnInv, Own
<1>4. Own(v, t)
  <2> SUFFICES ASSUME NEW i \in 1..Len(Tail(u.says)), Tail(u.says)[i].type \in Draws
               PROVE  Tail(u.says)[i].graph.turn = t /\ u.path \in {"plan", "feedback"}
    BY <1>2, <1>3 DEF Own
  <2>1. i + 1 \in 1..Len(u.says)
    BY <1>3
  <2> QED
    BY <1>3, <2>1 DEF DrawnInv, Own
<1>5. Settled(v)
  BY <1>2 DEF Settled
<1>6. CASE canvas' = canvas
  BY <1>1, <1>2, <1>3, <1>4, <1>5, <1>6, DrawnKept
<1>7. CASE canvas' # canvas
  <2>1. canvas' = u.says[1].graph /\ u.says[1].type \in Draws
    BY <1>3, <1>7 DEF Deliver, Apply
  <2>2. canvas'.turn = t /\ u.path \in {"plan", "feedback"}
    BY <1>3, <2>1 DEF DrawnInv, Own
  <2>3. \A i \in Turns : Own(turn'[i], i)
    BY <1>2, <1>4 DEF DrawnInv, TypeOK
  <2>4. \A i \in Turns : i > sent' => turn'[i].at = "unsent"
    BY <1>1, <1>2, <1>3 DEF DrawnInv, TypeOK
  <2> QED
    BY <1>1, <1>2, <1>5, <2>2, <2>3, <2>4 DEF DrawnInv, AnswersKeepTheCanvas
<1> QED
  BY <1>6, <1>7

LEMMA DrawnEngine ==
    ASSUME DrawnInv, NEW t \in Turns, Engine(t)
    PROVE  DrawnInv'
<1>1. PICK v : Becomes(t, v) /\ GoesOn(turn[t], v, t)
  BY EngineGoesOn DEF DrawnInv
<1>2. TypeOK' /\ UNCHANGED <<canvas, sent>> /\ turn' = [turn EXCEPT ![t] = v]
  BY <1>1, EngineTyped DEF DrawnInv, Becomes, clientVars
<1>3. Own(v, t)
  BY <1>1 DEF DrawnInv, Own, GoesOn, Proper
<1>4. turn[t].at # "unsent" /\ ~Settled(turn[t])
  BY <1>1 DEF GoesOn, Settled
<1> QED
  BY <1>2, <1>3, <1>4, DrawnKept

LEMMA DrawnLoss ==
    ASSUME DrawnInv, NEW t \in Turns, FallBack(t) \/ LoseAnswer(t)
    PROVE  DrawnInv'
<1>1. TypeOK' /\ turn[t].at \notin {"unsent", "ended", "lost"}
  BY LossTyped DEF DrawnInv, FallBack, LoseAnswer, InFlight
<1>2. CASE FallBack(t)
  <2> DEFINE v == [turn[t] EXCEPT !.at = "received", !.via = "batch", !.intent = "none",
                                  !.preset = FALSE, !.says = <<>>, !.path = "none",
                                  !.judged = FALSE]
  <2>1. turn' = [turn EXCEPT ![t] = v] /\ UNCHANGED <<canvas, sent>>
    BY <1>2 DEF FallBack, Becomes, clientVars
  <2>2. v.says = <<>>
    BY DEF DrawnInv, TypeOK, TurnRecords
  <2>3. ~Settled(turn[t])
    BY <1>1, <1>2 DEF FallBack, Settled
  <2> HIDE DEF v
  <2>4. Own(v, t)
    BY <2>2 DEF Own
  <2> QED
    BY <1>1, <2>1, <2>3, <2>4, DrawnKept
<1>3. CASE LoseAnswer(t)
  <2> DEFINE v == [Unsent EXCEPT !.at = "lost", !.path = turn[t].path]
  <2>1. turn' = [turn EXCEPT ![t] = v] /\ UNCHANGED <<canvas, sent>>
    BY <1>3 DEF LoseAnswer
  <2>2. v.says = <<>> /\ v.at = "lost" /\ v.path = turn[t].path
    BY DEF Unsent
  <2> HIDE DEF v
  <2>3. Own(v, t) /\ Settled(v)
    BY <2>2 DEF Own, Settled
  <2> QED
    BY <1>1, <2>1, <2>2, <2>3, DrawnKept
<1> QED
  BY <1>2, <1>3

LEMMA DrawnInit == Init => DrawnInv
<1> SUFFICES ASSUME Init PROVE DrawnInv
  OBVIOUS
<1>1. TypeOK /\ canvas.turn = 0
  BY InitTyped DEF Init, NoGraph
<1>2. \A t \in Turns : turn[t] = Unsent
  BY DEF Init
<1>3. Unsent.says = <<>> /\ Unsent.at = "unsent"
  BY DEF Unsent
<1> QED
  BY <1>1, <1>2, <1>3 DEF DrawnInv, Own, AnswersKeepTheCanvas

LEMMA DrawnNext == DrawnInv /\ [Next]_vars => DrawnInv'
<1> SUFFICES ASSUME DrawnInv, [Next]_vars PROVE DrawnInv'
  OBVIOUS
<1>1. CASE Send
  BY <1>1, DrawnSubmit DEF Send
<1>2. CASE ClickPlan
  BY <1>2, DrawnSubmit DEF ClickPlan
<1>3. CASE RunGraph
  BY <1>3, DrawnRunGraph
<1>4. ASSUME NEW t \in Turns, Engine(t) \/ Deliver(t) \/ FallBack(t) \/ LoseAnswer(t)
      PROVE  DrawnInv'
  BY <1>4, DrawnEngine, DrawnDeliver, DrawnLoss
<1>5. CASE UNCHANGED vars
  BY <1>5 DEF DrawnInv, TypeOK, AnswersKeepTheCanvas, vars
<1> QED
  BY <1>1, <1>2, <1>3, <1>4, <1>5 DEF Next

\* However turns overlap, fall back and are lost, a graph on the canvas that was
\* not there at the start came from feedback or from a plan, never from a turn that
\* was to be answered without a graph.
THEOREM AnswersNeverDraw == Spec => []AnswersKeepTheCanvas
<1>1. DrawnInv => AnswersKeepTheCanvas
  BY DEF DrawnInv
<1> QED
  BY <1>1, DrawnInit, DrawnNext, PTL DEF Spec

-----------------------------------------------------------------------------
(* What starts a plan.                                                      *)

\* A turn that has gone to planning, or was answered there, was judged by the model
\* or answers a choice or asks for a research flow; what it is about to be told
\* draws only what was called for.
Started(u) ==
    /\ u.at = "planning" \/ (u.at = "telling" /\ u.path = "plan" /\ ~u.told) => Planned(u)
    /\ u.at = "telling" /\ ~u.told => Called(u, u.says, u.path)

PlanInv == TypeOK /\ \A t \in Turns : Started(turn[t])

LEMMA PlanNext == PlanInv /\ [Next]_vars => PlanInv'
<1> SUFFICES ASSUME PlanInv, [Next]_vars PROVE PlanInv'
  OBVIOUS
<1>1. TypeOK'
  BY NextTyped DEF PlanInv
<1>2. ASSUME NEW m \in Messages \cup {Blank}, Submit(m, ChoiceFor(m))
      PROVE  PlanInv'
  <2>1. \A i \in Turns \ {sent + 1} : Unmoved(turn[i], turn'[i])
    BY <1>2, Disturbed DEF Submit, PlanInv
  <2>2. sent + 1 \in Turns => turn'[sent + 1].at = "received"
    BY <1>2 DEF Submit, Unsent
  <2> QED
    BY <1>1, <2>1, <2>2 DEF PlanInv, Started, Planned, Called, Preflighted, Unmoved
<1>3. CASE RunGraph
  <2>1. \A i \in Turns : Unmoved(turn[i], turn'[i])
    BY <1>3, Disturbed DEF RunGraph, PlanInv
  <2> QED
    BY <1>1, <2>1 DEF PlanInv, Started, Planned, Called, Preflighted, Unmoved
<1>4. ASSUME NEW t \in Turns, NEW v, turn' = [turn EXCEPT ![t] = v], Started(v)
      PROVE  PlanInv'
  BY <1>1, <1>4 DEF PlanInv, TypeOK
<1>5. ASSUME NEW t \in Turns, Engine(t)
      PROVE  PlanInv'
  <2>1. PICK v : Becomes(t, v) /\ GoesOn(turn[t], v, t)
    BY <1>5, EngineGoesOn DEF PlanInv
  <2>2. Started(v)
    BY <2>1 DEF PlanInv, Started, GoesOn, SameQuestion, Planned
  <2> QED
    BY <1>4, <2>1, <2>2 DEF Becomes
<1>6. ASSUME NEW t \in Turns, Deliver(t)
      PROVE  PlanInv'
  <2>1. turn' = [turn EXCEPT ![t] = turn'[t]] /\ turn'[t].told
        /\ turn'[t].at \in {"ended", "telling"}
    BY <1>6 DEF Deliver, PlanInv, TypeOK, Unsent
  <2> QED
    BY <1>4, <2>1 DEF Started
<1>7. ASSUME NEW t \in Turns, FallBack(t) \/ LoseAnswer(t)
      PROVE  PlanInv'
  <2>1. turn' = [turn EXCEPT ![t] = turn'[t]] /\ turn'[t].at \in {"received", "lost"}
    BY <1>7 DEF FallBack, LoseAnswer, Becomes, PlanInv, TypeOK, TurnRecords, Unsent
  <2> QED
    BY <1>4, <2>1 DEF Started
<1>8. CASE UNCHANGED vars
  BY <1>8 DEF PlanInv, TypeOK, vars
<1> QED
  BY <1>2, <1>3, <1>5, <1>6, <1>7, <1>8 DEF Next, Send, ClickPlan

\* Whatever fails and overlaps, a message whose last call of the router failed starts
\* no plan, and is told no graph or question but what its words or its choice ask for.
THEOREM OutagesNeverPlan == Spec => []OutageNeverPlans
<1>1. Init => PlanInv
  BY InitTyped DEF Init, PlanInv, Started, Unsent
<1>2. PlanInv => OutageNeverPlans
  BY DEF PlanInv, Started, Planned, Called, OutageNeverPlans
<1> QED
  BY <1>1, <1>2, PlanNext, PTL DEF Spec

-----------------------------------------------------------------------------
(* What an undisturbed turn knows of the canvas.                            *)

\* A turn that met no other sees the canvas it was sent with, and whether it was
\* run; what it is told by was made for that canvas.
Fresh(u, t) ==
    u.alone /\ u.at \notin {"unsent", "ended", "lost"} =>
        /\ \A o \in Turns \ {t} : ~InFlight(o)
        /\ ~u.told => /\ u.graph = canvas
                      /\ ran # {} => u.history

\* A yes answers an offer, about the graph of the message unless turns met.
Answers(u) ==
    ~u.told /\ u.at \notin {"unsent", "ended", "lost"} =>
        /\ Confirmed(u) => u.choice.about = "overwrite"
        /\ u.choice.about = "overwrite" /\ u.choice.offer.alone =>
               u.choice.offer.graph = u.graph

\* What an untold turn may tell, and what a told one.
Telling(u, t) ==
    /\ u.told => u.at \in {"telling", "ended"}
    /\ u.at = "telling" =>
           IF u.told
           THEN \A i \in 1..Len(u.says) : u.says[i].type \notin LegacyGraphEvents
           ELSE Proper(u, u.says, u.path, t)

OfferInv == overwrite # NoOffer /\ overwrite.alone => overwrite.graph = canvas

AloneInv ==
    /\ DrawnInv
    /\ ran # {} => history
    /\ OfferInv
    /\ \A t \in Turns : Fresh(turn[t], t) /\ Answers(turn[t]) /\ Telling(turn[t], t)

\* What others do to a turn they do not end.
LEMMA AloneOther ==
    ASSUME NEW u, NEW v, NEW t, Unmoved(u, v), Answers(u), Telling(u, t)
    PROVE  Answers(v) /\ Telling(v, t)
BY DEF Unmoved, Answers, Telling, Confirmed, Proper

\* A step of the engine, of turns that break and of a desktop that leaves the canvas:
\* only turn t changes.
LEMMA AloneKept ==
    ASSUME AloneInv, DrawnInv', NEW t \in Turns, NEW v, turn' = [turn EXCEPT ![t] = v],
           UNCHANGED <<ran, history, canvas>>, OfferInv', InFlight(t),
           v.at \notin {"unsent", "ended", "lost"} /\ v.alone =>
               turn[t].alone /\ v.told = turn[t].told /\ v.graph = turn[t].graph
               /\ v.history = turn[t].history,
           Answers(v), Telling(v, t)
    PROVE  AloneInv'
<1>1. turn'[t] = v /\ \A i \in Turns \ {t} : turn'[i] = turn[i]
  BY DEF AloneInv, DrawnInv, TypeOK
<1>2. \A i \in Turns \ {t} : Fresh(turn[i], i) => ~(turn[i].alone /\ InFlight(i))
  BY DEF Fresh, InFlight
<1>3. \A i \in Turns \ {t} : Fresh(turn[i], i)'
  BY <1>1, <1>2 DEF AloneInv, Fresh, InFlight
<1>4. Fresh(turn[t], t)'
  <2>1. Fresh(turn[t], t)
    BY DEF AloneInv
  <2> QED
    BY <1>1, <2>1 DEF Fresh, InFlight
<1>5. \A i \in Turns : (Answers(turn[i]) /\ Telling(turn[i], i))'
  BY <1>1 DEF AloneInv
<1>6. (ran # {} => history)'
  BY DEF AloneInv
<1> QED
  BY <1>3, <1>4, <1>5, <1>6 DEF AloneInv

LEMMA AloneSubmit ==
    ASSUME AloneInv, NEW m \in Messages \cup {Blank}, Submit(m, ChoiceFor(m))
    PROVE  AloneInv'
<1>0. PICK n \in Turns : n = sent + 1
  BY SubmitTyped DEF AloneInv, DrawnInv
<1> DEFINE w == turn'[n]
<1>1. DrawnInv' /\ UNCHANGED <<canvas, ran, history>>
  BY DrawnSubmit DEF AloneInv, DrawnInv, Submit
<1>2. \A i \in Turns \ {n} : Unmoved(turn[i], turn'[i])
  <2>1. \A i \in Turns \ {n} : turn'[i] = [turn[i] EXCEPT !.alone = @ /\ ~InFlight(i)]
    BY <1>0 DEF Submit
  <2> QED
    BY <2>1, Disturbed DEF AloneInv, DrawnInv
<1>3. /\ w.graph = canvas /\ w.history = history /\ w.choice = ChoiceFor(m)
      /\ w.alone = (\A o \in Turns : ~InFlight(o))
      /\ w.at = "received" /\ w.told = FALSE
  BY <1>0 DEF Submit, Unsent
<1>4. \A i \in Turns \ {n} : (Fresh(turn[i], i) /\ Answers(turn[i]) /\ Telling(turn[i], i))'
  <2> SUFFICES ASSUME NEW i \in Turns \ {n}
               PROVE  (Fresh(turn[i], i) /\ Answers(turn[i]) /\ Telling(turn[i], i))'
    OBVIOUS
  <2>1. Fresh(turn[i], i)'
    BY <1>2 DEF Unmoved, Fresh
  <2>2. (Answers(turn[i]) /\ Telling(turn[i], i))'
    BY <1>2, AloneOther DEF AloneInv
  <2> QED
    BY <2>1, <2>2
<1>5. Fresh(turn[n], n)'
  <2>1. w.alone => \A o \in Turns \ {n} : ~InFlight(o)'
    BY <1>2, <1>3 DEF Unmoved, InFlight
  <2> QED
    BY <1>1, <1>3, <2>1 DEF AloneInv, Fresh
<1>6. Answers(turn[n])'
  <2>1. ChoiceFor(m).id = "confirm_overwrite" => ChoiceFor(m).about = "overwrite"
    BY DEF ChoiceFor, NoChoice
  <2>2. ChoiceFor(m).about = "overwrite" =>
            overwrite # NoOffer /\ ChoiceFor(m).offer = overwrite
    BY DEF ChoiceFor, NoChoice, AloneInv, DrawnInv, TypeOK
  <2>3. w.choice.about = "overwrite" /\ w.choice.offer.alone => w.choice.offer.graph = w.graph
    BY <1>3, <2>2 DEF AloneInv, OfferInv
  <2> QED
    BY <1>3, <2>1, <2>3 DEF Answers, Confirmed
<1>7. Telling(turn[n], n)'
  BY <1>3 DEF Telling
<1>8. OfferInv'
  BY DEF Submit, OfferInv
<1> QED
  BY <1>1, <1>4, <1>5, <1>6, <1>7, <1>8 DEF AloneInv

LEMMA AloneRunGraph ==
    ASSUME AloneInv, RunGraph
    PROVE  AloneInv'
<1>1. DrawnInv' /\ history' /\ UNCHANGED <<canvas, overwrite>>
  BY DrawnRunGraph DEF AloneInv, RunGraph
<1>2. \A i \in Turns : Unmoved(turn[i], turn'[i])
  <2>1. \A i \in Turns : turn'[i] = [turn[i] EXCEPT !.alone = @ /\ ~InFlight(i)]
    BY DEF RunGraph
  <2> QED
    BY <2>1, Disturbed DEF AloneInv, DrawnInv
<1>3. \A i \in Turns : (Fresh(turn[i], i) /\ Answers(turn[i]) /\ Telling(turn[i], i))'
  <2> SUFFICES ASSUME NEW i \in Turns
               PROVE  (Fresh(turn[i], i) /\ Answers(turn[i]) /\ Telling(turn[i], i))'
    OBVIOUS
  <2>1. Fresh(turn[i], i)'
    BY <1>2 DEF Unmoved, Fresh
  <2>2. (Answers(turn[i]) /\ Telling(turn[i], i))'
    BY <1>2, AloneOther DEF AloneInv
  <2> QED
    BY <2>1, <2>2
<1> QED
  BY <1>1, <1>3 DEF AloneInv, OfferInv

LEMMA AloneEngine ==
    ASSUME AloneInv, NEW t \in Turns, Engine(t)
    PROVE  AloneInv'
<1> DEFINE u == turn[t]
<1>1. PICK v : Becomes(t, v) /\ GoesOn(u, v, t)
  BY EngineGoesOn DEF AloneInv, DrawnInv
<1>2. DrawnInv'
  BY DrawnEngine DEF AloneInv
<1>3. UNCHANGED <<canvas, overwrite, history, ran>> /\ turn' = [turn EXCEPT ![t] = v]
  BY <1>1 DEF Becomes, clientVars
<1>4. SameQuestion(u, v) /\ InFlight(t) /\ ~u.told /\ ~v.told
  BY <1>1 DEF GoesOn, SameQuestion, InFlight, AloneInv, Telling
<1>5. Answers(v)
  BY <1>4 DEF AloneInv, Answers, SameQuestion, Confirmed, InFlight
<1>6. Telling(v, t)
  BY <1>1, <1>4 DEF GoesOn, Telling, SameQuestion, Proper, Confirmed
<1>7. OfferInv'
  BY <1>3 DEF AloneInv, OfferInv
<1> HIDE DEF u
<1> QED
  BY <1>2, <1>3, <1>4, <1>5, <1>6, <1>7, AloneKept DEF SameQuestion, u

LEMMA AloneLoss ==
    ASSUME AloneInv, NEW t \in Turns, FallBack(t) \/ LoseAnswer(t)
    PROVE  AloneInv'
<1>1. DrawnInv' /\ turn[t] \in TurnRecords
  BY DrawnLoss DEF AloneInv, DrawnInv, TypeOK
<1>2. UNCHANGED <<canvas, overwrite, history, ran>> /\ InFlight(t)
  BY DEF FallBack, LoseAnswer, Becomes, clientVars
<1>3. OfferInv'
  BY <1>2 DEF AloneInv, OfferInv
<1>4. CASE FallBack(t)
  <2> DEFINE v == [turn[t] EXCEPT !.at = "received", !.via = "batch", !.intent = "none",
                                  !.preset = FALSE, !.says = <<>>, !.path = "none",
                                  !.judged = FALSE]
  <2>1. turn' = [turn EXCEPT ![t] = v] /\ ~turn[t].told
    BY <1>4 DEF FallBack, Becomes
  <2>2. /\ v.at = "received" /\ v.told = turn[t].told /\ v.graph = turn[t].graph
        /\ v.history = turn[t].history /\ v.choice = turn[t].choice
        /\ v.alone = turn[t].alone
    BY <1>1 DEF TurnRecords
  <2> HIDE DEF v
  <2>3. Answers(v) /\ Telling(v, t)
    BY <1>2, <2>1, <2>2 DEF AloneInv, Answers, Telling, Confirmed, InFlight
  <2> QED
    BY <1>1, <1>2, <1>3, <2>1, <2>2, <2>3, AloneKept
<1>5. CASE LoseAnswer(t)
  <2> DEFINE v == [Unsent EXCEPT !.at = "lost", !.path = turn[t].path]
  <2>1. turn' = [turn EXCEPT ![t] = v]
    BY <1>5 DEF LoseAnswer
  <2>2. v.at = "lost" /\ v.told = FALSE
    BY DEF Unsent
  <2> HIDE DEF v
  <2>3. Answers(v) /\ Telling(v, t)
    BY <2>2 DEF Answers, Telling
  <2> QED
    BY <1>1, <1>2, <1>3, <2>1, <2>2, <2>3, AloneKept
<1> QED
  BY <1>4, <1>5

\* The first event a turn is told by.
LEMMA FirstEvent ==
    ASSUME AloneInv, NEW t \in Turns, Deliver(t)
    PROVE  LET u == turn[t] IN
           /\ u.at = "telling" /\ InFlight(t)
           /\ u.says \in Seq(Events) /\ Len(u.says) \in Nat \ {0} /\ Head(u.says) = u.says[1]
           /\ u.says[1].type \in LegacyGraphEvents => ~u.told
           /\ ~u.told => Proper(u, u.says, u.path, t)
<1> DEFINE u == turn[t]
<1>1. u.says \in Seq(Events) /\ u.says # <<>>
  BY DEF AloneInv, DrawnInv, TypeOK, TurnRecords, Deliver
<1>2. u.at = "telling"
  BY <1>1 DEF AloneInv, DrawnInv, Own
<1>3. Len(u.says) \in Nat \ {0} /\ Head(u.says) = u.says[1] /\ 1 \in 1..Len(u.says)
  BY <1>1
<1> QED
  BY <1>1, <1>2, <1>3 DEF AloneInv, Telling, InFlight

LEMMA AloneDeliver ==
    ASSUME AloneInv, NEW t \in Turns, Deliver(t)
    PROVE  AloneInv'
<1> DEFINE u == turn[t]
           v == turn'[t]
           e == Head(u.says)
           n == Len(u.says)
<1>1. DrawnInv'
  BY DrawnDeliver DEF AloneInv
<1>2. /\ u.at = "telling" /\ InFlight(t) /\ u.says \in Seq(Events) /\ n \in Nat \ {0}
      /\ e = u.says[1] /\ (e.type \in LegacyGraphEvents => ~u.told)
      /\ ~u.told => Proper(u, u.says, u.path, t)
  BY FirstEvent
<1>3. /\ turn' = [turn EXCEPT ![t] = v] /\ v.says = Tail(u.says) /\ v.told
      /\ v.at = (IF n = 1 THEN "ended" ELSE "telling") /\ v.alone = (u.alone \/ n = 1)
  BY DEF Deliver, AloneInv, DrawnInv, TypeOK, Unsent
<1>4. (ran # {} => history)'
  BY DEF Deliver, Apply, AloneInv
<1>5. OfferInv'
  <2>1. CASE e.type = "overwrite_confirmation"
    <3>1. /\ canvas' = canvas
          /\ overwrite' = [graph |-> e.graph, kind |-> e.kind, alone |-> u.alone]
      BY <2>1 DEF Deliver, Apply, Draws
    <3>2. ~u.told /\ e.graph = u.graph
      BY <1>2, <2>1 DEF LegacyGraphEvents, Proper
    <3>3. u.alone => u.graph = canvas
      BY <1>2, <3>2 DEF AloneInv, Fresh
    <3> QED
      BY <3>1, <3>2, <3>3 DEF OfferInv
  <2>2. CASE e.type = "task_failed"
    BY <2>2 DEF Deliver, Apply, Draws, AloneInv, OfferInv
  <2>3. CASE e.type \notin {"overwrite_confirmation", "task_failed"}
    BY <2>3 DEF Deliver, Apply, OfferInv
  <2> QED
    BY <2>1, <2>2, <2>3
<1>6. \A i \in Turns \ {t} : turn'[i] = turn[i]
  BY <1>3 DEF AloneInv, DrawnInv, TypeOK
<1>7. \A i \in Turns \ {t} : (Fresh(turn[i], i) /\ Answers(turn[i]) /\ Telling(turn[i], i))'
  <2> SUFFICES ASSUME NEW i \in Turns \ {t}
               PROVE  (Fresh(turn[i], i) /\ Answers(turn[i]) /\ Telling(turn[i], i))'
    OBVIOUS
  <2>1. ~(turn[i].alone /\ InFlight(i))
    BY <1>2 DEF AloneInv, Fresh, InFlight
  <2>2. Fresh(turn[i], i)'
    BY <1>6, <2>1 DEF Fresh, InFlight
  <2> QED
    BY <1>6, <2>2 DEF AloneInv
<1>8. Fresh(turn[t], t)'
  <2>1. v.alone /\ v.at # "ended" => u.alone
    BY <1>3
  <2>2. u.alone => \A o \in Turns \ {t} : ~InFlight(o)
    BY <1>2 DEF AloneInv, Fresh
  <2> QED
    BY <1>3, <1>6, <2>1, <2>2 DEF Fresh, InFlight
<1>9. Answers(turn[t])'
  BY <1>3 DEF Answers
<1>10. Telling(turn[t], t)'
  <2>1. \A i \in 1..n : i # 1 => u.says[i].type \notin LegacyGraphEvents
    BY <1>2 DEF AloneInv, Telling, Proper
  <2>2. \A i \in 1..Len(v.says) : i + 1 \in 1..n /\ i + 1 # 1 /\ v.says[i] = u.says[i + 1]
    BY <1>2, <1>3
  <2>3. \A i \in 1..Len(v.says) : v.says[i].type \notin LegacyGraphEvents
    BY <2>1, <2>2
  <2> QED
    BY <1>3, <2>3 DEF Telling
<1> QED
  BY <1>1, <1>4, <1>5, <1>7, <1>8, <1>9, <1>10 DEF AloneInv

LEMMA AloneInit == Init => AloneInv
<1> SUFFICES ASSUME Init PROVE AloneInv
  OBVIOUS
<1>1. DrawnInv
  BY DrawnInit
<1>2. (ran # {} => history) /\ OfferInv
  BY DEF Init, OfferInv
<1>3. \A t \in Turns : turn[t].at = "unsent" /\ turn[t].told = FALSE
  BY DEF Init, Unsent
<1> QED
  BY <1>1, <1>2, <1>3 DEF AloneInv, Fresh, Answers, Telling

LEMMA AloneNext == AloneInv /\ [Next]_vars => AloneInv'
<1> SUFFICES ASSUME AloneInv, [Next]_vars PROVE AloneInv'
  OBVIOUS
<1>1. CASE Send
  BY <1>1, AloneSubmit DEF Send
<1>2. CASE ClickPlan
  BY <1>2, AloneSubmit DEF ClickPlan
<1>3. CASE RunGraph
  BY <1>3, AloneRunGraph
<1>4. ASSUME NEW t \in Turns, Engine(t) \/ Deliver(t) \/ FallBack(t) \/ LoseAnswer(t)
      PROVE  AloneInv'
  BY <1>4, AloneEngine, AloneDeliver, AloneLoss
<1>5. CASE UNCHANGED vars
  <2>1. DrawnInv'
    BY <1>5, DrawnNext DEF AloneInv
  <2> QED
    BY <1>5, <2>1 DEF AloneInv, OfferInv, Fresh, InFlight, vars
<1> QED
  BY <1>1, <1>2, <1>3, <1>4, <1>5 DEF Next

\* A step that changes the canvas applies the first event of a turn.
LEMMA OverwriteStep ==
    ASSUME AloneInv, [Next]_vars, canvas' # canvas, canvas # NoGraph, canvas.turn \in ran
    PROVE  LET u == turn[canvas'.turn] IN
               \/ u.path = "plan"
               \/ ~u.alone
               \/ /\ Confirmed(u) /\ u.choice.about = "overwrite"
                  /\ u.choice.offer.alone => u.choice.offer.graph = canvas
<1>1. PICK t \in Turns : Deliver(t)
  <2>1. \A m : ~Submit(m, ChoiceFor(m))
    BY DEF Submit
  <2>2. \A t \in Turns : ~Engine(t)
    <3>1. ASSUME NEW t \in Turns, Engine(t) PROVE FALSE
      BY <3>1, EngineGoesOn DEF AloneInv, DrawnInv, Becomes, clientVars
    <3> QED
      BY <3>1
  <2> QED
    BY <2>1, <2>2 DEF Next, vars, Send, ClickPlan, RunGraph, FallBack, LoseAnswer, Becomes,
       clientVars
<1> DEFINE u == turn[t]
<1>2. u.says[1].type \in Draws /\ canvas' = u.says[1].graph /\ 1 \in 1..Len(u.says)
  <2>1. Len(u.says) \in Nat \ {0} /\ Head(u.says) = u.says[1]
    BY <1>1, FirstEvent
  <2>2. Head(u.says).type \in Draws /\ canvas' = Head(u.says).graph
    BY <1>1 DEF Deliver, Apply
  <2> QED
    BY <2>1, <2>2
<1>3. ~u.told /\ Proper(u, u.says, u.path, t) /\ InFlight(t)
  BY <1>1, <1>2, FirstEvent DEF LegacyGraphEvents
<1>4. /\ canvas'.turn = t /\ u.path \in {"plan", "feedback"}
      /\ u.path = "feedback" => Confirmed(u) \/ ~u.history
  BY <1>2, <1>3 DEF Proper
<1>5. u.alone => u.graph = canvas /\ u.history
  BY <1>3 DEF AloneInv, Fresh, InFlight
<1>6. Confirmed(u) => /\ u.choice.about = "overwrite"
                      /\ u.choice.offer.alone => u.choice.offer.graph = u.graph
  BY <1>3 DEF AloneInv, Answers, InFlight
<1> QED
  BY <1>4, <1>5, <1>6

\* Feedback replaces a graph that was run only where the user was asked about that
\* graph and said yes, for any messages and any number of turns: what overlapping
\* turns and later runs do to it is what "alone" leaves out.
THEOREM FeedbackAsksFirst == Spec => AskedBeforeOverwrite
<1>1. AloneInv /\ [Next]_vars =>
          [canvas' # canvas /\ canvas # NoGraph /\ canvas.turn \in ran =>
               LET u == turn[canvas'.turn] IN
                   \/ u.path = "plan"
                   \/ ~u.alone
                   \/ /\ Confirmed(u) /\ u.choice.about = "overwrite"
                      /\ u.choice.offer.alone => u.choice.offer.graph = canvas]_vars
  BY OverwriteStep
<1> QED
  BY <1>1, AloneInit, AloneNext, PTL DEF Spec, AskedBeforeOverwrite
=============================================================================
