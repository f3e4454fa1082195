------------------------ MODULE LocalServicesProofs ------------------------
(* What LocalServices promises for any number of instances.                 *)
EXTENDS LocalServices, Naturals, TLAPS

\* An instance spawns nothing before it is launched, and whoever sees it alive with
\* a sidecar that runs knows that the sidecar found it alive too.
Follows ==
    \A a \in Apps :
        /\ app[a] = "off" => sidecar[a] = "none"
        /\ sidecar[a] \in {"running", "serving"} /\ Living(a) => a \in watched

\* From the first step of the exit on the model server is gone.
ModelServerKilled ==
    \A a \in Apps : app[a] \in {"closing", "closed"} => LlamaEnded(a)

ServicesInv == TypeOK /\ Follows /\ ModelServerKilled /\ ServedAppIsWatched

\* The actions of one instance and its processes.
StepOf(a) ==
    \/ Launch(a)
    \/ CheckLlama(a) \/ SpawnLlama(a) \/ CheckSidecar(a) \/ SpawnSidecar(a)
    \/ Unpack(a) \/ WatchParent(a) \/ Listen(a) \/ FollowParent(a) \/ SidecarDies(a)
    \/ LlamaStep(a)
    \/ Request(a) \/ CloseWindow(a) \/ StopSidecar(a) \/ Crash(a)

LEMMA NextIsAStep == Next <=> \E a \in Apps : StepOf(a)
BY DEF Next, StepOf, SetUp, RunSidecar

-----------------------------------------------------------------------------
LEMMA TypeStep == ASSUME TypeOK, NEW a \in Apps, StepOf(a) PROVE TypeOK'
<1> USE DEF TypeOK, Goto, SidecarStep, Setup, Dead
<1>1. CASE Launch(a) BY <1>1 DEF Launch
<1>2. CASE CheckLlama(a) BY <1>2 DEF CheckLlama
<1>3. CASE SpawnLlama(a) BY <1>3 DEF SpawnLlama
<1>4. CASE CheckSidecar(a) BY <1>4 DEF CheckSidecar
<1>5. CASE SpawnSidecar(a) BY <1>5 DEF SpawnSidecar
<1>6. CASE Unpack(a) BY <1>6 DEF Unpack
<1>7. CASE WatchParent(a) BY <1>7 DEF WatchParent
<1>8. CASE Listen(a) BY <1>8 DEF Listen
<1>9. CASE FollowParent(a) BY <1>9 DEF FollowParent
<1>10. CASE SidecarDies(a) BY <1>10 DEF SidecarDies
<1>11. CASE LlamaStep(a) BY <1>11 DEF LlamaStep
<1>12. CASE Request(a) BY <1>12 DEF Request
<1>13. CASE CloseWindow(a) BY <1>13 DEF CloseWindow
<1>14. CASE StopSidecar(a) BY <1>14 DEF StopSidecar
<1>15. CASE Crash(a) BY <1>15 DEF Crash
<1> QED
  BY <1>1, <1>2, <1>3, <1>4, <1>5, <1>6, <1>7, <1>8, <1>9, <1>10, <1>11, <1>12, <1>13,
     <1>14, <1>15 DEF StepOf

\* Only a launch brings an instance to life, and only the watch lets a sidecar run.
LEMMA FollowsStep ==
  ASSUME TypeOK, Follows, NEW a \in Apps, StepOf(a)
  PROVE  Follows'
<1> SUFFICES ASSUME NEW b \in Apps
             PROVE  /\ app'[b] = "off" => sidecar'[b] = "none"
                    /\ sidecar'[b] \in {"running", "serving"} /\ Living(b)'
                          => b \in watched'
  BY DEF Follows
<1>0. /\ app[b] = "off" => sidecar[b] = "none"
      /\ sidecar[b] \in {"running", "serving"} /\ Living(b) => b \in watched
  BY DEF Follows
<1> USE <1>0 DEF TypeOK, Goto, SidecarStep, Living, Dead
<1>1. CASE Launch(a) BY <1>1 DEF Launch
<1>2. CASE CheckLlama(a) BY <1>2 DEF CheckLlama
<1>3. CASE SpawnLlama(a) BY <1>3 DEF SpawnLlama
<1>4. CASE CheckSidecar(a) BY <1>4 DEF CheckSidecar
<1>5. CASE SpawnSidecar(a) BY <1>5 DEF SpawnSidecar
<1>6. CASE Unpack(a) BY <1>6 DEF Unpack
<1>7. CASE WatchParent(a) BY <1>7 DEF WatchParent
<1>8. CASE Listen(a) BY <1>8 DEF Listen
<1>9. CASE FollowParent(a) BY <1>9 DEF FollowParent
<1>10. CASE SidecarDies(a) BY <1>10 DEF SidecarDies
<1>11. CASE LlamaStep(a) BY <1>11 DEF LlamaStep
<1>12. CASE Request(a) BY <1>12 DEF Request
<1>13. CASE CloseWindow(a) BY <1>13 DEF CloseWindow
<1>14. CASE StopSidecar(a) BY <1>14 DEF StopSidecar
<1>15. CASE Crash(a) BY <1>15 DEF Crash
<1> QED
  BY <1>1, <1>2, <1>3, <1>4, <1>5, <1>6, <1>7, <1>8, <1>9, <1>10, <1>11, <1>12, <1>13,
     <1>14, <1>15 DEF StepOf

\* An instance that exits spawns no server any more, and a server that is gone stays so.
LEMMA KilledStep ==
  ASSUME TypeOK, ModelServerKilled, NEW a \in Apps, StepOf(a)
  PROVE  ModelServerKilled'
<1> SUFFICES ASSUME NEW b \in Apps, app'[b] \in {"closing", "closed"}
             PROVE  LlamaEnded(b)'
  BY DEF ModelServerKilled
<1>0. app[b] \in {"closing", "closed"} => LlamaEnded(b)
  BY DEF ModelServerKilled
<1> USE <1>0 DEF TypeOK, Goto, SidecarStep, LlamaEnded
<1>1. CASE SpawnLlama(a) BY <1>1 DEF SpawnLlama
<1>2. CASE LlamaStep(a) BY <1>2 DEF LlamaStep
<1>3. CASE CloseWindow(a) BY <1>3 DEF CloseWindow
<1>4. CASE StopSidecar(a) BY <1>4 DEF StopSidecar
<1>5. CASE Crash(a) BY <1>5 DEF Crash
<1>6. CASE Launch(a) \/ CheckLlama(a) \/ CheckSidecar(a) \/ SpawnSidecar(a)
  BY <1>6 DEF Launch, CheckLlama, CheckSidecar, SpawnSidecar
<1>7. CASE UNCHANGED <<app, llama>>
  BY <1>7
<1>8. UNCHANGED <<app, llama>> \/ ~(\/ Unpack(a) \/ WatchParent(a) \/ Listen(a)
                                    \/ FollowParent(a) \/ SidecarDies(a) \/ Request(a))
  BY DEF Unpack, WatchParent, Listen, FollowParent, SidecarDies, Request
<1> QED
  BY <1>1, <1>2, <1>3, <1>4, <1>5, <1>6, <1>7, <1>8 DEF StepOf

\* An answer comes from a sidecar of the instance's own, and a watch is never given up.
LEMMA ServedStep ==
  ASSUME TypeOK, Follows, ServedAppIsWatched, NEW a \in Apps, StepOf(a)
  PROVE  ServedAppIsWatched'
<1>1. watched \subseteq watched'
  BY DEF StepOf, Launch, CheckLlama, SpawnLlama, CheckSidecar, SpawnSidecar, Unpack,
     WatchParent, Listen, FollowParent, SidecarDies, LlamaStep, Request, CloseWindow,
     StopSidecar, Crash
<1>2. CASE Request(a)
  <2>1. a \in SidecarPort => a \in watched
    BY <1>2 DEF Request, SidecarPort, Follows, Living, Dead
  <2> QED
    BY <1>1, <1>2, <2>1 DEF Request, ServedAppIsWatched, TypeOK
<1>3. CASE ~Request(a)
  <2>1. UNCHANGED answer
    BY <1>3 DEF StepOf, Launch, CheckLlama, SpawnLlama, CheckSidecar, SpawnSidecar,
       Unpack, WatchParent, Listen, FollowParent, SidecarDies, SidecarStep, LlamaStep,
       CloseWindow, StopSidecar, Crash
  <2> QED
    BY <1>1, <2>1 DEF ServedAppIsWatched
<1> QED
  BY <1>2, <1>3

-----------------------------------------------------------------------------
LEMMA ServicesInit == Init => ServicesInv
BY DEF Init, ServicesInv, TypeOK, Follows, ModelServerKilled, ServedAppIsWatched,
   Living, LlamaEnded

LEMMA ServicesStep == ServicesInv /\ [Next]_vars => ServicesInv'
<1> SUFFICES ASSUME ServicesInv, [Next]_vars PROVE ServicesInv'
  OBVIOUS
<1>1. CASE UNCHANGED vars
  BY <1>1 DEF vars, ServicesInv, TypeOK, Follows, ModelServerKilled, ServedAppIsWatched,
     Living, LlamaEnded
<1>2. CASE Next
  <2>1. PICK a \in Apps : StepOf(a)
    BY <1>2, NextIsAStep
  <2> QED
    BY <2>1, TypeStep, FollowsStep, KilledStep, ServedStep DEF ServicesInv
<1> QED
  BY <1>1, <1>2

LEMMA ServicesInvariant == Spec => []ServicesInv
BY ServicesInit, ServicesStep, PTL DEF Spec

\* Instances, their processes and their requests are always in a state the module
\* names (lib.rs, sidecar.rs, llama_runtime.rs).
THEOREM ServicesTypeCorrect == Spec => []TypeOK
<1>1. ServicesInv => TypeOK
  BY DEF ServicesInv
<1> QED
  BY <1>1, ServicesInvariant, PTL

\* However many instances start, reuse each other's servers, close and crash, one that
\* was served has a sidecar that watches it.
THEOREM ServedAppsAreWatched == Spec => []ServedAppIsWatched
<1>1. ServicesInv => ServedAppIsWatched
  BY DEF ServicesInv
<1> QED
  BY <1>1, ServicesInvariant, PTL

\* A normal exit leaves no model server of the instance's own, whoever else uses it.
THEOREM ModelServersEnd == Spec => []NoModelServerAfterClose
<1>1. ServicesInv => NoModelServerAfterClose
  BY DEF ServicesInv, ModelServerKilled, NoModelServerAfterClose
<1> QED
  BY <1>1, ServicesInvariant, PTL

-----------------------------------------------------------------------------
(* What the two promises of the future rest on besides fairness.            *)

\* The setup spawns at its end, and an instance that was answered is past its setup and
\* its sidecar past its start.
Answered ==
    \A a \in Apps :
        /\ app[a] \in {"off"} \cup Setup => sidecar[a] = "none"
        /\ answer[a] = "served" =>
            /\ app[a] \in {"open", "closing"} \cup Dead
            /\ sidecar[a] \in {"running", "serving", "gone"}

\* What a served instance that has ended leaves behind has ended or is about to: its
\* sidecar sees that its parent is gone.
SidecarSeesTheEnd ==
    \A a \in Apps :
        answer[a] = "served" /\ ~Living(a) =>
            \/ SidecarEnded(a)
            \/ a \in watched /\ sidecar[a] \in {"running", "serving"}

\* Nothing brings the instance back or takes its sidecar's end away, and the watch ends
\* the sidecar.
EndsForGood ==
    [][\A a \in Apps :
        /\ answer[a] = "served" /\ ~Living(a) => answer'[a] = "served" /\ ~Living(a)'
        /\ ~Living(a) /\ SidecarEnded(a) /\ app[a] # "off" => SidecarEnded(a)'
        /\ FollowParent(a) => SidecarEnded(a)']_vars

\* A sidecar on its way, with nothing left of other instances.
OnItsWay(a) ==
    /\ sidecar[a] \in {"unpacking", "starting", "running"}
    /\ \A b \in Apps \ {a} : ~Living(b) /\ SidecarEnded(b)

Arrived(a) == sidecar[a] = "serving" \/ ~Living(a) \/ \E b \in Apps \ {a} : Living(b)

StepsToServe(a) ==
    CASE sidecar[a] = "unpacking" -> 3
      [] sidecar[a] = "starting" -> 2
      [] sidecar[a] = "running" -> 1
      [] OTHER -> 0

\* It is not turned back or away: it goes on being on its way until it has arrived, and
\* every step of its own brings it closer.
GoesOnItsWay ==
    [][\A a \in Apps :
        /\ OnItsWay(a) => OnItsWay(a)' \/ Arrived(a)'
        /\ OnItsWay(a) /\ OnItsWay(a)' => StepsToServe(a)' <= StepsToServe(a)
        /\ OnItsWay(a) /\ RunSidecar(a) =>
              Arrived(a)' \/ StepsToServe(a)' < StepsToServe(a)]_vars

LEMMA AnsweredStep ==
  ASSUME TypeOK, Follows, Answered, NEW a \in Apps, StepOf(a)
  PROVE  Answered'
<1> SUFFICES ASSUME NEW b \in Apps
             PROVE  /\ app'[b] \in {"off"} \cup Setup => sidecar'[b] = "none"
                    /\ answer'[b] = "served" =>
                         /\ app'[b] \in {"open", "closing"} \cup Dead
                         /\ sidecar'[b] \in {"running", "serving", "gone"}
  BY DEF Answered
<1>0. /\ app[b] \in {"off"} \cup Setup => sidecar[b] = "none"
      /\ answer[b] = "served" =>
           /\ app[b] \in {"open", "closing"} \cup Dead
           /\ sidecar[b] \in {"running", "serving", "gone"}
  BY DEF Answered
<1> USE <1>0 DEF TypeOK, Goto, SidecarStep, Dead, Setup
<1>1. CASE Launch(a) BY <1>1 DEF Launch
<1>2. CASE CheckLlama(a) BY <1>2 DEF CheckLlama
<1>3. CASE SpawnLlama(a) BY <1>3 DEF SpawnLlama
<1>4. CASE CheckSidecar(a) BY <1>4 DEF CheckSidecar
<1>5. CASE SpawnSidecar(a) BY <1>5 DEF SpawnSidecar
<1>6. CASE Unpack(a) BY <1>6 DEF Unpack
<1>7. CASE WatchParent(a) BY <1>7 DEF WatchParent
<1>8. CASE Listen(a) BY <1>8 DEF Listen
<1>9. CASE FollowParent(a) BY <1>9 DEF FollowParent
<1>10. CASE SidecarDies(a) BY <1>10 DEF SidecarDies
<1>11. CASE LlamaStep(a) BY <1>11 DEF LlamaStep
<1>12. CASE Request(a) BY <1>12 DEF Request, SidecarPort
<1>13. CASE CloseWindow(a) BY <1>13 DEF CloseWindow
<1>14. CASE StopSidecar(a) BY <1>14 DEF StopSidecar
<1>15. CASE Crash(a) BY <1>15 DEF Crash
<1> QED
  BY <1>1, <1>2, <1>3, <1>4, <1>5, <1>6, <1>7, <1>8, <1>9, <1>10, <1>11, <1>12, <1>13,
     <1>14, <1>15 DEF StepOf

LEMMA AnsweredInvariant == Spec => [](ServicesInv /\ Answered)
<1>1. Init => Answered
  BY DEF Init, Answered, Setup, Dead
<1>2. ServicesInv /\ Answered /\ [Next]_vars => Answered'
  <2> SUFFICES ASSUME ServicesInv, Answered, [Next]_vars PROVE Answered'
    OBVIOUS
  <2>1. CASE UNCHANGED vars
    BY <2>1 DEF vars, Answered
  <2>2. CASE Next
    <3>1. PICK a \in Apps : StepOf(a)
      BY <2>2, NextIsAStep
    <3> QED
      BY <3>1, AnsweredStep DEF ServicesInv
  <2> QED
    BY <2>1, <2>2
<1> QED
  BY <1>1, <1>2, ServicesInvariant, PTL DEF Spec

\* The dead stay dead, spawn nothing and keep the answers they had.
LEMMA DeadStep ==
  ASSUME TypeOK, [Next]_vars, NEW b \in Apps, app[b] \in Dead
  PROVE  /\ app'[b] \in Dead /\ answer'[b] = answer[b]
         /\ SidecarEnded(b) => SidecarEnded(b)'
<1>0. CASE UNCHANGED vars
  BY <1>0 DEF vars, SidecarEnded
<1>a. CASE Next
  <2>1. PICK a \in Apps : StepOf(a)
    BY <1>a, NextIsAStep
  <2> USE DEF TypeOK, Goto, SidecarStep, Dead, Living, SidecarEnded
  <2>2. CASE Launch(a) BY <2>2 DEF Launch
  <2>3. CASE CheckLlama(a) BY <2>3 DEF CheckLlama
  <2>4. CASE SpawnLlama(a) BY <2>4 DEF SpawnLlama
  <2>5. CASE CheckSidecar(a) BY <2>5 DEF CheckSidecar
  <2>6. CASE SpawnSidecar(a) BY <2>6 DEF SpawnSidecar
  <2>7. CASE Unpack(a) BY <2>7 DEF Unpack
  <2>8. CASE WatchParent(a) BY <2>8 DEF WatchParent
  <2>9. CASE Listen(a) BY <2>9 DEF Listen
  <2>10. CASE FollowParent(a) BY <2>10 DEF FollowParent
  <2>11. CASE SidecarDies(a) BY <2>11 DEF SidecarDies
  <2>12. CASE LlamaStep(a) BY <2>12 DEF LlamaStep
  <2>13. CASE Request(a) BY <2>13 DEF Request
  <2>14. CASE CloseWindow(a) BY <2>14 DEF CloseWindow
  <2>15. CASE StopSidecar(a) BY <2>15 DEF StopSidecar
  <2>16. CASE Crash(a) BY <2>16 DEF Crash
  <2> QED
    BY <2>1, <2>2, <2>3, <2>4, <2>5, <2>6, <2>7, <2>8, <2>9,
       <2>10, <2>11, <2>12, <2>13, <2>14, <2>15, <2>16 DEF StepOf
<1> QED
  BY <1>0, <1>a

\* However it ended and whoever is launched meanwhile, an instance that had been served
\* leaves a sidecar that has ended or that watches for its end and ends when it sees it,
\* and neither the instance nor a sidecar that ended comes back.
\* ServedAppLeavesNoSidecar is this and fairness.
THEOREM ServedAppsLeaveNothing == Spec => []SidecarSeesTheEnd /\ EndsForGood
<1>1. ServicesInv /\ Answered => SidecarSeesTheEnd
  BY DEF ServicesInv, ServedAppIsWatched, Answered, SidecarSeesTheEnd, SidecarEnded
<1>2. ServicesInv /\ Answered /\ [Next]_vars
        => [\A a \in Apps :
              /\ answer[a] = "served" /\ ~Living(a) => answer'[a] = "served" /\ ~Living(a)'
              /\ ~Living(a) /\ SidecarEnded(a) /\ app[a] # "off" => SidecarEnded(a)'
              /\ FollowParent(a) => SidecarEnded(a)']_vars
  <2> SUFFICES ASSUME ServicesInv, Answered, [Next]_vars, NEW a \in Apps
               PROVE  /\ answer[a] = "served" /\ ~Living(a)
                            => answer'[a] = "served" /\ ~Living(a)'
                      /\ ~Living(a) /\ SidecarEnded(a) /\ app[a] # "off" => SidecarEnded(a)'
                      /\ FollowParent(a) => SidecarEnded(a)'
    OBVIOUS
  <2>1. TypeOK
    BY DEF ServicesInv
  <2>2. answer[a] = "served" /\ ~Living(a) => app[a] \in Dead
    BY DEF Answered, Living, Setup, Dead
  <2>3. ~Living(a) /\ app[a] # "off" => app[a] \in Dead
    BY DEF Living
  <2>4. app'[a] \in Dead => ~Living(a)'
    BY DEF Living
  <2>5. FollowParent(a) => SidecarEnded(a)'
    BY <2>1 DEF FollowParent, SidecarStep, SidecarEnded, TypeOK
  <2> QED
    BY <2>1, <2>2, <2>3, <2>4, <2>5, DeadStep
<1> QED
  BY <1>1, <1>2, AnsweredInvariant, PTL DEF Spec, EndsForGood

\* With the others dead and their sidecars ended, only a launch changes another instance.
LEMMA OthersStayAway ==
  ASSUME TypeOK, NEW a \in Apps, OnItsWay(a), NEW b \in Apps \ {a}, StepOf(b)
  PROVE  sidecar' = sidecar /\ (app' = app \/ Arrived(a)')
<1>0. ~Living(b) /\ SidecarEnded(b)
  BY DEF OnItsWay
<1>1. CASE Launch(b)
  BY <1>1 DEF Launch, Goto, TypeOK, Arrived, Living, Dead
<1>2. CASE LlamaStep(b)
  BY <1>2 DEF LlamaStep
<1>3. ASSUME ~Launch(b), ~LlamaStep(b) PROVE FALSE
  BY <1>0, <1>3 DEF StepOf, CheckLlama, SpawnLlama, CheckSidecar, SpawnSidecar, Unpack,
     WatchParent, Listen, FollowParent, SidecarDies, SidecarStep, Request, CloseWindow,
     StopSidecar, Crash, Goto, Living, Dead, SidecarEnded
<1> QED
  BY <1>1, <1>2, <1>3

\* Its own steps leave the others alone, and only the end of the instance takes its
\* sidecar anywhere but to the next step on its way: the port is free.
LEMMA OwnStep ==
  ASSUME TypeOK, Answered, NEW a \in Apps, OnItsWay(a), StepOf(a)
  PROVE  /\ \A b \in Apps \ {a} : UNCHANGED <<app[b], sidecar[b]>>
         /\ \/ Arrived(a)' /\ sidecar'[a] \in {"gone", sidecar[a]} /\ ~RunSidecar(a)
            \/ sidecar'[a] = sidecar[a] /\ ~RunSidecar(a)
            \/ sidecar[a] = "unpacking" /\ sidecar'[a] = "starting"
            \/ sidecar[a] = "starting" /\ sidecar'[a] = "running"
            \/ sidecar[a] = "running" /\ sidecar'[a] = "serving"
<1>a. SidecarPort = {}
  BY DEF OnItsWay, SidecarEnded, SidecarPort
<1>b. /\ app[a] \notin {"off"} \cup Setup
      /\ sidecar[a] \in {"unpacking", "starting", "running"}
  BY DEF Answered, OnItsWay
<1> USE <1>b DEF TypeOK, Goto, SidecarStep, Arrived, Living, Dead, RunSidecar, Unpack,
                WatchParent, Listen
<1>1. CASE Launch(a) BY <1>1 DEF Launch
<1>2. CASE CheckLlama(a) BY <1>2 DEF CheckLlama
<1>3. CASE SpawnLlama(a) BY <1>3 DEF SpawnLlama
<1>4. CASE CheckSidecar(a) BY <1>4 DEF CheckSidecar
<1>5. CASE SpawnSidecar(a) BY <1>5 DEF SpawnSidecar
<1>6. CASE Unpack(a) BY <1>6
<1>7. CASE WatchParent(a) BY <1>7
<1>8. CASE Listen(a) BY <1>8, <1>a
<1>9. CASE FollowParent(a) BY <1>9, <1>a DEF FollowParent
<1>10. CASE SidecarDies(a) BY <1>10 DEF SidecarDies
<1>11. CASE LlamaStep(a) BY <1>11 DEF LlamaStep
<1>12. CASE Request(a) BY <1>12 DEF Request
<1>13. CASE CloseWindow(a) BY <1>13 DEF CloseWindow
<1>14. CASE StopSidecar(a) BY <1>14 DEF StopSidecar
<1>15. CASE Crash(a) BY <1>15 DEF Crash
<1> QED
  BY <1>1, <1>2, <1>3, <1>4, <1>5, <1>6, <1>7, <1>8,
     <1>9, <1>10, <1>11, <1>12, <1>13, <1>14, <1>15 DEF StepOf

\* A sidecar whose instance is alone in the world comes up: no step of anyone turns it
\* back, each of its own three steps takes it on, and only its instance's end or another
\* launch lets it go.  SidecarComesUp is this and fairness.
THEOREM SidecarsGoOn == Spec => GoesOnItsWay
<1> DEFINE Goes(a) ==
        /\ OnItsWay(a) => OnItsWay(a)' \/ Arrived(a)'
        /\ OnItsWay(a) /\ OnItsWay(a)' => StepsToServe(a)' <= StepsToServe(a)
        /\ OnItsWay(a) /\ RunSidecar(a) =>
              Arrived(a)' \/ StepsToServe(a)' < StepsToServe(a)
<1>1. ServicesInv /\ Answered /\ [Next]_vars => [\A a \in Apps : Goes(a)]_vars
  <2> SUFFICES ASSUME ServicesInv, Answered, Next, NEW a \in Apps, OnItsWay(a)
               PROVE  Goes(a)
    OBVIOUS
  <2>1. TypeOK /\ sidecar[a] \in {"unpacking", "starting", "running"}
    BY DEF ServicesInv, OnItsWay
  <2>2. PICK b \in Apps : StepOf(b)
    BY NextIsAStep
  <2>3. CASE b = a
    <3>1. \A c \in Apps \ {a} : UNCHANGED <<app[c], sidecar[c]>>
      BY <2>1, <2>2, <2>3, OwnStep
    <3>2. \A c \in Apps \ {a} : ~Living(c)' /\ SidecarEnded(c)'
      BY <3>1 DEF OnItsWay, Living, SidecarEnded
    <3>3. sidecar'[a] \in {"unpacking", "starting", "running"} => OnItsWay(a)'
      BY <3>2 DEF OnItsWay
    <3> QED
      BY <2>1, <2>2, <2>3, <3>3, OwnStep DEF Arrived, OnItsWay, StepsToServe
  <2>4. CASE b # a
    <3>1. sidecar' = sidecar /\ (app' = app \/ Arrived(a)')
      BY <2>1, <2>2, <2>4, OthersStayAway
    <3>2. ~RunSidecar(a)
      BY <2>1, <3>1 DEF RunSidecar, Unpack, WatchParent, Listen, SidecarStep, TypeOK
    <3>3. app' = app => OnItsWay(a)'
      BY <3>1 DEF OnItsWay, Living, SidecarEnded
    <3>4. StepsToServe(a)' = StepsToServe(a) /\ StepsToServe(a) \in Nat
      BY <3>1 DEF StepsToServe
    <3> QED
      BY <3>1, <3>2, <3>3, <3>4
  <2> QED
    BY <2>3, <2>4
<1> QED
  BY <1>1, AnsweredInvariant, PTL DEF Spec, GoesOnItsWay
=============================================================================
