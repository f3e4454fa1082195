--------------------------- MODULE LocalServices ---------------------------
(***************************************************************************)
(* The processes behind the desktop window: each instance of the           *)
(* application starts a llama.cpp server and a Python sidecar unless it    *)
(* finds their fixed ports answering (lib.rs, llama_runtime.rs,            *)
(* sidecar.rs), the sidecar watches the process that started it            *)
(* (sidecar_entry.py), and closing the window kills what the instance      *)
(* holds.  The sidecar only answers requests that carry the token of the   *)
(* instance that started it (app.py).                                      *)
(*                                                                         *)
(* An instance is launched once: a restart is another instance.  Nothing   *)
(* keeps two from running at a time.  The packaged sidecar is one file:    *)
(* the process the application holds unpacks it and starts the process     *)
(* that runs Python, which a kill of the first one does not reach.         *)
(***************************************************************************)
CONSTANTS
    Apps,       \* instances of the application
    Windows     \* os.name = "nt": how a sidecar watches its parent

ASSUME ServicesAssumption == Windows \in BOOLEAN

VARIABLES
    app,        \* where an instance is between its setup hook and its exit
    sidecar,    \* the sidecar it spawned
    watched,    \* the instances whose sidecar watches them
    llama,      \* the llama.cpp server it spawned
    answer      \* how its last request to the sidecar's port ended

vars == <<app, sidecar, watched, llama, answer>>

Setup == {"check_llama", "spawn_llama", "check_sidecar", "spawn_sidecar"}
Dead == {"closed", "crashed"}

TypeOK ==
    /\ app \in [Apps -> {"off", "open", "closing"} \cup Setup \cup Dead]
    /\ sidecar \in [Apps -> {"none", "unpacking", "starting", "running", "serving",
                             "gone"}]
    /\ watched \subseteq Apps
    /\ llama \in [Apps -> {"none", "starting", "serving", "gone"}]
    /\ answer \in [Apps -> {"none", "served", "unauthorized", "unreachable"}]

Living(a) == app[a] \notin {"off"} \cup Dead

\* Who listens on AGENT_PORT and on the port of llama.cpp.
SidecarPort == {a \in Apps : sidecar[a] = "serving"}
LlamaPort == {a \in Apps : llama[a] = "serving"}

Goto(a, from, to) ==
    /\ app[a] = from
    /\ app' = [app EXCEPT ![a] = to]

Init ==
    /\ app = [a \in Apps |-> "off"]
    /\ sidecar = [a \in Apps |-> "none"]
    /\ watched = {}
    /\ llama = [a \in Apps |-> "none"]
    /\ answer = [a \in Apps |-> "none"]

-----------------------------------------------------------------------------
(* The setup hook of the application.                                       *)

Launch(a) ==
    /\ Goto(a, "off", "check_llama")
    /\ UNCHANGED <<sidecar, watched, llama, answer>>

\* No model, a port that is open, no executable, no model file: no server.
CheckLlama(a) ==
    /\ \/ Goto(a, "check_llama", "check_sidecar")
       \/ LlamaPort = {} /\ Goto(a, "check_llama", "spawn_llama")
    /\ UNCHANGED <<sidecar, watched, llama, answer>>

SpawnLlama(a) ==
    /\ Goto(a, "spawn_llama", "check_sidecar")
    /\ \/ llama' = [llama EXCEPT ![a] = "starting"]
       \/ UNCHANGED llama
    /\ UNCHANGED <<sidecar, watched, answer>>

\* /health asks for no token; a sidecar that does not answer in time is none.
CheckSidecar(a) ==
    /\ \/ SidecarPort # {} /\ Goto(a, "check_sidecar", "open")
       \/ Goto(a, "check_sidecar", "spawn_sidecar")
    /\ UNCHANGED <<sidecar, watched, llama, answer>>

SpawnSidecar(a) ==
    /\ Goto(a, "spawn_sidecar", "open")
    /\ \/ sidecar' = [sidecar EXCEPT ![a] = "unpacking"]
       \/ UNCHANGED sidecar
    /\ UNCHANGED <<watched, llama, answer>>

-----------------------------------------------------------------------------
(* The processes it started.                                                *)

SidecarStep(a, from, to) ==
    /\ sidecar[a] = from
    /\ sidecar' = [sidecar EXCEPT ![a] = to]
    /\ UNCHANGED <<app, llama, answer>>

Unpack(a) ==
    /\ SidecarStep(a, "unpacking", "starting")
    /\ UNCHANGED watched

WatchParent_NoPid(a) ==
    /\ SidecarStep(a, "starting", "running")
    /\ UNCHANGED watched

\* OpenProcess finds no parent that has ended, and the sidecar goes on without a
\* watch; elsewhere the poll ends it.
WatchParent(a) ==
    /\ SidecarStep(a, "starting", "running")
    /\ watched' = IF Living(a) \/ ~Windows THEN watched \cup {a} ELSE watched

Listen_SharedPort(a) ==
    /\ SidecarStep(a, "running", IF SidecarPort \cup LlamaPort = {} THEN "serving"
                                                                   ELSE "gone")
    /\ UNCHANGED watched

\* uvicorn ends when the port is taken.
Listen(a) ==
    /\ SidecarStep(a, "running", IF SidecarPort = {} THEN "serving" ELSE "gone")
    /\ UNCHANGED watched

FollowParent(a) ==
    /\ a \in watched /\ ~Living(a)
    /\ \E from \in {"running", "serving"} : SidecarStep(a, from, "gone")
    /\ UNCHANGED watched

\* Its end is logged, and nothing starts it again.
SidecarDies(a) ==
    /\ SidecarStep(a, "serving", "gone")
    /\ UNCHANGED watched

\* The server opens its port, or ends: a taken port, a model it cannot load.
LlamaStep(a) ==
    /\ \/ llama[a] = "starting" /\ LlamaPort = {}
          /\ llama' = [llama EXCEPT ![a] = "serving"]
       \/ llama[a] \in {"starting", "serving"}
          /\ llama' = [llama EXCEPT ![a] = "gone"]
    /\ UNCHANGED <<app, sidecar, watched, answer>>

-----------------------------------------------------------------------------
(* The open window.                                                         *)

Request_NoToken(a) ==
    /\ app[a] = "open"
    /\ answer' = [answer EXCEPT ![a] = IF SidecarPort = {} THEN "unreachable"
                                                            ELSE "served"]
    /\ UNCHANGED <<app, sidecar, watched, llama>>

\* require_sidecar_token: the token is the one the sidecar was started with.
Request(a) ==
    /\ app[a] = "open"
    /\ answer' = [answer EXCEPT ![a] = IF SidecarPort = {} THEN "unreachable"
                                       ELSE IF a \in SidecarPort THEN "served"
                                       ELSE "unauthorized"]
    /\ UNCHANGED <<app, sidecar, watched, llama>>

CloseWindow_Forgets(a) ==
    /\ Goto(a, "open", "closing")
    /\ UNCHANGED <<sidecar, watched, llama, answer>>

\* RunEvent::Exit: the model server first, then the sidecar, then the process ends.
CloseWindow(a) ==
    /\ Goto(a, "open", "closing")
    /\ llama' = IF llama[a] = "none" THEN llama ELSE [llama EXCEPT ![a] = "gone"]
    /\ UNCHANGED <<sidecar, watched, answer>>

StopSidecar_Outdated(a) ==
    /\ Goto(a, "closing", "closed")
    /\ sidecar' = [sidecar EXCEPT ![a] = "stopped"]
    /\ UNCHANGED <<watched, llama, answer>>

\* Only a sidecar that is still unpacking ends with the process that is killed.
StopSidecar(a) ==
    /\ Goto(a, "closing", "closed")
    /\ sidecar' = IF sidecar[a] = "unpacking" THEN [sidecar EXCEPT ![a] = "gone"]
                                              ELSE sidecar
    /\ UNCHANGED <<watched, llama, answer>>

Crash(a) ==
    /\ Living(a)
    /\ app' = [app EXCEPT ![a] = "crashed"]
    /\ UNCHANGED <<sidecar, watched, llama, answer>>

-----------------------------------------------------------------------------
SetUp(a) == CheckLlama(a) \/ SpawnLlama(a) \/ CheckSidecar(a) \/ SpawnSidecar(a)
RunSidecar(a) == Unpack(a) \/ WatchParent(a) \/ Listen(a)

Next ==
    \E a \in Apps :
        \/ Launch(a)
        \/ SetUp(a)
        \/ RunSidecar(a)
        \/ FollowParent(a)
        \/ SidecarDies(a)
        \/ LlamaStep(a)
        \/ Request(a)
        \/ CloseWindow(a)
        \/ StopSidecar(a)
        \/ Crash(a)

\* Processes that have been started go on; users launch, ask and close as they like.
Spec ==
    /\ Init /\ [][Next]_vars
    /\ \A a \in Apps :
        /\ WF_vars(SetUp(a))
        /\ WF_vars(RunSidecar(a))
        /\ WF_vars(FollowParent(a))
        /\ WF_vars(StopSidecar(a))

-----------------------------------------------------------------------------
(* What the life cycle promises.                                            *)

SidecarEnded(a) == sidecar[a] \in {"none", "gone"}
LlamaEnded(a) == llama[a] \in {"none", "gone"}

\* No model server outlives the instance that was closed normally, whatever else was
\* starting or reusing it (lib.rs:99-104, llama_runtime.rs:295-305).
NoModelServerAfterClose == \A a \in Apps : app[a] = "closed" => LlamaEnded(a)

\* An instance is only ever served by a sidecar of its own that watches it, although
\* setup takes any sidecar that answers /health for its own (sidecar.rs:98-101,
\* app.py:69-78, sidecar_entry.py:12-42).
ServedAppIsWatched == \A a \in Apps : answer[a] = "served" => a \in watched

\* So an instance that was being served leaves no sidecar, closed or crashed.
ServedAppLeavesNoSidecar ==
    \A a \in Apps : (answer[a] = "served" /\ ~Living(a)) ~> SidecarEnded(a)

\* With nothing left of other instances a sidecar on its way gets to serve, unless
\* its instance ends or another is launched (sidecar.rs:98-136,
\* sidecar_entry.py:45-57).
SidecarComesUp ==
    \A a \in Apps :
        (/\ sidecar[a] \in {"unpacking", "starting", "running"}
         /\ \A b \in Apps \ {a} : ~Living(b) /\ SidecarEnded(b))
        ~> (sidecar[a] = "serving" \/ ~Living(a) \/ \E b \in Apps \ {a} : Living(b))
=============================================================================
