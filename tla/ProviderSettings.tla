-------------------------- MODULE ProviderSettings --------------------------
(***************************************************************************)
(* The desktop shell's preferences file, the system credential store that  *)
(* holds the API keys beside it, and the sidecar's one-shot model sessions. *)
(*                                                                         *)
(* Every Tauri command that touches preferences is an async function run   *)
(* on a thread pool; nothing serialises them, in the shell or in the       *)
(* interface.  A command loads preferences.json, changes its copy, and     *)
(* saves the whole copy back: write preferences.json.tmp, remove the file, *)
(* rename.  Commands about API providers then change the credential store  *)
(* and, when that fails, save the copy they started from.                  *)
(*                                                                         *)
(* A provider's connection (type and base URL) is one endpoint; models,    *)
(* tools, recent projects and MCP providers, which only ever travel with   *)
(* the file, are the one switch "tools".  "ready" stands for the repairs   *)
(* of load_preferences_with_model_recovery (storage directory, recovered   *)
(* models) having nothing left to do.                                      *)
(*                                                                         *)
(* An operator with a fault after its name (Rollback_ReportsOnly) is a bug *)
(* the operator it precedes could have; no action uses it.                 *)
(***************************************************************************)
EXTENDS Naturals

CONSTANTS
    Workers,      \* commands that may be running at the same time
    Providers,    \* provider ids (each one is generated at most once)
    Endpoints,    \* normalised connections
    Keys,         \* API keys the user types
    SessionIds,   \* model sessions
    None,
    MaxCommands,  \* bound: commands the interface issues
    Crashes,      \* may the application be killed
    Faults        \* which of "disk" and "vault" may refuse an operation

Credentials == [to : Endpoints, key : Keys]

LocalModel  == [to |-> None, key |-> None]

Preferences ==
    [endpoint : [Providers -> Endpoints \cup {None}],
     active   : Providers \cup {None},
     mode     : {"local", "api"},
     tools    : BOOLEAN,
     ready    : BOOLEAN]

ASSUME SettingsAssumption ==
    /\ None \notin Providers \cup Endpoints \cup Keys \cup Credentials \cup Preferences
    /\ MaxCommands \in Nat
    /\ Crashes \in BOOLEAN
    /\ Faults \subseteq {"disk", "vault"}

DefaultPreferences ==
    [endpoint |-> [p \in Providers |-> None], active |-> None,
     mode |-> "local", tools |-> TRUE, ready |-> FALSE]

\* The commands.  "save" creates a provider when "on" is None; "peek" is any
\* command that only loads (get_preferences, the voice status); "probe" is a
\* connection test with the stored key (one with the form's own key uses
\* nothing that is kept).
Commands ==
    [do : {"save"}, on : Providers \cup {None}, at : Endpoints, key : Keys \cup {None}]
      \cup [do : {"probe"}, on : Providers, at : Endpoints, key : {None}]
      \cup [do : {"delete", "activate"}, on : Providers, at : {None}, key : {None}]
      \cup [do : {"mode", "tools", "peek", "session"}, on : {None}, at : {None}, key : {None}]

VARIABLES
    file,      \* preferences.json, or None
    temp,      \* preferences.json.tmp, or None
    vault,     \* the credential store: what is kept for each provider
    sessions,  \* the sidecar's ModelSessionRegistry
    issued,    \* provider ids generated so far
    pc, job, snap, orig, saving, answer,  \* each running command
    asked,     \* commands issued so far
    typed,     \* history: keys the user entered, and for which endpoint
    sent,      \* history: keys that left for an endpoint
    tidy       \* history: commands never overlapped, no crash cut one short,
               \* and the disk refused nothing

disk == <<file, temp>>
locals == <<job, snap, orig, saving>>
work == <<pc, locals, answer>>
past == <<asked, typed, sent, tidy>>
vars == <<disk, vault, sessions, issued, work, past>>

Init ==
    /\ file = None /\ temp = None
    /\ vault = [p \in Providers |-> None]
    /\ sessions = [s \in SessionIds |-> None]
    /\ issued = {}
    /\ pc = [w \in Workers |-> "idle"]
    /\ job = [w \in Workers |-> None]
    /\ snap = [w \in Workers |-> DefaultPreferences]
    /\ orig = [w \in Workers |-> DefaultPreferences]
    /\ saving = [w \in Workers |-> "none"]
    /\ answer = [w \in Workers |-> "none"]
    /\ asked = 0 /\ typed = {} /\ sent = {} /\ tidy = TRUE

Goto(w, label) == pc' = [pc EXCEPT ![w] = label]

\* A command ends; what it held in memory is gone.
Answer(w, result) ==
    /\ Goto(w, "idle")
    /\ answer' = [answer EXCEPT ![w] = result]
    /\ job' = [job EXCEPT ![w] = None]
    /\ snap' = [snap EXCEPT ![w] = DefaultPreferences]
    /\ orig' = [orig EXCEPT ![w] = DefaultPreferences]
    /\ saving' = [saving EXCEPT ![w] = "none"]

-----------------------------------------------------------------------------
(* Issuing a command.                                                       *)

Start(w, j) ==
    /\ pc[w] = "idle"
    /\ asked < MaxCommands
    /\ Goto(w, "load")
    /\ job' = [job EXCEPT ![w] = j]
    /\ answer' = [answer EXCEPT ![w] = "none"]
    /\ asked' = asked + 1
    /\ typed' = IF j.key = None THEN typed ELSE typed \cup {[to |-> j.at, key |-> j.key]}
    /\ tidy' = (tidy /\ \A v \in Workers : pc[v] = "idle")
    /\ UNCHANGED <<disk, vault, sessions, issued, snap, orig, saving, sent>>

-----------------------------------------------------------------------------
(* Loading, with the save that a load itself may make.                      *)

\* normalize_preferences: an active provider that is not listed is dropped.
Normalize(p) ==
    IF p.active # None /\ p.endpoint[p.active] = None
    THEN [p EXCEPT !.active = None] ELSE p

LoadPreferences == IF file = None THEN DefaultPreferences ELSE Normalize(file)

Repaired(p) == [p EXCEPT !.ready = TRUE]

Load(w) ==
    /\ pc[w] = "load"
    /\ snap' = [snap EXCEPT ![w] = Repaired(LoadPreferences)]
    /\ orig' = [orig EXCEPT ![w] = Repaired(LoadPreferences)]
    /\ IF LoadPreferences.ready
       THEN Goto(w, "run") /\ UNCHANGED saving
       ELSE Goto(w, "write") /\ saving' = [saving EXCEPT ![w] = "repair"]
    /\ UNCHANGED <<disk, vault, sessions, issued, job, answer, past>>

-----------------------------------------------------------------------------
(* save_preferences_to_path.                                                *)

SaveFails(w) ==
    /\ "disk" \in Faults
    /\ pc[w] \in {"write", "remove", "rename"}
    /\ Answer(w, "error")
    /\ tidy' = FALSE
    /\ UNCHANGED <<disk, vault, sessions, issued, asked, typed, sent>>

WriteTemp(w) ==
    /\ pc[w] = "write"
    /\ temp' = snap[w]
    /\ Goto(w, "exists")
    /\ UNCHANGED <<file, vault, sessions, issued, job, snap, orig, saving, answer, past>>

Exists(w) ==
    /\ pc[w] = "exists"
    /\ Goto(w, IF file = None THEN "rename" ELSE "remove")
    /\ UNCHANGED <<disk, vault, sessions, issued, job, snap, orig, saving, answer, past>>

Remove(w) ==
    /\ pc[w] = "remove"
    /\ \/ /\ file # None
          /\ Goto(w, "rename")
          /\ UNCHANGED <<locals, answer>>
       \/ /\ file = None
          /\ Answer(w, "error")
    /\ file' = None
    /\ UNCHANGED <<temp, vault, sessions, issued, past>>

\* Every saved provider goes on to the credential store.
Continue_KeyOrNot(w) ==
    CASE saving[w] = "repair" -> Goto(w, "run") /\ UNCHANGED <<locals, answer>>
      [] saving[w] = "undo"   -> Answer(w, "error")
      [] saving[w] = "change" ->
           IF job[w].do \in {"delete", "save"}
           THEN Goto(w, "vault") /\ UNCHANGED <<locals, answer>>
           ELSE Answer(w, "ok")

\* What follows a save: the command proper, the credential store, or the end.
Continue(w) ==
    CASE saving[w] = "repair" -> Goto(w, "run") /\ UNCHANGED <<locals, answer>>
      [] saving[w] = "undo"   -> Answer(w, "error")
      [] saving[w] = "change" ->
           IF job[w].do = "delete" \/ job[w].key # None
           THEN Goto(w, "vault") /\ UNCHANGED <<locals, answer>>
           ELSE Answer(w, "ok")

Rename(w) ==
    /\ pc[w] = "rename"
    /\ \/ /\ temp # None
          /\ file' = temp
          /\ temp' = None
          /\ Continue(w)
       \/ /\ temp = None
          /\ Answer(w, "error")
          /\ UNCHANGED disk
    /\ UNCHANGED <<vault, sessions, issued, past>>

-----------------------------------------------------------------------------
(* The commands that change preferences, on the loaded copy.                *)

Listed(w, p) == p # None /\ snap[w].endpoint[p] # None

\* What a command refuses before it saves anything.
Refuses(w) ==
    LET j == job[w] IN
    CASE j.do \in {"delete", "activate"} -> ~Listed(w, j.on)
      [] j.do = "save" /\ j.on = None -> j.key = None
      [] j.do = "save" /\ j.on # None ->
           ~Listed(w, j.on) \/ (j.key = None /\ snap[w].endpoint[j.on] # j.at)
      [] OTHER -> FALSE

Refuse(w) ==
    /\ pc[w] = "run"
    /\ Refuses(w)
    /\ Answer(w, "error")
    /\ UNCHANGED <<disk, vault, sessions, issued, past>>

Save(w, edited) ==
    /\ snap' = [snap EXCEPT ![w] = edited]
    /\ saving' = [saving EXCEPT ![w] = "change"]
    /\ Goto(w, "write")
    /\ UNCHANGED <<disk, vault, sessions, orig, answer, past>>

\* upsert_api_provider_config
UpsertProvider(w, p) ==
    /\ pc[w] = "run"
    /\ job[w].do = "save"
    /\ ~Refuses(w)
    /\ IF job[w].on = None THEN p \notin issued ELSE p = job[w].on
    /\ issued' = issued \cup {p}
    /\ job' = [job EXCEPT ![w].on = p]
    /\ Save(w, [snap[w] EXCEPT
                  !.endpoint[p] = job[w].at,
                  !.mode = "api",
                  !.active = IF job[w].on = None /\ @ = None THEN p ELSE @])

\* A deleted provider stays selected.
DeleteProvider_KeepsActive(w) ==
    /\ pc[w] = "run"
    /\ job[w].do = "delete"
    /\ ~Refuses(w)
    /\ Save(w, [snap[w] EXCEPT !.endpoint[job[w].on] = None])
    /\ UNCHANGED <<issued, job>>

DeleteProvider(w) ==
    /\ pc[w] = "run"
    /\ job[w].do = "delete"
    /\ ~Refuses(w)
    /\ Save(w, [snap[w] EXCEPT
                  !.endpoint[job[w].on] = None,
                  !.active = IF @ = job[w].on THEN None ELSE @])
    /\ UNCHANGED <<issued, job>>

SetActiveProvider(w) ==
    /\ pc[w] = "run"
    /\ job[w].do = "activate"
    /\ ~Refuses(w)
    /\ Save(w, [snap[w] EXCEPT !.active = job[w].on, !.mode = "api"])
    /\ UNCHANGED <<issued, job>>

\* set_agent_model_mode_command, which asks for no provider, and
\* set_tool_enabled for every setting that only travels with the file.
SetOther(w) ==
    /\ pc[w] = "run"
    /\ \/ job[w].do = "mode"
          /\ \E m \in {"local", "api"} : Save(w, [snap[w] EXCEPT !.mode = m])
       \/ job[w].do = "tools" /\ Save(w, [snap[w] EXCEPT !.tools = ~@])
    /\ UNCHANGED <<issued, job>>

Peek(w) ==
    /\ pc[w] = "run"
    /\ job[w].do = "peek"
    /\ Answer(w, "ok")
    /\ UNCHANGED <<disk, vault, sessions, issued, past>>

-----------------------------------------------------------------------------
(* The credential store, and the rollback when it fails.                    *)

SetOrDeleteKey(w) ==
    /\ pc[w] = "vault"
    /\ vault' = [vault EXCEPT ![job[w].on] =
                   IF job[w].do = "delete" THEN None
                   ELSE [to |-> snap[w].endpoint[job[w].on], key |-> job[w].key]]
    /\ Answer(w, "ok")
    /\ UNCHANGED <<disk, sessions, issued, past>>

\* The error is reported and the saved preferences stay.
Rollback_ReportsOnly(w) ==
    /\ "vault" \in Faults
    /\ pc[w] = "vault"
    /\ Answer(w, "error")
    /\ UNCHANGED <<disk, vault, sessions, issued, past>>

\* What is saved again is the edited copy.
Rollback_SavesEdited(w) ==
    /\ "vault" \in Faults
    /\ pc[w] = "vault"
    /\ saving' = [saving EXCEPT ![w] = "undo"]
    /\ Goto(w, "write")
    /\ UNCHANGED <<disk, vault, sessions, issued, job, snap, orig, answer, past>>

Rollback(w) ==
    /\ "vault" \in Faults
    /\ pc[w] = "vault"
    /\ snap' = [snap EXCEPT ![w] = orig[w]]
    /\ saving' = [saving EXCEPT ![w] = "undo"]
    /\ Goto(w, "write")
    /\ UNCHANGED <<disk, vault, sessions, issued, job, orig, answer, past>>

-----------------------------------------------------------------------------
(* The keys on their way out: a model session, or a connection test.        *)

\* A stored key serves the provider wherever it points now.
KeyOf_AnyEndpoint(p, e) == IF vault[p] # None THEN vault[p].key ELSE None

\* get_api_key: a key stored for another endpoint counts as missing.
KeyOf(p, e) == IF vault[p] # None /\ vault[p].to = e THEN vault[p].key ELSE None

\* resolve_agent_model_config; None where it answers with an error.
Resolved(w) ==
    LET p == snap[w].active IN
    IF snap[w].mode = "local" THEN LocalModel
    ELSE IF ~Listed(w, p) \/ KeyOf(p, snap[w].endpoint[p]) = None THEN None
    ELSE [to |-> snap[w].endpoint[p], key |-> KeyOf(p, snap[w].endpoint[p])]

\* prepare_agent_model_session: resolve, then register with the sidecar.  A
\* disabled provider, a missing local model or an unreachable sidecar fail it.
RegisterSession(w, s) ==
    /\ pc[w] = "run"
    /\ job[w].do = "session"
    /\ Resolved(w) # None
    /\ sessions[s] = None
    /\ sessions' = [sessions EXCEPT ![s] = Resolved(w)]
    /\ Answer(w, "ok")
    /\ UNCHANGED <<disk, vault, issued, past>>

\* api_provider_test_payload_with_stored_key: the stored key goes to the
\* endpoint of the form, which must be the provider's.
ProbeEndpoint(w) ==
    LET j == job[w] IN
    /\ pc[w] = "run"
    /\ j.do = "probe"
    /\ Listed(w, j.on)
    /\ snap[w].endpoint[j.on] = j.at
    /\ KeyOf(j.on, snap[w].endpoint[j.on]) # None
    /\ sent' = sent \cup {[to |-> j.at, key |-> KeyOf(j.on, snap[w].endpoint[j.on])]}
    /\ Answer(w, "ok")
    /\ UNCHANGED <<disk, vault, sessions, issued, asked, typed, tidy>>

NoKeyLeaves(w) ==
    /\ pc[w] = "run"
    /\ job[w].do \in {"session", "probe"}
    /\ Answer(w, "error")
    /\ UNCHANGED <<disk, vault, sessions, issued, past>>

\* A message or a graph run consumes its session and uses the model.
ServeSession(s) ==
    /\ sessions[s] # None
    /\ sessions' = [sessions EXCEPT ![s] = None]
    /\ sent' = IF sessions[s] = LocalModel THEN sent ELSE sent \cup {sessions[s]}
    /\ UNCHANGED <<disk, vault, issued, work, asked, typed, tidy>>

\* A session nobody used in time is purged.
ExpireSession(s) ==
    /\ sessions[s] # None
    /\ sessions' = [sessions EXCEPT ![s] = None]
    /\ UNCHANGED <<disk, vault, issued, work, past>>

-----------------------------------------------------------------------------
(* The application is killed and started again, its sidecar with it.        *)

Crash ==
    /\ Crashes
    /\ \E w \in Workers : pc[w] # "idle"
    /\ pc' = [w \in Workers |-> "idle"]
    /\ job' = [w \in Workers |-> None]
    /\ snap' = [w \in Workers |-> DefaultPreferences]
    /\ orig' = [w \in Workers |-> DefaultPreferences]
    /\ saving' = [w \in Workers |-> "none"]
    /\ sessions' = [s \in SessionIds |-> None]
    /\ tidy' = FALSE
    /\ UNCHANGED <<disk, vault, issued, answer, asked, typed, sent>>

RunCommand(w) ==
    \/ Refuse(w) \/ \E p \in Providers : UpsertProvider(w, p)
    \/ DeleteProvider(w) \/ SetActiveProvider(w) \/ SetOther(w) \/ Peek(w)
    \/ \E s \in SessionIds : RegisterSession(w, s)
    \/ ProbeEndpoint(w) \/ NoKeyLeaves(w)

Next ==
    \/ \E w \in Workers :
         \/ \E j \in Commands : Start(w, j)
         \/ Load(w) \/ SaveFails(w)
         \/ WriteTemp(w) \/ Exists(w) \/ Remove(w) \/ Rename(w)
         \/ RunCommand(w)
         \/ SetOrDeleteKey(w) \/ Rollback(w)
    \/ \E s \in SessionIds : ServeSession(s) \/ ExpireSession(s)
    \/ Crash

Spec == Init /\ [][Next]_vars

-----------------------------------------------------------------------------
(* Properties.                                                              *)

PrefsOrNone == Preferences \cup {None}
Outbound == Credentials \cup {LocalModel}

\* Types of every variable.
TypeOK ==
    /\ file \in PrefsOrNone /\ temp \in PrefsOrNone
    /\ vault \in [Providers -> Credentials \cup {None}]
    /\ sessions \in [SessionIds -> Outbound \cup {None}]
    /\ issued \subseteq Providers
    /\ pc \in [Workers -> {"idle", "load", "write", "exists", "remove", "rename", "run", "vault"}]
    /\ job \in [Workers -> Commands \cup {None}]
    /\ snap \in [Workers -> Preferences] /\ orig \in [Workers -> Preferences]
    /\ saving \in [Workers -> {"none", "repair", "change", "undo"}]
    /\ answer \in [Workers -> {"none", "ok", "error"}]
    /\ asked \in 0..MaxCommands
    /\ typed \subseteq Credentials /\ sent \subseteq Credentials
    /\ tidy \in BOOLEAN

\* A key leaves only for the endpoint it was typed for, whatever commands
\* overlap, crash or fail between the form and the request: the file and the
\* credential store are two documents written apart, and commands on the same
\* provider can leave one provider's URL beside another URL's key.
KeysStayWithTheirEndpoint ==
    /\ sent \subseteq typed
    /\ \A s \in SessionIds : sessions[s] \in Credentials => sessions[s] \in typed

Quiet == \A w \in Workers : pc[w] = "idle"

Stored(p) == IF file = None THEN None ELSE file.endpoint[p]

\* As long as commands ran one after the other, undisturbed, the two documents
\* agree between commands: the listed providers are exactly those that have a
\* key, and it is the key of their endpoint (also after a refused keyring
\* operation, which the rollback must undo).
ListedProvidersHaveTheirKey ==
    tidy /\ Quiet =>
        \A p \in Providers : Stored(p) = IF vault[p] = None THEN None ELSE vault[p].to

\* As long as commands ran one after the other, undisturbed, a command that
\* answers with an error leaves the preferences it found, and one that answers
\* "ok" leaves the preferences it shows, and no temporary file stays behind.
CommandsAreAllOrNothing ==
    [][\A w \in Workers :
         /\ tidy /\ tidy'
         /\ pc[w] # "idle" /\ pc'[w] = "idle"
         => /\ file' = IF answer'[w] = "ok" THEN snap[w] ELSE orig[w]
            /\ temp' = None]_vars

\* Whatever overlaps, no saved file selects a provider it does not list.
ActiveProviderIsListed ==
    \A f \in {file, temp} \ {None} : f.active # None => f.endpoint[f.active] # None

\* docs/superpowers/plans/2026-05-15-alita-release-validation-plan.md:721
\* "Preferences survive app restart.": between commands, once a provider was
\* saved with its key, there is a preferences file for the next start to read.
PreferencesSurvive ==
    Quiet /\ (\E p \in Providers : vault[p] # None) => file # None

=============================================================================
