---------------------- MODULE ProviderSettingsProofs ----------------------
(***************************************************************************)
(* Theorems about ProviderSettings, for any number of overlapping commands *)
(* and with every crash and refused operation.  The argument for the keys: *)
(* what the credential store keeps is a key beside the endpoint it was     *)
(* typed for (VaultInv), because a command that stores a key still holds   *)
(* the endpoint it came with (JobInv); and a key is only read by someone   *)
(* who names that endpoint.                                                *)
(* While commands run one after the other, undisturbed, AtHand says at each *)
(* step what the file, its copies and the credential store have in common.  *)
(***************************************************************************)
EXTENDS ProviderSettings, TLAPS

SavePoints == {"write", "exists", "remove", "rename"}

\* Changing is the part of a command between its edit and its last save.
Changing(w) == pc[w] = "vault" \/ (pc[w] \in SavePoints /\ saving[w] = "change")

JobInv ==
    \A w \in Workers : pc[w] # "idle" =>
        /\ job[w] \in Commands
        /\ pc[w] \in SavePoints => saving[w] # "none"
        /\ job[w].key # None => [to |-> job[w].at, key |-> job[w].key] \in typed
        /\ Changing(w) /\ job[w].do = "save" =>
              job[w].on \in Providers /\ snap[w].endpoint[job[w].on] = job[w].at
        /\ Changing(w) /\ job[w].do = "delete" => job[w].on \in Providers
        /\ pc[w] = "vault" => job[w].do = "delete" \/ job[w].key # None

VaultInv == \A p \in Providers : vault[p] # None => vault[p] \in typed

Selects(f) == f.active # None => f.endpoint[f.active] # None

CopiesInv ==
    /\ file # None => Selects(file)
    /\ temp # None => Selects(temp)
    /\ \A w \in Workers : Selects(snap[w]) /\ Selects(orig[w])

KeyInv == JobInv /\ VaultInv /\ KeysStayWithTheirEndpoint

\* The type invariant by the part of the state it is about.
CopiesOK ==
    /\ file \in PrefsOrNone /\ temp \in PrefsOrNone
    /\ snap \in [Workers -> Preferences] /\ orig \in [Workers -> Preferences]
ControlOK ==
    /\ pc \in [Workers -> {"idle", "load", "write", "exists", "remove", "rename", "run", "vault"}]
    /\ job \in [Workers -> Commands \cup {None}]
    /\ saving \in [Workers -> {"none", "repair", "change", "undo"}]
    /\ answer \in [Workers -> {"none", "ok", "error"}]
KeysOK ==
    /\ vault \in [Providers -> Credentials \cup {None}]
    /\ sessions \in [SessionIds -> Outbound \cup {None}]
    /\ issued \subseteq Providers
    /\ asked \in 0..MaxCommands
    /\ typed \subseteq Credentials /\ sent \subseteq Credentials
    /\ tidy \in BOOLEAN

LEMMA TypeParts == TypeOK <=> CopiesOK /\ ControlOK /\ KeysOK
BY DEF TypeOK, CopiesOK, ControlOK, KeysOK

-----------------------------------------------------------------------------
(* Facts about the operators.                                               *)

LEMMA NoneIsApart ==
  /\ None \notin Providers /\ None \notin Endpoints /\ None \notin Keys
  /\ None \notin Credentials /\ None \notin Preferences
  /\ LocalModel \notin Credentials
BY SettingsAssumption DEF LocalModel, Credentials

LEMMA DefaultIsPreferences ==
  DefaultPreferences \in Preferences /\ Selects(DefaultPreferences)
BY DEF DefaultPreferences, Preferences, Selects

LEMMA LoadedIsPreferences ==
  ASSUME file \in PrefsOrNone
  PROVE  /\ Repaired(LoadPreferences) \in Preferences
         /\ LoadPreferences.ready \in BOOLEAN
         /\ Selects(Repaired(LoadPreferences))
<1>1. LoadPreferences \in Preferences /\ Selects(LoadPreferences)
  <2>1. CASE file = None
    BY <2>1, DefaultIsPreferences DEF LoadPreferences
  <2>2. CASE file # None
    <3>1. file \in Preferences BY <2>2 DEF PrefsOrNone
    <3> QED BY <2>2, <3>1 DEF LoadPreferences, Normalize, Preferences, Selects
  <2> QED BY <2>1, <2>2
<1> QED BY <1>1 DEF Repaired, Preferences, Selects

LEMMA CommandParts ==
  ASSUME NEW j \in Commands
  PROVE  /\ j.on \in Providers \cup {None}
         /\ j.at \in Endpoints \cup {None}
         /\ j.key \in Keys \cup {None}
         /\ j.do = "save" => j.at \in Endpoints
         /\ j.key # None => j.do = "save" /\ j.at \in Endpoints /\ j.key \in Keys
         /\ j.do = "save" => \A p \in Providers : [j EXCEPT !.on = p] \in Commands
BY NoneIsApart DEF Commands

LEMMA KeyOfStored ==
  ASSUME KeysOK, NEW p \in Providers, NEW e \in Endpoints, KeyOf(p, e) # None
  PROVE  /\ [to |-> e, key |-> KeyOf(p, e)] = vault[p]
         /\ vault[p] \in Credentials /\ vault[p] # None
<1>1. vault[p] # None /\ vault[p].to = e /\ KeyOf(p, e) = vault[p].key
  BY DEF KeyOf
<1>2. vault[p] \in Credentials
  BY <1>1 DEF KeysOK
<1> QED BY <1>1, <1>2 DEF Credentials

LEMMA ResolvedIsStored ==
  ASSUME KeysOK, CopiesOK, NEW w \in Workers
  PROVE  /\ Resolved(w) \in Outbound \cup {None}
         /\ Resolved(w) \in Credentials => \E p \in Providers :
                vault[p] # None /\ Resolved(w) = vault[p]
<1> DEFINE p == snap[w].active
           e == snap[w].endpoint[p]
<1>1. CASE snap[w].mode = "local"
  BY <1>1, NoneIsApart DEF Resolved, Outbound
<1>2. CASE snap[w].mode # "local" /\ (~Listed(w, p) \/ KeyOf(p, e) = None)
  BY <1>2, NoneIsApart DEF Resolved
<1>3. CASE snap[w].mode # "local" /\ Listed(w, p) /\ KeyOf(p, e) # None
  <2>1. p \in Providers /\ e \in Endpoints
    BY <1>3 DEF Listed, CopiesOK, Preferences
  <2>2. Resolved(w) = [to |-> e, key |-> KeyOf(p, e)]
    BY <1>3 DEF Resolved
  <2>3. Resolved(w) = vault[p] /\ vault[p] \in Credentials /\ vault[p] # None
    BY <1>3, <2>1, <2>2, KeyOfStored
  <2> QED BY <2>1, <2>3 DEF Outbound
<1> QED BY <1>1, <1>2, <1>3

-----------------------------------------------------------------------------
(* The step of the type invariant.                                          *)

LEMMA ControlStep == ASSUME ControlOK, JobInv, [Next]_vars PROVE ControlOK'
<1> USE DEF ControlOK, Goto, Answer
<1>1. CASE UNCHANGED vars BY <1>1 DEF vars, work, locals
<1>2. ASSUME NEW w \in Workers, NEW j \in Commands, Start(w, j) PROVE ControlOK'
  BY <1>2 DEF Start
<1>3. ASSUME NEW w \in Workers, Load(w) PROVE ControlOK'
  BY <1>3 DEF Load
<1>4. ASSUME NEW w \in Workers, SaveFails(w) PROVE ControlOK'
  BY <1>4 DEF SaveFails
<1>5. ASSUME NEW w \in Workers, WriteTemp(w) \/ Exists(w) PROVE ControlOK'
  BY <1>5 DEF WriteTemp, Exists
<1>6. ASSUME NEW w \in Workers, Remove(w) PROVE ControlOK'
  BY <1>6 DEF Remove, locals
<1>7. ASSUME NEW w \in Workers, Rename(w) PROVE ControlOK'
  <2>1. saving[w] \in {"repair", "change", "undo"}
    BY <1>7 DEF Rename, JobInv, SavePoints
  <2>2. CASE Answer(w, "ok") \/ Answer(w, "error")
    BY <2>2
  <2>3. CASE (Goto(w, "run") \/ Goto(w, "vault")) /\ UNCHANGED <<locals, answer>>
    BY <2>3 DEF locals
  <2> QED BY <1>7, <2>1, <2>2, <2>3 DEF Rename, Continue
<1>8. ASSUME NEW w \in Workers, Refuse(w) \/ Peek(w) \/ NoKeyLeaves(w) PROVE ControlOK'
  BY <1>8 DEF Refuse, Peek, NoKeyLeaves
<1>9. ASSUME NEW w \in Workers, NEW p \in Providers, UpsertProvider(w, p) PROVE ControlOK'
  <2>1. job[w] \in Commands /\ job[w].do = "save"
    BY <1>9 DEF UpsertProvider, JobInv
  <2>2. [job[w] EXCEPT !.on = p] \in Commands
    BY <2>1, CommandParts
  <2> QED BY <1>9, <2>2 DEF UpsertProvider, Save
<1>10. ASSUME NEW w \in Workers, DeleteProvider(w) \/ SetActiveProvider(w) \/ SetOther(w)
       PROVE  ControlOK'
  BY <1>10 DEF DeleteProvider, SetActiveProvider, SetOther, Save
<1>11. ASSUME NEW w \in Workers, SetOrDeleteKey(w) \/ ProbeEndpoint(w) PROVE ControlOK'
  BY <1>11 DEF SetOrDeleteKey, ProbeEndpoint
<1>12. ASSUME NEW w \in Workers, NEW s \in SessionIds, RegisterSession(w, s) PROVE ControlOK'
  BY <1>12 DEF RegisterSession
<1>13. ASSUME NEW w \in Workers, Rollback(w) PROVE ControlOK'
  BY <1>13 DEF Rollback
<1>14. ASSUME NEW s \in SessionIds, ServeSession(s) \/ ExpireSession(s) PROVE ControlOK'
  BY <1>14 DEF ServeSession, ExpireSession, work, locals
<1>15. CASE Crash
  BY <1>15 DEF Crash
<1> QED
  BY <1>1, <1>2, <1>3, <1>4, <1>5, <1>6, <1>7, <1>8, <1>9, <1>10, <1>11, <1>12, <1>13,
     <1>14, <1>15 DEF Next, RunCommand

\* The copies of the preferences keep their type and select what they list.
LEMMA CopiesStep ==
  ASSUME ControlOK, CopiesOK, CopiesInv, JobInv, [Next]_vars
  PROVE  CopiesOK' /\ CopiesInv'
<1> USE DEF CopiesOK, CopiesInv, PrefsOrNone
<1>1. CASE UNCHANGED <<file, temp, snap, orig>>
  BY <1>1 DEF Selects
<1>2. ASSUME NEW w \in Workers, Answer(w, "ok") \/ Answer(w, "error"), UNCHANGED disk
      PROVE  CopiesOK' /\ CopiesInv'
  BY <1>2, DefaultIsPreferences DEF Answer, disk, Selects
<1>3. ASSUME NEW w \in Workers, Load(w) PROVE CopiesOK' /\ CopiesInv'
  BY <1>3, LoadedIsPreferences DEF Load, disk, Selects
<1>4. ASSUME NEW w \in Workers, WriteTemp(w) PROVE CopiesOK' /\ CopiesInv'
  BY <1>4 DEF WriteTemp, Selects
<1>5. ASSUME NEW w \in Workers, Remove(w) PROVE CopiesOK' /\ CopiesInv'
  BY <1>5, DefaultIsPreferences DEF Remove, Answer, locals, Selects
<1>6. ASSUME NEW w \in Workers, Rename(w) PROVE CopiesOK' /\ CopiesInv'
  <2>1. saving[w] \in {"repair", "change", "undo"}
    BY <1>6 DEF Rename, JobInv, SavePoints, ControlOK
  <2>2. \/ UNCHANGED locals
        \/ Answer(w, "ok") \/ Answer(w, "error")
    BY <1>6, <2>1 DEF Rename, Continue
  <2>3. \/ UNCHANGED <<snap, orig>>
        \/ /\ snap' = [snap EXCEPT ![w] = DefaultPreferences]
           /\ orig' = [orig EXCEPT ![w] = DefaultPreferences]
    BY <2>2 DEF locals, Answer
  <2>4. (file' = temp /\ temp' = None /\ temp # None) \/ UNCHANGED disk
    BY <1>6 DEF Rename
  <2> QED BY <2>3, <2>4, DefaultIsPreferences DEF disk, Selects
<1>7. ASSUME NEW w \in Workers, NEW f \in Preferences, Selects(f), Save(w, f)
      PROVE  CopiesOK' /\ CopiesInv'
  BY <1>7 DEF Save, disk, Selects
<1>8. ASSUME NEW w \in Workers, NEW p \in Providers, UpsertProvider(w, p)
      PROVE  CopiesOK' /\ CopiesInv'
  <2>1. job[w].at \in Endpoints /\ job[w].on \in Providers \cup {None}
    BY <1>8, CommandParts DEF UpsertProvider, JobInv
  <2>2. snap[w] \in Preferences /\ Selects(snap[w])
    OBVIOUS
  <2> DEFINE a == job[w].on
             g == [snap[w] EXCEPT !.endpoint[p] = job[w].at, !.mode = "api",
                                  !.active = IF a = None /\ @ = None THEN p ELSE @]
  <2>3. g \in Preferences /\ Selects(g)
    BY <2>1, <2>2, NoneIsApart DEF Preferences, Selects
  <2>4. Save(w, g)
    BY <1>8 DEF UpsertProvider
  <2> QED BY <2>3, <2>4, <1>7
<1>9. ASSUME NEW w \in Workers, DeleteProvider(w) \/ SetActiveProvider(w)
      PROVE  CopiesOK' /\ CopiesInv'
  <2>1. /\ job[w] \in Commands /\ job[w].do \in {"delete", "activate"}
        /\ ~Refuses(w)
    BY <1>9 DEF DeleteProvider, SetActiveProvider, JobInv
  <2>2. Listed(w, job[w].on)
    BY <2>1 DEF Refuses
  <2>3. job[w].on \in Providers /\ snap[w].endpoint[job[w].on] # None
    BY <2>1, <2>2, CommandParts DEF Listed
  <2>4. snap[w] \in Preferences /\ Selects(snap[w])
    OBVIOUS
  <2> DEFINE d == [snap[w] EXCEPT !.endpoint[job[w].on] = None,
                                  !.active = IF @ = job[w].on THEN None ELSE @]
             c == [snap[w] EXCEPT !.active = job[w].on, !.mode = "api"]
  <2>5. d \in Preferences /\ Selects(d) /\ c \in Preferences /\ Selects(c)
    BY <2>3, <2>4, NoneIsApart DEF Preferences, Selects
  <2>6. Save(w, d) \/ Save(w, c)
    BY <1>9 DEF DeleteProvider, SetActiveProvider
  <2> QED BY <2>5, <2>6, <1>7
<1>10. ASSUME NEW w \in Workers, SetOther(w) PROVE CopiesOK' /\ CopiesInv'
  <2>1. snap[w] \in Preferences /\ Selects(snap[w])
    OBVIOUS
  <2> DEFINE l(m) == [snap[w] EXCEPT !.mode = m]
             t == [snap[w] EXCEPT !.tools = ~@]
  <2>2. t \in Preferences /\ Selects(t) /\ \A m \in {"local", "api"} : l(m) \in Preferences /\ Selects(l(m))
    BY <2>1 DEF Preferences, Selects
  <2>3. (\E m \in {"local", "api"} : Save(w, l(m))) \/ Save(w, t)
    BY <1>10 DEF SetOther
  <2> QED BY <2>2, <2>3, <1>7
<1>11. ASSUME NEW w \in Workers, Rollback(w) PROVE CopiesOK' /\ CopiesInv'
  BY <1>11 DEF Rollback, disk, Selects
<1>12. CASE Crash
  BY <1>12, DefaultIsPreferences DEF Crash, disk, Selects
<1>13. ASSUME NEW w \in Workers, SaveFails(w) \/ Refuse(w) \/ Peek(w) \/ NoKeyLeaves(w)
                 \/ SetOrDeleteKey(w) \/ ProbeEndpoint(w)
                 \/ \E s \in SessionIds : RegisterSession(w, s)
       PROVE  CopiesOK' /\ CopiesInv'
  BY <1>2, <1>13 DEF SaveFails, Refuse, Peek, NoKeyLeaves, SetOrDeleteKey, ProbeEndpoint,
                     RegisterSession
<1>14. ASSUME NEW w \in Workers, (\E j \in Commands : Start(w, j)) \/ Exists(w)
       PROVE  UNCHANGED <<file, temp, snap, orig>>
  BY <1>14 DEF Start, Exists, disk
<1>15. ASSUME NEW s \in SessionIds, ServeSession(s) \/ ExpireSession(s)
       PROVE  UNCHANGED <<file, temp, snap, orig>>
  BY <1>15 DEF ServeSession, ExpireSession, disk, work, locals
<1>16. CASE UNCHANGED vars
  BY <1>1, <1>16 DEF vars, disk, work, locals
<1> QED
  BY <1>1, <1>3, <1>4, <1>5, <1>6, <1>8, <1>9, <1>10, <1>11, <1>12, <1>13, <1>14, <1>15,
     <1>16 DEF Next, RunCommand

LEMMA KeysTyped ==
  ASSUME ControlOK, CopiesOK, KeysOK, JobInv, [Next]_vars
  PROVE  KeysOK'
<1> USE DEF KeysOK
<1>1. ASSUME NEW w \in Workers, NEW j \in Commands, Start(w, j) PROVE KeysOK'
  <2>1. j.key # None => [to |-> j.at, key |-> j.key] \in Credentials
    BY CommandParts DEF Credentials
  <2>2. asked + 1 \in 0..MaxCommands
    BY <1>1, SettingsAssumption DEF Start
  <2>3. (tidy /\ \A v \in Workers : pc[v] = "idle") \in BOOLEAN
    OBVIOUS
  <2>4. typed' \subseteq Credentials
    BY <1>1, <2>1 DEF Start
  <2>5. asked' \in 0..MaxCommands
    BY <1>1, <2>2 DEF Start
  <2>6. tidy' \in BOOLEAN
    BY <1>1, <2>3 DEF Start
  <2>7. UNCHANGED <<vault, sessions, issued, sent>>
    BY <1>1 DEF Start
  <2> QED BY <2>4, <2>5, <2>6, <2>7
<1>2. ASSUME NEW w \in Workers, SetOrDeleteKey(w) PROVE KeysOK'
  <2>1. /\ job[w] \in Commands
        /\ job[w].do = "delete" \/ job[w].key # None
        /\ job[w].do = "save" => snap[w].endpoint[job[w].on] = job[w].at
    BY <1>2 DEF SetOrDeleteKey, JobInv, Changing
  <2>2. job[w].do # "delete" =>
          [to |-> snap[w].endpoint[job[w].on], key |-> job[w].key] \in Credentials
    BY <2>1, CommandParts DEF Credentials
  <2> QED BY <1>2, <2>2 DEF SetOrDeleteKey, past
<1>3. ASSUME NEW w \in Workers, NEW s \in SessionIds, RegisterSession(w, s) PROVE KeysOK'
  BY <1>3, ResolvedIsStored DEF RegisterSession, past
<1>4. ASSUME NEW w \in Workers, ProbeEndpoint(w) PROVE KeysOK'
  <2>1. /\ job[w].on \in Providers
        /\ snap[w].endpoint[job[w].on] = job[w].at
        /\ job[w].at # None
        /\ KeyOf(job[w].on, job[w].at) # None
        /\ snap[w].endpoint[job[w].on] \in Endpoints
    BY <1>4, CommandParts, NoneIsApart DEF ProbeEndpoint, Listed, JobInv, CopiesOK, Preferences
  <2>2. [to |-> job[w].at, key |-> KeyOf(job[w].on, job[w].at)] \in Credentials
    BY <2>1, KeyOfStored
  <2> QED BY <1>4, <2>1, <2>2 DEF ProbeEndpoint
<1>5. ASSUME NEW s \in SessionIds, ServeSession(s) \/ ExpireSession(s) PROVE KeysOK'
  BY <1>5 DEF ServeSession, ExpireSession, Outbound, past
<1>6. ASSUME NEW w \in Workers, SaveFails(w) PROVE KeysOK'
  BY <1>6 DEF SaveFails
<1>7. ASSUME NEW w \in Workers, NEW p \in Providers, UpsertProvider(w, p) PROVE KeysOK'
  BY <1>7 DEF UpsertProvider, Save, past
<1>8. CASE Crash
  BY <1>8 DEF Crash
<1>9. ASSUME NEW w \in Workers,
             \/ Load(w) \/ WriteTemp(w) \/ Exists(w) \/ Remove(w) \/ Rename(w) \/ Refuse(w)
             \/ DeleteProvider(w) \/ SetActiveProvider(w) \/ SetOther(w) \/ Peek(w)
             \/ NoKeyLeaves(w) \/ Rollback(w)
      PROVE  KeysOK'
  BY <1>9 DEF Load, WriteTemp, Exists, Remove, Rename, Refuse, DeleteProvider,
              SetActiveProvider, SetOther, Peek, NoKeyLeaves, Rollback, Save, past
<1>10. CASE UNCHANGED vars
  BY <1>10 DEF vars, past
<1> QED
  BY <1>1, <1>2, <1>3, <1>4, <1>5, <1>6, <1>7, <1>8, <1>9, <1>10 DEF Next, RunCommand

-----------------------------------------------------------------------------
(* The step of what is known of a running command.                          *)

\* One command, and what the others see of its step: more keys typed.
JobFits(v) ==
    pc[v] # "idle" =>
        /\ job[v] \in Commands
        /\ pc[v] \in SavePoints => saving[v] # "none"
        /\ job[v].key # None => [to |-> job[v].at, key |-> job[v].key] \in typed
        /\ Changing(v) /\ job[v].do = "save" =>
              job[v].on \in Providers /\ snap[v].endpoint[job[v].on] = job[v].at
        /\ Changing(v) /\ job[v].do = "delete" => job[v].on \in Providers
        /\ pc[v] = "vault" => job[v].do = "delete" \/ job[v].key # None

LEMMA JobInvParts == JobInv <=> \A v \in Workers : JobFits(v)
BY DEF JobInv, JobFits

LEMMA OthersFit ==
  ASSUME JobInv, NEW v \in Workers, typed \subseteq typed',
         pc'[v] = pc[v], job'[v] = job[v], saving'[v] = saving[v], snap'[v] = snap[v]
  PROVE  JobFits(v)'
BY JobInvParts DEF JobFits, Changing

LEMMA IdleFits ==
  ASSUME NEW v \in Workers, pc'[v] = "idle"
  PROVE  JobFits(v)'
BY DEF JobFits

\* A step of one command leaves the others alone.
StepOf(w) ==
    \/ \E j \in Commands : Start(w, j)
    \/ Load(w) \/ SaveFails(w)
    \/ WriteTemp(w) \/ Exists(w) \/ Remove(w) \/ Rename(w)
    \/ RunCommand(w)
    \/ SetOrDeleteKey(w) \/ Rollback(w)

Alone(w) ==
    /\ typed \subseteq typed'
    /\ \A v \in Workers \ {w} :
         pc'[v] = pc[v] /\ job'[v] = job[v] /\ saving'[v] = saving[v] /\ snap'[v] = snap[v]

LEMMA StepsAreAlone ==
  ASSUME ControlOK, CopiesOK, JobInv, NEW w \in Workers, StepOf(w)
  PROVE  Alone(w)
<1> USE DEF Alone, Goto, Answer, ControlOK, CopiesOK
<1>1. CASE \E j \in Commands : Start(w, j) BY <1>1 DEF Start
<1>2. CASE Load(w) BY <1>2 DEF Load, past
<1>3. CASE SaveFails(w) BY <1>3 DEF SaveFails
<1>4. CASE WriteTemp(w) \/ Exists(w) BY <1>4 DEF WriteTemp, Exists, past
<1>5. CASE Remove(w) BY <1>5 DEF Remove, past, locals
<1>6. CASE Rename(w)
  <2>1. saving[w] \in {"repair", "change", "undo"}
    BY <1>6 DEF Rename, JobInv, SavePoints
  <2>2. \/ Answer(w, "ok") \/ Answer(w, "error")
        \/ (Goto(w, "run") \/ Goto(w, "vault")) /\ UNCHANGED locals
    BY <1>6, <2>1 DEF Rename, Continue
  <2>3. typed' = typed BY <1>6 DEF Rename, past
  <2> QED BY <2>2, <2>3 DEF locals
<1>7. CASE Refuse(w) \/ Peek(w) \/ NoKeyLeaves(w) BY <1>7 DEF Refuse, Peek, NoKeyLeaves, past
<1>8. CASE \E p \in Providers : UpsertProvider(w, p) BY <1>8 DEF UpsertProvider, Save, past
<1>9. CASE DeleteProvider(w) \/ SetActiveProvider(w) \/ SetOther(w)
  BY <1>9 DEF DeleteProvider, SetActiveProvider, SetOther, Save, past
<1>10. CASE \E s \in SessionIds : RegisterSession(w, s) BY <1>10 DEF RegisterSession, past
<1>11. CASE ProbeEndpoint(w) BY <1>11 DEF ProbeEndpoint
<1>12. CASE SetOrDeleteKey(w) BY <1>12 DEF SetOrDeleteKey, past
<1>13. CASE Rollback(w) BY <1>13 DEF Rollback, past
<1> QED
  BY <1>1, <1>2, <1>3, <1>4, <1>5, <1>6, <1>7, <1>8, <1>9, <1>10, <1>11, <1>12, <1>13
     DEF StepOf, RunCommand

LEMMA StepFits ==
  ASSUME ControlOK, CopiesOK, JobInv, NEW w \in Workers, StepOf(w)
  PROVE  JobFits(w)'
<1>0. JobFits(w)
  BY JobInvParts
<1> USE DEF Goto, ControlOK, CopiesOK
<1>1. ASSUME NEW j \in Commands, Start(w, j) PROVE JobFits(w)'
  BY <1>1 DEF Start, JobFits, Changing, SavePoints
<1>2. CASE Load(w)
  BY <1>0, <1>2 DEF Load, JobFits, Changing, SavePoints, past
<1>3. CASE pc'[w] = "idle"
  BY <1>3, IdleFits
<1>4. CASE WriteTemp(w) \/ Exists(w)
  BY <1>0, <1>4 DEF WriteTemp, Exists, JobFits, Changing, SavePoints, past
<1>5. CASE Remove(w)
  BY <1>0, <1>3, <1>5 DEF Remove, JobFits, Changing, SavePoints, past, locals, Answer
<1>6. CASE Rename(w)
  <2>1. saving[w] \in {"repair", "change", "undo"} /\ job[w] \in Commands
    BY <1>6 DEF Rename, JobInv, SavePoints
  <2>2. typed' = typed
    BY <1>6 DEF Rename, past
  <2>3. CASE Answer(w, "ok") \/ Answer(w, "error")
    BY <2>3, <1>3 DEF Answer
  <2>4. CASE Goto(w, "run") /\ UNCHANGED locals
    BY <1>0, <1>6, <2>2, <2>4 DEF Rename, JobFits, Changing, SavePoints, locals
  <2>5. CASE /\ saving[w] = "change"
             /\ job[w].do = "delete" \/ job[w].key # None
             /\ Goto(w, "vault") /\ UNCHANGED locals
    BY <1>0, <1>6, <2>2, <2>5 DEF Rename, JobFits, Changing, SavePoints, locals
  <2> QED BY <1>6, <2>1, <2>3, <2>4, <2>5 DEF Rename, Continue
<1>7. CASE Refuse(w) \/ Peek(w) \/ NoKeyLeaves(w) \/ ProbeEndpoint(w) \/ SetOrDeleteKey(w)
             \/ SaveFails(w) \/ \E s \in SessionIds : RegisterSession(w, s)
  BY <1>3, <1>7 DEF Refuse, Peek, NoKeyLeaves, ProbeEndpoint, SetOrDeleteKey, SaveFails,
                    RegisterSession, Answer
<1>8. ASSUME NEW p \in Providers, UpsertProvider(w, p) PROVE JobFits(w)'
  <2>1. /\ job[w] \in Commands /\ job[w].do = "save"
        /\ job[w].key # None => [to |-> job[w].at, key |-> job[w].key] \in typed
    BY <1>0, <1>8 DEF UpsertProvider, JobFits
  <2>2. job'[w] = [job[w] EXCEPT !.on = p]
    BY <1>8 DEF UpsertProvider
  <2>3. /\ job'[w] \in Commands
        /\ job'[w].do = "save" /\ job'[w].on = p
        /\ job'[w].at = job[w].at /\ job'[w].key = job[w].key
    BY <2>1, <2>2, CommandParts DEF Commands
  <2>4. snap'[w].endpoint[p] = job[w].at
    BY <1>8 DEF UpsertProvider, Save, Preferences
  <2>5. pc'[w] = "write" /\ saving'[w] = "change" /\ typed' = typed
    BY <1>8 DEF UpsertProvider, Save, past
  <2> QED BY <2>1, <2>3, <2>4, <2>5 DEF JobFits, Changing, SavePoints
<1>9. CASE DeleteProvider(w) \/ SetActiveProvider(w) \/ SetOther(w)
  <2>1. /\ job[w] \in Commands /\ job[w].do # "save"
        /\ job'[w] = job[w] /\ typed' = typed
        /\ pc'[w] = "write" /\ saving'[w] = "change"
    BY <1>0, <1>9 DEF DeleteProvider, SetActiveProvider, SetOther, Save, JobFits, past
  <2>2. job[w].do = "delete" => job[w].on \in Providers
    BY <2>1, NoneIsApart DEF Commands
  <2> QED BY <1>0, <1>9, <2>1, <2>2
      DEF DeleteProvider, SetActiveProvider, SetOther, JobFits, Changing, SavePoints
<1>10. CASE Rollback(w)
  BY <1>0, <1>10 DEF Rollback, JobFits, Changing, SavePoints, past
<1> QED
  BY <1>1, <1>2, <1>4, <1>5, <1>6, <1>7, <1>8, <1>9, <1>10 DEF StepOf, RunCommand

LEMMA JobStep ==
  ASSUME ControlOK, CopiesOK, JobInv, [Next]_vars
  PROVE  JobInv'
<1>1. ASSUME NEW w \in Workers, StepOf(w) PROVE JobInv'
  <2> SUFFICES ASSUME NEW v \in Workers PROVE JobFits(v)'
    BY JobInvParts DEF JobInv, JobFits
  <2>1. CASE v = w BY <1>1, <2>1, StepFits
  <2>2. CASE v # w BY <1>1, <2>2, StepsAreAlone, OthersFit DEF Alone
  <2> QED BY <2>1, <2>2
<1>2. ASSUME NEW s \in SessionIds, ServeSession(s) \/ ExpireSession(s) PROVE JobInv'
  BY <1>2 DEF ServeSession, ExpireSession, work, locals, past, JobInv, Changing
<1>3. CASE Crash
  BY <1>3 DEF Crash, JobInv
<1>4. CASE UNCHANGED vars
  BY <1>4 DEF vars, work, locals, past, JobInv, Changing
<1> QED BY <1>1, <1>2, <1>3, <1>4 DEF Next, StepOf

-----------------------------------------------------------------------------
(* The step of the keys.                                                    *)

LEMMA KeyStep ==
  ASSUME ControlOK, CopiesOK, KeysOK, KeyInv, [Next]_vars
  PROVE  VaultInv' /\ KeysStayWithTheirEndpoint'
<1> USE DEF KeyInv, VaultInv, KeysStayWithTheirEndpoint
<1>1. CASE UNCHANGED <<vault, sessions, sent>> /\ typed \subseteq typed'
  BY <1>1
<1>2. ASSUME NEW w \in Workers, SetOrDeleteKey(w) PROVE VaultInv' /\ KeysStayWithTheirEndpoint'
  <2>1. /\ job[w] \in Commands
        /\ job[w].do = "delete" \/ job[w].key # None
        /\ job[w].do = "save" => snap[w].endpoint[job[w].on] = job[w].at
        /\ job[w].key # None => [to |-> job[w].at, key |-> job[w].key] \in typed
    BY <1>2 DEF SetOrDeleteKey, JobInv, Changing
  <2>2. job[w].do # "delete" =>
          [to |-> snap[w].endpoint[job[w].on], key |-> job[w].key] \in typed
    BY <2>1, CommandParts
  <2> QED BY <1>2, <2>2 DEF SetOrDeleteKey, KeysOK, past
<1>3. ASSUME NEW w \in Workers, NEW s \in SessionIds, RegisterSession(w, s)
      PROVE  VaultInv' /\ KeysStayWithTheirEndpoint'
  BY <1>3, ResolvedIsStored DEF RegisterSession, KeysOK, past
<1>4. ASSUME NEW w \in Workers, ProbeEndpoint(w) PROVE VaultInv' /\ KeysStayWithTheirEndpoint'
  <2>1. /\ job[w].on \in Providers
        /\ snap[w].endpoint[job[w].on] = job[w].at
        /\ KeyOf(job[w].on, job[w].at) # None
        /\ snap[w].endpoint[job[w].on] \in Endpoints
    BY <1>4, CommandParts, NoneIsApart DEF ProbeEndpoint, Listed, JobInv, CopiesOK, Preferences
  <2>2. [to |-> job[w].at, key |-> KeyOf(job[w].on, job[w].at)] \in typed
    BY <2>1, KeyOfStored
  <2> QED BY <1>4, <2>1, <2>2 DEF ProbeEndpoint
<1>5. ASSUME NEW s \in SessionIds, ServeSession(s) \/ ExpireSession(s)
      PROVE  VaultInv' /\ KeysStayWithTheirEndpoint'
  BY <1>5, NoneIsApart DEF ServeSession, ExpireSession, KeysOK, Outbound, past
<1>6. CASE Crash
  BY <1>6, NoneIsApart DEF Crash
<1>7. ASSUME NEW w \in Workers,
             \/ \E j \in Commands : Start(w, j)
             \/ Load(w) \/ SaveFails(w) \/ WriteTemp(w) \/ Exists(w) \/ Remove(w) \/ Rename(w)
             \/ Refuse(w) \/ \E p \in Providers : UpsertProvider(w, p)
             \/ DeleteProvider(w) \/ SetActiveProvider(w) \/ SetOther(w) \/ Peek(w)
             \/ NoKeyLeaves(w) \/ Rollback(w)
      PROVE  UNCHANGED <<vault, sessions, sent>> /\ typed \subseteq typed'
  BY <1>7 DEF Start, Load, SaveFails, WriteTemp, Exists, Remove, Rename, Refuse,
              UpsertProvider, DeleteProvider, SetActiveProvider, SetOther, Peek, NoKeyLeaves,
              Rollback, Save, past
<1>8. CASE UNCHANGED vars
  BY <1>1, <1>8 DEF vars, past
<1> QED
  BY <1>1, <1>2, <1>3, <1>4, <1>5, <1>6, <1>7, <1>8 DEF Next, RunCommand

-----------------------------------------------------------------------------
(* The theorems.                                                            *)

SettingsInv == TypeOK /\ CopiesInv /\ KeyInv

\* The inductive invariant holds: whatever commands overlap, fail or are cut
\* short, the three parts keep each other.
THEOREM SettingsInvariant == Spec => []SettingsInv
<1>1. Init => SettingsInv
  <2> SUFFICES ASSUME Init PROVE SettingsInv
    OBVIOUS
  <2>1. CopiesOK /\ CopiesInv
    BY DefaultIsPreferences DEF Init, CopiesOK, CopiesInv, PrefsOrNone
  <2>2. ControlOK /\ KeysOK
    BY SettingsAssumption DEF Init, ControlOK, KeysOK
  <2>3. KeyInv
    BY NoneIsApart DEF Init, KeyInv, JobInv, VaultInv, KeysStayWithTheirEndpoint
  <2> QED BY <2>1, <2>2, <2>3, TypeParts DEF SettingsInv
<1>2. SettingsInv /\ [Next]_vars => SettingsInv'
  <2> SUFFICES ASSUME SettingsInv, [Next]_vars PROVE SettingsInv'
    OBVIOUS
  <2>1. CopiesOK /\ ControlOK /\ KeysOK /\ CopiesInv /\ KeyInv /\ JobInv
    BY TypeParts DEF SettingsInv, KeyInv
  <2>2. ControlOK' BY <2>1, ControlStep
  <2>3. CopiesOK' /\ CopiesInv' BY <2>1, CopiesStep
  <2>4. KeysOK' BY <2>1, KeysTyped
  <2>5. KeyInv' BY <2>1, JobStep, KeyStep DEF KeyInv
  <2>6. TypeOK'
    BY <2>2, <2>3, <2>4 DEF TypeOK, CopiesOK, ControlOK, KeysOK
  <2> QED BY <2>3, <2>5, <2>6 DEF SettingsInv
<1> QED BY <1>1, <1>2, PTL DEF Spec

\* The type invariant, for every set of commands, providers and keys.
THEOREM SettingsTypeCorrect == Spec => []TypeOK
<1>1. SettingsInv => TypeOK BY DEF SettingsInv
<1> QED BY <1>1, SettingsInvariant, PTL

\* A key leaves only for the endpoint it was typed for, however many commands
\* overlap and wherever they are cut short.
THEOREM KeysAreBound == Spec => []KeysStayWithTheirEndpoint
<1>1. SettingsInv => KeysStayWithTheirEndpoint BY DEF SettingsInv, KeyInv
<1> QED BY <1>1, SettingsInvariant, PTL

\* No saved file selects a provider it does not list.
THEOREM ActiveIsListed == Spec => []ActiveProviderIsListed
<1>1. SettingsInv => ActiveProviderIsListed
  BY DEF SettingsInv, CopiesInv, Selects, ActiveProviderIsListed
<1> QED BY <1>1, SettingsInvariant, PTL

-----------------------------------------------------------------------------
(* While commands run one after the other, undisturbed.                     *)

Listing(f, p) == IF f = None THEN None ELSE f.endpoint[p]
Agrees(f) == \A p \in Providers : Listing(f, p) = IF vault[p] = None THEN None ELSE vault[p].to

\* What a command changed so far is its own provider's endpoint: to none, to the one
\* its key was typed for, or not at all.
Edited(w) ==
    /\ \A p \in Providers : p # job[w].on => snap[w].endpoint[p] = orig[w].endpoint[p]
    /\ job[w].do = "delete" => snap[w].endpoint[job[w].on] = None
    /\ job[w].do # "delete" /\ job[w].key = None => snap[w].endpoint = orig[w].endpoint

\* Where the file, its copies and the credential store stand at each step of the one
\* running command.
AtHand(w) ==
    /\ pc[w] = "load" => temp = None /\ Agrees(file)
    /\ pc[w] # "load" => Agrees(orig[w])
    /\ pc[w] \in {"run", "vault"} => temp = None /\ file = snap[w]
    /\ pc[w] = "write" => temp = None
    /\ pc[w] \in {"exists", "remove", "rename"} => temp = snap[w]
    /\ pc[w] = "remove" => file # None
    /\ pc[w] = "run" \/ (pc[w] \in SavePoints /\ saving[w] # "change") => snap[w] = orig[w]
    /\ Changing(w) => Edited(w)

AtRest == temp = None /\ Agrees(file)

OneAtATime == \A v, w \in Workers : pc[v] # "idle" /\ pc[w] # "idle" => v = w

TidyInv ==
    tidy => /\ OneAtATime
            /\ Quiet => AtRest
            /\ \A w \in Workers : pc[w] # "idle" => AtHand(w)

\* What the end of a command leaves, and what any other step of it leaves.
Ends(w) == pc'[w] = "idle" =>
    /\ AtRest'
    /\ file' = IF answer'[w] = "ok" THEN snap[w] ELSE orig[w]

GoesOn(w) == pc'[w] # "idle" => AtHand(w)'

LEMMA AgreeingCopies ==
  ASSUME CopiesOK, NEW w \in Workers, NEW f \in Preferences,
         Agrees(f), snap[w].endpoint = f.endpoint
  PROVE  Agrees(snap[w])
BY NoneIsApart DEF Agrees, Listing, CopiesOK

LEMMA TidyStep ==
  ASSUME ControlOK, CopiesOK, KeysOK, CopiesInv, JobInv, NEW w \in Workers,
         pc[w] # "idle", AtHand(w), StepOf(w), tidy'
  PROVE  Ends(w) /\ GoesOn(w)
<1> USE DEF Goto, ControlOK, CopiesOK, Ends, GoesOn
<1>a. snap[w] \in Preferences /\ orig[w] \in Preferences /\ snap[w] # None /\ orig[w] # None
  BY NoneIsApart
<1>1. CASE \E j \in Commands : Start(w, j)
  BY <1>1 DEF Start
<1>2. CASE Load(w)
  <2> DEFINE r == Repaired(LoadPreferences)
  <2>1. pc[w] = "load" /\ temp = None /\ Agrees(file)
    BY <1>2 DEF Load, AtHand
  <2>2. Agrees(r) /\ (LoadPreferences.ready => r = file)
    <3>1. CASE file = None
      <4>1. r.endpoint = [p \in Providers |-> None] /\ ~LoadPreferences.ready
        BY <3>1 DEF LoadPreferences, DefaultPreferences, Repaired
      <4>2. r # None
        BY NoneIsApart, LoadedIsPreferences
      <4> QED BY <2>1, <3>1, <4>1, <4>2 DEF Agrees, Listing
    <3>2. CASE file # None
      <4>1. file \in Preferences /\ Selects(file)
        BY <3>2 DEF PrefsOrNone, CopiesInv
      <4>2. LoadPreferences = file
        BY <3>2, <4>1 DEF LoadPreferences, Normalize, Selects
      <4>3. r = [file EXCEPT !.ready = TRUE]
        BY <4>2 DEF Repaired
      <4>4. r.endpoint = file.endpoint /\ (file.ready => r = file)
        BY <4>1, <4>3 DEF Preferences
      <4>5. r # None
        BY NoneIsApart, LoadedIsPreferences
      <4> QED BY <2>1, <3>2, <4>2, <4>4, <4>5 DEF Agrees, Listing
    <3> QED BY <3>1, <3>2
  <2>3. /\ UNCHANGED <<file, temp, vault, job>> /\ snap'[w] = r /\ orig'[w] = r
        /\ \/ LoadPreferences.ready /\ pc'[w] = "run"
           \/ pc'[w] = "write" /\ saving'[w] = "repair"
    BY <1>2 DEF Load, disk
  <2>4. Agrees(orig[w])'
    BY <2>2, <2>3 DEF Agrees, Listing
  <2> QED BY <2>1, <2>2, <2>3, <2>4 DEF AtHand, Changing, SavePoints
<1>3. CASE SaveFails(w)
  BY <1>3 DEF SaveFails
<1>4. CASE WriteTemp(w) \/ Exists(w)
  <2>1. /\ UNCHANGED <<file, vault, job, snap, orig, saving>>
        /\ \/ pc[w] = "write" /\ pc'[w] = "exists" /\ temp' = snap[w]
           \/ /\ pc[w] = "exists" /\ UNCHANGED temp
              /\ pc'[w] = IF file = None THEN "rename" ELSE "remove"
    BY <1>4 DEF WriteTemp, Exists, disk
  <2>2. Agrees(orig[w])' /\ (Changing(w)' => Edited(w)')
    BY <2>1 DEF AtHand, Agrees, Changing, Edited, SavePoints
  <2> QED BY <2>1, <2>2 DEF AtHand, SavePoints
<1>5. CASE Remove(w)
  <2>1. /\ pc[w] = "remove" /\ pc'[w] = "rename"
        /\ UNCHANGED <<temp, vault, job, snap, orig, saving>>
    BY <1>5 DEF Remove, AtHand, locals
  <2>2. Agrees(orig[w])' /\ (Changing(w)' => Edited(w)')
    BY <2>1 DEF AtHand, Agrees, Changing, Edited, SavePoints
  <2> QED BY <2>1, <2>2 DEF AtHand, SavePoints
<1>6. CASE Rename(w)
  <2>1. /\ pc[w] = "rename" /\ temp = snap[w] /\ Agrees(orig[w])
        /\ saving[w] \in {"repair", "change", "undo"} /\ job[w] \in Commands
    BY <1>6 DEF Rename, AtHand, JobInv, SavePoints
  <2>2. file' = snap[w] /\ temp' = None /\ Continue(w) /\ UNCHANGED vault
    BY <1>6, <1>a, <2>1 DEF Rename
  <2>3. CASE saving[w] = "repair"
    <3>1. snap[w] = orig[w] /\ pc'[w] = "run" /\ UNCHANGED <<snap, orig, job>>
      BY <2>1, <2>2, <2>3 DEF AtHand, SavePoints, Continue, locals
    <3>2. Agrees(orig[w])'
      BY <2>1, <2>2, <3>1 DEF Agrees
    <3> QED BY <2>2, <3>1, <3>2 DEF AtHand, Changing, SavePoints
  <2>4. CASE saving[w] = "undo"
    <3>1. snap[w] = orig[w] /\ pc'[w] = "idle" /\ answer'[w] = "error"
      BY <2>1, <2>2, <2>4 DEF AtHand, SavePoints, Continue, Answer
    <3>2. Agrees(file)'
      BY <2>1, <2>2, <3>1 DEF Agrees
    <3> QED BY <2>2, <3>1, <3>2 DEF AtRest
  <2>5. CASE saving[w] = "change" /\ ~(job[w].do = "delete" \/ job[w].key # None)
    <3>1. pc'[w] = "idle" /\ answer'[w] = "ok"
      BY <2>2, <2>5 DEF Continue, Answer
    <3>2. snap[w].endpoint = orig[w].endpoint
      BY <2>1, <2>5 DEF AtHand, Changing, Edited, SavePoints
    <3>3. Agrees(snap[w])
      BY <1>a, <2>1, <3>2, AgreeingCopies
    <3>4. Agrees(file)'
      BY <2>2, <3>3 DEF Agrees
    <3> QED BY <2>2, <3>1, <3>4 DEF AtRest
  <2>6. CASE saving[w] = "change" /\ (job[w].do = "delete" \/ job[w].key # None)
    <3>1. pc'[w] = "vault" /\ UNCHANGED <<job, snap, orig>>
      BY <2>2, <2>6 DEF Continue, locals
    <3>2. Agrees(orig[w])' /\ Edited(w)'
      BY <2>1, <2>2, <2>6, <3>1 DEF AtHand, Agrees, Changing, Edited, SavePoints
    <3> QED BY <2>2, <3>1, <3>2 DEF AtHand, SavePoints
  <2> QED BY <2>1, <2>3, <2>4, <2>5, <2>6
<1>7. CASE Refuse(w) \/ Peek(w) \/ NoKeyLeaves(w) \/ ProbeEndpoint(w)
             \/ \E s \in SessionIds : RegisterSession(w, s)
  <2>1. pc[w] = "run" /\ pc'[w] = "idle" /\ UNCHANGED <<file, temp, vault>>
    BY <1>7 DEF Refuse, Peek, NoKeyLeaves, ProbeEndpoint, RegisterSession, Answer, disk
  <2>2. temp = None /\ file = snap[w] /\ snap[w] = orig[w] /\ Agrees(orig[w])
    BY <2>1 DEF AtHand
  <2> QED BY <2>1, <2>2 DEF AtRest, Agrees
<1>8. ASSUME NEW f \in Preferences, Save(w, f), pc[w] = "run",
             UNCHANGED vault, Edited(w)'
      PROVE  Ends(w) /\ GoesOn(w)
  <2>1. /\ pc'[w] = "write" /\ saving'[w] = "change" /\ UNCHANGED <<temp, orig>>
    BY <1>8 DEF Save, disk
  <2>2. temp = None /\ Agrees(orig[w])
    BY <1>8 DEF AtHand
  <2>3. Agrees(orig[w])'
    BY <1>8, <2>1, <2>2 DEF Agrees
  <2> QED BY <1>8, <2>1, <2>2, <2>3 DEF AtHand, Changing, SavePoints
<1>9. ASSUME NEW p \in Providers, UpsertProvider(w, p) PROVE Ends(w) /\ GoesOn(w)
  <2> DEFINE a == job[w].on
             g == [snap[w] EXCEPT !.endpoint[p] = job[w].at, !.mode = "api",
                                  !.active = IF a = None /\ @ = None THEN p ELSE @]
  <2>1. /\ pc[w] = "run" /\ job[w] \in Commands /\ job[w].do = "save" /\ ~Refuses(w)
        /\ a # None => p = a
        /\ job' = [job EXCEPT ![w].on = p] /\ Save(w, g)
    BY <1>9 DEF UpsertProvider, JobInv
  <2>2. job[w].at \in Endpoints /\ a \in Providers \cup {None}
    BY <2>1, CommandParts
  <2>3. g \in Preferences /\ g.endpoint = [snap[w].endpoint EXCEPT ![p] = job[w].at]
    BY <1>a, <2>2 DEF Preferences
  <2>4. job'[w].on = p /\ job'[w].do = "save" /\ job'[w].key = job[w].key
    BY <2>1 DEF Commands
  <2>5. snap'[w] = g /\ orig'[w] = orig[w] /\ snap[w] = orig[w] /\ vault' = vault
    BY <2>1 DEF Save, AtHand
  <2>6. job[w].key = None => a # None /\ snap[w].endpoint[p] = job[w].at
    BY <2>1 DEF Refuses
  <2>7. job[w].key = None => g.endpoint = snap[w].endpoint
    BY <1>a, <2>3, <2>6 DEF Preferences
  <2>8. Edited(w)'
    BY <1>a, <2>3, <2>4, <2>5, <2>7 DEF Edited, Preferences
  <2> QED BY <1>8, <2>1, <2>3, <2>5, <2>8
<1>10. CASE DeleteProvider(w)
  <2> DEFINE d == [snap[w] EXCEPT !.endpoint[job[w].on] = None,
                                  !.active = IF @ = job[w].on THEN None ELSE @]
  <2>1. /\ pc[w] = "run" /\ job[w] \in Commands /\ job[w].do = "delete" /\ ~Refuses(w)
        /\ job' = job /\ Save(w, d)
    BY <1>10 DEF DeleteProvider, JobInv
  <2>2. job[w].on \in Providers
    BY <2>1, CommandParts DEF Refuses, Listed
  <2>3. d \in Preferences /\ d.endpoint = [snap[w].endpoint EXCEPT ![job[w].on] = None]
    BY <1>a DEF Preferences
  <2>4. snap'[w] = d /\ orig'[w] = orig[w] /\ snap[w] = orig[w] /\ vault' = vault
    BY <2>1 DEF Save, AtHand
  <2>5. Edited(w)'
    BY <1>a, <2>1, <2>2, <2>3, <2>4 DEF Edited, Preferences
  <2> QED BY <1>8, <2>1, <2>3, <2>4, <2>5
<1>11. ASSUME NEW f \in Preferences, Save(w, f), f.endpoint = snap[w].endpoint,
              pc[w] = "run", job' = job, job[w].do # "delete"
       PROVE  Ends(w) /\ GoesOn(w)
  <2>1. snap'[w] = f /\ orig'[w] = orig[w] /\ snap[w] = orig[w] /\ vault' = vault
    BY <1>11 DEF Save, AtHand
  <2>2. Edited(w)'
    BY <1>11, <2>1 DEF Edited
  <2> QED BY <1>8, <1>11, <2>1, <2>2
<1>12. CASE SetActiveProvider(w)
  <2> DEFINE c == [snap[w] EXCEPT !.active = job[w].on, !.mode = "api"]
  <2>1. /\ pc[w] = "run" /\ job[w].do = "activate" /\ job[w] \in Commands /\ job' = job
        /\ Save(w, c)
    BY <1>12 DEF SetActiveProvider, JobInv
  <2>2. c \in Preferences /\ c.endpoint = snap[w].endpoint
    BY <1>a, <2>1, CommandParts DEF Preferences
  <2> QED BY <1>11, <2>1, <2>2
<1>13. CASE SetOther(w)
  <2> DEFINE l(m) == [snap[w] EXCEPT !.mode = m]
             t == [snap[w] EXCEPT !.tools = ~@]
  <2>1. /\ t \in Preferences /\ t.endpoint = snap[w].endpoint
        /\ \A m \in {"local", "api"} : l(m) \in Preferences /\ l(m).endpoint = snap[w].endpoint
    BY <1>a DEF Preferences
  <2>2. /\ pc[w] = "run" /\ job[w].do \in {"mode", "tools"} /\ job' = job
        /\ (\E m \in {"local", "api"} : Save(w, l(m))) \/ Save(w, t)
    BY <1>13 DEF SetOther
  <2> QED BY <1>11, <2>1, <2>2
<1>14. CASE SetOrDeleteKey(w)
  <2>1. /\ pc[w] = "vault" /\ job[w] \in Commands
        /\ job[w].do = "delete" \/ job[w].key # None
        /\ job[w].do \in {"save", "delete"} => job[w].on \in Providers
        /\ job[w].do = "save" => snap[w].endpoint[job[w].on] = job[w].at
    BY <1>14 DEF SetOrDeleteKey, JobInv, Changing
  <2>2. job[w].do \in {"save", "delete"} /\ job[w].on \in Providers
    BY <2>1, CommandParts
  <2>3. temp = None /\ file = snap[w] /\ Agrees(orig[w]) /\ Edited(w)
    BY <2>1 DEF AtHand, Changing
  <2>4. UNCHANGED <<file, temp>> /\ pc'[w] = "idle" /\ answer'[w] = "ok"
    BY <1>14 DEF SetOrDeleteKey, Answer, disk
  <2> DEFINE k == IF job[w].do = "delete" THEN None
                  ELSE [to |-> snap[w].endpoint[job[w].on], key |-> job[w].key]
  <2>5. vault' = [vault EXCEPT ![job[w].on] = k]
    BY <1>14 DEF SetOrDeleteKey
  <2>6. k = None <=> job[w].do = "delete"
    <3>1. job[w].do # "delete" => k \in Credentials
      BY <2>1, <2>2, CommandParts DEF Credentials
    <3> QED BY <3>1, NoneIsApart
  <2>7. Agrees(file)'
    <3> SUFFICES ASSUME NEW p \in Providers
                 PROVE  snap[w].endpoint[p] = IF vault'[p] = None THEN None ELSE vault'[p].to
      BY <1>a, <2>3, <2>4 DEF Agrees, Listing
    <3>1. CASE p # job[w].on
      BY <1>a, <2>3, <2>5, <3>1 DEF Agrees, Listing, Edited
    <3>2. CASE p = job[w].on
      <4>1. vault'[p] = k
        BY <2>5, <3>2 DEF KeysOK
      <4>2. CASE job[w].do = "delete"
        BY <2>3, <3>2, <4>1, <4>2 DEF Edited
      <4>3. CASE job[w].do # "delete"
        BY <2>6, <3>2, <4>1, <4>3
      <4> QED BY <4>2, <4>3
    <3> QED BY <3>1, <3>2
  <2> QED BY <2>3, <2>4, <2>7 DEF AtRest
<1>15. CASE Rollback(w)
  <2>1. /\ pc[w] = "vault" /\ pc'[w] = "write" /\ saving'[w] = "undo"
        /\ UNCHANGED <<file, temp, vault, job, orig>> /\ snap'[w] = orig[w]
    BY <1>15 DEF Rollback, disk
  <2>2. Agrees(orig[w])' /\ temp = None
    BY <2>1 DEF AtHand, Agrees
  <2> QED BY <2>1, <2>2 DEF AtHand, Changing, SavePoints
<1> QED
  BY <1>1, <1>2, <1>3, <1>4, <1>5, <1>6, <1>7, <1>9, <1>10, <1>12, <1>13, <1>14, <1>15
     DEF StepOf, RunCommand

\* A step of one command while the others are idle keeps the rest of the invariant.
LEMMA TidyKept ==
  ASSUME TypeOK, CopiesInv, JobInv, TidyInv, [Next]_vars
  PROVE  TidyInv'
<1> SUFFICES ASSUME tidy' PROVE /\ OneAtATime' /\ (Quiet' => AtRest')
                                /\ \A w \in Workers : pc'[w] # "idle" => AtHand(w)'
  BY DEF TidyInv
<1>0. ControlOK /\ CopiesOK /\ KeysOK
  BY TypeParts
<1>1. ASSUME NEW w \in Workers, NEW j \in Commands, Start(w, j)
      PROVE  /\ OneAtATime' /\ (Quiet' => AtRest')
             /\ \A v \in Workers : pc'[v] # "idle" => AtHand(v)'
  <2>1. /\ Quiet /\ AtRest
        /\ pc' = [pc EXCEPT ![w] = "load"] /\ UNCHANGED <<file, temp, vault>>
    BY <1>1 DEF Start, Goto, Quiet, TidyInv, disk
  <2>2. pc'[w] = "load" /\ \A v \in Workers \ {w} : pc'[v] = "idle"
    BY <1>0, <2>1 DEF ControlOK, Quiet
  <2>3. AtHand(w)'
    BY <2>1, <2>2 DEF AtHand, AtRest, Agrees, Changing, SavePoints
  <2> QED BY <2>2, <2>3 DEF OneAtATime, Quiet
<1>2. ASSUME NEW w \in Workers, StepOf(w), pc[w] # "idle"
      PROVE  /\ OneAtATime' /\ (Quiet' => AtRest')
             /\ \A v \in Workers : pc'[v] # "idle" => AtHand(v)'
  <2>1. tidy
    BY <1>2 DEF StepOf, RunCommand, Start, Load, SaveFails, WriteTemp, Exists, Remove, Rename,
       Refuse, UpsertProvider, DeleteProvider, SetActiveProvider, SetOther, Peek,
       RegisterSession, ProbeEndpoint, NoKeyLeaves, SetOrDeleteKey, Rollback, Save, past
  <2>2. AtHand(w) /\ \A v \in Workers \ {w} : pc[v] = "idle"
    BY <1>2, <2>1 DEF TidyInv, OneAtATime
  <2>3. Ends(w) /\ GoesOn(w)
    BY <1>0, <1>2, <2>2, TidyStep
  <2>4. \A v \in Workers \ {w} : pc'[v] = "idle"
    BY <1>0, <1>2, <2>2, StepsAreAlone DEF Alone
  <2> QED BY <2>3, <2>4 DEF Ends, GoesOn, OneAtATime, Quiet
<1>3. CASE UNCHANGED <<pc, file, temp, vault, job, snap, orig, saving, tidy>>
  BY <1>3 DEF TidyInv, OneAtATime, Quiet, AtRest, Agrees, AtHand, Changing, Edited
<1>4. ASSUME NEW s \in SessionIds, ServeSession(s) \/ ExpireSession(s)
      PROVE  UNCHANGED <<pc, file, temp, vault, job, snap, orig, saving, tidy>>
  BY <1>4 DEF ServeSession, ExpireSession, disk, work, locals, past
<1>5. CASE Crash
  BY <1>5 DEF Crash
<1>6. CASE UNCHANGED vars
  BY <1>3, <1>6 DEF vars, disk, work, locals, past
<1>7. ASSUME NEW w \in Workers, StepOf(w), pc[w] = "idle"
      PROVE  \E j \in Commands : Start(w, j)
  BY <1>7 DEF StepOf, RunCommand, Load, SaveFails, WriteTemp, Exists, Remove, Rename,
     Refuse, UpsertProvider, DeleteProvider, SetActiveProvider, SetOther, Peek,
     RegisterSession, ProbeEndpoint, NoKeyLeaves, SetOrDeleteKey, Rollback
<1> QED
  BY <1>1, <1>2, <1>3, <1>4, <1>5, <1>6, <1>7 DEF Next, StepOf

\* As long as commands ran one after the other, undisturbed, file, temporary file, copies
\* and credential store stand as AtHand and AtRest say.
THEOREM TidyInvariant == Spec => []TidyInv
<1>1. Init => TidyInv
  BY DEF Init, TidyInv, OneAtATime, Quiet, AtRest, Agrees, Listing
<1>2. SettingsInv /\ TidyInv /\ [Next]_vars => TidyInv'
  BY TidyKept DEF SettingsInv, KeyInv
<1> QED BY <1>1, <1>2, SettingsInvariant, PTL DEF Spec

\* Between undisturbed commands, the providers of the file are the ones that have a key,
\* for the endpoint the file gives them.
THEOREM ProvidersHaveTheirKey == Spec => []ListedProvidersHaveTheirKey
<1>1. TidyInv => ListedProvidersHaveTheirKey
  BY DEF TidyInv, AtRest, Agrees, Listing, Stored, ListedProvidersHaveTheirKey
<1> QED BY <1>1, TidyInvariant, PTL

\* An undisturbed command that fails leaves the preferences it found, and one that answers
\* "ok" the ones it shows, the rollback after a refused keyring operation included.
THEOREM CommandsLeaveNothingHalfDone == Spec => CommandsAreAllOrNothing
<1>1. SettingsInv /\ TidyInv /\ [Next]_vars
        => [\A w \in Workers :
              /\ tidy /\ tidy'
              /\ pc[w] # "idle" /\ pc'[w] = "idle"
              => /\ file' = IF answer'[w] = "ok" THEN snap[w] ELSE orig[w]
                 /\ temp' = None]_vars
  <2> SUFFICES ASSUME SettingsInv, TidyInv, [Next]_vars, NEW w \in Workers,
                      tidy, tidy', pc[w] # "idle", pc'[w] = "idle"
               PROVE  /\ file' = IF answer'[w] = "ok" THEN snap[w] ELSE orig[w]
                      /\ temp' = None
    OBVIOUS
  <2>1. ControlOK /\ CopiesOK /\ KeysOK /\ CopiesInv /\ JobInv
    BY TypeParts DEF SettingsInv, KeyInv
  <2>2. AtHand(w) /\ \A v \in Workers \ {w} : pc[v] = "idle"
    BY DEF TidyInv, OneAtATime
  <2>3. ASSUME NEW v \in Workers, StepOf(v) PROVE v = w
    BY <2>1, <2>3, StepsAreAlone DEF Alone
  <2>4. ASSUME NEW s \in SessionIds PROVE ~(ServeSession(s) \/ ExpireSession(s))
    BY DEF ServeSession, ExpireSession, work
  <2>5. ~Crash /\ ~UNCHANGED vars
    BY DEF Crash, vars, work
  <2>6. StepOf(w)
    BY <2>3, <2>4, <2>5 DEF Next, StepOf
  <2> QED BY <2>1, <2>2, <2>6, TidyStep DEF Ends, AtRest
<1> QED BY <1>1, SettingsInvariant, TidyInvariant, PTL DEF Spec, CommandsAreAllOrNothing
=============================================================================
