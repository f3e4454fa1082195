----------------------------- MODULE NodeCatalog -----------------------------
(***************************************************************************)
(* What plans are made of and what tools may do: the resolver that gives   *)
(* a plan step its catalog node (node_catalog_resolver.py), the permission *)
(* gate of the graph executor (permission_gate.py) and the authority the   *)
(* tool gateway asks before it hands a call to a provider (authority.py).  *)
(***************************************************************************)
EXTENDS Naturals, Sequences, FiniteSets

CONSTANTS
    Catalog,        \* NodeCatalogSnapshot.nodes, in order
    Tools,          \* ToolRegistry: tool id -> what its manifest declares
    Permissions,    \* permission names
    Sensitive,      \* SENSITIVE_PERMISSIONS
    DefaultAllowed, \* DEFAULT_ALLOWED_PERMISSIONS
    Generic,        \* the capability "model.reasoning"
    NoTool

ToolIds == DOMAIN Tools
CatalogIds == {Catalog[i].id : i \in DOMAIN Catalog}

\* What is known of a tool: its permissions, whether its policy opens the network, which
\* attachments its arguments take, the outputs its arguments are mapped from (of a node
\* by name, or of the "first" dependency) and the keys of its own output.
ToolSpec ==
    [perms: SUBSET Permissions, network: BOOLEAN, attachments: {"none", "all", "each"},
     needs: SUBSET [from: STRING, key: STRING], gives: SUBSET STRING]

Kinds == {"tool", "model", "output", "human", "verifier"}
CatalogNode ==
    [id: STRING, caps: SUBSET STRING, kind: Kinds, tool: ToolIds \cup {NoTool},
     perms: SUBSET Permissions, ports: SUBSET STRING, risk: 0..2, available: BOOLEAN]

ASSUME CatalogAssumption ==
    /\ NoTool \notin ToolIds
    /\ Tools \in [ToolIds -> ToolSpec]
    /\ Catalog \in Seq(CatalogNode)
    /\ \A i \in DOMAIN Catalog :
          /\ (Catalog[i].kind = "tool") <=> (Catalog[i].tool # NoTool)
          /\ Catalog[i].kind = "tool" => Catalog[i].perms = Tools[Catalog[i].tool].perms
    /\ Sensitive \subseteq Permissions
    /\ DefaultAllowed \subseteq Permissions \ Sensitive
    /\ Generic \in STRING

----------------------------------------------------------------------------
(* Resolving a step.                                                       *)

Available == {i \in DOMAIN Catalog : Catalog[i].available}
Matches(i, capability) ==
    capability = Catalog[i].id \/ capability \in Catalog[i].caps

\* available_capabilities of the snapshot.
AvailableCapabilities ==
    UNION {{Catalog[i].id} \cup Catalog[i].caps : i \in Available}

\* A step that names nothing is a reasoning step, and reasoning is implied wherever
\* something else is named.
Required(caps) ==
    IF caps = {} THEN {Generic}
    ELSE IF Cardinality(caps) > 1 THEN caps \ {Generic} ELSE caps

Candidates(caps) ==
    {i \in Available : \A c \in Required(caps) : Matches(i, c)}

\* NodeCatalogResolver.resolve, where Candidates(caps) is not empty: the first preferred
\* node that is a candidate; else of the candidates named themselves, or of all when none
\* is, the first of least risk.
Least(S) == CHOOSE m \in S : \A k \in S : m <= k
Direct(caps) == {i \in Candidates(caps) : Catalog[i].id \in Required(caps)}
Pool(caps) == IF Direct(caps) # {} THEN Direct(caps) ELSE Candidates(caps)
Safest(caps) ==
    {i \in Pool(caps) : \A k \in Pool(caps) : Catalog[i].risk <= Catalog[k].risk}
Wanted(caps, prefs) ==
    {p \in DOMAIN prefs : \E i \in Candidates(caps) : Catalog[i].id = prefs[p]}
Resolve(caps, prefs) ==
    IF Wanted(caps, prefs) # {}
    THEN Least({i \in Candidates(caps) : Catalog[i].id = prefs[Least(Wanted(caps, prefs))]})
    ELSE Least(Safest(caps))

----------------------------------------------------------------------------
(* Permission to use a tool.                                               *)

\* PermissionGate.denied_permissions of a node, whose required permissions are its own
\* and those of its tool.
NeededBy_NodeOnly(perms, tool) == perms
NeededBy(perms, tool) == perms \cup (IF tool \in ToolIds THEN Tools[tool].perms ELSE {})
GateDenies(perms, tool, approved) ==
    NeededBy(perms, tool) \ (DefaultAllowed \cup approved)

\* authorize_tool_invocation: the grants' list of tools, the sensitive permissions, the
\* network domain, the paths, in this order.  A call names a domain only in metadata.
AuthorityCode(tool, context, call) ==
    IF context.toolIds # {} /\ tool \notin context.toolIds THEN "tool_denied"
    ELSE IF ~(((Tools[tool].perms \cup call.asks) \cap Sensitive) \subseteq context.approved)
         THEN "permission_denied"
    ELSE IF call.domain = "none" /\ ("network" \in Tools[tool].perms \/ Tools[tool].network)
         THEN "network_domain_required"
    ELSE IF call.domain # "none" /\ call.domain \notin context.domains
         THEN "network_domain_denied"
    ELSE IF ~call.inside THEN "path_denied"
    ELSE "allowed"
=============================================================================
