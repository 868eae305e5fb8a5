----------------------------- MODULE SecurityCenter -----------------------------
(***************************************************************************)
(* The security centre: its overview of security events, and the registry  *)
(* of nodes its operators keep.  The two have no state in common.          *)
(***************************************************************************)
EXTENDS Integers, FiniteSets

-----------------------------------------------------------------------------
(***************************************************************************)
(* The security centre (SecurityCenter.jsx) and the security events of the *)
(* node (Backend/internal/security).  loadData asks for five answers one   *)
(* after the other; it runs when the page opens, again when the roles have *)
(* arrived, and after every acknowledgement.  Nothing cancels a run that   *)
(* is still under way.                                                      *)
(***************************************************************************)
CONSTANTS Events,     \* warnings (severity above "low") that happen or have happened
          Before,     \* those that happened before the page was opened
          Roles,      \* roles the user may hold
          Fails,      \* requests may fail
          MaxAcks,    \* bound: acknowledgements the user sends
          MaxFlight,  \* bound: requests under way when the user acts
          None

CentreAssumption ==
    /\ IsFiniteSet(Events) /\ Before \subseteq Events /\ Roles \subseteq {"user", "node_operator"}
    /\ Fails \in BOOLEAN /\ {MaxAcks, MaxFlight} \subseteq Nat

VARIABLES node,   \* event -> "none", "open" or "acknowledged"
          role,   \* role of the user
          page,   \* what SecurityCenter holds
          reqs,   \* requests under way: at most one of each run of loadData
          acks,   \* acknowledgements sent so far
          ghost
centerVars == <<node, role, page, reqs, acks, ghost>>

States == {"none", "open", "acknowledged"}
Tabs == {"status", "events", "passport", "node_operator", "node_system"}
Chain == {"summary", "events", "nodeSummary", "nodeEvents", "registry"}

(* What an answer tells: the number of open warnings, the list of events, *)
(* or whether the node permits the request.                               *)
Finds(op) == CASE op = "summary" -> 0..Cardinality(Events)
               [] op = "events" -> [Events -> States]
               [] op = "roles" -> Roles
               [] OTHER -> BOOLEAN

CenterTypeOK ==
    /\ node \in [Events -> States] /\ role \in Roles /\ acks \in 0..MaxAcks
    /\ page.tab \in Tabs /\ page.events \in [Events -> States] /\ page.summary \in {None} \cup (0..Cardinality(Events))
    /\ {page.loading, page.access, page.nodeData, page.nodeError, page.registry, page.role} \subseteq BOOLEAN
    /\ \A r \in reqs : /\ r.op \in Chain \cup {"roles", "ack"} /\ r.run \in 0..(MaxAcks + 2)
                       /\ (r.served => r.found \in Finds(r.op))
    /\ ghost \in [plain : BOOLEAN, lost : BOOLEAN, said : SUBSET Events]

Req(op, run, ev) == [op |-> op, run |-> run, event |-> ev, served |-> FALSE, found |-> None]

(* The page opens: both effects run. *)
CenterInit ==
    /\ node = [e \in Events |-> IF e \in Before THEN "open" ELSE "none"] /\ role \in Roles /\ acks = 0
    /\ page = [tab |-> "status", summary |-> None, events |-> [e \in Events |-> "none"], loading |-> TRUE,
               access |-> FALSE, nodeData |-> FALSE, nodeError |-> FALSE, registry |-> FALSE, role |-> FALSE]
    /\ reqs = {Req("roles", 0, None), Req("summary", 1, None)}
    /\ ghost = [plain |-> TRUE, lost |-> FALSE, said |-> {}]

-----------------------------------------------------------------------------
(* What the page shows. *)

IsOperator == page.role \/ page.access

(* Tabs offered. *)
TabOffered(t) ==
    CASE t = "node_operator" -> IsOperator \/ page.nodeError
      [] t = "node_system" -> IsOperator
      [] OTHER -> TRUE

(* The head of the status tab. *)
SecuredShown == ~page.loading /\ page.tab = "status" /\ page.summary = 0

(* The open warnings under it, each with a button. *)
OpenWarnings == IF page.loading THEN {} ELSE {e \in Events : page.events[e] = "open"}

(* The log of events, where those not yet acknowledged have a button, too. *)
LogShown == ~page.loading /\ page.tab = "events"

(* The panel of the node's figures, and the one that says why there are none. *)
NodePanel == ~page.loading /\ page.tab = "node_operator" /\ IsOperator /\ page.nodeData
NodeRefusal == ~page.loading /\ page.tab = "node_operator" /\ page.nodeError /\ ~page.nodeData

-----------------------------------------------------------------------------
SelectTab(t) ==
    /\ TabOffered(t) /\ t # page.tab /\ page' = [page EXCEPT !.tab = t]
    /\ UNCHANGED <<node, role, reqs, acks, ghost>>

(* handleAcknowledge up to its await, from the status tab or from the log. *)
HandleAcknowledge(e) ==
    /\ acks < MaxAcks /\ Cardinality(reqs) < MaxFlight
    /\ e \in OpenWarnings /\ (page.tab = "status" \/ LogShown)
    /\ acks' = acks + 1 /\ reqs' = reqs \cup {Req("ack", acks + 3, e)}
    /\ ghost' = [ghost EXCEPT !.plain = @ /\ reqs = {}]
    /\ UNCHANGED <<node, role, page>>

-----------------------------------------------------------------------------
(* The node. *)

Open == {e \in Events : node[e] = "open"}

(* GetMySummary, GetMyEvents; GetNodeSummary, GetNodeEvents and the registry's *)
(* GetSummary only for an operator.                                            *)
Found(r) == CASE r.op = "summary" -> Cardinality(Open)
              [] r.op = "events" -> node
              [] r.op = "roles" -> role
              [] OTHER -> role = "node_operator"

Serve(r) ==
    /\ ~r.served
    /\ node' = IF r.op = "ack" THEN [node EXCEPT ![r.event] = "acknowledged"] ELSE node
    /\ reqs' = (reqs \ {r}) \cup {[r EXCEPT !.served = TRUE, !.found = IF r.op = "ack" THEN TRUE ELSE Found(r)]}
    /\ UNCHANGED <<role, page, acks, ghost>>

(* Something happens that the node records. *)
Happens(e) ==
    /\ node[e] = "none" /\ node' = [node EXCEPT ![e] = "open"]
    /\ UNCHANGED <<role, page, reqs, acks, ghost>>

-----------------------------------------------------------------------------
(* The answers. *)

Takes(r, p, next) == page' = p /\ reqs' = (reqs \ {r}) \cup next
Returns(r, op) == r.op = op /\ r.served

(* loadData up to its first await. *)
LoadBegins(p) == [p EXCEPT !.loading = TRUE]

(* The roles arrive; the effect on them runs loadData once more. *)
RolesArrive(r) ==
    /\ Returns(r, "roles")
    /\ Takes(r, LoadBegins([page EXCEPT !.role = r.found = "node_operator"]), {Req("summary", 2, None)})
    /\ UNCHANGED <<node, role, acks, ghost>>

SummaryArrives(r) ==
    /\ Returns(r, "summary") /\ Takes(r, [page EXCEPT !.summary = r.found], {Req("events", r.run, None)})
    /\ UNCHANGED <<node, role, acks, ghost>>

EventsArrive(r) ==
    /\ Returns(r, "events") /\ Takes(r, [page EXCEPT !.events = r.found], {Req("nodeSummary", r.run, None)})
    /\ UNCHANGED <<node, role, acks, ghost>>

(* The catch of the inner try: no access, no figures, an error; loading ends. *)
Refused == [page EXCEPT !.access = FALSE, !.nodeData = FALSE, !.nodeError = TRUE, !.loading = FALSE]

NodeSummaryArrives(r) ==
    /\ Returns(r, "nodeSummary")
    /\ IF r.found THEN Takes(r, [page EXCEPT !.nodeData = TRUE], {Req("nodeEvents", r.run, None)})
                  ELSE Takes(r, Refused, {})
    /\ UNCHANGED <<node, role, acks, ghost>>

NodeEventsArrive(r) ==
    /\ Returns(r, "nodeEvents")
    /\ IF r.found THEN Takes(r, page, {Req("registry", r.run, None)}) ELSE Takes(r, Refused, {})
    /\ UNCHANGED <<node, role, acks, ghost>>

(* The end of loadData; the registry may be missing. *)
Finished(registry) == [page EXCEPT !.registry = registry, !.access = TRUE, !.nodeError = FALSE, !.loading = FALSE]

RegistryArrives(r) ==
    /\ Returns(r, "registry") /\ Takes(r, Finished(r.found), {})
    /\ UNCHANGED <<node, role, acks, ghost>>

(* Deviant: an acknowledgement is not followed by a load. *)
AcknowledgedArrivesOnly(r) ==
    /\ Returns(r, "ack") /\ Takes(r, page, {})
    /\ ghost' = [ghost EXCEPT !.said = @ \cup {r.event}]
    /\ UNCHANGED <<node, role, acks>>

(* handleAcknowledge after its await. *)
AcknowledgedArrives(r) ==
    /\ Returns(r, "ack") /\ Takes(r, LoadBegins(page), {Req("summary", r.run, None)})
    /\ ghost' = [ghost EXCEPT !.said = @ \cup {r.event}]
    /\ UNCHANGED <<node, role, acks>>

(* What a failure does to the page: the registry's is caught by itself, the *)
(* node's by the inner try, the others end the load.                        *)
Failed(r) == CASE r.op \in {"roles", "ack"} -> page
               [] r.op \in {"summary", "events"} -> [page EXCEPT !.loading = FALSE]
               [] r.op \in {"nodeSummary", "nodeEvents"} -> Refused
               [] OTHER -> Finished(FALSE)

RequestFails(r) ==
    /\ Fails /\ Takes(r, Failed(r), {})
    /\ ghost' = [ghost EXCEPT !.lost = TRUE]
    /\ UNCHANGED <<node, role, acks>>

Answer(r) ==
    \/ RolesArrive(r) \/ SummaryArrives(r) \/ EventsArrive(r) \/ NodeSummaryArrives(r) \/ NodeEventsArrive(r)
    \/ RegistryArrives(r) \/ AcknowledgedArrives(r)

(* A request of the n-th run of loadData goes on. *)
LoadGoesOn(n) == \E r \in reqs : r.run = n /\ (Serve(r) \/ Answer(r) \/ RequestFails(r))

CenterNext ==
    \/ \E t \in Tabs : SelectTab(t)
    \/ \E e \in Events : HandleAcknowledge(e) \/ Happens(e)
    \/ \E r \in reqs : Serve(r) \/ Answer(r) \/ RequestFails(r)

-----------------------------------------------------------------------------
(* An event the page has called acknowledged is not among the open warnings *)
(* again once the reload it starts is over, if the user acts only when      *)
(* nothing is under way and no request is lost (handleAcknowledge).         *)
AckShownPlain ==
    ghost.plain /\ ~ghost.lost /\ reqs = {} => \A e \in ghost.said : page.events[e] = "acknowledged"

(* When the page is at rest, the figures of the node are shown to an        *)
(* operator alone, and the refusal to nobody who is one, whatever order the *)
(* two runs of loadData ended in (roles and operatorAccess).                *)
PanelsTrue ==
    reqs = {} /\ ~ghost.lost => /\ (NodePanel => role = "node_operator")
                                /\ (NodeRefusal => role = "user")
                                /\ (TabOffered("node_system") <=> role = "node_operator")

(* The page says that it loads.                                             *)
Loading == page.loading

(* An event the page has called acknowledged is not offered for it again    *)
(* ("Sicherheitsereignis wurde bestätigt.").                                *)
AckShown == reqs = {} => ghost.said \cap OpenWarnings = {}

(* An account said to be protected shows no open warnings below ("Es liegen *)
(* keine offenen kritischen Sicherheitswarnungen vor.").                    *)
SecuredTrue == SecuredShown => OpenWarnings = {}

-----------------------------------------------------------------------------
(***************************************************************************)
(* The registry of nodes as its operators keep it: the tab "Nodesystem" of *)
(* SecurityCenter.jsx, the registry of the node (Backend/noderegistry) and *)
(* the table of federation servers the node consults before it accepts a   *)
(* message of another (getOrFetchPublicKey of Backend/federation).  A       *)
(* change of status is several statements of the database.                  *)
(***************************************************************************)
CONSTANTS Domains,    \* other nodes
          Known,      \* those the node had exchanged messages with before
          Authority,  \* this node decides which core is current
          MaxOps      \* bound: requests the operator makes

RegistryAssumption == Known \subseteq Domains /\ {Authority, Fails} \subseteq BOOLEAN /\ MaxOps \in Nat

VARIABLES entry,    \* domain -> status in node_registry_entries, or None
          server,   \* domain -> None (no row), "open" or "blocked" in federation_servers
          secrets,  \* the secrets in node_secrets.json, by number
          registry,     \* what the tab shows: the registry and the secrets generated
          registryReqs,     \* requests under way
          ops, registryGhost
registryVars == <<entry, server, secrets, registry, registryReqs, ops, registryGhost>>

Statuses == {"pending", "accepted", "quarantined", "blocked"}
Chosen == {"accepted", "quarantined", "blocked"}
Registries == [Domains -> Statuses \cup {None}]

RegistryTypeOK ==
    /\ entry \in Registries /\ server \in [Domains -> {None, "open", "blocked"}] /\ ops \in 0..MaxOps
    /\ secrets \in 0..MaxOps /\ registry \in [registry : Registries, secrets : 0..MaxOps]
    /\ \A r \in registryReqs : /\ r.op \in {"status", "secrets", "summary"} /\ r.id \in 1..MaxOps
                       /\ r.stage \in {"asked", "marked", "served"}
                       /\ (r.op = "status" => r.domain \in Domains /\ r.status \in Chosen)
    /\ registryGhost \in [plain : BOOLEAN, lost : BOOLEAN, said : [Domains -> Chosen \cup {None}]]

RegistryReq(op, d, s) == [op |-> op, domain |-> d, status |-> s, id |-> ops + 1, stage |-> "asked", found |-> None]

RegistryInit ==
    /\ entry = [d \in Domains |-> None] /\ server = [d \in Domains |-> IF d \in Known THEN "open" ELSE None]
    /\ secrets = 0 /\ registry = [registry |-> [d \in Domains |-> None], secrets |-> 0] /\ registryReqs = {} /\ ops = 0
    /\ registryGhost = [plain |-> TRUE, lost |-> FALSE, said |-> [d \in Domains |-> None]]

-----------------------------------------------------------------------------
(* The operator. *)

Asks(r) ==
    /\ ops < MaxOps /\ ops' = ops + 1 /\ registryReqs' = registryReqs \cup {r}
    /\ registryGhost' = [registryGhost EXCEPT !.plain = @ /\ registryReqs = {}]
    /\ UNCHANGED <<entry, server, secrets, registry>>

(* loadData and handlePingMainNode end with the summary of the registry. *)
LoadSummary == Asks(RegistryReq("summary", None, None))

(* A row of the table has three buttons. *)
HandleRegistryStatus(d, s) == registry.registry[d] # None /\ Asks(RegistryReq("status", d, s))

HandleGenerateNodeSecrets == Asks(RegistryReq("secrets", None, None))

-----------------------------------------------------------------------------
(* The node. *)

(* A ping enters a node once; a later one keeps the status it has *)
(* (HandlePing, UpsertNodeRegistryEntry).                          *)
HandlePing(d, current) ==
    /\ entry[d] = None
    /\ entry' = [entry EXCEPT ![d] = IF Authority /\ ~current THEN "quarantined" ELSE "pending"]
    /\ UNCHANGED <<server, secrets, registry, registryReqs, ops, registryGhost>>

(* A message of a node the table does not know enters it, whatever the *)
(* registry says (getOrFetchPublicKey).                                *)
Contact(d) ==
    /\ server[d] = None /\ server' = [server EXCEPT ![d] = "open"]
    /\ UNCHANGED <<entry, secrets, registry, registryReqs, ops, registryGhost>>

(* UpdateStatus first writes the entry. *)
UpdateStatus(r) ==
    /\ r.op = "status" /\ r.stage = "asked" /\ entry' = [entry EXCEPT ![r.domain] = r.status]
    /\ registryReqs' = (registryReqs \ {r}) \cup {[r EXCEPT !.stage = "marked"]}
    /\ UNCHANGED <<server, secrets, registry, ops, registryGhost>>

(* The row afterwards: acceptance creates or opens it, the others block the *)
(* row there is.                                                            *)
ServerAfter(d, s) ==
    CASE s = "accepted" -> "open"
      [] OTHER -> IF server[d] = None THEN None ELSE "blocked"

(* ... and then the server's row. *)
SetFederationServer(r) ==
    /\ r.op = "status" /\ r.stage = "marked"
    /\ server' = [server EXCEPT ![r.domain] = ServerAfter(r.domain, r.status)]
    /\ registryReqs' = (registryReqs \ {r}) \cup {[r EXCEPT !.stage = "served"]}
    /\ UNCHANGED <<entry, secrets, registry, ops, registryGhost>>

(* GenerateSecrets writes node_secrets.json over the one there is. *)
GenerateSecrets(r) ==
    /\ r.op = "secrets" /\ r.stage = "asked" /\ secrets' = r.id
    /\ registryReqs' = (registryReqs \ {r}) \cup {[r EXCEPT !.stage = "served"]}
    /\ UNCHANGED <<entry, server, registry, ops, registryGhost>>

LocalSummary(r) ==
    /\ r.op = "summary" /\ r.stage = "asked"
    /\ registryReqs' = (registryReqs \ {r}) \cup {[r EXCEPT !.stage = "served", !.found = entry]}
    /\ UNCHANGED <<entry, server, secrets, registry, ops, registryGhost>>

-----------------------------------------------------------------------------
(* The answers. *)

(* handleRegistryStatus says that the status is set and asks for the table. *)
StatusAnswered(r) ==
    /\ r.op = "status" /\ r.stage = "served"
    /\ registryReqs' = (registryReqs \ {r}) \cup {[r EXCEPT !.op = "summary", !.stage = "asked", !.domain = None, !.status = None]}
    /\ registryGhost' = [registryGhost EXCEPT !.said[r.domain] = r.status]
    /\ UNCHANGED <<entry, server, secrets, registry, ops>>

SummaryAnswered(r) ==
    /\ r.op = "summary" /\ r.stage = "served" /\ registryReqs' = registryReqs \ {r}
    /\ registry' = [registry EXCEPT !.registry = r.found]
    /\ UNCHANGED <<entry, server, secrets, ops, registryGhost>>

SecretsAnswered(r) ==
    /\ r.op = "secrets" /\ r.stage = "served" /\ registryReqs' = registryReqs \ {r}
    /\ registry' = [registry EXCEPT !.secrets = r.id]
    /\ UNCHANGED <<entry, server, secrets, ops, registryGhost>>

(* A request or its answer is lost, between any two statements. *)
RegistryFails(r) ==
    /\ Fails /\ registryReqs' = registryReqs \ {r} /\ registryGhost' = [registryGhost EXCEPT !.lost = TRUE]
    /\ UNCHANGED <<entry, server, secrets, registry, ops>>

RegistryNext ==
    \/ LoadSummary \/ HandleGenerateNodeSecrets
    \/ \E d \in Domains, s \in Chosen : HandleRegistryStatus(d, s)
    \/ \E d \in Domains, current \in BOOLEAN : HandlePing(d, current)
    \/ \E d \in Domains : Contact(d)
    \/ \E r \in registryReqs : \/ UpdateStatus(r) \/ SetFederationServer(r) \/ GenerateSecrets(r) \/ LocalSummary(r)
                       \/ StatusAnswered(r) \/ SummaryAnswered(r) \/ SecretsAnswered(r) \/ RegistryFails(r)

-----------------------------------------------------------------------------
Settled == registryGhost.plain /\ ~registryGhost.lost /\ registryReqs = {}

(* For an operator who waits for each answer, the table shows the status   *)
(* that was said to be set, since handleRegistryStatus reads it again.      *)
StatusShown == Settled => \A d \in Domains : registryGhost.said[d] # None => registry.registry[d] = registryGhost.said[d]

(* For an operator who waits, the row of a node known before its status    *)
(* was set is blocked exactly when the registry calls the node blocked or   *)
(* quarantined by the operator (UpdateStatus).                              *)
ServerFollows ==
    Settled => \A d \in Known : registryGhost.said[d] # None => (server[d] = "blocked" <=> entry[d] # "accepted")

(* For an operator who waits, the secrets shown are the ones in the file    *)
(* (handleGenerateNodeSecrets, GenerateSecrets).                            *)
SecretsSavedPlain == Settled => registry.secrets = secrets

(* The secrets the page asks the operator to enter are the ones in the      *)
(* file ("Die Datei wurde serverseitig gespeichert. Trage die Werte als     *)
(* Umgebungsvariablen ein").                                                *)
SecretsSaved == registryReqs = {} => registry.secrets \in {0, secrets}

(* A node that an operator has blocked is not an open federation server     *)
(* ("Nodes ping the main registry and are accepted, quarantined or blocked  *)
(* by operators.").                                                         *)
BlockedStays == Settled => \A d \in Domains : registryGhost.said[d] = "blocked" => server[d] # "open"

-----------------------------------------------------------------------------
vars == <<centerVars, registryVars>>

Init == CenterInit /\ RegistryInit

Next ==
  \/ CenterNext /\ UNCHANGED registryVars
  \/ RegistryNext /\ UNCHANGED centerVars

Spec == Init /\ [][Next]_vars
=============================================================================
