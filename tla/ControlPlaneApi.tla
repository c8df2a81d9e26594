--------------------------- MODULE ControlPlaneApi ---------------------------
(***************************************************************************)
(* The agent routes of api.py, the resource routes of resources_api.py and *)
(* the agent tools of manager/tools.py over one backend.  Each request is  *)
(* a process; a step of it is one statement or transaction of the database *)
(* together with the code up to the next await.  The in-memory             *)
(* repositories never suspend, so with them a handler runs alone           *)
(* (Uninterrupted).  PostgreSQL locks the row that a transition or a new   *)
(* version reads; SQLite has no row locks and starts its transaction at    *)
(* the first write, so there the read is a step of its own (SelectRow).    *)
(***************************************************************************)
EXTENDS ResourceRegistry

CONSTANTS Call,            \* the requests
          Backends,        \* the backends the initial states choose from
          Mix,             \* the assignments of requests to calls
          Seeds,           \* the initial agents tables
          Stores           \* the resources stored initially

VARIABLES request,         \* request[r]: what r asks for
          pc,              \* the next step of r
          copy,            \* the record r read
          listing,         \* the listing r read
          todo,            \* the kinds r has still to refresh
          reply,           \* the records (of audit events: the requests) in the answer to r
          out,             \* the answer to r: "ok" (2xx) or the status code
          audited          \* the requests with an audit event

apiVars == <<backend, agents, stored, catalog, request, pc, copy, listing, todo,
             reply, out, audited>>

\* The Manager Agent's tools: get_agent, compare_versions, version_agent and
\* archive_agent act on an agent, search_agents and draft_agent do not.
StatusOps == [activate |-> "active", disable |-> "disabled", archive |-> "archived",
              archive_tool |-> "archived"]
VersionOps == {"version", "version_tool"}
Tools == {"search_tool", "get_tool", "compare_tool", "draft_tool", "version_tool",
          "archive_tool", "deploy_tool"}
AgentOps == {"read", "update", "delete", "get_tool", "compare_tool"} \cup VersionOps
            \cup DOMAIN StatusOps
\* Their steps after the refresh of the catalogs are in BundleDeploy.
DeployOps == {"deploy", "deploy_tool", "rollback", "rollback_previous"}
ResourceOps == {"show", "add", "replace", "remove"}
\* names, defs, expected: the optional fields of the body, {} or a singleton.
Request == [op : AgentOps \cup ResourceOps \cup DeployOps \cup Tools
                  \cup {"create", "agents", "events", "export", "import"},
            tenant : Tenant, at : Process, agent : AgentId, names : SUBSET Name,
            defs : SUBSET Definition, expected : SUBSET Version, version : Version,
            resources : SUBSET Resource]

\* Each create makes a new id (uuid4), with the name or the definition it needs.
Creates(q) == q.op \in {"create", "draft_tool"}
WellFormed(m) ==
    /\ \A r \in Call : /\ m[r].op = "create" => m[r].names # {}
                       /\ m[r].op = "draft_tool" => m[r].defs # {}
    /\ \A q, r \in Call :
           q # r /\ Creates(m[q]) /\ Creates(m[r]) => m[q].agent # m[r].agent
ASSUME ApiAssumption ==
    /\ Backends \subseteq {"memory", "postgres", "sqlite"}
    /\ Mix \subseteq [Call -> Request] /\ \A m \in Mix : WellFormed(m)
    /\ Seeds \subseteq [AgentId -> AgentRow]
    /\ Stores \subseteq [Tenant -> SUBSET Resource]

Codes == {"none", "ok", "400", "403", "404", "409", "422", "500"}
Phases == {"new", "select", "write", "reread", "list", "apply", "upsert", "register",
           "check", "remove", "forget", "audit", "done", "load", "stop", "boot"}
\* In these the handler waits: for its turn, or for the deployment provider.
Waits == {"new", "stop", "boot", "done"}

ApiInit ==
    /\ backend \in Backends
    /\ agents \in Seeds
    /\ stored \in Stores
    /\ catalog = [p \in Process |-> stored]
    /\ request \in Mix
    /\ \A r \in Call : Creates(request[r]) => ~Exists(request[r].agent)
    \* Only PostgreSQL is shared by several processes.
    /\ backend # "postgres" => \A q, r \in Call : request[q].at = request[r].at
    /\ pc = [r \in Call |-> "new"]
    /\ copy = [r \in Call |-> NewRow(request[r].tenant, NoName, NoDefinition)]
    /\ listing = [r \in Call |-> {}]
    /\ todo = [r \in Call |-> {}]
    /\ reply = [r \in Call |-> {}]
    /\ out = [r \in Call |-> "none"]
    /\ audited = {}

T(r) == request[r].tenant
A(r) == request[r].agent
Only(set) == CHOOSE x \in set : TRUE

\* The awaits of the in-memory repositories do not suspend.
Uninterrupted(r) == backend = "memory" => \A q \in Call \ {r} : pc[q] \in Waits
At(r, phase) == Uninterrupted(r) /\ pc[r] = phase
Asks(r, ops) == request[r].op \in ops

Go(r, phase) == pc' = [pc EXCEPT ![r] = phase] /\ UNCHANGED out
Answer(r, code) == pc' = [pc EXCEPT ![r] = "done"] /\ out' = [out EXCEPT ![r] = code]
GoOrAnswer(r, phase, code) == IF code = "none" THEN Go(r, phase) ELSE Answer(r, code)

\* After its change a route records an audit event; a tool answers.
Changed(r) == IF Asks(r, Tools) THEN Answer(r, "ok") ELSE Go(r, "audit")

noResource == UNCHANGED <<stored, catalog, listing, todo>>
noRead == UNCHANGED <<copy, reply>>
fixed == UNCHANGED <<backend, request>>
------------------------------------------------------------------------------
(* Agents. *)

\* _definition_problems: the definition names another agent.
Misnamed(r, name) == \E d \in request[r].defs : d.name # name

\* create_agent: a definition (given, or made from a template), or a draft.
CreateAgent(r) ==
    /\ At(r, "new") /\ Asks(r, {"create"})
    /\ LET name == Only(request[r].names) IN
       \/ /\ Misnamed(r, name)
          /\ Answer(r, "422") /\ UNCHANGED agents
       \/ /\ ~Misnamed(r, name) /\ NameTaken(name, T(r))
          /\ Answer(r, "409") /\ UNCHANGED agents
       \/ /\ ~Misnamed(r, name) /\ ~NameTaken(name, T(r))
          /\ InsertAgent(A(r), T(r), name,
                         IF request[r].defs = {} THEN NoDefinition ELSE Only(request[r].defs))
          /\ Go(r, "audit")
    /\ UNCHANGED audited /\ noResource /\ noRead /\ fixed

\* The policy denies a resource the definition refers to; no policy is about
\* models, the first kind.
Denies(d) == (d.refs \ Kinds[1]) \cap d.denied # {}

\* _missing_resource_refs, in the catalog known.
MissingRefs(d, known) == d.refs \ known

\* _draft_problems, in the catalog as it is (no refresh).
DraftProblems(r) ==
    \E d \in request[r].defs : \/ d.name \notin request[r].names
                              \/ Denies(d)
                              \/ MissingRefs(d, CatalogOf(request[r].at, T(r))) # {}

\* draft_agent
DraftAgent(r) ==
    /\ At(r, "new") /\ Asks(r, {"draft_tool"})
    /\ LET d == Only(request[r].defs) IN
       \/ /\ DraftProblems(r) \/ NameTaken(d.name, T(r))
          /\ Answer(r, "422") /\ UNCHANGED agents
       \/ /\ ~DraftProblems(r) /\ ~NameTaken(d.name, T(r))
          /\ InsertAgent(A(r), T(r), d.name, d)
          /\ Changed(r)
    /\ UNCHANGED audited /\ noResource /\ noRead /\ fixed

\* Mutant: the tenant of the record is not compared.
OwnedByAnyTenant(r) == Exists(A(r))
\* The record exists and _owned_record accepts it.
Owned(r) == Exists(A(r)) /\ agents[A(r)].tenant = T(r)

\* compare_versions: both versions have a definition.
Comparable(r) == \A v \in {FirstVersion, request[r].version} : HasVersion(agents[A(r)], v)

\* What the handler refuses after its first read of the record.
HandlerCode(r) ==
    LET row == agents[A(r)]
        name == IF request[r].names = {} THEN row.name ELSE Only(request[r].names)
        stale == request[r].expected # {} /\ row.current \notin request[r].expected
    IN  IF ~Owned(r) THEN IF Asks(r, Tools) /\ Exists(A(r)) THEN "403" ELSE "404"
        ELSE
        CASE Asks(r, {"read", "get_tool"}) -> "ok"
          [] Asks(r, {"compare_tool"}) -> IF Comparable(r) THEN "ok" ELSE "422"
          [] Asks(r, {"update"}) /\ stale -> "409"
          [] Asks(r, {"update"}) /\ ~stale /\ Misnamed(r, name) -> "422"
          [] Asks(r, VersionOps \cup {"activate"}) /\ row.def = NoDefinition -> "422"
          [] OTHER -> "none"

\* Where the transaction of the repository starts.
Transaction(r) ==
    IF backend = "sqlite" /\ request[r].op \in DOMAIN StatusOps \cup VersionOps
    THEN "select" ELSE "write"

\* get_agent, get_agent_version and the first read of the handlers that change an agent.
GetAgent(r) ==
    /\ At(r, "new") /\ Asks(r, AgentOps)
    /\ GoOrAnswer(r, IF Asks(r, {"activate"}) THEN "list" ELSE Transaction(r), HandlerCode(r))
    /\ copy' = [copy EXCEPT ![r] = agents[A(r)]]
    /\ reply' = IF HandlerCode(r) = "ok" THEN [reply EXCEPT ![r] = {agents[A(r)]}] ELSE reply
    /\ todo' = [todo EXCEPT ![r] = IF Asks(r, {"activate"}) THEN DOMAIN Kinds ELSE {}]
    /\ UNCHANGED <<agents, audited, stored, catalog, listing>> /\ fixed

\* list_agents: the filters, the order and the pages are left out.
ListAgents(r) ==
    /\ At(r, "new") /\ Asks(r, {"agents", "search_tool"})
    /\ reply' = [reply EXCEPT ![r] = {agents[a] : a \in {b \in Live : agents[b].tenant = T(r)}}]
    /\ Answer(r, "ok")
    /\ UNCHANGED <<agents, audited, copy>> /\ noResource /\ fixed

\* update of the repository.
UpdateAgent(r) ==
    /\ At(r, "write") /\ Asks(r, {"update"})
    /\ LET names == request[r].names
           hits == UpdateHits(A(r), request[r].expected) IN
       \/ /\ ~hits
          /\ Answer(r, IF Exists(A(r)) THEN "409" ELSE "404") /\ UNCHANGED agents
       \/ /\ hits /\ RenameRejected(A(r), names)
          /\ Answer(r, "500") /\ UNCHANGED agents
       \/ /\ hits /\ ~RenameRejected(A(r), names)
          /\ agents' = [agents EXCEPT ![A(r)] = Patched(@, names, request[r].defs)]
          /\ Go(r, IF Sql THEN "reread" ELSE "audit")
    /\ UNCHANGED audited /\ noResource /\ noRead /\ fixed

\* SQLite: transition and add_version read the row outside of their transaction.
SelectRow(r) ==
    /\ At(r, "select")
    /\ IF Exists(A(r)) THEN Go(r, "write") ELSE Answer(r, "404")
    /\ copy' = [copy EXCEPT ![r] = agents[A(r)]]
    /\ UNCHANGED <<agents, audited, reply>> /\ noResource /\ fixed

\* Mutant: PostgreSQL does not lock the row either.
RowReadEarly(r) == copy[r]
\* The row as the transaction read it: with a lock, it is the row as it is.
RowRead(r) == IF backend = "sqlite" THEN copy[r] ELSE agents[A(r)]

\* transition; SQLite updates no row when the agent has been deleted meanwhile.
ChangeStatus(r) ==
    /\ At(r, "write") /\ Asks(r, DOMAIN StatusOps)
    /\ LET to == StatusOps[request[r].op] IN
       \/ /\ RowRead(r).status = "absent"
          /\ Answer(r, "404") /\ UNCHANGED agents
       \/ /\ RowRead(r).status # "absent" /\ ~Allowed(RowRead(r).status, to)
          /\ Answer(r, "400") /\ UNCHANGED agents
       \/ /\ RowRead(r).status # "absent" /\ Allowed(RowRead(r).status, to)
          /\ IF Exists(A(r)) THEN SetStatus(A(r), to) ELSE UNCHANGED agents
          /\ IF Sql THEN Go(r, "reread") ELSE Changed(r)
    /\ UNCHANGED audited /\ noResource /\ noRead /\ fixed

\* add_version; SQLite rejects the insert when another request was faster
\* (unique version) or the agent is gone (foreign key).
AddVersion(r) ==
    /\ At(r, "write") /\ Asks(r, VersionOps)
    /\ LET v == request[r].version
           row == RowRead(r) IN
       \/ /\ row.status = "absent"
          /\ Answer(r, "404") /\ UNCHANGED agents
       \/ /\ row.status # "absent" /\ HasVersion(row, v)
          /\ Answer(r, "409") /\ UNCHANGED agents
       \/ /\ row.status # "absent" /\ ~HasVersion(row, v)
          /\ ~Exists(A(r)) \/ HasVersion(agents[A(r)], v)
          /\ Answer(r, "500") /\ UNCHANGED agents
       \/ /\ row.status # "absent" /\ ~HasVersion(row, v)
          /\ Exists(A(r)) /\ ~HasVersion(agents[A(r)], v)
          /\ SaveVersion(A(r), v, row.def)
          /\ Changed(r)
    /\ UNCHANGED audited /\ noResource /\ noRead /\ fixed

RemoveAgent(r) ==
    /\ At(r, "write") /\ Asks(r, {"delete"})
    /\ \/ Exists(A(r)) /\ DeleteAgent(A(r)) /\ Go(r, "audit")
       \/ ~Exists(A(r)) /\ Answer(r, "404") /\ UNCHANGED agents
    /\ UNCHANGED audited /\ noResource /\ noRead /\ fixed

\* The handler or the repository reads the record again and asserts that it exists.
RereadAgent(r) ==
    /\ At(r, "reread")
    /\ \/ ~Exists(A(r)) /\ Answer(r, "500")
       \/ Exists(A(r)) /\ Asks(r, {"version"}) /\ Answer(r, "ok")
       \/ Exists(A(r)) /\ ~Asks(r, {"version"}) /\ Changed(r)
    /\ UNCHANGED <<agents, audited>> /\ noResource /\ noRead /\ fixed

\* record_audit_event.
RecordAudit(r) ==
    /\ At(r, "audit")
    /\ audited' = audited \cup {r}
    /\ IF Asks(r, {"version"}) THEN Go(r, "reread") ELSE Answer(r, "ok")
    /\ UNCHANGED agents /\ noResource /\ noRead /\ fixed

\* The events of a tenant.
EventsOf(t) == {q \in audited : T(q) = t}

\* list_audit_events: the order of the events and the limit are left out.
ListAuditEvents(r) ==
    /\ At(r, "new") /\ Asks(r, {"events"})
    /\ reply' = [reply EXCEPT ![r] = EventsOf(T(r))]
    /\ Answer(r, "ok")
    /\ UNCHANGED <<agents, audited, copy>> /\ noResource /\ fixed
------------------------------------------------------------------------------
(* Resources. *)

AskResource(r) ==
    /\ At(r, "new") /\ Asks(r, ResourceOps \cup {"export", "import"})
    /\ todo' = [todo EXCEPT ![r] =
                    IF Asks(r, {"export"}) THEN DOMAIN Kinds ELSE KindsOf(request[r].resources)]
    /\ Go(r, IF Asks(r, {"import"}) THEN "upsert" ELSE "list")
    /\ UNCHANGED <<agents, audited, stored, catalog, listing>> /\ noRead /\ fixed

Kind(r) == CHOOSE k \in todo[r] : \A j \in todo[r] : k <= j

ListKind(r) ==
    /\ At(r, "list")
    /\ listing' = [listing EXCEPT ![r] = Listing(Kind(r), T(r))]
    /\ Go(r, "apply")
    /\ UNCHANGED <<agents, audited, stored, catalog, todo>> /\ noRead /\ fixed

\* What follows the last refresh, before the next await, in the catalog known:
\* the next step and, when the request ends here, the answer.
AfterRefresh(r, known) ==
    LET missing == ~(request[r].resources \subseteq known) IN
    CASE Asks(r, {"import"}) -> <<"audit", "none">>
      [] Asks(r, {"export"}) -> <<"done", "ok">>
      [] Asks(r, {"show"}) -> <<"done", IF missing THEN "404" ELSE "ok">>
      [] Asks(r, {"add"}) -> <<"upsert", IF missing THEN "none" ELSE "409">>
      [] Asks(r, {"replace"}) -> <<"upsert", IF missing THEN "404" ELSE "none">>
      [] Asks(r, {"remove"}) -> <<"check", IF missing THEN "404" ELSE "none">>
      [] OTHER -> <<Transaction(r), IF MissingRefs(copy[r].def, known) = {} THEN "none" ELSE "422">>

ApplyKind(r) ==
    /\ At(r, "apply") /\ (Asks(r, DeployOps) => todo[r] # {Kind(r)})
    /\ LET p == request[r].at
           known == Refreshed(p, T(r), Kind(r), listing[r])
           rest == todo[r] \ {Kind(r)} IN
       /\ SetCatalog(p, T(r), known)
       /\ todo' = [todo EXCEPT ![r] = rest]
       /\ IF rest # {} THEN Go(r, "list")
                       ELSE GoOrAnswer(r, AfterRefresh(r, known)[1], AfterRefresh(r, known)[2])
    /\ UNCHANGED <<agents, audited, stored, listing>> /\ noRead /\ fixed

Upsert(r) ==
    /\ At(r, "upsert")
    /\ UpsertResources(T(r), request[r].resources)
    /\ Go(r, IF Asks(r, {"import"}) THEN "list" ELSE "register")
    /\ UNCHANGED <<agents, audited, catalog, listing, todo>> /\ noRead /\ fixed

Register(r) ==
    /\ At(r, "register")
    /\ AddToCatalog(request[r].at, T(r), request[r].resources)
    /\ Go(r, "audit")
    /\ UNCHANGED <<agents, audited, stored, listing, todo>> /\ noRead /\ fixed

CheckReferences(r) ==
    /\ At(r, "check")
    /\ IF Referenced(T(r), request[r].resources) THEN Answer(r, "409") ELSE Go(r, "remove")
    /\ UNCHANGED <<agents, audited>> /\ noResource /\ noRead /\ fixed

RemoveResource(r) ==
    /\ At(r, "remove")
    /\ DeleteStored(T(r), request[r].resources)
    /\ Go(r, "forget")
    /\ UNCHANGED <<agents, audited, catalog, listing, todo>> /\ noRead /\ fixed

\* The catalog may have been refreshed since: then the deletion answers 404.
ForgetResource(r) ==
    /\ At(r, "forget")
    /\ LET p == request[r].at IN
       /\ IF request[r].resources \subseteq CatalogOf(p, T(r))
          THEN Go(r, "audit") ELSE Answer(r, "404")
       /\ SetCatalog(p, T(r), CatalogOf(p, T(r)) \ request[r].resources)
    /\ UNCHANGED <<agents, audited, stored, listing, todo>> /\ noRead /\ fixed

ApiStep(r) ==
    \/ CreateAgent(r) \/ DraftAgent(r) \/ GetAgent(r) \/ ListAgents(r)
    \/ UpdateAgent(r) \/ SelectRow(r)
    \/ ChangeStatus(r) \/ AddVersion(r) \/ RemoveAgent(r) \/ RereadAgent(r) \/ RecordAudit(r)
    \/ ListAuditEvents(r)
    \/ AskResource(r) \/ ListKind(r) \/ ApplyKind(r) \/ Upsert(r) \/ Register(r)
    \/ CheckReferences(r) \/ RemoveResource(r) \/ ForgetResource(r)

ApiNext == \E r \in Call : ApiStep(r)
------------------------------------------------------------------------------
ApiTypeOK ==
    /\ backend \in {"memory", "postgres", "sqlite"}
    /\ agents \in [AgentId -> AgentRow]
    /\ stored \in [Tenant -> SUBSET Resource]
    /\ catalog \in [Process -> [Tenant -> SUBSET Resource]]
    /\ request \in [Call -> Request]
    /\ pc \in [Call -> Phases]
    /\ copy \in [Call -> AgentRow]
    /\ listing \in [Call -> SUBSET Resource]
    /\ todo \in [Call -> SUBSET DOMAIN Kinds]
    /\ reply \in [Call -> SUBSET (Call \cup AgentRow)]
    /\ out \in [Call -> Codes]
    /\ audited \subseteq Call

\* A version never changes once it exists, whatever later updates, versions and
\* lifecycle moves do (add_version: an immutable snapshot, unique per agent).
VersionsKept ==
    \A a \in AgentId, v \in Version :
        Exists(a) /\ Exists(a)' /\ agents[a].versions[v] # NoDefinition
            => agents'[a].versions[v] = agents[a].versions[v]
VersionsAreImmutable == [][VersionsKept]_apiVars

\* Archived is terminal (_VALID_TRANSITIONS): two racing lifecycle requests never
\* bring an archived agent back, where transition locks the row or cannot be
\* interrupted.
ArchivedStays ==
    \A a \in AgentId : agents[a].status = "archived" => agents'[a].status \in {"archived", "absent"}
LockedArchivedIsFinal == [][backend # "sqlite" => ArchivedStays]_apiVars

\* An agent's definition changes only by a PATCH that gives it, at a version the
\* PATCH accepts: no concurrent version snapshot puts an older one back.
PatchedInThisStep(a) ==
    \E r \in Call : /\ pc[r] = "write" /\ pc'[r] # "write" /\ Asks(r, {"update"}) /\ A(r) = a
                    /\ agents'[a].def \in request[r].defs
                    /\ request[r].expected = {} \/ agents[a].current \in request[r].expected
DefinitionsChangeByPatch ==
    [][backend # "sqlite" =>
         \A a \in AgentId : Exists(a) /\ Exists(a)' /\ agents'[a].def # agents[a].def
                                => PatchedInThisStep(a)]_apiVars

\* A request reads and changes only what belongs to its tenant, also when it
\* acts on what an earlier step of it has checked (_owned_record, for_tenant).
ChangesStayIn(t) ==
    /\ \A a \in AgentId : agents'[a] # agents[a] =>
           agents'[a].tenant = t /\ (Exists(a) => agents[a].tenant = t)
    /\ \A u \in Tenant \ {t} : /\ stored'[u] = stored[u]
                               /\ \A p \in Process : catalog'[p][u] = catalog[p][u]
TenantsAreSeparate ==
    [][/\ \A r \in Call : pc'[r] # pc[r] => ChangesStayIn(T(r))
       /\ \A r \in Call : \A x \in reply'[r] :
              T(r) = IF Asks(r, {"events"}) THEN T(x) ELSE x.tenant]_apiVars
=============================================================================
