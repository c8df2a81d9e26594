-------------------------- MODULE ControlPlaneProofs --------------------------
(***************************************************************************)
(* Proofs about the Control Plane's requests (ControlPlaneApi and          *)
(* BundleDeploy), for any number of requests, agents, tenants, versions,   *)
(* resources and processes, and each backend.                              *)
(***************************************************************************)
EXTENDS BundleDeploy, TLAPS

USE DEF T, A, Asks, At, Go, Answer, GoOrAnswer, Changed, noResource, noRead, fixed,
        Phases, Codes

\* What every step of a request shares: r takes a step and reaches a later one.
Moves(r) ==
    /\ pc' = [pc EXCEPT ![r] = pc'[r]] /\ pc[r] # "done" /\ pc'[r] \in Phases \ {"new"}
    /\ out' \in [Call -> Codes]
    /\ UNCHANGED <<backend, request>>
    /\ audited' \subseteq Call

LEMMA HandlerCodes == \A r \in Call : HandlerCode(r) \in Codes
  BY DEF HandlerCode

LEMMA ApiMoves ==
  ASSUME DeployTypeOK, NEW r \in Call, ApiStep(r)
  PROVE  Moves(r)
<1> USE DEF DeployTypeOK, ApiTypeOK, Moves
<1>1. CASE CreateAgent(r)
  BY <1>1 DEF CreateAgent
<1>2. CASE DraftAgent(r)
  BY <1>2 DEF DraftAgent
<1>3. CASE GetAgent(r)
  BY <1>3, HandlerCodes DEF GetAgent, Transaction
<1>4. CASE ListAgents(r)
  BY <1>4 DEF ListAgents
<1>5. CASE UpdateAgent(r)
  BY <1>5 DEF UpdateAgent
<1>6. CASE SelectRow(r)
  BY <1>6 DEF SelectRow
<1>7. CASE ChangeStatus(r)
  BY <1>7 DEF ChangeStatus
<1>8. CASE AddVersion(r)
  BY <1>8 DEF AddVersion
<1>9. CASE RemoveAgent(r)
  BY <1>9 DEF RemoveAgent
<1>10. CASE RereadAgent(r)
  BY <1>10 DEF RereadAgent
<1>11. CASE RecordAudit(r)
  BY <1>11 DEF RecordAudit
<1>12. CASE ListAuditEvents(r)
  BY <1>12 DEF ListAuditEvents
<1>13. CASE AskResource(r)
  BY <1>13 DEF AskResource
<1>14. CASE ListKind(r)
  BY <1>14 DEF ListKind
<1>15. CASE ApplyKind(r)
  <2>1. \A known : /\ AfterRefresh(r, known)[1] \in Phases \ {"new"}
                   /\ AfterRefresh(r, known)[2] \in Codes
    BY DEF AfterRefresh, Transaction
  <2>2. PICK known :
          \/ Go(r, "list")
          \/ GoOrAnswer(r, AfterRefresh(r, known)[1], AfterRefresh(r, known)[2])
    BY <1>15 DEF ApplyKind
  <2> QED
    BY <1>15, <2>1, <2>2 DEF ApplyKind
<1>16. CASE Upsert(r)
  BY <1>16 DEF Upsert
<1>17. CASE Register(r)
  BY <1>17 DEF Register
<1>18. CASE CheckReferences(r)
  BY <1>18 DEF CheckReferences
<1>19. CASE RemoveResource(r)
  BY <1>19 DEF RemoveResource
<1>20. CASE ForgetResource(r)
  BY <1>20 DEF ForgetResource
<1>21. QED
  BY <1>1, <1>2, <1>3, <1>4, <1>5, <1>6, <1>7, <1>8, <1>9, <1>10, <1>11, <1>12, <1>13, <1>14,
     <1>15, <1>16, <1>17, <1>18, <1>19, <1>20 DEF ApiStep

LEMMA DeployMoves ==
  ASSUME DeployTypeOK, NEW r \in Call, DeployStep(r)
  PROVE  Moves(r)
<1> USE DEF DeployTypeOK, ApiTypeOK, Moves
<1>1. CASE AskDeployment(r)
  BY <1>1 DEF AskDeployment
<1>2. CASE LoadAgent(r)
  BY <1>2 DEF LoadAgent
<1>3. CASE LoadSnapshot(r)
  BY <1>3 DEF LoadSnapshot
<1>4. CASE StopRunning(r)
  BY <1>4 DEF StopRunning
<1>5. CASE Export(r)
  BY <1>5 DEF Export
<1>6. CASE Boot(r)
  BY <1>6 DEF Boot
<1>7. QED
  BY <1>1, <1>2, <1>3, <1>4, <1>5, <1>6 DEF DeployStep
-----------------------------------------------------------------------------
(* What a step does to the agents. *)

\* The row of an existing agent becomes row, by request r.
RowMoves(r, row) ==
    LET old == agents[A(r)] IN
    /\ row \in AgentRow /\ row.tenant = old.tenant
    /\ row.status = "absent" \/ \A v \in Version : HasVersion(old, v) => row.versions[v] = old.versions[v]
    /\ backend # "sqlite" /\ old.status = "archived" => row.status \in {"archived", "absent"}
    /\ \/ backend = "sqlite" \/ row.status = "absent" \/ row.def = old.def
       \/ /\ Asks(r, {"update"}) /\ row.def \in request[r].defs
          /\ request[r].expected = {} \/ old.current \in request[r].expected

Inserts(r) ==
    /\ pc[r] = "new" /\ Creates(request[r])
    /\ \E n \in Name, d \in Definition \cup {NoDefinition} :
           agents' = [agents EXCEPT ![A(r)] = NewRow(T(r), n, d)]
Rewrites(r) ==
    /\ pc[r] = "write" /\ pc'[r] # "write" /\ Asks(r, AgentOps) /\ Exists(A(r))
    /\ \E row \in AgentRow : RowMoves(r, row) /\ agents' = [agents EXCEPT ![A(r)] = row]

LEMMA RowTypes ==
  ASSUME NEW row \in AgentRow
  PROVE  /\ \A s \in Status \cup {"absent"} : [row EXCEPT !.status = s] \in AgentRow
         /\ \A v \in Version, d \in Definition \cup {NoDefinition} :
                [row EXCEPT !.versions[v] = d, !.current = v, !.def = d] \in AgentRow
         /\ \A n \in Name, d \in Definition \cup {NoDefinition} :
                [row EXCEPT !.name = n, !.def = d] \in AgentRow
  BY DEF AgentRow

LEMMA NewRowType ==
  ASSUME NEW t \in Tenant, NEW n \in Name \cup {NoName}, NEW d \in Definition \cup {NoDefinition}
  PROVE  NewRow(t, n, d) \in AgentRow
  BY AgentAssumption DEF NewRow, AgentRow, Status

LEMMA PatchedRow ==
  ASSUME NEW row \in AgentRow, NEW names \in SUBSET Name, NEW defs \in SUBSET Definition
  PROVE  /\ Patched(row, names, defs) \in AgentRow
         /\ Patched(row, names, defs).tenant = row.tenant
         /\ Patched(row, names, defs).status = row.status
         /\ Patched(row, names, defs).versions = row.versions
         /\ Patched(row, names, defs).def = row.def \/ Patched(row, names, defs).def \in defs
<1>1. names # {} => (CHOOSE n \in names : TRUE) \in names
  OBVIOUS
<1>2. defs # {} => (CHOOSE d \in defs : TRUE) \in defs
  OBVIOUS
<1> QED
  BY <1>1, <1>2 DEF Patched, AgentRow

LEMMA UpdateRewrites ==
  ASSUME DeployTypeOK, NEW r \in Call, UpdateAgent(r)
  PROVE  agents' = agents \/ Rewrites(r)
<1> USE DEF DeployTypeOK, ApiTypeOK
<1>1. CASE UNCHANGED agents
  BY <1>1
<1>2. CASE agents' # agents
  <2> DEFINE row == Patched(agents[A(r)], request[r].names, request[r].defs)
  <2>1. /\ request[r] \in Request /\ A(r) \in AgentId /\ agents[A(r)] \in AgentRow
        /\ request[r].names \in SUBSET Name /\ request[r].defs \in SUBSET Definition
    BY DEF Request
  <2>2. /\ agents' = [agents EXCEPT ![A(r)] = row]
        /\ pc[r] = "write" /\ pc'[r] # "write" /\ Asks(r, {"update"})
        /\ UpdateHits(A(r), request[r].expected)
    BY <1>2 DEF UpdateAgent
  <2>3. /\ row \in AgentRow /\ row.tenant = agents[A(r)].tenant
        /\ row.status = agents[A(r)].status /\ row.versions = agents[A(r)].versions
        /\ row.def = agents[A(r)].def \/ row.def \in request[r].defs
    BY <2>1, PatchedRow
  <2> HIDE DEF row
  <2>4. RowMoves(r, row)
    BY <2>2, <2>3 DEF RowMoves, UpdateHits
  <2> QED
    BY <2>2, <2>3, <2>4 DEF Rewrites, UpdateHits, AgentOps
<1> QED
  BY <1>1, <1>2

LEMMA StatusRewrites ==
  ASSUME DeployTypeOK, NEW r \in Call, ChangeStatus(r)
  PROVE  agents' = agents \/ Rewrites(r)
<1> USE DEF DeployTypeOK, ApiTypeOK
<1>1. CASE UNCHANGED agents
  BY <1>1
<1>2. CASE agents' # agents
  <2> DEFINE to == StatusOps[request[r].op]
             row == [agents[A(r)] EXCEPT !.status = to]
  <2>1. /\ A(r) \in AgentId /\ agents[A(r)] \in AgentRow
        /\ backend # "sqlite" => RowRead(r) = agents[A(r)]
    BY DEF Request, RowRead
  <2>2. /\ agents' = [agents EXCEPT ![A(r)] = row] /\ Exists(A(r))
        /\ pc[r] = "write" /\ pc'[r] # "write" /\ request[r].op \in DOMAIN StatusOps
        /\ Allowed(RowRead(r).status, to)
    BY <1>2 DEF ChangeStatus, SetStatus
  <2>3. to \in Status
    BY <2>2 DEF StatusOps, Status
  <2>4. row \in AgentRow
    BY <2>1, <2>3, RowTypes
  <2>5. backend # "sqlite" /\ agents[A(r)].status = "archived" => to = "archived"
    BY <2>1, <2>2 DEF Allowed, ValidTransitions
  <2>6. RowMoves(r, row)
    BY <2>1, <2>3, <2>4, <2>5 DEF RowMoves, AgentRow
  <2> QED
    BY <2>2, <2>4, <2>6 DEF Rewrites, AgentOps
<1> QED
  BY <1>1, <1>2

LEMMA VersionRewrites ==
  ASSUME DeployTypeOK, NEW r \in Call, AddVersion(r)
  PROVE  agents' = agents \/ Rewrites(r)
<1> USE DEF DeployTypeOK, ApiTypeOK
<1>1. CASE UNCHANGED agents
  BY <1>1
<1>2. CASE agents' # agents
  <2> DEFINE v == request[r].version
             d == RowRead(r).def
             row == [agents[A(r)] EXCEPT !.versions[v] = d, !.current = v, !.def = d]
  <2>1. /\ A(r) \in AgentId /\ agents[A(r)] \in AgentRow /\ v \in Version
        /\ d \in Definition \cup {NoDefinition}
        /\ backend # "sqlite" => d = agents[A(r)].def
    BY DEF Request, RowRead, AgentRow
  <2>2. /\ SaveVersion(A(r), v, d) /\ Exists(A(r)) /\ ~HasVersion(agents[A(r)], v)
        /\ pc[r] = "write" /\ pc'[r] # "write" /\ Asks(r, VersionOps)
    BY <1>2 DEF AddVersion
  <2>3. agents' = [agents EXCEPT ![A(r)] = row]
    BY <2>2 DEF SaveVersion
  <2>4. row \in AgentRow
    BY <2>1, RowTypes
  <2>5. /\ row.tenant = agents[A(r)].tenant /\ row.status = agents[A(r)].status /\ row.def = d
        /\ \A w \in Version \ {v} : row.versions[w] = agents[A(r)].versions[w]
    BY <2>1 DEF AgentRow
  <2>6. RowMoves(r, row)
    BY <2>1, <2>2, <2>4, <2>5 DEF RowMoves
  <2> QED
    BY <2>2, <2>3, <2>4, <2>6 DEF Rewrites, AgentOps
<1> QED
  BY <1>1, <1>2

LEMMA DeleteRewrites ==
  ASSUME DeployTypeOK, NEW r \in Call, RemoveAgent(r)
  PROVE  agents' = agents \/ Rewrites(r)
<1> USE DEF DeployTypeOK, ApiTypeOK
<1>1. CASE UNCHANGED agents
  BY <1>1
<1>2. CASE agents' # agents
  <2> DEFINE row == [agents[A(r)] EXCEPT !.status = "absent"]
  <2>1. agents[A(r)] \in AgentRow
    BY DEF Request
  <2>2. /\ agents' = [agents EXCEPT ![A(r)] = row] /\ Exists(A(r))
        /\ pc[r] = "write" /\ pc'[r] # "write" /\ Asks(r, {"delete"})
    BY <1>2 DEF RemoveAgent, DeleteAgent
  <2>3. row \in AgentRow
    BY <2>1, RowTypes
  <2>4. RowMoves(r, row)
    BY <2>1, <2>3 DEF RowMoves, AgentRow
  <2> QED
    BY <2>2, <2>3, <2>4 DEF Rewrites, AgentOps
<1> QED
  BY <1>1, <1>2

LEMMA CreateInserts ==
  ASSUME DeployTypeOK, WellFormed(request), NEW r \in Call, CreateAgent(r) \/ DraftAgent(r)
  PROVE  agents' = agents \/ Inserts(r)
<1> USE DEF DeployTypeOK, ApiTypeOK
<1>1. request[r].names \in SUBSET Name /\ request[r].defs \in SUBSET Definition
  BY DEF Request
<1>2. \A d \in Definition : d.name \in Name
  BY DEF Definition
<1>3. CASE CreateAgent(r)
  <2>1. request[r].names # {}
    BY <1>3 DEF CreateAgent, WellFormed
  <2>2. Only(request[r].names) \in Name
    BY <1>1, <2>1 DEF Only
  <2>3. request[r].defs # {} => Only(request[r].defs) \in Definition
    BY <1>1 DEF Only
  <2> QED
    BY <1>3, <2>2, <2>3 DEF CreateAgent, Inserts, InsertAgent, Creates
<1>4. CASE DraftAgent(r)
  <2>1. request[r].defs # {}
    BY <1>4 DEF DraftAgent, WellFormed
  <2>2. Only(request[r].defs) \in Definition
    BY <1>1, <2>1 DEF Only
  <2> QED
    BY <1>2, <1>4, <2>2 DEF DraftAgent, Inserts, InsertAgent, Creates
<1> QED
  BY <1>3, <1>4

LEMMA RowSteps ==
  ASSUME DeployTypeOK, WellFormed(request), NEW r \in Call, ApiStep(r) \/ DeployStep(r)
  PROVE  agents' = agents \/ Inserts(r) \/ Rewrites(r)
  BY UpdateRewrites, StatusRewrites, VersionRewrites, DeleteRewrites, CreateInserts
  DEF ApiStep, DeployStep, GetAgent, ListAgents, SelectRow, RereadAgent, RecordAudit,
      ListAuditEvents, AskResource, ListKind, ApplyKind, Upsert, Register, CheckReferences,
      RemoveResource, ForgetResource, AskDeployment, LoadAgent, LoadSnapshot, StopRunning,
      Export, Boot

-----------------------------------------------------------------------------
(* What a step does to the resources and the catalogs. *)

Scoped(r) ==
    /\ stored' \in [Tenant -> SUBSET Resource]
    /\ catalog' \in [Process -> [Tenant -> SUBSET Resource]]
    /\ listing' \in [Call -> SUBSET Resource]
    /\ todo' \in [Call -> SUBSET DOMAIN Kinds]
    /\ \A q \in Call \ {r} : todo'[q] = todo[q]
    /\ \A u \in Tenant \ {T(r)} : /\ stored'[u] = stored[u]
                                  /\ \A p \in Process : catalog'[p][u] = catalog[p][u]

LEMMA RequestTypes ==
  ASSUME DeployTypeOK, NEW r \in Call
  PROVE  /\ request[r].at \in Process /\ T(r) \in Tenant /\ A(r) \in AgentId
         /\ request[r].resources \subseteq Resource /\ request[r].version \in Version
  BY DEF DeployTypeOK, ApiTypeOK, Request

LEMMA CatalogScoped ==
  ASSUME DeployTypeOK, NEW r \in Call, NEW known \in SUBSET Resource,
         SetCatalog(request[r].at, T(r), known)
  PROVE  /\ catalog' \in [Process -> [Tenant -> SUBSET Resource]]
         /\ \A u \in Tenant \ {T(r)}, p \in Process : catalog'[p][u] = catalog[p][u]
<1>1. /\ catalog \in [Process -> [Tenant -> SUBSET Resource]]
      /\ request[r].at \in Process /\ T(r) \in Tenant
  BY RequestTypes DEF DeployTypeOK, ApiTypeOK
<1>2. catalog[request[r].at] \in [Tenant -> SUBSET Resource]
  BY <1>1
<1>3. [catalog[request[r].at] EXCEPT ![T(r)] = known] \in [Tenant -> SUBSET Resource]
  BY <1>1, <1>2
<1> QED
  BY <1>1, <1>2, <1>3 DEF SetCatalog

LEMMA ResourceSteps ==
  ASSUME DeployTypeOK, NEW r \in Call, ApiStep(r) \/ DeployStep(r)
  PROVE  Scoped(r)
<1> USE DEF DeployTypeOK, ApiTypeOK
<1>1. CASE AskResource(r)
  BY <1>1 DEF AskResource, KindsOf, Scoped
<1>2. CASE ListKind(r)
  <2>1. Listing(Kind(r), T(r)) \subseteq Resource
    BY RequestTypes DEF Listing
  <2> QED
    BY <1>2, <2>1 DEF ListKind, Scoped
<1>3. CASE ApplyKind(r) \/ Export(r)
  <2> DEFINE known == Refreshed(request[r].at, T(r), Kind(r), listing[r])
  <2>1. known \in SUBSET Resource
    BY RequestTypes DEF Refreshed, CatalogOf
  <2>2. SetCatalog(request[r].at, T(r), known)
    BY <1>3 DEF ApplyKind, Export
  <2>3. /\ catalog' \in [Process -> [Tenant -> SUBSET Resource]]
        /\ \A u \in Tenant \ {T(r)}, p \in Process : catalog'[p][u] = catalog[p][u]
    BY <2>1, <2>2, CatalogScoped
  <2>4. /\ stored' = stored /\ listing' = listing
        /\ todo' = [todo EXCEPT ![r] = todo[r] \ {Kind(r)}] \/ todo' = [todo EXCEPT ![r] = {}]
    BY <1>3 DEF ApplyKind, Export
  <2> QED
    BY <2>3, <2>4 DEF Scoped
<1>4. CASE Upsert(r)
  BY <1>4, RequestTypes DEF Upsert, UpsertResources, Scoped
<1>5. CASE Register(r)
  <2>1. CatalogOf(request[r].at, T(r)) \cup request[r].resources \in SUBSET Resource
    BY RequestTypes DEF CatalogOf
  <2> QED
    BY <1>5, <2>1, CatalogScoped DEF Register, AddToCatalog, Scoped
<1>6. CASE RemoveResource(r)
  BY <1>6, RequestTypes DEF RemoveResource, DeleteStored, Scoped
<1>7. CASE ForgetResource(r)
  <2>1. CatalogOf(request[r].at, T(r)) \ request[r].resources \in SUBSET Resource
    BY RequestTypes DEF CatalogOf
  <2> QED
    BY <1>7, <2>1, CatalogScoped DEF ForgetResource, Scoped
<1>8. CASE GetAgent(r) \/ LoadAgent(r) \/ LoadSnapshot(r)
  BY <1>8 DEF GetAgent, LoadAgent, LoadSnapshot, Scoped
<1>9. CASE UNCHANGED <<stored, catalog, listing, todo>>
  BY <1>9 DEF Scoped
<1> QED
  BY <1>1, <1>2, <1>3, <1>4, <1>5, <1>6, <1>7, <1>8, <1>9
  DEF ApiStep, DeployStep, CreateAgent, DraftAgent, ListAgents, UpdateAgent, SelectRow,
      ChangeStatus, AddVersion, RemoveAgent, RereadAgent, RecordAudit, ListAuditEvents,
      CheckReferences, AskDeployment, StopRunning, Boot

-----------------------------------------------------------------------------
(* What a step does to what the requests hold and answer. *)

OwnReply(r, x) == \A y \in x : T(r) = IF Asks(r, {"events"}) THEN T(y) ELSE y.tenant
Answers(r) ==
    /\ copy' = copy \/ /\ \E row \in AgentRow : copy' = [copy EXCEPT ![r] = row]
                       /\ pc[r] \in {"new", "select", "load"}
    /\ reply' = reply \/ \E x \in SUBSET (Call \cup AgentRow) :
                             reply' = [reply EXCEPT ![r] = x] /\ OwnReply(r, x)

\* A handler that goes on, or answers with the record, has checked its tenant.
LEMMA HandlerOwns ==
  ASSUME NEW r \in Call, HandlerCode(r) \in {"none", "ok"}
  PROVE  Owned(r)
  BY DEF HandlerCode

LEMMA ReadSteps ==
  ASSUME DeployTypeOK, NEW r \in Call, ApiStep(r) \/ DeployStep(r)
  PROVE  Answers(r)
<1> USE DEF DeployTypeOK, ApiTypeOK
<1>0. agents[A(r)] \in AgentRow
  BY RequestTypes
<1>1. CASE GetAgent(r)
  <2>1. HandlerCode(r) = "ok" => OwnReply(r, {agents[A(r)]})
    BY <1>1, HandlerOwns DEF OwnReply, Owned, GetAgent, AgentOps, VersionOps, StatusOps
  <2> QED
    BY <1>0, <1>1, <2>1 DEF GetAgent, Answers
<1>2. CASE ListAgents(r)
  <2> DEFINE x == {agents[a] : a \in {b \in Live : agents[b].tenant = T(r)}}
  <2>1. x \in SUBSET (Call \cup AgentRow)
    BY DEF Live
  <2>2. OwnReply(r, x)
    BY <1>2 DEF OwnReply, ListAgents, Live
  <2> QED
    BY <1>2, <2>1, <2>2 DEF ListAgents, Answers
<1>3. CASE ListAuditEvents(r)
  <2>1. EventsOf(T(r)) \in SUBSET (Call \cup AgentRow) /\ OwnReply(r, EventsOf(T(r)))
    BY <1>3 DEF EventsOf, OwnReply, ListAuditEvents
  <2> QED
    BY <1>3, <2>1 DEF ListAuditEvents, Answers
<1>4. CASE SelectRow(r) \/ LoadAgent(r)
  BY <1>0, <1>4 DEF SelectRow, LoadAgent, Answers
<1>5. CASE LoadSnapshot(r)
  <2>1. \A v \in Version : [agents[A(r)] EXCEPT !.current = v] \in AgentRow
    BY <1>0 DEF AgentRow
  <2>2. Targets(r) \subseteq Version
    BY RequestTypes DEF Targets
  <2> QED
    BY <1>5, <2>1, <2>2 DEF LoadSnapshot, Answers
<1>6. CASE UNCHANGED <<copy, reply>>
  BY <1>6 DEF Answers
<1> QED
  BY <1>1, <1>2, <1>3, <1>4, <1>5, <1>6
  DEF ApiStep, DeployStep, CreateAgent, DraftAgent, UpdateAgent, ChangeStatus, AddVersion,
      RemoveAgent, RereadAgent, RecordAudit, AskResource, ListKind, ApplyKind, Upsert,
      Register, CheckReferences, RemoveResource, ForgetResource, AskDeployment,
      StopRunning, Export, Boot

-----------------------------------------------------------------------------
(* The inductive invariant. *)

\* Nobody will create a again.
Settled(a) == \A q \in Call : Creates(request[q]) /\ A(q) = a => pc[q] # "new"

FreshIds == \A r \in Call : Creates(request[r]) /\ pc[r] = "new" => ~Exists(A(r))

\* A handler that has passed its check of the tenant may rely on it.
Checked ==
    \A r \in Call : Asks(r, AgentOps) /\ pc[r] \notin {"new", "done"} =>
        agents[A(r)].tenant = T(r) /\ Settled(A(r))

OwnReplies == \A r \in Call : OwnReply(r, reply[r])

DeployPlaces ==
    \A r \in Call :
        IF Asks(r, DeployOps)
        THEN /\ pc[r] \in {"new", "load", "stop", "list", "apply", "boot", "audit", "done"}
             /\ pc[r] \in {"stop", "list", "apply"} => todo[r] # {}
        ELSE pc[r] \notin {"load", "stop", "boot"}

\* The agent of rollback r, if it still exists, has version v with definition d.
Names(r, v, d) ==
    Settled(A(r)) /\ (Exists(A(r)) => HasVersion(agents[A(r)], v) /\ agents[A(r)].versions[v] = d)

Snapshots ==
    \A r \in Call : Asks(r, Rollbacks) /\ pc[r] \in {"stop", "list", "apply"} =>
        Names(r, copy[r].current, copy[r].versions[copy[r].current])

Bundled ==
    \A r \in Call : bundle[r] # NoBundle =>
        /\ Asks(r, DeployOps) /\ pc[r] \in {"boot", "audit", "done"}
        /\ Resolves(bundle[r])
        /\ Asks(r, Rollbacks) => Names(r, bundle[r].label, bundle[r].def)
        /\ runtime[r] = "serving" => Permitted(bundle[r])

Served ==
    \A r \in Call : runtime[r] = "serving" => Asks(r, DeployOps) /\ pc[r] \in {"audit", "done"}

ControlInv ==
    /\ DeployTypeOK /\ WellFormed(request)
    /\ FreshIds /\ Checked /\ OwnReplies /\ DeployPlaces /\ Snapshots /\ Bundled /\ Served

LEMMA ControlStarts == DeployInit => ControlInv
<1> SUFFICES ASSUME DeployInit PROVE ControlInv
  OBVIOUS
<1> USE DEF DeployInit, ApiInit
<1>1. /\ request \in [Call -> Request] /\ WellFormed(request) /\ agents \in [AgentId -> AgentRow]
      /\ stored \in [Tenant -> SUBSET Resource] /\ backend \in {"memory", "postgres", "sqlite"}
  BY ApiAssumption
<1>2. copy \in [Call -> AgentRow]
  <2>1. \A r \in Call : request[r].tenant \in Tenant
    BY <1>1 DEF Request
  <2>2. NoDefinition \in Definition \cup {NoDefinition} /\ NoName \in Name \cup {NoName}
    OBVIOUS
  <2>3. \A r \in Call : NewRow(request[r].tenant, NoName, NoDefinition) \in AgentRow
    BY <2>1, <2>2, NewRowType
  <2> HIDE DEF Asks
  <2> QED
    BY <2>3
<1>3. NoBundle \in Bundle
  BY AgentAssumption DEF NoBundle, Bundle, NoDefinition
<1>4. DeployTypeOK
  BY <1>1, <1>2, <1>3 DEF DeployTypeOK, ApiTypeOK
<1>5. FreshIds /\ Checked /\ OwnReplies /\ DeployPlaces /\ Snapshots /\ Bundled /\ Served
  BY DEF FreshIds, Checked, OwnReplies, OwnReply, DeployPlaces, Snapshots, Bundled, Served
<1> QED
  BY <1>1, <1>4, <1>5 DEF ControlInv

\* The bundles and runtimes of the others stay.
LEMMA BundleSteps ==
  ASSUME DeployTypeOK, NEW r \in Call, (ApiStep(r) /\ UNCHANGED bundleVars) \/ DeployStep(r)
  PROVE  /\ bundle' \in [Call -> Bundle]
         /\ runtime' \in [Call -> {"none", "old", "stopped", "serving", "refused"}]
         /\ \A q \in Call \ {r} : bundle'[q] = bundle[q] /\ runtime'[q] = runtime[q]
<1> USE DEF DeployTypeOK, ApiTypeOK
<1>1. CASE Export(r)
  <2> DEFINE known == Refreshed(request[r].at, T(r), Kind(r), listing[r])
             b == [def |-> Exported(r), label |-> copy[r].current,
                   resources |-> Exported(r).refs \cap known]
  <2>1. Exported(r) \in Definition \cup {NoDefinition} /\ copy[r].current \in Version
    BY DEF Exported, AgentRow
  <2>2. Exported(r).refs \subseteq Resource
    BY <2>1 DEF Definition, NoDefinition
  <2>3. b \in Bundle
    BY <2>1, <2>2 DEF Bundle
  <2>4. /\ bundle' = bundle \/ bundle' = [bundle EXCEPT ![r] = b]
        /\ UNCHANGED runtime
    BY <1>1 DEF Export
  <2> HIDE DEF b, known
  <2>5. bundle' \in [Call -> Bundle] /\ \A q \in Call \ {r} : bundle'[q] = bundle[q]
    BY <2>3, <2>4
  <2> QED
    BY <2>4, <2>5
<1>2. CASE StopRunning(r)
  BY <1>2 DEF StopRunning
<1>3. CASE Boot(r)
  BY <1>3 DEF Boot, Boots
<1>4. CASE UNCHANGED bundleVars
  BY <1>4 DEF bundleVars
<1> QED
  BY <1>1, <1>2, <1>3, <1>4 DEF DeployStep, AskDeployment, LoadAgent, LoadSnapshot

LEMMA TypeStep ==
  ASSUME DeployTypeOK, WellFormed(request), NEW r \in Call,
         (ApiStep(r) /\ UNCHANGED bundleVars) \/ DeployStep(r)
  PROVE  DeployTypeOK'
<1>1. Moves(r) /\ Scoped(r) /\ Answers(r)
  BY ApiMoves, DeployMoves, ResourceSteps, ReadSteps
<1>2. agents' \in [AgentId -> AgentRow]
  <2>1. CASE Inserts(r)
    <3>1. \A n \in Name, d \in Definition \cup {NoDefinition} : NewRow(T(r), n, d) \in AgentRow
      <4>1. T(r) \in Tenant /\ Name \subseteq Name \cup {NoName}
        BY RequestTypes
      <4> QED
        BY <4>1, NewRowType DEF Asks
    <3>2. PICK n \in Name, d \in Definition \cup {NoDefinition} :
              agents' = [agents EXCEPT ![A(r)] = NewRow(T(r), n, d)]
      BY <2>1 DEF Inserts
    <3>3. NewRow(T(r), n, d) \in AgentRow
      BY <3>1
    <3> QED
      BY <3>2, <3>3 DEF DeployTypeOK, ApiTypeOK
  <2> QED
    BY <2>1, RowSteps DEF Rewrites, DeployTypeOK, ApiTypeOK
<1>3. pc' \in [Call -> Phases]
  <2>1. PICK phase \in Phases : pc' = [pc EXCEPT ![r] = phase]
    BY <1>1 DEF Moves
  <2> QED
    BY <2>1 DEF DeployTypeOK, ApiTypeOK
<1>4. copy' \in [Call -> AgentRow]
  BY <1>1 DEF Answers, DeployTypeOK, ApiTypeOK
<1>5. reply' \in [Call -> SUBSET (Call \cup AgentRow)]
  <2>1. CASE reply' = reply
    BY <2>1 DEF DeployTypeOK, ApiTypeOK
  <2>2. CASE reply' # reply
    <3>1. PICK x \in SUBSET (Call \cup AgentRow) : reply' = [reply EXCEPT ![r] = x]
      BY <1>1, <2>2 DEF Answers
    <3> QED
      BY <3>1 DEF DeployTypeOK, ApiTypeOK
  <2> QED
    BY <2>1, <2>2
<1> QED
  BY <1>1, <1>2, <1>3, <1>4, <1>5, BundleSteps DEF Moves, Scoped, DeployTypeOK, ApiTypeOK

\* Once no request will create a, its versions, and its tenant, stay.
LEMMA SettledKeeps ==
  ASSUME ControlInv, NEW r \in Call, ApiStep(r) \/ DeployStep(r), NEW a \in AgentId, Settled(a)
  PROVE  /\ Settled(a)' /\ agents'[a].tenant = agents[a].tenant
         /\ Exists(a)' => /\ Exists(a)
                          /\ \A v \in Version : HasVersion(agents[a], v) =>
                                 agents'[a].versions[v] = agents[a].versions[v]
<1> USE DEF ControlInv, DeployTypeOK, ApiTypeOK
<1>1. Moves(r)
  BY ApiMoves, DeployMoves
<1>2. Settled(a)'
  BY <1>1 DEF Moves, Settled
<1>3. CASE agents' = agents
  BY <1>2, <1>3 DEF Exists
<1>4. CASE Inserts(r)
  <2>1. a # A(r)
    BY <1>4 DEF Inserts, Settled
  <2> QED
    BY <1>2, <1>4, <2>1 DEF Inserts, Exists
<1>5. CASE Rewrites(r)
  BY <1>2, <1>5, RequestTypes DEF Rewrites, RowMoves, Exists
<1> QED
  BY <1>3, <1>4, <1>5, RowSteps

LEMMA FreshStep ==
  ASSUME ControlInv, NEW r \in Call, ApiStep(r) \/ DeployStep(r)
  PROVE  FreshIds'
<1> USE DEF ControlInv, DeployTypeOK, ApiTypeOK, FreshIds, Exists
<1>1. Moves(r)
  BY ApiMoves, DeployMoves
<1>2. CASE agents' = agents
  BY <1>1, <1>2 DEF Moves
<1>3. CASE Inserts(r)
  <2>1. \A q \in Call \ {r} : Creates(request[q]) => A(q) # A(r)
    BY <1>3 DEF Inserts, WellFormed
  <2> QED
    BY <1>1, <1>3, <2>1 DEF Moves, Inserts
<1>4. CASE Rewrites(r)
  BY <1>1, <1>4 DEF Moves, Rewrites
<1> QED
  BY <1>2, <1>3, <1>4, RowSteps

LEMMA CheckedStep ==
  ASSUME ControlInv, NEW r \in Call, ApiStep(r) \/ DeployStep(r)
  PROVE  Checked'
<1>1. Moves(r)
  BY ApiMoves, DeployMoves DEF ControlInv
<1> SUFFICES ASSUME NEW q \in Call, (Asks(q, AgentOps) /\ pc[q] \notin {"new", "done"})'
             PROVE  (agents[A(q)].tenant = T(q) /\ Settled(A(q)))'
  BY DEF Checked
<1>2. Asks(q, AgentOps) /\ A(q)' = A(q) /\ T(q)' = T(q) /\ A(q) \in AgentId
  BY <1>1, RequestTypes DEF Moves, ControlInv
<1>3. agents[A(q)].tenant = T(q) /\ Settled(A(q))
  <2>1. CASE q = r /\ pc[r] = "new"
    <3>1. GetAgent(r)
      BY <1>2, <2>1 DEF ApiStep, DeployStep, CreateAgent, DraftAgent, ListAgents, UpdateAgent,
         SelectRow, ChangeStatus, AddVersion, RemoveAgent, RereadAgent, RecordAudit,
         ListAuditEvents, AskResource, ListKind, ApplyKind, Upsert, Register, CheckReferences,
         RemoveResource, ForgetResource, AskDeployment, LoadAgent, LoadSnapshot, StopRunning,
         Export, Boot, AgentOps, VersionOps, StatusOps, DeployOps, ResourceOps
    <3>2. HandlerCode(r) = "none"
      BY <1>1, <2>1, <3>1 DEF GetAgent, ControlInv, DeployTypeOK, ApiTypeOK
    <3> QED
      BY <2>1, <3>2, HandlerOwns DEF Owned, Settled, ControlInv, FreshIds
  <2>2. CASE ~(q = r /\ pc[r] = "new")
    BY <1>1, <1>2, <2>2 DEF Moves, ControlInv, Checked, DeployTypeOK, ApiTypeOK
  <2> QED
    BY <2>1, <2>2
<1> QED
  BY <1>1, <1>2, <1>3, SettledKeeps DEF Moves

LEMMA RepliesStep ==
  ASSUME ControlInv, NEW r \in Call, ApiStep(r) \/ DeployStep(r)
  PROVE  OwnReplies'
<1>1. Moves(r) /\ Answers(r)
  BY ApiMoves, DeployMoves, ReadSteps DEF ControlInv
<1>2. \A q \in Call : OwnReply(q, reply'[q])
  <2>1. CASE reply' = reply
    BY <2>1 DEF ControlInv, OwnReplies
  <2>2. CASE reply' # reply
    <3>1. PICK x \in SUBSET (Call \cup AgentRow) :
              reply' = [reply EXCEPT ![r] = x] /\ OwnReply(r, x)
      BY <1>1, <2>2 DEF Answers
    <3> QED
      BY <3>1 DEF ControlInv, OwnReplies, DeployTypeOK, ApiTypeOK
  <2> QED
    BY <2>1, <2>2
<1> QED
  BY <1>1, <1>2 DEF Moves, OwnReplies, OwnReply

\* The steps a deployment takes.
LEMMA DeploySteps ==
  ASSUME ControlInv, NEW r \in Call, ApiStep(r) \/ DeployStep(r), Asks(r, DeployOps)
  PROVE  DeployStep(r) \/ ListKind(r) \/ ApplyKind(r) \/ RecordAudit(r)
<1>1. pc[r] \in {"new", "load", "stop", "list", "apply", "boot", "audit", "done"}
  BY DEF ControlInv, DeployPlaces
<1>2. /\ ~Asks(r, AgentOps) /\ ~Asks(r, ResourceOps \cup {"export", "import"})
      /\ ~Asks(r, {"create", "draft_tool", "agents", "search_tool", "events"})
  BY DEF DeployOps, AgentOps, ResourceOps, VersionOps, StatusOps
<1> QED
  BY <1>1, <1>2 DEF ApiStep, CreateAgent, DraftAgent, GetAgent, ListAgents, UpdateAgent, SelectRow,
     ChangeStatus, AddVersion, RemoveAgent, RereadAgent, ListAuditEvents, AskResource, Upsert,
     Register, CheckReferences, RemoveResource, ForgetResource

LEMMA PlacesStep ==
  ASSUME ControlInv, NEW r \in Call, ApiStep(r) \/ DeployStep(r)
  PROVE  DeployPlaces'
<1> USE DEF ControlInv, DeployTypeOK, ApiTypeOK
<1>1. Moves(r) /\ Scoped(r)
  BY ApiMoves, DeployMoves, ResourceSteps
<1>2. ASSUME Asks(r, DeployOps)
      PROVE  /\ pc'[r] \in {"new", "load", "stop", "list", "apply", "boot", "audit", "done"}
             /\ pc'[r] \in {"stop", "list", "apply"} => todo'[r] # {}
  <2>0. DOMAIN Kinds # {}
    BY KindsAssumption
  <2>1. pc[r] \in {"stop", "list", "apply"} => todo[r] # {}
    BY <1>2 DEF DeployPlaces
  <2>2. CASE ListKind(r)
    BY <2>1, <2>2 DEF ListKind
  <2>3. CASE ApplyKind(r)
    <3>1. todo[r] \ {Kind(r)} # {}
      BY <1>2, <2>1, <2>3 DEF ApplyKind
    <3> QED
      BY <2>3, <3>1 DEF ApplyKind
  <2>4. CASE RecordAudit(r)
    BY <1>2, <2>4 DEF RecordAudit, DeployOps
  <2>5. CASE AskDeployment(r) \/ StopRunning(r) \/ Export(r) \/ Boot(r)
    BY <2>1, <2>5 DEF AskDeployment, StopRunning, Export, Boot
  <2>6. CASE LoadAgent(r) \/ LoadSnapshot(r)
    BY <2>0, <2>6 DEF LoadAgent, LoadSnapshot
  <2> QED
    BY <1>2, <2>2, <2>3, <2>4, <2>5, <2>6, DeploySteps DEF DeployStep
<1>3. ASSUME ~Asks(r, DeployOps) PROVE pc'[r] \notin {"load", "stop", "boot"}
  <2>1. pc[r] \notin {"load", "stop", "boot"}
    BY <1>3 DEF DeployPlaces
  <2>2. ~DeployStep(r)
    BY <1>3, <2>1 DEF DeployStep, AskDeployment, LoadAgent, LoadSnapshot, StopRunning, Export, Boot,
       DeployOps, Rollbacks
  <2>3. CASE ApplyKind(r)
    <3>1. \A known : AfterRefresh(r, known)[1] \notin {"load", "stop", "boot"}
      BY DEF AfterRefresh, Transaction
    <3> QED
      BY <2>3, <3>1 DEF ApplyKind
  <2>4. CASE CreateAgent(r) \/ DraftAgent(r) \/ GetAgent(r) \/ ListAgents(r) \/ UpdateAgent(r)
    BY <2>4 DEF CreateAgent, DraftAgent, GetAgent, Transaction, ListAgents, UpdateAgent
  <2>5. CASE SelectRow(r) \/ ChangeStatus(r) \/ AddVersion(r) \/ RemoveAgent(r) \/ RereadAgent(r)
    BY <2>5 DEF SelectRow, ChangeStatus, AddVersion, RemoveAgent, RereadAgent
  <2>6. CASE \/ RecordAudit(r) \/ ListAuditEvents(r) \/ AskResource(r) \/ ListKind(r) \/ Upsert(r)
             \/ Register(r) \/ CheckReferences(r) \/ RemoveResource(r) \/ ForgetResource(r)
    BY <2>6 DEF RecordAudit, ListAuditEvents, AskResource, ListKind, Upsert, Register,
       CheckReferences, RemoveResource, ForgetResource
  <2> QED
    BY <2>2, <2>3, <2>4, <2>5, <2>6 DEF ApiStep
<1> QED
  BY <1>1, <1>2, <1>3 DEF Moves, Scoped, DeployPlaces

LEMMA NamesKept ==
  ASSUME ControlInv, NEW r \in Call, ApiStep(r) \/ DeployStep(r), NEW q \in Call,
         NEW v \in Version, NEW d, Names(q, v, d)
  PROVE  Names(q, v, d)'
<1>1. Moves(r) /\ A(q) \in AgentId
  BY ApiMoves, DeployMoves, RequestTypes DEF ControlInv
<1> QED
  BY <1>1, SettledKeeps DEF Names, Moves, HasVersion

LEMMA SnapshotsStep ==
  ASSUME ControlInv, NEW r \in Call, ApiStep(r) \/ DeployStep(r)
  PROVE  Snapshots'
<1> USE DEF ControlInv, DeployTypeOK, ApiTypeOK
<1>1. Moves(r) /\ Answers(r)
  BY ApiMoves, DeployMoves, ReadSteps
<1> SUFFICES ASSUME NEW q \in Call,
                    (Asks(q, Rollbacks) /\ pc[q] \in {"stop", "list", "apply"})'
             PROVE  Names(q, copy[q].current, copy[q].versions[copy[q].current])'
  BY DEF Snapshots
<1>2. Asks(q, Rollbacks) /\ Asks(q, DeployOps)
  BY <1>1 DEF Moves, Rollbacks, DeployOps
<1>3. \A row \in AgentRow : row.current \in Version
  BY DEF AgentRow
<1>4. CASE copy'[q] = copy[q] /\ pc[q] \in {"stop", "list", "apply"}
  <2>1. Names(q, copy[q].current, copy[q].versions[copy[q].current])
    BY <1>2, <1>4 DEF Snapshots
  <2> QED
    BY <1>3, <1>4, <2>1, NamesKept
<1>5. CASE q = r /\ LoadSnapshot(r)
  <2>1. PICK v \in Targets(r) :
            /\ Exists(A(r)) /\ HasVersion(agents[A(r)], v)
            /\ copy' = [copy EXCEPT ![r] = [agents[A(r)] EXCEPT !.current = v]]
    BY <1>5, <1>1 DEF LoadSnapshot
  <2>2. agents[A(r)] \in AgentRow /\ v \in Version
    BY RequestTypes DEF Targets
  <2>3. copy'[r].current = v /\ copy'[r].versions = agents[A(r)].versions
    BY <2>1, <2>2 DEF AgentRow
  <2>4. Names(r, v, agents[A(r)].versions[v])
    BY <2>1, RequestTypes DEF Names, Settled, FreshIds
  <2>5. Names(r, v, agents[A(r)].versions[v])'
    BY <2>2, <2>4, NamesKept, <1>5 DEF LoadSnapshot
  <2> QED
    BY <1>5, <2>3, <2>5 DEF LoadSnapshot
<1>6. CASE q # r
  BY <1>1, <1>4, <1>6 DEF Moves, Answers
<1>7. CASE q = r /\ ~LoadSnapshot(r)
  <2>1. pc[r] \in {"stop", "list", "apply"} /\ copy'[r] = copy[r]
    <3>1. pc'[r] \in {"stop", "list", "apply"}
      BY <1>2, <1>7
    <3>2. ~LoadAgent(r)
      BY <1>2, <1>7 DEF LoadAgent, Rollbacks
    <3>5. ~AskDeployment(r)
      BY <1>7, <3>1 DEF AskDeployment
    <3>3. CASE ListKind(r) \/ ApplyKind(r) \/ RecordAudit(r)
      BY <1>2, <3>1, <3>3 DEF ListKind, ApplyKind, RecordAudit, DeployOps
    <3>4. CASE StopRunning(r) \/ Export(r) \/ Boot(r)
      BY <3>1, <3>4 DEF StopRunning, Export, Boot
    <3> QED
      BY <1>2, <1>7, <3>2, <3>3, <3>4, <3>5, DeploySteps DEF DeployStep
  <2> QED
    BY <1>4, <1>7, <2>1
<1> QED
  BY <1>5, <1>6, <1>7

LEMMA BundledStep ==
  ASSUME ControlInv, NEW r \in Call, (ApiStep(r) /\ UNCHANGED bundleVars) \/ DeployStep(r)
  PROVE  Bundled' /\ Served'
<1> USE DEF ControlInv, DeployTypeOK, ApiTypeOK
<1>1. Moves(r) /\ \A q \in Call \ {r} : bundle'[q] = bundle[q] /\ runtime'[q] = runtime[q]
  BY ApiMoves, DeployMoves, BundleSteps
<1>2. \A b \in Bundle : b.label \in Version
  BY DEF Bundle
<1>3. ASSUME NEW q \in Call, bundle'[q] = bundle[q], bundle[q] # NoBundle
      PROVE  Asks(q, Rollbacks) => Names(q, bundle[q].label, bundle[q].def)'
  BY <1>2, <1>3, NamesKept DEF Bundled
<1>4. Served'
  <2>1. runtime'[r] = "serving" => Asks(r, DeployOps) /\ pc'[r] \in {"audit", "done"}
    <3>1. CASE runtime' = runtime
      <4>1. SUFFICES ASSUME runtime[r] = "serving"
                     PROVE  Asks(r, DeployOps) /\ pc'[r] \in {"audit", "done"}
        BY <3>1
      <4>2. Asks(r, DeployOps) /\ pc[r] = "audit"
        BY <1>1, <4>1 DEF Served, Moves
      <4>3. RecordAudit(r)
        BY <4>2, DeploySteps DEF DeployStep, ListKind, ApplyKind, AskDeployment, LoadAgent,
           LoadSnapshot, StopRunning, Export, Boot
      <4> QED
        BY <4>2, <4>3 DEF RecordAudit, DeployOps
    <3>2. CASE StopRunning(r)
      BY <1>1, <3>2 DEF StopRunning, Served
    <3>3. CASE Boot(r)
      BY <3>3 DEF Boot, DeployPlaces
    <3> QED
      BY <3>1, <3>2, <3>3 DEF DeployStep, AskDeployment, LoadAgent, LoadSnapshot, Export, bundleVars
  <2> QED
    BY <1>1, <2>1 DEF Served, Moves
<1>5. Bundled'
  <2> SUFFICES ASSUME NEW q \in Call, bundle'[q] # NoBundle
               PROVE  (/\ Asks(q, DeployOps) /\ pc[q] \in {"boot", "audit", "done"}
                       /\ Resolves(bundle[q])
                       /\ Asks(q, Rollbacks) => Names(q, bundle[q].label, bundle[q].def)
                       /\ runtime[q] = "serving" => Permitted(bundle[q]))'
    BY DEF Bundled
  <2>1. CASE q # r
    BY <1>1, <1>3, <2>1 DEF Moves, Bundled
  <2>2. CASE q = r /\ Export(r)
    <3>1. /\ bundle'[r].def = Exported(r) /\ bundle'[r].label = copy[r].current
          /\ bundle'[r].resources = Exported(r).refs \cap Refreshed(request[r].at, T(r), Kind(r), listing[r])
          /\ Present(r, Refreshed(request[r].at, T(r), Kind(r), listing[r])) /\ pc'[r] = "boot"
      <4>1. bundle[r] = NoBundle
        BY <2>2 DEF Export, Bundled
      <4> QED
        BY <2>2, <4>1 DEF Export
    <3>2. Resolves(bundle'[r])
      BY <3>1 DEF Resolves, Present
    <3>3. Asks(r, Rollbacks) => Names(r, copy[r].current, Exported(r))'
      <4>1. copy[r].current \in Version
        BY DEF AgentRow
      <4>2. Asks(r, Rollbacks) => Names(r, copy[r].current, Exported(r))
        BY <2>2 DEF Exported, Export, Snapshots
      <4>3. copy' = copy
        BY <2>2 DEF Export
      <4>4. Exported(r)' = Exported(r)
        BY <1>1, <4>3 DEF Exported, Moves
      <4> QED
        BY <4>1, <4>2, <4>3, <4>4, NamesKept
    <3>4. runtime'[r] # "serving"
      BY <1>4, <3>1 DEF Served
    <3> QED
      BY <1>1, <2>2, <3>1, <3>2, <3>3, <3>4 DEF Moves, Export, Exported
  <2>3. CASE q = r /\ ~Export(r)
    <3>1. bundle' = bundle
      BY <2>3 DEF DeployStep, AskDeployment, LoadAgent, LoadSnapshot, StopRunning, Boot, bundleVars
    <3>2. Asks(r, DeployOps) /\ pc[r] \in {"boot", "audit"}
      BY <1>1, <2>3, <3>1 DEF Bundled, Moves
    <3>3. CASE Boot(r)
      <4>1. runtime'[r] = "serving" => Permitted(bundle[r])
        BY <3>3 DEF Boot, Boots
      <4> QED
        BY <1>1, <1>3, <2>3, <3>1, <3>2, <3>3, <4>1 DEF Boot, Bundled, Moves
    <3>4. CASE RecordAudit(r)
      <4>1. runtime' = runtime
        BY <3>4, <3>2 DEF RecordAudit, DeployStep, AskDeployment, LoadAgent, LoadSnapshot,
           StopRunning, Export, Boot, bundleVars
      <4>2. pc'[r] \in {"audit", "done"}
        BY <3>2, <3>4 DEF RecordAudit, DeployOps
      <4> QED
        BY <1>1, <1>3, <2>3, <3>1, <3>2, <4>1, <4>2 DEF Bundled, Moves
    <3> QED
      BY <2>3, <3>2, <3>3, <3>4, DeploySteps DEF DeployStep, ListKind, ApplyKind, AskDeployment,
         LoadAgent, LoadSnapshot, StopRunning, Export
  <2> QED
    BY <2>1, <2>2, <2>3
<1> QED
  BY <1>4, <1>5

\* A step of a request keeps the invariant.
LEMMA ControlKept ==
  ASSUME ControlInv, NEW r \in Call, (ApiStep(r) /\ UNCHANGED bundleVars) \/ DeployStep(r)
  PROVE  ControlInv'
<1>1. ApiStep(r) \/ DeployStep(r)
  OBVIOUS
<1>2. DeployTypeOK'
  BY TypeStep DEF ControlInv
<1>3. WellFormed(request)'
  BY <1>1, ApiMoves, DeployMoves DEF ControlInv, Moves, WellFormed
<1> QED
  BY <1>1, <1>2, <1>3, FreshStep, CheckedStep, RepliesStep, PlacesStep, SnapshotsStep, BundledStep
  DEF ControlInv

LEMMA InvStutter == ControlInv /\ UNCHANGED deployVars => ControlInv'
<1> SUFFICES ASSUME ControlInv, UNCHANGED deployVars PROVE ControlInv'
  OBVIOUS
<1> USE DEF deployVars, apiVars, bundleVars
<1>1. DeployTypeOK' /\ WellFormed(request)'
  BY DEF ControlInv, DeployTypeOK, ApiTypeOK, WellFormed
<1>2. FreshIds' /\ Checked' /\ OwnReplies' /\ DeployPlaces'
  BY DEF ControlInv, FreshIds, Checked, Settled, Exists, OwnReplies, OwnReply, DeployPlaces
<1>3. Snapshots' /\ Bundled' /\ Served'
  BY DEF ControlInv, Snapshots, Names, Settled, Exists, HasVersion, Bundled, Resolves, Permitted, Served
<1> QED
  BY <1>1, <1>2, <1>3 DEF ControlInv

\* The inductive invariant holds: types, and what every request between two of its
\* awaits may rely on although others change the same agent.
THEOREM ControlPlaneInvariant == DeploySpec => []ControlInv
<1>1. ControlInv /\ [DeployNext]_deployVars => ControlInv'
  BY ControlKept, InvStutter DEF DeployNext
<1> QED
  BY <1>1, ControlStarts, PTL DEF DeploySpec

-----------------------------------------------------------------------------
(* The properties. *)

\* The step of a request, as far as it concerns the rows of agents.
LEMMA RowCases ==
  ASSUME ControlInv, [DeployNext]_deployVars
  PROVE  agents' = agents \/ \E r \in Call : Inserts(r) \/ Rewrites(r)
  BY RowSteps DEF ControlInv, DeployNext, deployVars, apiVars

\* No update, version or lifecycle move, racing whichever others, changes a version
\* that exists (agent_catalog.py: "an immutable snapshot").
THEOREM VersionsStayImmutable == DeploySpec => VersionsAreImmutable
<1>1. ControlInv /\ [DeployNext]_deployVars => [VersionsKept]_apiVars
  <2> SUFFICES ASSUME ControlInv, [DeployNext]_deployVars PROVE VersionsKept
    OBVIOUS
  <2> USE DEF ControlInv, DeployTypeOK, ApiTypeOK, VersionsKept, Exists
  <2>1. CASE agents' = agents
    BY <2>1
  <2>2. ASSUME NEW r \in Call, Inserts(r) PROVE VersionsKept
    BY <2>2, RequestTypes DEF Inserts, FreshIds
  <2>3. ASSUME NEW r \in Call, Rewrites(r) PROVE VersionsKept
    BY <2>3, RequestTypes DEF Rewrites, RowMoves, HasVersion
  <2> QED
    BY <2>1, <2>2, <2>3, RowCases
<1> QED
  BY <1>1, ControlPlaneInvariant, PTL DEF DeploySpec, VersionsAreImmutable

\* With a row lock, or without suspension, an archived agent is never brought back
\* (_VALID_TRANSITIONS), whichever lifecycle requests race.
THEOREM ArchivedIsFinal == DeploySpec => LockedArchivedIsFinal
<1>1. ControlInv /\ [DeployNext]_deployVars => [backend # "sqlite" => ArchivedStays]_apiVars
  <2> SUFFICES ASSUME ControlInv, [DeployNext]_deployVars, backend # "sqlite" PROVE ArchivedStays
    OBVIOUS
  <2> USE DEF ControlInv, DeployTypeOK, ApiTypeOK, ArchivedStays, Exists
  <2>1. CASE agents' = agents
    BY <2>1
  <2>2. ASSUME NEW r \in Call, Inserts(r) PROVE ArchivedStays
    BY <2>2, RequestTypes DEF Inserts, FreshIds
  <2>3. ASSUME NEW r \in Call, Rewrites(r) PROVE ArchivedStays
    BY <2>3, RequestTypes DEF Rewrites, RowMoves
  <2> QED
    BY <2>1, <2>2, <2>3, RowCases
<1> QED
  BY <1>1, ControlPlaneInvariant, PTL DEF DeploySpec, LockedArchivedIsFinal

\* With a row lock, or without suspension, the definition of an agent changes by a
\* PATCH only: no version snapshot writes an older one back.
THEOREM OnlyPatchesChangeDefinitions == DeploySpec => DefinitionsChangeByPatch
<1> DEFINE Patch == backend # "sqlite" =>
             \A a \in AgentId : Exists(a) /\ Exists(a)' /\ agents'[a].def # agents[a].def
                                    => PatchedInThisStep(a)
<1>1. ControlInv /\ [DeployNext]_deployVars => [Patch]_apiVars
  <2> SUFFICES ASSUME ControlInv, [DeployNext]_deployVars PROVE Patch
    OBVIOUS
  <2> USE DEF ControlInv, DeployTypeOK, ApiTypeOK, Exists
  <2>1. CASE agents' = agents
    BY <2>1
  <2>2. ASSUME NEW r \in Call, Inserts(r) PROVE Patch
    BY <2>2, RequestTypes DEF Inserts, FreshIds
  <2>3. ASSUME NEW r \in Call, Rewrites(r) PROVE Patch
    BY <2>3, RequestTypes DEF Rewrites, RowMoves, PatchedInThisStep
  <2> QED
    BY <2>1, <2>2, <2>3, RowCases
<1> QED
  BY <1>1, ControlPlaneInvariant, PTL DEF DeploySpec, DefinitionsChangeByPatch

\* A request answers with and changes what belongs to its tenant only.
THEOREM TenantsStaySeparate == DeploySpec => TenantsAreSeparate
<1> DEFINE Separate ==
             /\ \A r \in Call : pc'[r] # pc[r] => ChangesStayIn(T(r))
             /\ \A r \in Call : \A x \in reply'[r] :
                    T(r) = IF Asks(r, {"events"}) THEN T(x) ELSE x.tenant
<1>1. ASSUME ControlInv, NEW r \in Call, (ApiStep(r) /\ UNCHANGED bundleVars) \/ DeployStep(r)
      PROVE  Separate
  <2> USE DEF ControlInv, DeployTypeOK, ApiTypeOK
  <2>1. Moves(r) /\ Scoped(r)
    BY <1>1, ApiMoves, DeployMoves, ResourceSteps
  <2>2. \A a \in AgentId : agents'[a] # agents[a] =>
            agents'[a].tenant = T(r) /\ (Exists(a) => agents[a].tenant = T(r))
    <3>1. CASE agents' = agents
      BY <3>1
    <3>2. CASE Inserts(r)
      BY <1>1, <3>2, RequestTypes DEF Inserts, FreshIds, NewRow
    <3>3. CASE Rewrites(r)
      BY <1>1, <3>3, RequestTypes DEF Rewrites, RowMoves, Checked
    <3> QED
      BY <1>1, <3>1, <3>2, <3>3, RowSteps
  <2>3. ChangesStayIn(T(r))
    BY <2>1, <2>2 DEF Scoped, ChangesStayIn
  <2>4. \A q \in Call : OwnReply(q, reply'[q])
    <3>1. OwnReplies'
      BY <1>1, RepliesStep
    <3> QED
      BY <2>1, <3>1 DEF OwnReplies, OwnReply, Moves
  <2>5. ASSUME NEW q \in Call, pc'[q] # pc[q] PROVE ChangesStayIn(T(q))
    <3>1. q = r
      BY <1>1, <2>1, <2>5 DEF Moves
    <3> QED
      BY <2>3, <3>1
  <2>6. \A q \in Call : \A x \in reply'[q] : T(q) = IF Asks(q, {"events"}) THEN T(x) ELSE x.tenant
    BY <2>4 DEF OwnReply
  <2> QED
    BY <2>5, <2>6
<1>2. ControlInv /\ [DeployNext]_deployVars => [Separate]_apiVars
  BY <1>1 DEF DeployNext, deployVars
<1> QED
  BY <1>2, ControlPlaneInvariant, PTL DEF DeploySpec, TenantsAreSeparate

\* A bundle holds what its definition refers to, and a rollback's is the version it
\* is labelled with, as long as the agent exists; what serves is permitted.
THEOREM BundlesStaySnapshots == DeploySpec => []BundlesAreSnapshots
<1>1. ControlInv => BundlesAreSnapshots
  BY DEF ControlInv, Bundled, Names, BundlesAreSnapshots
<1> QED
  BY <1>1, ControlPlaneInvariant, PTL

\* The types, for every instance.
THEOREM ControlPlaneTypes == DeploySpec => []DeployTypeOK
<1>1. ControlInv => DeployTypeOK
  BY DEF ControlInv
<1> QED
  BY <1>1, ControlPlaneInvariant, PTL
=============================================================================
