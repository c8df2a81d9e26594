-------------------------- MODULE ResourceRegistry --------------------------
(***************************************************************************)
(* The catalog resources (models, tools, skills, MCP servers, memory       *)
(* policies) of the Control Plane: the definitions stored for each tenant  *)
(* (the ResourceDefinitionRepository of repositories.py) and the catalog   *)
(* each process keeps of them (resource_catalogs.py), which                *)
(* resources_api.py reconciles kind by kind.  Only presence is modelled.   *)
(***************************************************************************)
EXTENDS AgentRecords, Sequences

CONSTANTS Kinds,           \* the resources of each kind, in the order of _KIND_BINDINGS
          Process          \* the Control Plane processes

ASSUME KindsAssumption ==
    /\ Kinds \in Seq(SUBSET Resource) /\ Kinds # <<>>
    /\ UNION {Kinds[k] : k \in DOMAIN Kinds} = Resource
    /\ \A j, k \in DOMAIN Kinds : j # k => Kinds[j] \cap Kinds[k] = {}

VARIABLES stored,          \* stored[t]: the resource definitions of tenant t
          catalog          \* catalog[p][t]: the catalog of t in process p

KindsOf(resources) == {k \in DOMAIN Kinds : Kinds[k] \cap resources # {}}

\* list: one statement returns the definitions of one kind.
Listing(k, t) == stored[t] \cap Kinds[k]

\* for_tenant: the namespace of a tenant in the catalogs of a process.
CatalogOf(p, t) == catalog[p][t]
\* The resources of the namespace become known, or grow by the ones registered.
SetCatalog(p, t, known) == catalog' = [catalog EXCEPT ![p][t] = known]
AddToCatalog(p, t, resources) == SetCatalog(p, t, CatalogOf(p, t) \cup resources)

\* _refresh_catalog, after the list: the catalog of kind k becomes the listing.
Refreshed(p, t, k, listing) == (CatalogOf(p, t) \ Kinds[k]) \cup listing

\* upsert and upsert_many: one statement, which inserts or replaces.
UpsertResources(t, resources) == stored' = [stored EXCEPT ![t] = @ \cup resources]
DeleteStored(t, resources) == stored' = [stored EXCEPT ![t] = @ \ resources]

\* _referencing_agents finds an agent of the tenant that refers to the resource.
Referenced(t, resources) ==
    \E a \in Live : agents[a].tenant = t /\ agents[a].def.refs \cap resources # {}
=============================================================================
