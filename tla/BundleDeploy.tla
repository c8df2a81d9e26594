----------------------------- MODULE BundleDeploy -----------------------------
(***************************************************************************)
(* What a deployment runs: the bundle that deploy and rollback of          *)
(* deployment_service.py export from the agent's record and the tenant's   *)
(* catalogs, and the runtime that boots from it (bundle.py, service.py and *)
(* runtime.py of the runtimes).  The requests of ControlPlaneApi go on     *)
(* meanwhile.  The ownership of the operation and the records of the       *)
(* deployments are in DeploymentService; here the deployment a rollback    *)
(* names runs, and a deploy finds none running.                            *)
(***************************************************************************)
EXTENDS ControlPlaneApi

VARIABLES bundle,          \* bundle[r]: what r exported
          runtime          \* runtime[r]: the runtime of the deployment of r

bundleVars == <<bundle, runtime>>
deployVars == <<apiVars, bundleVars>>

Rollbacks == {"rollback", "rollback_previous"}
Bundle == [def : Definition \cup {NoDefinition}, label : Version, resources : SUBSET Resource]
NoBundle == [def |-> NoDefinition, label |-> FirstVersion, resources |-> {}]

DeployInit ==
    /\ ApiInit
    /\ bundle = [r \in Call |-> NoBundle]
    /\ runtime = [r \in Call |-> IF Asks(r, Rollbacks) THEN "old" ELSE "none"]

\* The routes: require_agent compares the tenant of the agent, require_deployment
\* that of the deployment's record, which outlives the agent.
AskDeployment(r) ==
    /\ At(r, "new") /\ Asks(r, DeployOps)
    /\ LET denied == IF Asks(r, Rollbacks) THEN agents[A(r)].tenant # T(r) ELSE ~Owned(r) IN
       GoOrAnswer(r, "load", IF ~denied THEN "none"
                             ELSE IF Asks(r, Tools) /\ Exists(A(r)) THEN "403" ELSE "404")
    /\ UNCHANGED <<agents, audited, bundleVars>> /\ noResource /\ noRead /\ fixed

\* deploy reads the agent again: it has a definition and is active.
LoadAgent(r) ==
    /\ At(r, "load") /\ Asks(r, {"deploy", "deploy_tool"})
    /\ LET row == agents[A(r)] IN
       \/ row.status = "absent" /\ Answer(r, "404") /\ UNCHANGED <<copy, todo>>
       \/ /\ row.status # "absent" /\ (row.def = NoDefinition \/ row.status # "active")
          /\ Answer(r, "422") /\ UNCHANGED <<copy, todo>>
       \/ /\ row.def # NoDefinition /\ row.status = "active"
          /\ copy' = [copy EXCEPT ![r] = row]
          /\ todo' = [todo EXCEPT ![r] = DOMAIN Kinds]
          /\ Go(r, "list")
    /\ UNCHANGED <<agents, audited, stored, catalog, listing, reply, bundleVars>> /\ fixed

\* The version to roll back to: the one asked for, or an earlier one.
Targets(r) == IF Asks(r, {"rollback"}) THEN {request[r].version}
              ELSE {v \in Version : HasVersion(agents[A(r)], v)} \ {agents[A(r)].current}

\* rollback reads the agent and picks the snapshot; copy remembers it as current.
LoadSnapshot(r) ==
    /\ At(r, "load") /\ Asks(r, Rollbacks)
    /\ \/ \E v \in Targets(r) :
            /\ Exists(A(r)) /\ HasVersion(agents[A(r)], v)
            /\ copy' = [copy EXCEPT ![r] = [agents[A(r)] EXCEPT !.current = v]]
            /\ todo' = [todo EXCEPT ![r] = DOMAIN Kinds]
            /\ Go(r, "stop")
       \/ /\ ~Exists(A(r)) \/ \A v \in Targets(r) : ~HasVersion(agents[A(r)], v)
          /\ Answer(r, "422") /\ UNCHANGED <<copy, todo>>
    /\ UNCHANGED <<agents, audited, stored, catalog, listing, reply, bundleVars>> /\ fixed

\* The running deployment is stopped before anything is exported.
StopRunning(r) ==
    /\ At(r, "stop")
    /\ \/ runtime' = [runtime EXCEPT ![r] = "stopped"] /\ Go(r, "list")
       \/ Answer(r, "422") /\ UNCHANGED runtime
    /\ UNCHANGED <<agents, audited, bundle>> /\ noResource /\ noRead /\ fixed

\* Mutant: a rollback exports the current definition too.
ExportedCurrent(r) == copy[r].def
\* override_definition
Exported(r) == IF Asks(r, Rollbacks) THEN copy[r].versions[copy[r].current] ELSE copy[r].def

\* _catalogs_has, for each reference.
Present(r, known) == Exported(r).refs \subseteq known

\* _export_bundle, together with the refresh of the last kind (no await between).
Export(r) ==
    /\ At(r, "apply") /\ Asks(r, DeployOps) /\ todo[r] = {Kind(r)}
    /\ LET p == request[r].at
           known == Refreshed(p, T(r), Kind(r), listing[r]) IN
       /\ SetCatalog(p, T(r), known)
       /\ \/ /\ Present(r, known)
             /\ bundle' = [bundle EXCEPT ![r] =
                     [def |-> Exported(r), label |-> copy[r].current,
                      resources |-> Exported(r).refs \cap known]]
             /\ Go(r, "boot")
          \/ ~Present(r, known) /\ Answer(r, "422") /\ UNCHANGED bundle
    /\ todo' = [todo EXCEPT ![r] = {}]
    /\ UNCHANGED <<agents, audited, stored, listing, runtime>> /\ noRead /\ fixed

\* build_catalogs and _validate_references: every reference is in the bundle.
Resolves(b) == b.def.refs \subseteq b.resources
\* _require_policy, for each reference.
Permitted(b) == b.def.refs \cap b.def.denied = {}

\* build_runtime: any other failure (a secret, a tool's implementation, a framework
\* that lacks MCP) refuses too.
Boots(b) == IF Resolves(b) /\ Permitted(b) THEN {"serving", "refused"} ELSE {"refused"}

\* The provider launches the runtime; its record is returned, failed or running.
Boot(r) ==
    /\ At(r, "boot")
    /\ \E result \in Boots(bundle[r]) : runtime' = [runtime EXCEPT ![r] = result]
    /\ Changed(r)
    /\ UNCHANGED <<agents, audited, bundle>> /\ noResource /\ noRead /\ fixed

DeployStep(r) == AskDeployment(r) \/ LoadAgent(r) \/ LoadSnapshot(r) \/ StopRunning(r)
                 \/ Export(r) \/ Boot(r)

DeployNext == \E r \in Call : (ApiStep(r) /\ UNCHANGED bundleVars) \/ DeployStep(r)
DeploySpec == DeployInit /\ [][DeployNext]_deployVars

DeployTypeOK ==
    /\ ApiTypeOK
    /\ bundle \in [Call -> Bundle]
    /\ runtime \in [Call -> {"none", "old", "stopped", "serving", "refused"}]

\* A bundle holds all that its definition refers to, whatever was deleted since the
\* catalogs were read, and a rollback runs the version that its label names, as the
\* history has it now; what serves is what the policy permits (rollback: "relaunched
\* from that definition snapshot").
BundlesAreSnapshots ==
    \A r \in Call : bundle[r] # NoBundle =>
        /\ Resolves(bundle[r])
        /\ Asks(r, Rollbacks) /\ Exists(A(r)) =>
               bundle[r].def = agents[A(r)].versions[bundle[r].label]
        /\ runtime[r] = "serving" => Permitted(bundle[r])
=============================================================================
