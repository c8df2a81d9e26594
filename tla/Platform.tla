------------------------------ MODULE Platform ------------------------------
(***************************************************************************)
(* The components of the platform that share no state with each other, as  *)
(* one system: a step of the platform is a step of one component, in any   *)
(* order, and leaves the state of the others as it is.                     *)
(***************************************************************************)
EXTENDS BundleDeploy, LocalProvider, ExternalAgents, McpConnection, Authenticator, GraphRun,
        Telemetry

platformVars == <<deployVars, localVars, extVars, mcpVars, authVars, graphVars, telemetryVars>>

PlatformInit ==
    DeployInit /\ LocalInit /\ ExternalInit /\ McpInit /\ AuthInit /\ GraphInit /\ TelemetryInit

\* What each component leaves alone.
OnlyApi == UNCHANGED <<localVars, extVars, mcpVars, authVars, graphVars, telemetryVars>>
OnlyLocal == UNCHANGED <<deployVars, extVars, mcpVars, authVars, graphVars, telemetryVars>>
OnlyExternal == UNCHANGED <<deployVars, localVars, mcpVars, authVars, graphVars, telemetryVars>>
OnlyMcp == UNCHANGED <<deployVars, localVars, extVars, authVars, graphVars, telemetryVars>>
OnlyAuth == UNCHANGED <<deployVars, localVars, extVars, mcpVars, graphVars, telemetryVars>>
OnlyGraph == UNCHANGED <<deployVars, localVars, extVars, mcpVars, authVars, telemetryVars>>
OnlyTelemetry == UNCHANGED <<deployVars, localVars, extVars, mcpVars, authVars, graphVars>>

PlatformNext ==
    \/ DeployNext /\ OnlyApi
    \/ LocalNext /\ OnlyLocal
    \/ ExternalNext /\ OnlyExternal
    \/ McpNext /\ OnlyMcp
    \/ AuthNext /\ OnlyAuth
    \/ GraphNext /\ OnlyGraph
    \/ TelemetryNext /\ OnlyTelemetry

PlatformSpec == PlatformInit /\ [][PlatformNext]_platformVars

\* The type invariant of every component.
PlatformTypeOK ==
    /\ DeployTypeOK /\ LocalTypeOK /\ ExternalTypeOK /\ McpTypeOK /\ AuthTypeOK /\ GraphTypeOK
    /\ TelemetryTypeOK
=============================================================================
