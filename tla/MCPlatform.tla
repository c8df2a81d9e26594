----------------------------- MODULE MCPlatform -----------------------------
(***************************************************************************)
(* A small instance of each component of Platform.  The initial states     *)
(* choose a component (part), and only that component acts: as they share  *)
(* no state, it behaves in the whole platform as it does here.             *)
(***************************************************************************)
EXTENDS Platform, TLC

CONSTANTS a1, a2, a3, n1, n2, t1, t2, m1, w1, p1, p2, v1, v2, c1, c2, c3, k1, k2

VARIABLE part              \* the component that acts

\* Values for the three processes of a component.
Three(x, y, z) == c1 :> x @@ c2 :> y @@ c3 :> z
------------------------------------------------------------------------------
(* Control Plane API: two agents, two resources of two kinds, pairs of requests. *)

TwoKinds == <<{m1}, {w1}>>
Def1 == [name |-> n1, refs |-> {m1, w1}, denied |-> {}]
Def2 == [name |-> n1, refs |-> {m1}, denied |-> {}]
Def3 == [name |-> n2, refs |-> {m1, w1}, denied |-> {w1}]

Row(t, n, status, d) == [NewRow(t, n, d) EXCEPT !.status = status]
Absent == Row(t1, n1, "absent", NoDefinition)

\* One agent in each stage of its life: a draft with or without a definition,
\* an active one whose definition was changed after version v1 (which its own
\* policy denies), a disabled one beside another agent.
Seed(x, y) == [a \in AgentId |-> CASE a = a1 -> x [] a = a2 -> y [] OTHER -> Absent]
AgentSeeds ==
    {Seed(Row(t1, n1, "draft", Def1), Absent), Seed(Row(t1, n1, "draft", NoDefinition), Absent),
     Seed([Row(t1, n1, "active", Def2) EXCEPT !.versions[v1] = [Def1 EXCEPT !.denied = {w1}]],
          Absent),
     Seed(Row(t1, n1, "disabled", Def1), Row(t1, n2, "draft", NoDefinition))}

AllOrNothing == {[t \in Tenant |-> IF t = t1 THEN x ELSE {}] : x \in {{}, Resource}}

Ask(op, fields) ==
    fields @@ [op |-> op, tenant |-> t1, at |-> p1, agent |-> a1, names |-> {}, defs |-> {},
               expected |-> {}, version |-> v1, resources |-> {}]
Defs(d) == "defs" :> {d}
Names(n) == "names" :> {n}
Of(resources) == "resources" :> resources

Changes ==
    {Ask("update", Defs(Def2)), Ask("update", Names(n2)),
     Ask("update", Defs(Def2) @@ "expected" :> {v1}),
     Ask("version", <<>>), Ask("version", "version" :> v2),
     Ask("activate", <<>>), Ask("disable", <<>>), Ask("archive", <<>>), Ask("delete", <<>>),
     Ask("import", Of({m1, w1}))}
    \cup {Ask("create", "agent" :> a2 @@ Names(n2) @@ "defs" :> d) :
              d \in {{}, {[Def2 EXCEPT !.name = n2]}, {Def1}}}
    \cup {Ask(op, Of({m1})) : op \in {"add", "replace", "remove"}}
Reads == {Ask("read", <<>>), Ask("agents", <<>>), Ask("events", <<>>), Ask("show", Of({m1})), Ask("export", <<>>)}

\* The Manager Agent's tools.
Managing ==
    {Ask(op, <<>>) : op \in {"get_tool", "compare_tool", "search_tool", "archive_tool"}}
    \cup {Ask("version_tool", "version" :> v2)}
    \cup {Ask("draft_tool", "agent" :> a2 @@ Names(n2) @@ Defs(d)) :
              d \in {[Def2 EXCEPT !.name = n2], Def3}}
Deploying == {Ask(op, <<>>) : op \in DeployOps \ {"rollback_previous"}}
             \cup {Ask("rollback_previous", "version" :> v2)}

\* The second request may create another agent, and come to another process or
\* from another tenant.
Second == {[c EXCEPT !.agent = IF c.op \in {"create", "draft_tool"} THEN a3 ELSE @] :
               c \in Changes \cup Reads \cup Managing}
Elsewhere == {[c EXCEPT !.at = p2] : c \in {d \in Second : d.op \in {"activate", "remove", "add"}}}
Foreign == {[c EXCEPT !.tenant = t2] :
                c \in {d \in Second : d.op \in {"activate", "update", "delete", "agents", "events",
                                             "remove", "create", "search_tool", "version_tool",
                                             "draft_tool"}}}

Pairs == {[r \in Call |-> IF r = c1 THEN x ELSE y] :
              x \in Changes \cup Deploying, y \in Second \cup Elsewhere \cup Foreign}
------------------------------------------------------------------------------
(* The other components: three processes each. *)

Order(op, d) == [op |-> op, of |-> d]
LocalOrders ==
    {Three(Order("deploy", 0), y, z) :
        y \in {Order("deploy", 0), Order("restart", 1), Order("stop", 1)},
        z \in {Order("deploy", 0), Order("shutdown", 0)}
              \cup {Order(op, d) : op \in {"restart", "stop", "status"}, d \in {1, 2}}}

\* A registration, then anything on it; or two of one name.
ExtAsk1(op, x) == [op |-> op, of |-> x, name |-> n1, oauth |-> FALSE]
ExternalAsks ==
    {Three([ExtAsk1("register", a1) EXCEPT !.oauth = y.op = "delete"], y, z) :
        y \in {ExtAsk1("register", a2), ExtAsk1("refresh", a1), ExtAsk1("delete", a1)},
        z \in {ExtAsk1(op, a1) : op \in {"refresh", "invoke", "delete"}}}
    \cup {Three(ExtAsk1("register", a1), ExtAsk1("get", a1), ExtAsk1("list", a1))}

\* Three requests, discoveries among them; requests beside closes.
McpUses ==
    {Three("call_tool", "list_resources", "get_prompt"),
     Three("read_resource", "list_tools", "close"), Three("list_prompts", "close", "close")}

Bearer(form, k, claims) ==
    [form |-> form, kid |-> k, claims |-> claims, route |-> "open", grants |-> FALSE]
Good(k) == Bearer("jwt", k, "valid")
Nobody == Bearer("none", k1, "valid")
\* The first three come to a strict service, the others to a lenient one.
GoodLogins == Three(Good(k1), Good(k2), Good(k2))
Logins ==
    {GoodLogins,
     Three(Bearer("jwt", k1, "scope"), Bearer("jwt", k2, "invalid"), Nobody),
     Three([Good(k2) EXCEPT !.route = "guarded"], Bearer("opaque", k1, "valid"),
           [Nobody EXCEPT !.route = "public"])}
Strict == [mode |-> "required", discovery |-> FALSE, introspection |-> FALSE, enforce |-> FALSE]
AuthConfigs ==
    {Strict, [mode |-> "optional", discovery |-> TRUE, introspection |-> TRUE, enforce |-> TRUE]}

\* One task starts the two others, one of which calls the same tool as itself.
TracerParents == Three(c1, c1, c1)
TracerCapabilities == Three("tool", "model", "tool")
------------------------------------------------------------------------------
(* One component acts. *)

partVars == <<part, platformVars>>

Chosen(set) == CHOOSE x \in set : TRUE

\* A component that does not act starts in one of its initial states.
IdleApi == /\ backend = "postgres" /\ agents = Chosen(Seeds) /\ stored = Chosen(Stores)
           /\ request = CHOOSE m \in Mix : \A r \in Call : m[r].op # "create"
Idle ==
    /\ part = "api" \/ IdleApi
    /\ part = "local" \/ order = Chosen(Orders)
    /\ part = "external" \/ (extAsk = Chosen(Asks2Ext) /\ durable = TRUE)
    /\ part = "mcp" \/ use = Chosen(Uses)
    /\ part = "auth" \/ (token = Chosen(Tokens) /\ settings = Chosen(Settings) /\ published = {k1})
    /\ part = "graph" \/ checkpoints = FALSE
    /\ part = "telemetry" \/ sink = "list"

MCInit ==
    /\ part \in {"api", "local", "external", "mcp", "auth", "graph", "telemetry"}
    /\ Idle
    /\ PlatformInit
    /\ part = "auth" => (settings = Strict <=> token = GoodLogins)

Acts(p) == part = p /\ UNCHANGED part
MCNext ==
    \/ Acts("api") /\ DeployNext /\ OnlyApi
    \/ Acts("local") /\ LocalNext /\ OnlyLocal
    \/ Acts("external") /\ ExternalNext /\ OnlyExternal
    \/ Acts("mcp") /\ McpNext /\ OnlyMcp
    \/ Acts("auth") /\ AuthNext /\ OnlyAuth
    \/ Acts("graph") /\ GraphNext /\ OnlyGraph
    \/ Acts("telemetry") /\ TelemetryNext /\ OnlyTelemetry

\* The tasks and keepers of the MCP connection go on: every wait of theirs has a
\* timeout.
MCSpec ==
    /\ MCInit /\ [][MCNext]_partVars
    /\ \A t \in Task : WF_partVars(Acts("mcp") /\ TaskStep(t) /\ OnlyMcp)
    /\ \A k \in Keeper : WF_partVars(Acts("mcp") /\ KeeperStep(k) /\ OnlyMcp)
------------------------------------------------------------------------------
\* Every call and every close of an MCP connection ends, whoever holds its lock and
\* however often connecting fails (connect waits for a keeper under the lock).
CallsEnd == part = "mcp" => \A t \in Task : <>(at[t] = "done")
=============================================================================
