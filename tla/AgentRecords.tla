---------------------------- MODULE AgentRecords ----------------------------
(***************************************************************************)
(* The agent records of the Control Plane and their version histories: the *)
(* in-memory AgentCatalog of agent_catalog.py and the PostgreSQL and       *)
(* SQLite repositories of repositories.py.  Each operator is one catalog   *)
(* method or one statement or transaction of a repository.                 *)
(*                                                                         *)
(* A definition is its metadata.name, the resources its spec refers to and *)
(* those its policy denies.                                                *)
(* A row that does not exist has the status "absent".                      *)
(***************************************************************************)
EXTENDS Naturals, FiniteSets

CONSTANTS AgentId,         \* the ids (uuid4) the calls name or create
          Name,            \* agent names
          Tenant,
          Version,         \* version identifiers
          FirstVersion,    \* the default current_version, "1.0.0"
          Resource,        \* a resource: its kind and its name
          NoName

ASSUME AgentAssumption == NoName \notin Name /\ FirstVersion \in Version

VARIABLES backend,         \* "memory", "postgres" or "sqlite"
          agents           \* agents[a]: the record or row of a

Status == {"draft", "active", "disabled", "archived"}
Definition == [name : Name, refs : SUBSET Resource, denied : SUBSET Resource]
NoDefinition == [name |-> NoName, refs |-> {}, denied |-> {}]

AgentRow == [tenant : Tenant, name : Name \cup {NoName}, status : Status \cup {"absent"},
             def : Definition \cup {NoDefinition}, current : Version,
             \* the snapshots, NoDefinition where there is no such version
             versions : [Version -> Definition \cup {NoDefinition}]]

Exists(a) == agents[a].status # "absent"
Live == {a \in AgentId : Exists(a)}
Sql == backend # "memory"

\* _VALID_TRANSITIONS
ValidTransitions ==
    [draft |-> {"active", "archived"}, active |-> {"disabled", "archived"},
     disabled |-> {"active", "archived"}, archived |-> {}]

HasName(n, t) == {a \in Live : agents[a].name = n /\ agents[a].tenant = t}

\* create: the name is taken in the tenant (the unique index, or the scan).
NameTaken(n, t) == HasName(n, t) # {}

NewRow(t, n, d) ==
    [tenant |-> t, name |-> n, status |-> "draft", def |-> d, current |-> FirstVersion,
     versions |-> [v \in Version |-> NoDefinition]]

\* create: one statement.
InsertAgent(a, t, n, d) == agents' = [agents EXCEPT ![a] = NewRow(t, n, d)]

\* The statement of update finds its row; expected is {} when none is given.
UpdateHits(a, expected) == Exists(a) /\ (expected = {} \/ agents[a].current \in expected)

\* The row with the fields a PATCH names: names and defs are {} or a singleton.
Patched(row, names, defs) ==
    [row EXCEPT !.name = IF names = {} THEN @ ELSE CHOOSE n \in names : TRUE,
                !.def = IF defs = {} THEN @ ELSE CHOOSE d \in defs : TRUE]

\* The unique index rejects a rename; the in-memory update compares no names.
RenameRejected(a, names) ==
    /\ Sql
    /\ \E n \in names : HasName(n, agents[a].tenant) \ {a} # {}

\* Mutant: an archived agent can be disabled.
AllowedFromArchived(from, to) ==
    to = from \/ to \in ValidTransitions[from] \/ (from = "archived" /\ to = "disabled")
\* The move is allowed; the status an agent already has is no error.
Allowed(from, to) == to = from \/ to \in ValidTransitions[from]

SetStatus(a, to) == agents' = [agents EXCEPT ![a].status = to]

\* delete: the versions go with the row (ON DELETE CASCADE).
DeleteAgent(a) == agents' = [agents EXCEPT ![a].status = "absent"]

\* Mutant: a version with another definition is no conflict.
HasSameVersion(row, v) == row.versions[v] # NoDefinition /\ row.versions[v] = row.def
\* add_version: the agent has a version of this name.
HasVersion(row, v) == row.versions[v] # NoDefinition

\* add_version: the snapshot d becomes version v, the current one, and the
\* definition of the row.
SaveVersion(a, v, d) ==
    agents' = [agents EXCEPT ![a].versions[v] = d, ![a].current = v, ![a].def = d]
=============================================================================
