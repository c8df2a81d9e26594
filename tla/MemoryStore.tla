---------------------------- MODULE MemoryStore ----------------------------
(***************************************************************************)
(* Long-term memory under the user scope: the in-memory provider of        *)
(* memory.py and the SQL providers (sqlite_memory.py, postgres_memory.py). *)
(* An entry carries the moment it was made (created_at = updated_at), both *)
(* as the time the retention counts from and as its place in the order of  *)
(* creation.                                                               *)
(***************************************************************************)
EXTENDS RuntimeSetup, FiniteSets

CONSTANTS MaxEntries,      \* max_entries
          Retention        \* retention_days

ASSUME MemoryAssumption == {MaxEntries, Retention} \subseteq Nat \ {0}

VARIABLE entries

Of(es, u) == {e \in es : e.user = u}

\* The retention: the in-memory provider keeps what is newer than the cutoff,
\* the SQL providers delete what is older.
Outdated(e) ==
    IF config.memory = "sql" THEN now - e.at > Retention ELSE now - e.at >= Retention

\* How many of the entries es of its user were made before e, and after it.
Older(e, es) == Cardinality({f \in Of(es, e.user) : f.made < e.made})
Newer(e, es) == Cardinality({f \in Of(es, e.user) : f.made > e.made})

\* Mutant: the in-memory provider evicts in the order of the SQL providers.
BeyondLimitNewest(e, es) == Older(e, es) >= MaxEntries

\* What the limit evicts.  The in-memory provider sorts by created_at and drops
\* the first; the SQL providers delete what follows the first max_entries.
BeyondLimit(e, es) ==
    IF config.memory = "sql" THEN Older(e, es) >= MaxEntries ELSE Newer(e, es) >= MaxEntries

\* enforce for user u: retention, then the limit.
Enforced(u) ==
    LET kept == {e \in entries : ~(e.user = u /\ Outdated(e))}
    IN {e \in kept : ~(e.user = u /\ BeyondLimit(e, kept))}
=============================================================================
