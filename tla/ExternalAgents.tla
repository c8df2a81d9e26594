--------------------------- MODULE ExternalAgents ---------------------------
(***************************************************************************)
(* The registry of external A2A agents (external_agents.py) and its        *)
(* outbound calls (a2a_client.py, credentials.py), for one tenant.  A      *)
(* registration and a refresh fetch the Agent Card of the remote agent,    *)
(* which takes time and may fail, and then write what they fetched; the    *)
(* record may have been refreshed or deleted meanwhile.  The SQL           *)
(* repository hands out copies of a record, the in-memory one the object.  *)
(***************************************************************************)
EXTENDS Naturals

CONSTANTS ExtId,           \* the ids of the registrations (uuid4), one for each
          ExtName,
          ExtCall,         \* the requests
          Asks2Ext,        \* what the requests ask, to choose from
          MaxCard          \* bound of the versions of the remote agent's card

\* op: register_external_agent, refresh_external_agent and so on; oauth: its
\* credential is a client-credentials grant.  Each registration makes a new id.
ExtRequest == [op : {"register", "get", "list", "refresh", "invoke", "delete"}, of : ExtId,
               name : ExtName, oauth : BOOLEAN]
ASSUME ExternalAssumption ==
    /\ MaxCard \in Nat \ {0} /\ ExtName # {}
    /\ Asks2Ext \subseteq [ExtCall -> ExtRequest]
    /\ \A m \in Asks2Ext, b, c \in ExtCall :
           m[b].op = "register" /\ m[c].op = "register" /\ m[b].of = m[c].of => b = c

VARIABLES durable,         \* the repository is a SQL one
          external,        \* external[x]: the registration
          wasDeleted,      \* the ids that were deleted (ghost)
          remote,          \* External: the remote agent, its card and whether it answers
          extAsk, extStep, extOut,
          held,            \* held[c]: the card of the copy c read
          fetched          \* fetched[c]: the card c fetched, or Nothing, or an error

extVars == <<durable, external, wasDeleted, remote, extAsk, extStep, extOut, held, fetched>>

Nothing == 0               \* no card; versions count from 1
FetchError == MaxCard + 1
Cards == 1 .. MaxCard

Registration == [status : {"absent", "healthy", "unreachable"}, name : ExtName,
                 card : Cards \cup {Nothing}]

ExternalInit ==
    /\ durable \in BOOLEAN
    /\ external = [x \in ExtId |-> [status |-> "absent", name |-> CHOOSE n \in ExtName : TRUE,
                                    card |-> Nothing]]
    /\ wasDeleted = {}
    /\ remote = [card |-> 1, up |-> TRUE]
    /\ extAsk \in Asks2Ext
    /\ extStep = [c \in ExtCall |-> "new"]
    /\ extOut = [c \in ExtCall |-> "none"]
    /\ held = [c \in ExtCall |-> Nothing]
    /\ fetched = [c \in ExtCall |-> Nothing]

X(c) == extAsk[c].of
ExtGo(c, step) == extStep' = [extStep EXCEPT ![c] = step] /\ UNCHANGED extOut
ExtAnswer(c, code) == /\ extStep' = [extStep EXCEPT ![c] = "done"]
                      /\ extOut' = [extOut EXCEPT ![c] = code]
ExtAsks(c, ops) == extAsk[c].op \in ops
extFixed == UNCHANGED <<durable, remote, extAsk>>
noRecord == UNCHANGED <<external, wasDeleted, held>>
------------------------------------------------------------------------------
(* The repository. *)

\* get finds a record.
Registered(x) == external[x].status # "absent"
\* The catalog's register, or the unique index, refuses the name.
ExtNameTaken(n) == \E x \in ExtId : Registered(x) /\ external[x].name = n
InsertRecord(x, n, card) ==
    external' = [external EXCEPT ![x] = [status |-> "healthy", name |-> n, card |-> card]]

\* Mutant: save inserts a record that is gone.
SavableAlways(x) == TRUE
\* save updates the record, which must exist.
Savable(x) == Registered(x)
SaveRecord(x, status, card) ==
    external' = [external EXCEPT ![x].status = status, ![x].card = card]
RemoveRecord(x) == external' = [external EXCEPT ![x].status = "absent"]
------------------------------------------------------------------------------
(* The routes. *)

\* A registration, and the first read of a refresh or an invocation.
ExtStart(c) ==
    /\ extStep[c] = "new" /\ ExtAsks(c, {"register", "refresh", "invoke"})
    /\ IF ExtAsks(c, {"register"}) \/ Registered(X(c)) THEN ExtGo(c, "credential")
                                                      ELSE ExtAnswer(c, "404")
    /\ held' = [held EXCEPT ![c] = external[X(c)].card]
    /\ UNCHANGED <<external, wasDeleted, fetched>> /\ extFixed

\* get_external_agent and list_external_agents.
ExtRead(c) ==
    /\ extStep[c] = "new" /\ ExtAsks(c, {"get", "list"})
    /\ ExtAnswer(c, IF ExtAsks(c, {"list"}) \/ Registered(X(c)) THEN "ok" ELSE "404")
    /\ noRecord /\ UNCHANGED fetched /\ extFixed

\* The outbound call ends, with a card or an error.
Gets(c, card) == fetched' = [fetched EXCEPT ![c] = card] /\ ExtGo(c, "store")
\* wait_for ends first: its TimeoutError is not caught.
OutOfTime(c) == ExtAnswer(c, "500") /\ UNCHANGED fetched

\* resolve_outbound_credential: headers or a certificate from secrets, or an error;
\* client credentials (oauth) need a token.
ResolveCredential(c) ==
    /\ extStep[c] = "credential"
    /\ \/ ExtGo(c, IF extAsk[c].oauth THEN "token" ELSE "fetch") /\ UNCHANGED fetched
       \/ Gets(c, FetchError)
    /\ noRecord /\ extFixed

\* _request_client_credentials_token
RequestToken(c) ==
    /\ extStep[c] = "token"
    /\ \/ ExtGo(c, "fetch") /\ UNCHANGED fetched
       \/ Gets(c, FetchError) \/ OutOfTime(c)
    /\ noRecord /\ extFixed

\* resolve_agent_card gets the card or fails.
FetchCard(c) ==
    /\ extStep[c] = "fetch" /\ ExtAsks(c, {"register", "refresh"})
    /\ \/ remote.up /\ Gets(c, remote.card)
       \/ Gets(c, FetchError) \/ OutOfTime(c)
    /\ noRecord /\ extFixed

\* invoke_remote_agent: the text of the answer, or an error.
InvokeRemote(c) ==
    /\ extStep[c] = "fetch" /\ ExtAsks(c, {"invoke"})
    /\ \/ remote.up /\ Gets(c, remote.card)
       \/ Gets(c, FetchError) \/ OutOfTime(c)
    /\ noRecord /\ extFixed

Got(c) == fetched[c] # FetchError

\* register_external_agent: an invalid or unreachable agent is refused.
ExtRegister(c) ==
    /\ extStep[c] = "store" /\ ExtAsks(c, {"register"})
    /\ \/ ~Got(c) /\ ExtAnswer(c, "422") /\ UNCHANGED external
       \/ Got(c) /\ ExtNameTaken(extAsk[c].name) /\ ExtAnswer(c, "409") /\ UNCHANGED external
       \/ /\ Got(c) /\ ~ExtNameTaken(extAsk[c].name)
          /\ InsertRecord(X(c), extAsk[c].name, fetched[c])
          /\ ExtGo(c, "audit")
    /\ UNCHANGED <<wasDeleted, held, fetched>> /\ extFixed

\* refresh_external_agent saves the record it read: with the new card, or with the
\* failure and the card it had then (the object's, in memory).
ExtRefresh(c) ==
    /\ extStep[c] = "store" /\ ExtAsks(c, {"refresh"})
    /\ \/ ~Savable(X(c)) /\ ExtAnswer(c, "404") /\ UNCHANGED external
       \/ /\ Savable(X(c)) /\ Got(c) /\ SaveRecord(X(c), "healthy", fetched[c])
          /\ ExtGo(c, "audit")
       \/ /\ Savable(X(c)) /\ ~Got(c)
          /\ SaveRecord(X(c), "unreachable", IF durable THEN held[c] ELSE external[X(c)].card)
          /\ ExtGo(c, "audit")
    /\ UNCHANGED <<wasDeleted, held, fetched>> /\ extFixed

\* invoke_external_agent: the output, or 502.
ExtInvoke(c) ==
    /\ extStep[c] = "store" /\ ExtAsks(c, {"invoke"})
    /\ IF Got(c) THEN ExtGo(c, "audit") ELSE ExtAnswer(c, "502")
    /\ noRecord /\ UNCHANGED fetched /\ extFixed

ExtDelete(c) ==
    /\ extStep[c] = "new" /\ ExtAsks(c, {"delete"})
    /\ \/ ~Registered(X(c)) /\ ExtAnswer(c, "404") /\ UNCHANGED <<external, wasDeleted>>
       \/ /\ Registered(X(c)) /\ RemoveRecord(X(c)) /\ ExtGo(c, "audit")
          /\ wasDeleted' = wasDeleted \cup {X(c)}
    /\ UNCHANGED <<held, fetched>> /\ extFixed

ExtAudit(c) ==
    /\ extStep[c] = "audit" /\ ExtAnswer(c, "ok")
    /\ noRecord /\ UNCHANGED fetched /\ extFixed

\* External: the remote agent publishes a new card, goes away or comes back.
RemoteChanges ==
    /\ \/ remote.card < MaxCard /\ remote' = [remote EXCEPT !.card = @ + 1]
       \/ remote' = [remote EXCEPT !.up = ~@]
    /\ UNCHANGED <<durable, external, wasDeleted, extAsk, extStep, extOut, held, fetched>>

ExternalNext ==
    \/ \E c \in ExtCall :
          \/ ExtStart(c) \/ ExtRead(c) \/ ResolveCredential(c) \/ RequestToken(c) \/ FetchCard(c)
          \/ InvokeRemote(c) \/ ExtRegister(c) \/ ExtRefresh(c) \/ ExtInvoke(c) \/ ExtDelete(c)
          \/ ExtAudit(c)
    \/ RemoteChanges

ExternalTypeOK ==
    /\ durable \in BOOLEAN
    /\ external \in [ExtId -> Registration]
    /\ wasDeleted \subseteq ExtId
    /\ remote \in [card : Cards, up : BOOLEAN]
    /\ extStep \in [ExtCall -> {"new", "credential", "token", "fetch", "store", "audit", "done"}]
    /\ extOut \in [ExtCall -> {"none", "ok", "404", "409", "422", "500", "502"}]
    /\ held \in [ExtCall -> Cards \cup {Nothing}]
    /\ fetched \in [ExtCall -> Cards \cup {Nothing, FetchError}]

\* A registration that was deleted while its card was being fetched stays deleted,
\* and two registrations of one name leave one record, whenever their cards arrive.
RegistrationsAreSound ==
    /\ \A x \in wasDeleted : ~Registered(x)
    /\ \A x, y \in ExtId : Registered(x) /\ Registered(y) /\ external[x].name = external[y].name
                               => x = y
=============================================================================
