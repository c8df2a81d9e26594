--------------------------- MODULE McpConnection ---------------------------
(***************************************************************************)
(* One McpConnection of mcp_client.py, shared by the invocations of a      *)
(* runtime.  Every attempt to connect starts a keeper task that owns the   *)
(* transport, publishes the session, waits for its stop event and clears   *)
(* the session when it ends; connect holds a lock meanwhile.  close takes  *)
(* the keeper out under the lock and waits for it after the lock.  Every   *)
(* request, and every page of a discovery, connects first.                 *)
(***************************************************************************)
EXTENDS Naturals, FiniteSets

CONSTANTS Task,            \* the tasks that use the connection
          Uses,            \* what the tasks do, to choose from
          MaxRetries,      \* max_retries
          Cursor,          \* the cursors the server may return
          MaxItems,        \* max_discovery_items
          MaxKeepers,      \* bound of the keepers started
          NoTask

ASSUME McpAssumption == {MaxRetries, MaxKeepers, MaxItems} \subseteq Nat /\ NoTask \notin Task

VARIABLES session,         \* _session: the keeper whose session it is, or NoKeeper
          keeperRef,       \* _keeper
          stopEvent,       \* _stop: the keeper whose event it is
          mcpLock,         \* _lock: its holder
          keeper,          \* keeper[k]: its place, whether it was told to stop, and ready
          started,         \* how many keepers were started
          use, at, mine,   \* per task: what it does, its next step, its keeper or session
          attempt,         \* per task: the attempts to connect that failed
          answer,          \* per task: "none", "ok" or an error
          seen,            \* per task: seen_cursors of its discovery
          found            \* per task: discovered_count

mcpVars == <<session, keeperRef, stopEvent, mcpLock, keeper, started, use, at, mine,
             attempt, answer, seen, found>>

NoKeeper == 0
Keeper == 1 .. MaxKeepers
\* list_tools asks for one page only.
Paged == {"list_resources", "list_prompts"}
Requests == {"call_tool", "list_tools", "read_resource", "get_prompt"} \cup Paged
ASSUME UsesAssumption == Uses \subseteq [Task -> Requests \cup {"close"}]
KeeperRow == [place : {"none", "entering", "open", "exiting", "gone"}, stop : BOOLEAN,
              ready : {"pending", "ok", "failed", "cancelled"}]

McpInit ==
    /\ session = NoKeeper /\ keeperRef = NoKeeper /\ stopEvent = NoKeeper
    /\ mcpLock = NoTask
    /\ keeper = [k \in Keeper |-> [place |-> "none", stop |-> FALSE, ready |-> "pending"]]
    /\ started = 0
    /\ use \in Uses
    /\ at = [t \in Task |-> "new"]
    /\ mine = [t \in Task |-> NoKeeper]
    /\ attempt = [t \in Task |-> 0]
    /\ answer = [t \in Task |-> "none"]
    /\ seen = [t \in Task |-> {}]
    /\ found = [t \in Task |-> 0]

McpGo(t, step) == at' = [at EXCEPT ![t] = step] /\ UNCHANGED answer
McpEnd(t, a) == at' = [at EXCEPT ![t] = "done"] /\ answer' = [answer EXCEPT ![t] = a]
\* Mutant: the lock is taken from its holder.
HoldAlways(t) == mcpLock' = t
\* connect takes the lock.
Hold(t) == mcpLock = NoTask /\ mcpLock' = t
Release == mcpLock' = NoTask
requestOnly == UNCHANGED <<session, keeperRef, stopEvent, mcpLock, keeper, started, use, mine,
                           attempt, seen, found>>
keepersOnly == UNCHANGED <<mcpLock, started, use, at, mine, attempt, answer, seen, found>>

\* _connect_once: a new stop event and a keeper.
StartKeeper(t) ==
    /\ started < MaxKeepers /\ started' = started + 1
    /\ keeperRef' = started' /\ stopEvent' = started'
    /\ keeper' = [keeper EXCEPT ![started'].place = "entering"]
    /\ mine' = [mine EXCEPT ![t] = started']

\* connect: the session there is, or the first attempt.
Connect(t) ==
    /\ at[t] = "new" /\ use[t] \in Requests
    /\ \/ /\ mcpLock = NoTask /\ session # NoKeeper
          /\ mine' = [mine EXCEPT ![t] = session] /\ McpGo(t, "request")
          /\ UNCHANGED <<mcpLock, keeperRef, stopEvent, keeper, started>>
       \/ /\ Hold(t) /\ session = NoKeeper
          /\ StartKeeper(t) /\ McpGo(t, "waiting")
    /\ attempt' = [attempt EXCEPT ![t] = 0]
    /\ UNCHANGED <<session, use, seen, found>>

\* The wait for the keeper ended well: the assertion, then the session.
Connected(t) ==
    /\ at[t] = "waiting" /\ keeper[mine[t]].ready = "ok"
    /\ \/ /\ session # NoKeeper /\ mine' = [mine EXCEPT ![t] = session]
          /\ Release /\ McpGo(t, "request") /\ UNCHANGED attempt
       \/ /\ session = NoKeeper      \* AssertionError, a failed attempt
          /\ attempt' = [attempt EXCEPT ![t] = @ + 1]
          /\ McpGo(t, "retry") /\ UNCHANGED <<mine, mcpLock>>
    /\ UNCHANGED <<session, keeperRef, stopEvent, keeper, started, use, seen, found>>

\* Mutant: the keeper of a failed attempt is not told to stop.
AbandonedRunning(k) == UNCHANGED keeper /\ keeperRef' = NoKeeper
\* _stop_keeper, up to the wait for the keeper.
Abandoned(k) == /\ keeperRef' = NoKeeper
                /\ keeper' = [keeper EXCEPT ![stopEvent].stop = TRUE,
                                            ![k].ready = IF @ = "pending" THEN "cancelled" ELSE @]

\* The wait failed or timed out: the keeper is told to stop.
ConnectFailed(t) ==
    /\ at[t] = "waiting" /\ keeper[mine[t]].ready \in {"failed", "pending"}
    /\ Abandoned(mine[t])
    /\ McpGo(t, "stopping")
    /\ UNCHANGED <<session, stopEvent, mcpLock, started, use, mine, attempt, seen, found>>

\* The keeper has ended, and another attempt follows after a delay.
KeeperStopped(t) ==
    /\ at[t] = "stopping" /\ keeper[mine[t]].place = "gone"
    /\ attempt' = [attempt EXCEPT ![t] = @ + 1]
    /\ McpGo(t, "retry")
    /\ UNCHANGED <<session, keeperRef, stopEvent, mcpLock, keeper, started, use, mine, seen, found>>

RetryConnect(t) ==
    /\ at[t] = "retry"
    /\ \/ /\ attempt[t] <= MaxRetries /\ StartKeeper(t) /\ McpGo(t, "waiting")
          /\ UNCHANGED mcpLock
       \/ /\ attempt[t] > MaxRetries
          /\ Release /\ McpEnd(t, "error")
          /\ UNCHANGED <<keeperRef, stopEvent, keeper, started, mine>>
    /\ UNCHANGED <<session, use, attempt, seen, found>>

\* A credential or transport error is not retried.
ConnectRefused(t) ==
    /\ at[t] = "stopping" /\ keeper[mine[t]].place = "gone" /\ keeper[mine[t]].ready = "failed"
    /\ Release /\ McpEnd(t, "error")
    /\ UNCHANGED <<session, keeperRef, stopEvent, keeper, started, use, mine, attempt, seen, found>>

\* McpFunctionTool: the arguments do not match the tool's schema.
ArgumentsRefused(t) ==
    /\ at[t] = "new" /\ use[t] = "call_tool"
    /\ McpEnd(t, "error") /\ requestOnly
\* get_prompt: the server's filter does not allow the prompt.
PromptRefused(t) ==
    /\ at[t] = "new" /\ use[t] = "get_prompt"
    /\ McpEnd(t, "error") /\ requestOnly

\* _request, _list_page and call_tool send the request over the session they got;
\* the session may be closed by now.
Send(t) ==
    /\ at[t] = "request"
    /\ \/ keeper[mine[t]].place = "open" /\ McpGo(t, "answer")
       \/ McpEnd(t, "error")
    /\ requestOnly

\* call_tool: the answer, or an error: too large, late, or a failure in flight, which
\* may have reached the server and is not retried.
ToolAnswers(t) ==
    /\ at[t] = "answer" /\ use[t] = "call_tool"
    /\ \E a \in {"ok", "error"} : McpEnd(t, a)
    /\ requestOnly

ToolsListed(t) ==
    /\ at[t] = "answer" /\ use[t] = "list_tools"
    /\ \E a \in {"ok", "error"} : McpEnd(t, a)
    /\ requestOnly

\* Contents that are no list, invalid or too large are errors.
ResourceRead(t) ==
    /\ at[t] = "answer" /\ use[t] = "read_resource"
    /\ \E a \in {"ok", "error"} : McpEnd(t, a)
    /\ requestOnly

PromptRead(t) ==
    /\ at[t] = "answer" /\ use[t] = "get_prompt"
    /\ \E a \in {"ok", "error"} : McpEnd(t, a)
    /\ requestOnly

\* The server returned a cursor it has returned before.
Repeated(t, next) == next \in seen[t]

\* A page of items, and perhaps a cursor, which is the next page's connect.
PageListed(t) ==
    \/ \E items \in 0 .. MaxItems + 1, more \in SUBSET Cursor :
           /\ Cardinality(more) <= 1
           /\ found' = [found EXCEPT ![t] = @ + items]
           /\ \/ found'[t] > MaxItems /\ McpEnd(t, "error") /\ UNCHANGED seen
              \/ /\ found'[t] <= MaxItems /\ more = {}
                 /\ \E a \in {"ok", "error"} : McpEnd(t, a)
                 /\ UNCHANGED seen
              \/ \E next \in more :
                    /\ found'[t] <= MaxItems /\ Repeated(t, next)
                    /\ McpEnd(t, "error") /\ UNCHANGED seen
              \/ \E next \in more :
                    /\ found'[t] <= MaxItems /\ ~Repeated(t, next)
                    /\ seen' = [seen EXCEPT ![t] = @ \cup {next}]
                    /\ McpGo(t, "new")
    \/ McpEnd(t, "error") /\ UNCHANGED <<seen, found>>

pageOnly == UNCHANGED <<session, keeperRef, stopEvent, mcpLock, keeper, started, use, mine,
                        attempt>>
ResourcesListed(t) ==
    at[t] = "answer" /\ use[t] = "list_resources" /\ PageListed(t) /\ pageOnly
PromptsListed(t) ==
    at[t] = "answer" /\ use[t] = "list_prompts" /\ PageListed(t) /\ pageOnly

\* close: under the lock the session and the keeper are taken out.
Close(t) ==
    /\ at[t] = "new" /\ use[t] = "close" /\ mcpLock = NoTask
    /\ session' = NoKeeper /\ keeperRef' = NoKeeper
    /\ \/ /\ keeperRef = NoKeeper /\ McpEnd(t, "ok") /\ UNCHANGED <<keeper, mine>>
       \/ /\ keeperRef # NoKeeper /\ McpGo(t, "closing")
          /\ keeper' = [keeper EXCEPT ![stopEvent].stop = TRUE]
          /\ mine' = [mine EXCEPT ![t] = keeperRef]
    /\ UNCHANGED <<stopEvent, mcpLock, started, use, attempt, seen, found>>

Closed(t) ==
    /\ at[t] = "closing" /\ keeper[mine[t]].place = "gone"
    /\ McpEnd(t, "ok")
    /\ UNCHANGED <<session, keeperRef, stopEvent, mcpLock, keeper, started, use, mine, attempt,
                   seen, found>>

\* The keeper has entered the transport and initialised the session, or failed.
KeeperOpens(k) ==
    /\ keeper[k].place = "entering"
    /\ keeper' = [keeper EXCEPT ![k].place = "open",
                                ![k].ready = IF @ = "pending" THEN "ok" ELSE @]
    /\ session' = k
    /\ UNCHANGED <<keeperRef, stopEvent>> /\ keepersOnly
KeeperFails(k) ==
    /\ keeper[k].place = "entering"
    /\ keeper' = [keeper EXCEPT ![k].place = "gone",
                                ![k].ready = IF @ = "pending" THEN "failed" ELSE @]
    /\ session' = NoKeeper
    /\ UNCHANGED <<keeperRef, stopEvent>> /\ keepersOnly
\* Told to stop, it leaves the transport, which takes time.
KeeperExits(k) ==
    /\ keeper[k].place = "open" /\ keeper[k].stop
    /\ keeper' = [keeper EXCEPT ![k].place = "exiting"]
    /\ UNCHANGED <<session, keeperRef, stopEvent>> /\ keepersOnly
\* The finally clause clears the session, whoever's it is by now.
KeeperEnds(k) ==
    /\ keeper[k].place = "exiting"
    /\ keeper' = [keeper EXCEPT ![k].place = "gone"]
    /\ session' = NoKeeper
    /\ UNCHANGED <<keeperRef, stopEvent>> /\ keepersOnly

TaskStep(t) ==
    \/ Connect(t) \/ Connected(t) \/ ConnectFailed(t) \/ KeeperStopped(t) \/ RetryConnect(t)
    \/ ConnectRefused(t) \/ ArgumentsRefused(t) \/ PromptRefused(t) \/ Send(t)
    \/ ToolAnswers(t) \/ ToolsListed(t) \/ ResourceRead(t) \/ PromptRead(t)
    \/ ResourcesListed(t) \/ PromptsListed(t) \/ Close(t) \/ Closed(t)
KeeperStep(k) == KeeperOpens(k) \/ KeeperFails(k) \/ KeeperExits(k) \/ KeeperEnds(k)

McpNext == (\E t \in Task : TaskStep(t)) \/ (\E k \in Keeper : KeeperStep(k))

McpTypeOK ==
    /\ {session, keeperRef, stopEvent} \subseteq Keeper \cup {NoKeeper}
    /\ mcpLock \in Task \cup {NoTask}
    /\ keeper \in [Keeper -> KeeperRow]
    /\ started \in 0 .. MaxKeepers
    /\ use \in [Task -> Requests \cup {"close"}]
    /\ mine \in [Task -> Keeper \cup {NoKeeper}]
    /\ attempt \in [Task -> 0 .. MaxRetries + 1]
    /\ answer \in [Task -> {"none", "ok", "error"}]
    /\ seen \in [Task -> SUBSET Cursor] /\ found \in [Task -> 0 .. 2 * MaxItems + 1]

\* As long as nobody closes the connection, an open transport belongs to the
\* keeper the connection refers to, so that close will find it: concurrent and
\* failed attempts leave none behind.
TransportsAreOwned ==
    (\A t \in Task : use[t] # "close") =>
        \A k \in Keeper : keeper[k].place = "open" /\ ~keeper[k].stop => keeperRef = k
=============================================================================
