--------------------------- MODULE PlatformProofs ---------------------------
(***************************************************************************)
(* Proofs about four small components (the registry of external agents, an *)
(* MCP connection, the turns of a conversation and the sinks of capability *)
(* telemetry), and about the platform that all components make together.   *)
(***************************************************************************)
EXTENDS Platform, ControlPlaneProofs, LocalProviderProofs, AuthenticatorProofs, SequenceTheorems,
        TLAPS

-----------------------------------------------------------------------------
(* External agents *)

ExternalSpec == ExternalInit /\ [][ExternalNext]_extVars

\* The id of a registration that has not been stored is still unused.
UnusedIds ==
    \A c \in ExtCall : ExtAsks(c, {"register"}) /\ extStep[c] \notin {"audit", "done"} =>
        ~Registered(X(c)) /\ X(c) \notin wasDeleted

ExtInv == ExternalTypeOK /\ extAsk \in Asks2Ext /\ UnusedIds /\ RegistrationsAreSound

ExtSteps == {"new", "credential", "token", "fetch", "store", "audit", "done"}
ExtCodes == {"none", "ok", "404", "409", "422", "500", "502"}

LEMMA ExternalStarts == ExternalInit => ExtInv
<1> SUFFICES ASSUME ExternalInit PROVE ExtInv
  OBVIOUS
<1>1. ExternalTypeOK
  BY ExternalAssumption DEF ExternalInit, ExternalTypeOK, Registration, Cards
<1>2. \A x \in ExtId : ~Registered(x)
  BY DEF ExternalInit, Registered
<1>3. wasDeleted = {} /\ extAsk \in Asks2Ext /\ \A c \in ExtCall : X(c) \in ExtId
  BY ExternalAssumption DEF ExternalInit, X, ExtRequest
<1>4. UnusedIds
  BY <1>2, <1>3 DEF UnusedIds
<1>5. RegistrationsAreSound
  BY <1>2, <1>3 DEF RegistrationsAreSound
<1> QED
  BY <1>1, <1>3, <1>4, <1>5 DEF ExtInv

\* What a request that does not write the registry does.
LEMMA ExternalReads ==
  ASSUME ExtInv, NEW c \in ExtCall,
         ExtStart(c) \/ ExtRead(c) \/ ResolveCredential(c) \/ RequestToken(c) \/ FetchCard(c)
         \/ InvokeRemote(c) \/ ExtInvoke(c) \/ ExtAudit(c)
  PROVE  /\ extStep' = [extStep EXCEPT ![c] = extStep'[c]] /\ extStep'[c] \in ExtSteps \ {"new"}
         /\ extStep[c] # "done" /\ (extStep[c] = "audit" => extStep'[c] = "done")
         /\ extOut' \in [ExtCall -> ExtCodes]
         /\ held' \in [ExtCall -> Cards \cup {Nothing}]
         /\ fetched' \in [ExtCall -> Cards \cup {Nothing, FetchError}]
         /\ UNCHANGED <<durable, external, wasDeleted, remote, extAsk>>
<1> USE DEF ExtSteps, ExtCodes, ExtGo, ExtAnswer, extFixed, noRecord
<1>1. /\ extStep \in [ExtCall -> ExtSteps] /\ extOut \in [ExtCall -> ExtCodes]
      /\ held \in [ExtCall -> Cards \cup {Nothing}]
      /\ fetched \in [ExtCall -> Cards \cup {Nothing, FetchError}]
      /\ remote.card \in Cards
  BY DEF ExtInv, ExternalTypeOK
<1>2. CASE ExtStart(c)
  <2>1. external[X(c)].card \in Cards \cup {Nothing}
    BY ExternalAssumption DEF ExtInv, ExternalTypeOK, Registration, X, ExtRequest
  <2> QED
    BY <1>1, <1>2, <2>1 DEF ExtStart
<1>3. CASE ExtRead(c)
  BY <1>1, <1>3 DEF ExtRead
<1>4. CASE ResolveCredential(c)
  BY <1>1, <1>4 DEF ResolveCredential, Gets
<1>5. CASE RequestToken(c)
  BY <1>1, <1>5 DEF RequestToken, Gets, OutOfTime
<1>6. CASE FetchCard(c)
  BY <1>1, <1>6 DEF FetchCard, Gets, OutOfTime
<1>7. CASE InvokeRemote(c)
  BY <1>1, <1>7 DEF InvokeRemote, Gets, OutOfTime
<1>8. CASE ExtInvoke(c)
  BY <1>1, <1>8 DEF ExtInvoke
<1>9. CASE ExtAudit(c)
  BY <1>1, <1>9 DEF ExtAudit
<1> QED
  BY <1>2, <1>3, <1>4, <1>5, <1>6, <1>7, <1>8, <1>9

\* What a request that writes the registry does, or answers an error instead.
LEMMA ExternalWrites ==
  ASSUME ExtInv, NEW c \in ExtCall, ExtRegister(c) \/ ExtRefresh(c) \/ ExtDelete(c)
  PROVE  /\ extStep' = [extStep EXCEPT ![c] = extStep'[c]] /\ extStep'[c] \in {"audit", "done"}
         /\ extOut' \in [ExtCall -> ExtCodes]
         /\ UNCHANGED <<durable, remote, extAsk, held, fetched>>
         /\ \/ UNCHANGED <<external, wasDeleted>>
            \/ \E x \in ExtId, n \in ExtName, card \in Cards \cup {Nothing} :
                 /\ x = X(c) /\ ExtAsks(c, {"register"}) /\ extStep[c] = "store"
                 /\ ~ExtNameTaken(n) /\ InsertRecord(x, n, card) /\ UNCHANGED wasDeleted
            \/ \E x \in ExtId, card \in Cards \cup {Nothing}, status \in {"healthy", "unreachable"} :
                 Registered(x) /\ SaveRecord(x, status, card) /\ UNCHANGED wasDeleted
            \/ \E x \in ExtId : /\ Registered(x) /\ RemoveRecord(x)
                                /\ wasDeleted' = wasDeleted \cup {x}
<1> USE DEF ExtSteps, ExtCodes, ExtGo, ExtAnswer, extFixed, ExtAsks
<1>1. /\ extStep \in [ExtCall -> ExtSteps] /\ extOut \in [ExtCall -> ExtCodes]
      /\ X(c) \in ExtId /\ extAsk[c].name \in ExtName
      /\ held[c] \in Cards \cup {Nothing} /\ external[X(c)].card \in Cards \cup {Nothing}
      /\ Got(c) => fetched[c] \in Cards \cup {Nothing}
  BY ExternalAssumption DEF ExtInv, ExternalTypeOK, X, ExtRequest, Registration, Got
<1>2. CASE ExtRegister(c)
  BY <1>1, <1>2 DEF ExtRegister
<1>3. CASE ExtRefresh(c)
  BY <1>1, <1>3 DEF ExtRefresh, Savable
<1>4. CASE ExtDelete(c)
  BY <1>1, <1>4 DEF ExtDelete
<1> QED
  BY <1>2, <1>3, <1>4

\* Every step keeps the registry sound.
LEMMA ExternalStep == ExtInv /\ [ExternalNext]_extVars => ExtInv'
<1> SUFFICES ASSUME ExtInv, [ExternalNext]_extVars PROVE ExtInv'
  OBVIOUS
<1>1. /\ external \in [ExtId -> Registration] /\ wasDeleted \subseteq ExtId
      /\ extStep \in [ExtCall -> ExtSteps] /\ \A c \in ExtCall : X(c) \in ExtId
      /\ \A b, c \in ExtCall : extAsk[b].op = "register" /\ extAsk[c].op = "register" /\ X(b) = X(c)
            => b = c
  BY ExternalAssumption DEF ExtInv, ExternalTypeOK, ExtSteps, X, ExtRequest
<1>2. CASE UNCHANGED extVars
  BY <1>2 DEF extVars, ExtInv, ExternalTypeOK, UnusedIds, RegistrationsAreSound, Registered, X, ExtAsks
<1>3. CASE RemoteChanges
  <2>1. remote' \in [card : Cards, up : BOOLEAN]
    <3>1. remote = [card |-> remote.card, up |-> remote.up] /\ remote.card \in 1 .. MaxCard
          /\ remote.up \in BOOLEAN /\ MaxCard \in Nat
      BY ExternalAssumption DEF ExtInv, ExternalTypeOK, Cards
    <3>2. CASE remote.card < MaxCard /\ remote' = [remote EXCEPT !.card = @ + 1]
      <4>1. remote.card + 1 \in 1 .. MaxCard
        BY <3>1, <3>2
      <4>2. remote' = [card |-> remote.card + 1, up |-> remote.up]
        BY <3>1, <3>2
      <4> QED
        BY <3>1, <4>1, <4>2 DEF Cards
    <3>3. CASE remote' = [remote EXCEPT !.up = ~@]
      <4>1. remote' = [card |-> remote.card, up |-> ~remote.up]
        BY <3>1, <3>3
      <4> QED
        BY <3>1, <4>1 DEF Cards
    <3> QED
      BY <1>3, <3>2, <3>3 DEF RemoteChanges
  <2> QED
    BY <1>3, <2>1 DEF RemoteChanges, ExtInv, ExternalTypeOK, UnusedIds, RegistrationsAreSound,
       Registered, X, ExtAsks
<1>4. ASSUME NEW c \in ExtCall,
             ExtStart(c) \/ ExtRead(c) \/ ResolveCredential(c) \/ RequestToken(c) \/ FetchCard(c)
             \/ InvokeRemote(c) \/ ExtInvoke(c) \/ ExtAudit(c)
      PROVE  ExtInv'
  <2>1. ExternalTypeOK' /\ extAsk' = extAsk /\ UNCHANGED <<external, wasDeleted>>
    BY <1>1, <1>4, ExternalReads DEF ExtInv, ExternalTypeOK, ExtSteps, ExtCodes
  <2>2. \A d \in ExtCall : extStep'[d] \notin {"audit", "done"} => extStep[d] \notin {"audit", "done"}
    BY <1>1, <1>4, ExternalReads
  <2> QED
    BY <2>1, <2>2 DEF ExtInv, UnusedIds, RegistrationsAreSound, Registered, X, ExtAsks
<1>5. ASSUME NEW c \in ExtCall, ExtRegister(c) \/ ExtRefresh(c) \/ ExtDelete(c)
      PROVE  ExtInv'
  <2>1. /\ extStep'[c] \in {"audit", "done"} /\ \A d \in ExtCall \ {c} : extStep'[d] = extStep[d]
        /\ extStep' \in [ExtCall -> ExtSteps] /\ extOut' \in [ExtCall -> ExtCodes]
        /\ UNCHANGED <<durable, remote, extAsk, held, fetched>>
    BY <1>1, <1>5, ExternalWrites DEF ExtSteps
  <2>2. CASE UNCHANGED <<external, wasDeleted>>
    BY <2>1, <2>2 DEF ExtInv, ExternalTypeOK, UnusedIds, RegistrationsAreSound, Registered, X, ExtAsks,
       ExtSteps, ExtCodes
  <2>3. ASSUME NEW n \in ExtName, NEW card \in Cards \cup {Nothing},
               ExtAsks(c, {"register"}), extStep[c] = "store",
               ~ExtNameTaken(n), InsertRecord(X(c), n, card), UNCHANGED wasDeleted
        PROVE  ExtInv'
    <3>1. [status |-> "healthy", name |-> n, card |-> card] \in Registration
      BY DEF Registration
    <3>2. external' = [external EXCEPT ![X(c)] = [status |-> "healthy", name |-> n, card |-> card]]
      BY <2>3 DEF InsertRecord
    <3>3. external' \in [ExtId -> Registration]
      BY <1>1, <3>1, <3>2
    <3>4. X(c) \notin wasDeleted
      BY <2>3 DEF ExtInv, UnusedIds
    <3>5. \A x \in ExtId \ {X(c)} : external'[x] = external[x]
      BY <1>1, <3>2
    <3>6. external'[X(c)].name = n
      BY <1>1, <3>2
    <3>7. RegistrationsAreSound'
      BY <1>1, <2>3, <3>4, <3>5, <3>6 DEF ExtInv, RegistrationsAreSound, Registered, ExtNameTaken
    <3>8. UnusedIds'
      BY <1>1, <2>1, <2>3, <3>5 DEF ExtInv, UnusedIds, Registered, X, ExtAsks
    <3> QED
      BY <2>1, <2>3, <3>3, <3>7, <3>8 DEF ExtInv, ExternalTypeOK, ExtSteps, ExtCodes
  <2>4. ASSUME NEW x \in ExtId, NEW card \in Cards \cup {Nothing},
               NEW status \in {"healthy", "unreachable"},
               Registered(x), SaveRecord(x, status, card), UNCHANGED wasDeleted
        PROVE  ExtInv'
    <3>1. /\ external' \in [ExtId -> Registration]
          /\ \A y \in ExtId \ {x} : external'[y] = external[y]
          /\ external'[x].name = external[x].name
      BY <1>1, <2>4 DEF SaveRecord, Registration
    <3>2. \A y \in ExtId : /\ external'[y].name = external[y].name
                           /\ Registered(y)' => Registered(y)
      BY <2>4, <3>1 DEF Registered
    <3>3. RegistrationsAreSound'
      BY <1>1, <2>4, <3>2 DEF ExtInv, RegistrationsAreSound
    <3>4. UnusedIds'
      BY <1>1, <2>1, <2>4, <3>2 DEF ExtInv, UnusedIds, X, ExtAsks
    <3> QED
      BY <2>1, <2>4, <3>1, <3>3, <3>4 DEF ExtInv, ExternalTypeOK, ExtSteps, ExtCodes
  <2>5. ASSUME NEW x \in ExtId, Registered(x), RemoveRecord(x), wasDeleted' = wasDeleted \cup {x}
        PROVE  ExtInv'
    <3>1. /\ external' \in [ExtId -> Registration]
          /\ \A y \in ExtId \ {x} : external'[y] = external[y]
          /\ external'[x].name = external[x].name /\ external'[x].status = "absent"
      BY <1>1, <2>5 DEF RemoveRecord, Registration
    <3>2. ~Registered(x)' /\ \A y \in ExtId \ {x} : Registered(y)' => Registered(y)
      BY <3>1 DEF Registered
    <3>3. RegistrationsAreSound'
      BY <1>1, <2>5, <3>1, <3>2 DEF ExtInv, RegistrationsAreSound
    <3>4. UnusedIds'
      BY <1>1, <2>1, <2>5, <3>2 DEF ExtInv, UnusedIds, X, ExtAsks
    <3> QED
      BY <1>1, <2>1, <2>5, <3>1, <3>3, <3>4 DEF ExtInv, ExternalTypeOK, ExtSteps, ExtCodes
  <2> QED
    BY <1>5, <2>2, <2>3, <2>4, <2>5, ExternalWrites
<1> QED
  BY <1>2, <1>3, <1>4, <1>5 DEF ExternalNext

\* A registration deleted while its card was fetched stays deleted, and one name has
\* one registration, however registrations, refreshes and deletions interleave.
THEOREM RegistrationsStaySound == ExternalSpec => [](ExternalTypeOK /\ RegistrationsAreSound)
  BY ExternalStarts, ExternalStep, PTL DEF ExternalSpec, ExtInv

-----------------------------------------------------------------------------
(* MCP connection *)

McpSpec == McpInit /\ [][McpNext]_mcpVars

McpSteps == {"new", "waiting", "stopping", "retry", "request", "answer", "closing", "done"}
NewKeeper == [place |-> "none", stop |-> FALSE, ready |-> "pending"]
Connecting(t) == at[t] \in {"waiting", "stopping", "retry"}
Lives(k) == keeper[k].place \in {"entering", "open", "exiting"}

\* Every task's bookkeeping: the lock, its keeper, and its bounded counters.
McpPlaces ==
    /\ at \in [Task -> McpSteps] /\ stopEvent \in 0 .. started
    /\ \A k \in Keeper : k > started => keeper[k] = NewKeeper
    /\ \A t \in Task : Connecting(t) <=> mcpLock = t
    /\ \A t \in Task : at[t] \in {"waiting", "stopping"} =>
                           mine[t] \in 1 .. started /\ attempt[t] <= MaxRetries
    /\ \A t \in Task : at[t] # "done" => found[t] <= MaxItems

\* The keepers that run, seen from the lock: none but the one the connection refers to
\* when it is free, none but its own while a task connects.
OwnedWhenFree == mcpLock = NoTask =>
    \A k \in Keeper : Lives(k) =>
        keeper[k].place = "open" /\ ~keeper[k].stop /\ session = k /\ keeperRef = k
OwnedWhileWaiting == \A t \in Task : at[t] = "waiting" =>
    /\ keeperRef = mine[t] /\ stopEvent = mine[t] /\ ~keeper[mine[t]].stop
    /\ \A k \in Keeper : Lives(k) => k = mine[t] /\ keeper[k].place # "exiting"
    /\ keeper[mine[t]].place = "entering" <=> keeper[mine[t]].ready = "pending"
    /\ keeper[mine[t]].place = "gone" <=> keeper[mine[t]].ready = "failed"
    /\ keeper[mine[t]].place = "open" => session = mine[t]
    /\ keeper[mine[t]].ready = "ok" => keeper[mine[t]].place = "open"
OwnedWhileStopping == \A t \in Task :
    /\ at[t] = "stopping" => \A k \in Keeper : Lives(k) => k = mine[t] /\ keeper[k].stop
    /\ at[t] = "retry" => \A k \in Keeper : ~Lives(k)
NobodyCloses == \A t \in Task : use[t] # "close"
McpInv == /\ McpTypeOK /\ McpPlaces
          /\ NobodyCloses => OwnedWhenFree /\ OwnedWhileWaiting /\ OwnedWhileStopping

LEMMA McpStarts == McpInit => McpInv
<1> SUFFICES ASSUME McpInit PROVE McpInv
  OBVIOUS
<1> USE McpAssumption DEF McpInit
<1>1. MaxRetries \in Nat /\ MaxItems \in Nat /\ MaxKeepers \in Nat
  OBVIOUS
<1>2. McpTypeOK
  <2>1. use \in [Task -> Requests \cup {"close"}]
    BY UsesAssumption
  <2>2. keeper \in [Keeper -> KeeperRow]
    BY DEF KeeperRow
  <2> QED
    BY <1>1, <2>1, <2>2 DEF McpTypeOK
<1>3. McpPlaces
  <2>1. \A t \in Task : at[t] = "new" /\ mcpLock # t /\ found[t] <= MaxItems
    BY <1>1
  <2>2. stopEvent \in 0 .. started
    BY DEF NoKeeper
  <2> QED
    BY <2>1, <2>2 DEF McpPlaces, McpSteps, NewKeeper, Connecting
<1>4. \A k \in Keeper : ~Lives(k)
  BY DEF Lives
<1> QED
  BY <1>2, <1>3, <1>4 DEF McpInv, OwnedWhenFree, OwnedWhileWaiting, OwnedWhileStopping

\* A task that does not hold the lock goes on with its request.
McpRequesting(t) ==
    \/ ArgumentsRefused(t) \/ PromptRefused(t) \/ Send(t) \/ ToolAnswers(t) \/ ToolsListed(t)
    \/ ResourceRead(t) \/ PromptRead(t) \/ ResourcesListed(t) \/ PromptsListed(t) \/ Closed(t)

LEMMA PageMoves ==
  ASSUME McpInv, NEW t \in Task, at[t] = "answer", PageListed(t)
  PROVE  /\ \E next \in {"new", "done"} : at' = [at EXCEPT ![t] = next]
         /\ answer' \in [Task -> {"none", "ok", "error"}]
         /\ seen' \in [Task -> SUBSET Cursor] /\ found' \in [Task -> 0 .. 2 * MaxItems + 1]
         /\ \A u \in Task : at'[u] # "done" => found'[u] <= MaxItems
<1>1. /\ at \in [Task -> McpSteps] /\ answer \in [Task -> {"none", "ok", "error"}]
      /\ seen \in [Task -> SUBSET Cursor] /\ found \in [Task -> 0 .. 2 * MaxItems + 1]
      /\ \A u \in Task : at[u] # "done" => found[u] <= MaxItems
      /\ MaxItems \in Nat
  BY McpAssumption DEF McpInv, McpTypeOK, McpPlaces
<1>2. CASE McpEnd(t, "error") /\ UNCHANGED <<seen, found>>
  BY <1>1, <1>2 DEF McpEnd
<1>3. ASSUME NEW items \in 0 .. MaxItems + 1, NEW more \in SUBSET Cursor,
             found' = [found EXCEPT ![t] = @ + items],
             \/ found'[t] > MaxItems /\ McpEnd(t, "error") /\ UNCHANGED seen
             \/ /\ found'[t] <= MaxItems /\ more = {}
                /\ \E a \in {"ok", "error"} : McpEnd(t, a)
                /\ UNCHANGED seen
             \/ \E next \in more :
                   /\ found'[t] <= MaxItems /\ Repeated(t, next)
                   /\ McpEnd(t, "error") /\ UNCHANGED seen
             \/ \E next \in more :
                   /\ found'[t] <= MaxItems /\ ~Repeated(t, next)
                   /\ seen' = [seen EXCEPT ![t] = @ \cup {next}]
                   /\ McpGo(t, "new")
      PROVE  /\ \E next \in {"new", "done"} : at' = [at EXCEPT ![t] = next]
             /\ answer' \in [Task -> {"none", "ok", "error"}]
             /\ seen' \in [Task -> SUBSET Cursor] /\ found' \in [Task -> 0 .. 2 * MaxItems + 1]
             /\ \A u \in Task : at'[u] # "done" => found'[u] <= MaxItems
  <2>1. found[t] + items \in 0 .. 2 * MaxItems + 1
    BY <1>1
  <2>2. found' \in [Task -> 0 .. 2 * MaxItems + 1]
        /\ \A u \in Task \ {t} : found'[u] = found[u]
    BY <1>1, <1>3, <2>1
  <2>3. \/ \E a \in {"ok", "error"} : McpEnd(t, a) /\ UNCHANGED seen
        \/ \E next \in Cursor : /\ seen' = [seen EXCEPT ![t] = @ \cup {next}]
                                /\ McpGo(t, "new") /\ found'[t] <= MaxItems
    BY <1>3
  <2>4. CASE \E a \in {"ok", "error"} : McpEnd(t, a) /\ UNCHANGED seen
    BY <1>1, <2>2, <2>4 DEF McpEnd
  <2>5. CASE \E next \in Cursor : /\ seen' = [seen EXCEPT ![t] = @ \cup {next}]
                                  /\ McpGo(t, "new") /\ found'[t] <= MaxItems
    BY <1>1, <2>2, <2>5 DEF McpGo
  <2> QED
    BY <2>3, <2>4, <2>5
<1> QED
  BY <1>2, <1>3 DEF PageListed

LEMMA McpRequestMoves ==
  ASSUME McpInv, NEW t \in Task, McpRequesting(t)
  PROVE  /\ at[t] \in {"new", "request", "answer", "closing"}
         /\ \E next \in {"new", "answer", "done"} : at' = [at EXCEPT ![t] = next]
         /\ answer' \in [Task -> {"none", "ok", "error"}]
         /\ seen' \in [Task -> SUBSET Cursor] /\ found' \in [Task -> 0 .. 2 * MaxItems + 1]
         /\ \A u \in Task : at'[u] # "done" => found'[u] <= MaxItems
         /\ UNCHANGED <<session, keeperRef, stopEvent, mcpLock, keeper, started, use, mine, attempt>>
<1>1. /\ at \in [Task -> McpSteps] /\ answer \in [Task -> {"none", "ok", "error"}]
      /\ seen \in [Task -> SUBSET Cursor] /\ found \in [Task -> 0 .. 2 * MaxItems + 1]
      /\ \A u \in Task : at[u] # "done" => found[u] <= MaxItems
  BY DEF McpInv, McpTypeOK, McpPlaces
<1>2. CASE ResourcesListed(t) \/ PromptsListed(t)
  <2>1. at[t] = "answer" /\ PageListed(t) /\ pageOnly
    BY <1>2 DEF ResourcesListed, PromptsListed
  <2> QED
    BY <2>1, PageMoves DEF pageOnly
<1>3. CASE ~(ResourcesListed(t) \/ PromptsListed(t))
  <2>1. /\ at[t] \in {"new", "request", "answer", "closing"}
        /\ (\E a \in {"ok", "error"} : McpEnd(t, a)) \/ McpGo(t, "answer")
        /\ UNCHANGED <<session, keeperRef, stopEvent, mcpLock, keeper, started, use, mine, attempt,
                       seen, found>>
    BY <1>3 DEF McpRequesting, ArgumentsRefused, PromptRefused, Send, ToolAnswers, ToolsListed,
       ResourceRead, PromptRead, Closed, requestOnly
  <2> QED
    BY <1>1, <2>1 DEF McpEnd, McpGo
<1> QED
  BY <1>2, <1>3

LEMMA McpRequestKeeps == ASSUME McpInv, NEW t \in Task, McpRequesting(t) PROVE McpInv'
<1>1. PICK next \in {"new", "answer", "done"} : at' = [at EXCEPT ![t] = next]
  BY McpRequestMoves
<1>2. /\ at \in [Task -> McpSteps] /\ ~Connecting(t)
      /\ UNCHANGED <<session, keeperRef, stopEvent, mcpLock, keeper, started, use, mine, attempt>>
  BY McpRequestMoves DEF McpInv, McpPlaces, Connecting
<1>3. /\ at' \in [Task -> McpSteps]
      /\ \A u \in Task : at'[u] \in {"waiting", "stopping", "retry"} <=>
                         u # t /\ at[u] \in {"waiting", "stopping", "retry"}
      /\ \A u \in Task : u # t => at'[u] = at[u]
  BY <1>1, <1>2 DEF McpSteps, Connecting
<1>4. McpTypeOK'
  BY <1>2, McpRequestMoves DEF McpInv, McpTypeOK
<1>5. McpPlaces'
  BY <1>2, <1>3, McpRequestMoves DEF McpInv, McpPlaces, Connecting
<1>6. \A u \in Task : at'[u] \in {"waiting", "stopping", "retry"} => at'[u] = at[u]
  BY <1>3
<1>7. ASSUME NobodyCloses' PROVE (OwnedWhenFree /\ OwnedWhileWaiting /\ OwnedWhileStopping)'
  <2>1. OwnedWhenFree /\ OwnedWhileWaiting /\ OwnedWhileStopping
    BY <1>2, <1>7 DEF McpInv, NobodyCloses
  <2> QED
    BY <1>2, <1>6, <2>1 DEF OwnedWhenFree, OwnedWhileWaiting, OwnedWhileStopping, Lives
<1> QED
  BY <1>4, <1>5, <1>7 DEF McpInv

\* A new keeper is the only one that runs, unless somebody closes the connection.
LEMMA StartKeeps ==
  ASSUME McpInv, NEW t \in Task, StartKeeper(t), mcpLock' = t, at[t] \in {"new", "retry"},
         mcpLock \in {t, NoTask}, at' = [at EXCEPT ![t] = "waiting"], attempt' \in [Task -> 0 .. MaxRetries + 1],
         attempt'[t] <= MaxRetries, \A u \in Task \ {t} : attempt'[u] = attempt[u],
         NobodyCloses => \A k \in Keeper : ~Lives(k),
         UNCHANGED <<session, use, answer, seen, found>>
  PROVE  McpInv'
<1>1. /\ MaxKeepers \in Nat /\ started \in 0 .. MaxKeepers /\ keeper \in [Keeper -> KeeperRow]
      /\ mine \in [Task -> Keeper \cup {NoKeeper}] /\ at \in [Task -> McpSteps]
      /\ started < MaxKeepers
  BY McpAssumption DEF McpInv, McpTypeOK, McpPlaces, StartKeeper
<1>2. started' = started + 1 /\ started' \in Keeper /\ started' \in 0 .. MaxKeepers
  BY <1>1 DEF StartKeeper, Keeper
<1>3. keeper[started'] = NewKeeper
  BY <1>1, <1>2 DEF McpInv, McpPlaces
<1>4. /\ keeper' = [keeper EXCEPT ![started'] = [NewKeeper EXCEPT !.place = "entering"]]
      /\ mine' = [mine EXCEPT ![t] = started'] /\ keeperRef' = started' /\ stopEvent' = started'
  BY <1>1, <1>2, <1>3 DEF StartKeeper
<1>5. /\ keeper'[started'] = [place |-> "entering", stop |-> FALSE, ready |-> "pending"]
      /\ \A k \in Keeper \ {started'} : keeper'[k] = keeper[k]
      /\ keeper' \in [Keeper -> KeeperRow]
  BY <1>1, <1>2, <1>4 DEF NewKeeper, KeeperRow
<1>6. /\ mine' \in [Task -> Keeper \cup {NoKeeper}] /\ mine'[t] = started'
      /\ \A u \in Task \ {t} : mine'[u] = mine[u]
      /\ at' \in [Task -> McpSteps] /\ at'[t] = "waiting"
      /\ \A u \in Task \ {t} : at'[u] = at[u]
  BY <1>1, <1>2, <1>4 DEF McpSteps
<1>7. \A u \in Task \ {t} : ~Connecting(u)
  BY McpAssumption DEF McpInv, McpPlaces
<1>8. McpTypeOK'
  BY <1>2, <1>4, <1>5, <1>6 DEF McpInv, McpTypeOK
<1>9. McpPlaces'
  <2>1. \A k \in Keeper : k > started' => k > started /\ k # started'
    BY <1>1, <1>2 DEF Keeper
  <2>2. \A u \in Task : Connecting(u)' <=> u = t
    BY <1>6, <1>7 DEF Connecting
  <2>3. started' \in 1 .. started'
    BY <1>1, <1>2
  <2>4. \A u \in Task : at'[u] # "done" => at[u] # "done"
    BY <1>6
  <2>5. stopEvent' \in 0 .. started' /\ \A k \in Keeper : k > started' => keeper'[k] = NewKeeper
    BY <1>2, <1>4, <1>5, <2>1 DEF McpInv, McpPlaces
  <2>6. \A u \in Task : at'[u] \in {"waiting", "stopping"} => u = t
    BY <2>2 DEF Connecting
  <2> QED
    BY <1>6, <2>2, <2>3, <2>4, <2>5, <2>6 DEF McpInv, McpPlaces
<1>10. ASSUME NobodyCloses' PROVE (OwnedWhenFree /\ OwnedWhileWaiting /\ OwnedWhileStopping)'
  <2>1. \A k \in Keeper : Lives(k)' => k = started'
    BY <1>5, <1>10 DEF NobodyCloses, Lives
  <2>2. \A u \in Task : at'[u] \in {"waiting", "stopping", "retry"} => u = t
    BY <1>6, <1>7 DEF Connecting
  <2> QED
    BY McpAssumption, <1>4, <1>5, <1>6, <2>1, <2>2
       DEF OwnedWhenFree, OwnedWhileWaiting, OwnedWhileStopping
<1> QED
  BY <1>8, <1>9, <1>10 DEF McpInv

\* What a task of the connection, and the keepers, look like between two steps.
LEMMA McpKnows ==
  ASSUME McpInv
  PROVE  /\ at \in [Task -> McpSteps] /\ keeper \in [Keeper -> KeeperRow] /\ NoTask \notin Task
         /\ mine \in [Task -> Keeper \cup {NoKeeper}] /\ attempt \in [Task -> 0 .. MaxRetries + 1]
         /\ answer \in [Task -> {"none", "ok", "error"}] /\ MaxRetries \in Nat
         /\ {session, keeperRef, stopEvent} \subseteq Keeper \cup {NoKeeper}
         /\ NoKeeper \notin Keeper
         /\ \A t \in Task : at[t] \in {"waiting", "stopping"} => mine[t] \in Keeper
         /\ \A t, u \in Task : Connecting(t) /\ Connecting(u) => t = u
         /\ mcpLock = NoTask => \A u \in Task : ~Connecting(u)
<1>1. /\ MaxKeepers \in Nat /\ started \in 0 .. MaxKeepers
      /\ \A t \in Task : at[t] \in {"waiting", "stopping"} => mine[t] \in 1 .. started
  BY McpAssumption DEF McpInv, McpTypeOK, McpPlaces
<1>2. \A t \in Task : at[t] \in {"waiting", "stopping"} => mine[t] \in Keeper
  BY <1>1 DEF Keeper
<1>3. NoKeeper \notin Keeper
  BY <1>1 DEF Keeper, NoKeeper
<1> QED
  BY <1>2, <1>3, McpAssumption DEF McpInv, McpTypeOK, McpPlaces

LEMMA ConnectKeeps == ASSUME McpInv, NEW t \in Task, Connect(t) PROVE McpInv'
<1>1. attempt' \in [Task -> 0 .. MaxRetries + 1] /\ attempt'[t] <= MaxRetries
      /\ \A u \in Task \ {t} : attempt'[u] = attempt[u]
  BY McpKnows DEF Connect
<1>2. CASE /\ mcpLock = NoTask /\ session # NoKeeper
           /\ mine' = [mine EXCEPT ![t] = session] /\ McpGo(t, "request")
           /\ UNCHANGED <<mcpLock, keeperRef, stopEvent, keeper, started>>
  <2>1. /\ at' = [at EXCEPT ![t] = "request"] /\ at[t] = "new"
        /\ UNCHANGED <<session, use, seen, found, answer>>
    BY <1>2 DEF Connect, McpGo
  <2>2. /\ at' \in [Task -> McpSteps] /\ at'[t] = "request"
        /\ \A u \in Task \ {t} : at'[u] = at[u]
        /\ \A u \in Task : at'[u] \notin {"waiting", "stopping", "retry"}
    BY <1>2, <2>1, McpKnows DEF McpSteps, Connecting
  <2>3. mine' \in [Task -> Keeper \cup {NoKeeper}]
    BY <1>2, McpKnows
  <2>4. McpTypeOK'
    BY <1>1, <1>2, <2>1, <2>3 DEF McpInv, McpTypeOK
  <2>5. McpPlaces'
    BY <1>2, <2>1, <2>2, McpKnows DEF McpInv, McpPlaces, Connecting
  <2>6. NobodyCloses' => OwnedWhenFree'
    BY <1>2, <2>1 DEF McpInv, NobodyCloses, OwnedWhenFree, Lives
  <2>7. OwnedWhileWaiting' /\ OwnedWhileStopping'
    BY <2>2 DEF OwnedWhileWaiting, OwnedWhileStopping
  <2> QED
    BY <2>4, <2>5, <2>6, <2>7 DEF McpInv
<1>3. CASE Hold(t) /\ session = NoKeeper /\ StartKeeper(t) /\ McpGo(t, "waiting")
  <2>1. NobodyCloses => \A k \in Keeper : ~Lives(k)
    BY <1>3, McpKnows DEF Hold, McpInv, OwnedWhenFree
  <2> QED
    BY <1>1, <1>3, <2>1, StartKeeps DEF Connect, Hold, McpGo
<1> QED
  BY <1>2, <1>3 DEF Connect

\* The holder of the lock goes from one step of connecting to the next, or lets it go.
LEMMA ConnectingPlaces ==
  ASSUME McpInv, NEW t \in Task, Connecting(t), NEW next \in {"stopping", "retry", "request", "done"},
         at' = [at EXCEPT ![t] = next],
         mcpLock' = IF next \in {"request", "done"} THEN NoTask ELSE mcpLock,
         next = "stopping" => at[t] = "waiting" /\ mine' = mine /\ attempt' = attempt,
         \A u \in Task \ {t} : mine'[u] = mine[u] /\ attempt'[u] = attempt[u],
         \A k \in Keeper : k > started => keeper'[k] = keeper[k],
         UNCHANGED <<started, stopEvent, found>>
  PROVE  /\ McpPlaces'
         /\ \A u \in Task \ {t} : at'[u] = at[u] /\ ~Connecting(u)'
         /\ at'[t] = next
<1>1. /\ at' \in [Task -> McpSteps] /\ at'[t] = next
      /\ \A u \in Task \ {t} : at'[u] = at[u]
  BY McpKnows DEF McpSteps
<1>2. \A u \in Task \ {t} : ~Connecting(u)'
  BY <1>1, McpKnows DEF Connecting
<1>3. mcpLock = t
  BY DEF McpInv, McpPlaces
<1>4. \A u \in Task : Connecting(u)' <=> mcpLock' = u
  BY <1>1, <1>2, <1>3, McpKnows DEF Connecting
<1>5. \A u \in Task : at'[u] \in {"waiting", "stopping"} =>
          mine'[u] \in 1 .. started /\ attempt'[u] <= MaxRetries
  BY <1>1, <1>2 DEF McpInv, McpPlaces, Connecting
<1>6. \A u \in Task : at'[u] # "done" => found[u] <= MaxItems
  BY <1>1 DEF McpInv, McpPlaces, Connecting
<1> QED
  BY <1>1, <1>2, <1>4, <1>5, <1>6 DEF McpInv, McpPlaces

LEMMA ConnectedKeeps == ASSUME McpInv, NEW t \in Task, Connected(t) PROVE McpInv'
<1>1. /\ at[t] = "waiting" /\ keeper[mine[t]].ready = "ok" /\ Connecting(t)
      /\ UNCHANGED <<session, keeperRef, stopEvent, keeper, started, use, seen, found>>
  BY DEF Connected, Connecting
<1>2. CASE /\ session # NoKeeper /\ mine' = [mine EXCEPT ![t] = session]
           /\ Release /\ McpGo(t, "request") /\ UNCHANGED attempt
  <2>1. at' = [at EXCEPT ![t] = "request"] /\ mcpLock' = NoTask /\ answer' = answer
    BY <1>2 DEF McpGo, Release
  <2>2. mine' \in [Task -> Keeper \cup {NoKeeper}] /\ \A u \in Task \ {t} : mine'[u] = mine[u]
    BY <1>2, McpKnows
  <2>3. /\ McpPlaces' /\ \A u \in Task \ {t} : ~Connecting(u)'
        /\ at'[t] = "request"
    BY <1>1, <1>2, <2>1, <2>2, ConnectingPlaces DEF McpInv, McpPlaces
  <2>4. McpTypeOK'
    BY <1>1, <1>2, <2>1, <2>2 DEF McpInv, McpTypeOK
  <2>5. NobodyCloses' => OwnedWhenFree'
    BY <1>1, McpKnows DEF McpInv, NobodyCloses, OwnedWhenFree, OwnedWhileWaiting, Lives
  <2>6. OwnedWhileWaiting' /\ OwnedWhileStopping'
    BY <2>3 DEF Connecting, OwnedWhileWaiting, OwnedWhileStopping
  <2> QED
    BY <2>3, <2>4, <2>5, <2>6 DEF McpInv
<1>3. CASE /\ session = NoKeeper
           /\ attempt' = [attempt EXCEPT ![t] = @ + 1]
           /\ McpGo(t, "retry") /\ UNCHANGED <<mine, mcpLock>>
  <2>1. at' = [at EXCEPT ![t] = "retry"] /\ answer' = answer
    BY <1>3 DEF McpGo
  <2>2. attempt[t] + 1 \in 0 .. MaxRetries + 1
    BY <1>1, McpKnows DEF McpInv, McpPlaces
  <2>3. /\ attempt' \in [Task -> 0 .. MaxRetries + 1]
        /\ \A u \in Task \ {t} : attempt'[u] = attempt[u]
    BY <1>3, <2>2, McpKnows
  <2>4. /\ McpPlaces' /\ \A u \in Task \ {t} : ~Connecting(u)'
        /\ at'[t] = "retry"
    BY <1>1, <1>3, <2>1, <2>3, ConnectingPlaces DEF McpInv, McpPlaces
  <2>5. McpTypeOK'
    BY <1>1, <1>3, <2>1, <2>3 DEF McpInv, McpTypeOK
  <2>6. NobodyCloses' => FALSE
    BY <1>1, <1>3, McpKnows DEF McpInv, NobodyCloses, OwnedWhileWaiting
  <2> QED
    BY <2>4, <2>5, <2>6 DEF McpInv
<1> QED
  BY <1>2, <1>3 DEF Connected

\* A keeper is told to stop, if there is one.
ToldToStop(f, s) == [f EXCEPT ![s].stop = TRUE]

LEMMA TellStop ==
  ASSUME NEW f \in [Keeper -> KeeperRow], NEW s
  PROVE  /\ ToldToStop(f, s) \in [Keeper -> KeeperRow]
         /\ \A k \in Keeper : ToldToStop(f, s)[k].place = f[k].place
         /\ \A k \in Keeper : k # s => ToldToStop(f, s)[k] = f[k]
         /\ s \in Keeper => ToldToStop(f, s)[s].stop
<1>1. ToldToStop(f, s) = [k \in Keeper |-> IF k = s THEN [f[k] EXCEPT !.stop = TRUE] ELSE f[k]]
  BY DEF ToldToStop
<1>2. \A row \in KeeperRow : /\ [row EXCEPT !.stop = TRUE] \in KeeperRow
                             /\ [row EXCEPT !.stop = TRUE].place = row.place
                             /\ [row EXCEPT !.stop = TRUE].stop
  BY DEF KeeperRow
<1> QED
  BY <1>1, <1>2

LEMMA FailedKeeps == ASSUME McpInv, NEW t \in Task, ConnectFailed(t) PROVE McpInv'
<1>1. /\ at[t] = "waiting" /\ Connecting(t) /\ keeperRef' = NoKeeper
      /\ keeper' = [keeper EXCEPT ![stopEvent].stop = TRUE,
                                  ![mine[t]].ready = IF @ = "pending" THEN "cancelled" ELSE @]
      /\ at' = [at EXCEPT ![t] = "stopping"]
      /\ UNCHANGED <<session, stopEvent, mcpLock, started, use, mine, attempt, answer, seen, found>>
  BY DEF ConnectFailed, Abandoned, McpGo, Connecting
<1>2. mine[t] \in Keeper
  BY <1>1, McpKnows
<1>3. /\ keeper' \in [Keeper -> KeeperRow]
      /\ \A k \in Keeper : keeper'[k].place = keeper[k].place
      /\ \A k \in Keeper : k \notin {stopEvent, mine[t]} => keeper'[k] = keeper[k]
      /\ stopEvent \in Keeper => keeper'[stopEvent].stop
  <2> DEFINE told == ToldToStop(keeper, stopEvent)
             ready == IF told[mine[t]].ready = "pending" THEN "cancelled" ELSE told[mine[t]].ready
  <2>1. /\ told \in [Keeper -> KeeperRow]
        /\ \A k \in Keeper : told[k].place = keeper[k].place
        /\ \A k \in Keeper : k # stopEvent => told[k] = keeper[k]
        /\ stopEvent \in Keeper => told[stopEvent].stop
    <3>1. keeper \in [Keeper -> KeeperRow]
      BY McpKnows
    <3> QED
      BY <3>1, TellStop
  <2>2. keeper' = [told EXCEPT ![mine[t]].ready = ready]
    BY <1>1 DEF ToldToStop
  <2>3. ready \in {"pending", "ok", "failed", "cancelled"}
    BY <1>2, <2>1 DEF KeeperRow
  <2> HIDE DEF told, ready
  <2>4. keeper' = [k \in Keeper |-> IF k = mine[t] THEN [told[k] EXCEPT !.ready = ready] ELSE told[k]]
    BY <2>1, <2>2
  <2>5. \A row \in KeeperRow : /\ [row EXCEPT !.ready = ready] \in KeeperRow
                               /\ [row EXCEPT !.ready = ready].place = row.place
                               /\ [row EXCEPT !.ready = ready].stop = row.stop
    BY <2>3 DEF KeeperRow
  <2> QED
    BY <1>2, <2>1, <2>4, <2>5
<1>5. \A k \in Keeper : k > started => keeper'[k] = keeper[k]
  <2>1. stopEvent \in 0 .. started /\ mine[t] \in 1 .. started /\ started \in Nat
        /\ Keeper \subseteq Nat
    BY <1>1 DEF McpInv, McpPlaces, McpTypeOK, Keeper
  <2>2. \A k \in Keeper : k > started => k \notin {stopEvent, mine[t]}
    BY <2>1
  <2> QED
    BY <1>3, <2>2
<1>6. /\ McpPlaces' /\ (\A u \in Task \ {t} : ~Connecting(u)') /\ at'[t] = "stopping"
  BY <1>1, <1>5, ConnectingPlaces
<1>7. McpTypeOK'
  BY <1>1, <1>3 DEF McpInv, McpTypeOK
<1>8. NobodyCloses' => OwnedWhileStopping'
  <2>1. ASSUME NobodyCloses, NEW k \in Keeper, Lives(k)' PROVE k = mine'[t] /\ keeper'[k].stop
    <3>1. stopEvent = mine[t] /\ k = mine[t]
      BY <1>1, <1>3, <2>1 DEF McpInv, OwnedWhileWaiting, Lives
    <3> QED
      BY <1>1, <1>2, <1>3, <3>1
  <2> QED
    <3>1. /\ \A u \in Task : at'[u] = "stopping" => u = t
          /\ \A u \in Task : at'[u] # "retry"
      BY <1>6 DEF Connecting
    <3>2. NobodyCloses' => NobodyCloses
      BY <1>1 DEF NobodyCloses
    <3> QED
      BY <2>1, <3>1, <3>2 DEF OwnedWhileStopping
<1>9. OwnedWhenFree' /\ OwnedWhileWaiting'
  <2>1. mcpLock' # NoTask
    BY <1>1, McpKnows DEF McpInv, McpPlaces
  <2> QED
    <3>1. \A u \in Task : at'[u] # "waiting"
      BY <1>6 DEF Connecting
    <3> QED
      BY <2>1, <3>1 DEF OwnedWhenFree, OwnedWhileWaiting
<1> QED
  BY <1>6, <1>7, <1>8, <1>9 DEF McpInv

LEMMA StoppedKeeps == ASSUME McpInv, NEW t \in Task, KeeperStopped(t) PROVE McpInv'
<1>1. /\ at[t] = "stopping" /\ Connecting(t) /\ keeper[mine[t]].place = "gone"
      /\ attempt' = [attempt EXCEPT ![t] = @ + 1] /\ at' = [at EXCEPT ![t] = "retry"]
      /\ UNCHANGED <<session, keeperRef, stopEvent, mcpLock, keeper, started, use, mine, answer, seen,
                     found>>
  BY DEF KeeperStopped, McpGo, Connecting
<1>2. attempt[t] + 1 \in 0 .. MaxRetries + 1
  BY <1>1, McpKnows DEF McpInv, McpPlaces
<1>3. /\ attempt' \in [Task -> 0 .. MaxRetries + 1]
      /\ \A u \in Task \ {t} : attempt'[u] = attempt[u]
  BY <1>1, <1>2, McpKnows
<1>4. /\ McpPlaces' /\ (\A u \in Task \ {t} : ~Connecting(u)') /\ at'[t] = "retry"
  BY <1>1, <1>3, ConnectingPlaces
<1>5. McpTypeOK'
  BY <1>1, <1>3 DEF McpInv, McpTypeOK
<1>6. NobodyCloses' => \A k \in Keeper : ~Lives(k)'
  BY <1>1 DEF McpInv, NobodyCloses, OwnedWhileStopping, Lives
<1>7. mcpLock' # NoTask
  BY <1>1, McpKnows DEF McpInv, McpPlaces
<1>8. \A u \in Task : at'[u] \notin {"waiting", "stopping"}
  BY <1>4 DEF Connecting
<1>9. OwnedWhenFree' /\ OwnedWhileWaiting' /\ (NobodyCloses' => OwnedWhileStopping')
  BY <1>6, <1>7, <1>8 DEF OwnedWhenFree, OwnedWhileWaiting, OwnedWhileStopping
<1> QED
  BY <1>4, <1>5, <1>9 DEF McpInv

\* The lock is released after a failure, when no keeper runs any more.
LEMMA GivingUpKeeps ==
  ASSUME McpInv, NEW t \in Task, Connecting(t), at[t] # "waiting", Release, McpEnd(t, "error"),
         NobodyCloses => \A k \in Keeper : ~Lives(k),
         UNCHANGED <<session, keeperRef, stopEvent, keeper, started, use, mine, attempt, seen, found>>
  PROVE  McpInv'
<1>1. at' = [at EXCEPT ![t] = "done"] /\ mcpLock' = NoTask
  BY DEF McpEnd, Release
<1>2. answer' \in [Task -> {"none", "ok", "error"}]
  BY McpKnows DEF McpEnd
<1>3. McpPlaces' /\ (\A u \in Task \ {t} : ~Connecting(u)') /\ at'[t] = "done"
  BY <1>1, ConnectingPlaces
<1>4. McpTypeOK'
  BY <1>1, <1>2 DEF McpInv, McpTypeOK
<1>5. NobodyCloses' => \A k \in Keeper : ~Lives(k)'
  BY DEF NobodyCloses, Lives
<1> QED
  BY <1>3, <1>4, <1>5 DEF McpInv, OwnedWhenFree, OwnedWhileWaiting, OwnedWhileStopping, Connecting

LEMMA RetryKeeps == ASSUME McpInv, NEW t \in Task, RetryConnect(t) PROVE McpInv'
<1>1. /\ at[t] = "retry" /\ Connecting(t) /\ UNCHANGED <<session, use, attempt, seen, found>>
  BY DEF RetryConnect, Connecting
<1>2. NobodyCloses => \A k \in Keeper : ~Lives(k)
  BY <1>1 DEF McpInv, OwnedWhileStopping
<1>3. CASE /\ attempt[t] <= MaxRetries /\ StartKeeper(t) /\ McpGo(t, "waiting") /\ UNCHANGED mcpLock
  <2>1. mcpLock = t
    BY <1>1 DEF McpInv, McpPlaces
  <2> QED
    BY <1>1, <1>2, <1>3, <2>1, StartKeeps, McpKnows DEF McpGo
<1>4. CASE /\ attempt[t] > MaxRetries /\ Release /\ McpEnd(t, "error")
           /\ UNCHANGED <<keeperRef, stopEvent, keeper, started, mine>>
  BY <1>1, <1>2, <1>4, GivingUpKeeps
<1> QED
  BY <1>3, <1>4 DEF RetryConnect

LEMMA RefusedKeeps == ASSUME McpInv, NEW t \in Task, ConnectRefused(t) PROVE McpInv'
<1>1. at[t] = "stopping" /\ Connecting(t) /\ keeper[mine[t]].place = "gone"
  BY DEF ConnectRefused, Connecting
<1>2. NobodyCloses => \A k \in Keeper : ~Lives(k)
  BY <1>1 DEF McpInv, OwnedWhileStopping, Lives
<1> QED
  BY <1>1, <1>2, GivingUpKeeps DEF ConnectRefused

\* Close keeps the places; it is one of the tasks that close the connection.
LEMMA CloseKeeps == ASSUME McpInv, NEW t \in Task, Close(t) PROVE McpInv'
<1>1. /\ at[t] = "new" /\ use[t] = "close" /\ mcpLock = NoTask
      /\ session' = NoKeeper /\ keeperRef' = NoKeeper
      /\ UNCHANGED <<stopEvent, mcpLock, started, use, attempt, seen, found>>
  BY DEF Close
<1>2. /\ \E next \in {"closing", "done"} : at' = [at EXCEPT ![t] = next]
      /\ answer' \in [Task -> {"none", "ok", "error"}]
      /\ mine' \in [Task -> Keeper \cup {NoKeeper}]
      /\ keeper' = keeper \/ keeper' = ToldToStop(keeper, stopEvent)
  BY McpKnows DEF Close, McpEnd, McpGo, ToldToStop
<1>3. /\ keeper' \in [Keeper -> KeeperRow]
      /\ \A k \in Keeper : k # stopEvent => keeper'[k] = keeper[k]
  BY <1>2, McpKnows, TellStop
<1>4. \A k \in Keeper : k > started => keeper'[k] = NewKeeper
  <2>1. \A k \in Keeper : k > started => k # stopEvent
    BY DEF McpInv, McpPlaces, McpTypeOK, Keeper
  <2> QED
    BY <1>3, <2>1 DEF McpInv, McpPlaces
<1>5. /\ at' \in [Task -> McpSteps] /\ \A u \in Task : ~Connecting(u)'
      /\ \A u \in Task : at'[u] # "done" => at[u] # "done"
  BY <1>1, <1>2, McpKnows DEF McpSteps, Connecting
<1>6. McpTypeOK'
  BY <1>1, <1>2, <1>3 DEF McpInv, McpTypeOK
<1>7. McpPlaces'
  BY <1>1, <1>4, <1>5, McpKnows DEF McpInv, McpPlaces, Connecting
<1>8. ~NobodyCloses'
  BY <1>1 DEF NobodyCloses
<1> QED
  BY <1>6, <1>7, <1>8 DEF McpInv

LEMMA KeeperKeeps == ASSUME McpInv, NEW k \in Keeper, KeeperStep(k) PROVE McpInv'
<1>1. /\ keeper[k] \in KeeperRow /\ Lives(k)
      /\ UNCHANGED <<keeperRef, stopEvent, mcpLock, started, use, at, mine, attempt, answer, seen,
                     found>>
      /\ session' \in Keeper \cup {NoKeeper}
  BY McpKnows DEF KeeperStep, KeeperOpens, KeeperFails, KeeperExits, KeeperEnds, keepersOnly, Lives
<1>2. /\ keeper'[k] \in KeeperRow /\ keeper' = [keeper EXCEPT ![k] = keeper'[k]]
      /\ keeper'[k].stop = keeper[k].stop
      /\ \/ /\ keeper[k].place = "entering" /\ keeper'[k].place = "open" /\ session' = k
            /\ keeper'[k].ready = IF keeper[k].ready = "pending" THEN "ok" ELSE keeper[k].ready
         \/ /\ keeper[k].place = "entering" /\ keeper'[k].place = "gone"
            /\ keeper'[k].ready = IF keeper[k].ready = "pending" THEN "failed" ELSE keeper[k].ready
         \/ /\ keeper[k].place = "open" /\ keeper[k].stop
            /\ keeper'[k].place = "exiting" /\ keeper'[k].ready = keeper[k].ready
         \/ keeper[k].place = "exiting" /\ keeper'[k].place = "gone"
  BY <1>1, McpKnows DEF KeeperStep, KeeperOpens, KeeperFails, KeeperExits, KeeperEnds, KeeperRow
<1>3. keeper' \in [Keeper -> KeeperRow] /\ \A j \in Keeper \ {k} : keeper'[j] = keeper[j]
  BY <1>2, McpKnows
<1>4. \A j \in Keeper : j > started => j # k
  BY <1>1 DEF McpInv, McpPlaces, NewKeeper, Lives
<1>5. McpTypeOK'
  BY <1>1, <1>3 DEF McpInv, McpTypeOK
<1>6. McpPlaces'
  BY <1>1, <1>3, <1>4 DEF McpInv, McpPlaces, Connecting
<1>7. ASSUME NobodyCloses' PROVE (OwnedWhenFree /\ OwnedWhileWaiting /\ OwnedWhileStopping)'
  <2>1. OwnedWhenFree /\ OwnedWhileWaiting /\ OwnedWhileStopping
    BY <1>1, <1>7 DEF McpInv, NobodyCloses
  <2>2. \A j \in Keeper : Lives(j)' => Lives(j)
    BY <1>1, <1>3 DEF Lives
  <2>3. OwnedWhenFree'
    <3>1. mcpLock # NoTask
      BY <1>1, <1>2, <2>1 DEF OwnedWhenFree, Lives
    <3> QED
      BY <1>1, <3>1 DEF OwnedWhenFree
  <2>4. OwnedWhileStopping'
    BY <1>1, <1>2, <1>3, <2>1, <2>2 DEF OwnedWhileStopping
  <2>5. OwnedWhileWaiting'
    <3> SUFFICES ASSUME NEW t \in Task, at[t] = "waiting"
                 PROVE  /\ keeperRef = mine[t] /\ stopEvent = mine[t] /\ ~keeper'[mine[t]].stop
                        /\ \A j \in Keeper : Lives(j)' => j = mine[t] /\ keeper'[j].place # "exiting"
                        /\ keeper'[mine[t]].place = "entering" <=> keeper'[mine[t]].ready = "pending"
                        /\ keeper'[mine[t]].place = "gone" <=> keeper'[mine[t]].ready = "failed"
                        /\ keeper'[mine[t]].place = "open" => session' = mine[t]
                        /\ keeper'[mine[t]].ready = "ok" => keeper'[mine[t]].place = "open"
      BY <1>1 DEF OwnedWhileWaiting
    <3>1. /\ k = mine[t] /\ keeper[k].place # "exiting" /\ ~keeper[k].stop
          /\ keeper[k].place = "entering" <=> keeper[k].ready = "pending"
          /\ keeperRef = k /\ stopEvent = k
      BY <1>1, <2>1 DEF OwnedWhileWaiting
    <3>2. keeper[k].place = "entering" /\ keeper[k].ready = "pending"
      BY <1>2, <3>1
    <3>3. \A j \in Keeper : Lives(j)' => j = k
      BY <2>1, <2>2, <3>1 DEF OwnedWhileWaiting
    <3> QED
      BY <1>2, <3>1, <3>2, <3>3
  <2> QED
    BY <2>3, <2>4, <2>5
<1> QED
  BY <1>5, <1>6, <1>7 DEF McpInv

LEMMA McpStep == McpInv /\ [McpNext]_mcpVars => McpInv'
<1> SUFFICES ASSUME McpInv, [McpNext]_mcpVars PROVE McpInv'
  OBVIOUS
<1>1. CASE UNCHANGED mcpVars
  BY <1>1 DEF mcpVars, McpInv, McpTypeOK, McpPlaces, Connecting, NobodyCloses, OwnedWhenFree,
     OwnedWhileWaiting, OwnedWhileStopping, Lives
<1>2. ASSUME NEW t \in Task, TaskStep(t) PROVE McpInv'
  BY <1>2, McpRequestKeeps, ConnectKeeps, ConnectedKeeps, FailedKeeps, StoppedKeeps, RetryKeeps,
     RefusedKeeps, CloseKeeps DEF TaskStep, McpRequesting
<1>3. ASSUME NEW k \in Keeper, KeeperStep(k) PROVE McpInv'
  BY <1>3, KeeperKeeps
<1> QED
  BY <1>1, <1>2, <1>3 DEF McpNext

LEMMA OwnedTransports == McpInv => TransportsAreOwned
<1> SUFFICES ASSUME McpInv, NobodyCloses, NEW k \in Keeper,
                    keeper[k].place = "open", ~keeper[k].stop
             PROVE  keeperRef = k
  BY DEF TransportsAreOwned, NobodyCloses
<1>1. Lives(k)
  BY DEF Lives
<1>2. CASE mcpLock = NoTask
  BY <1>1, <1>2 DEF McpInv, OwnedWhenFree
<1>3. ASSUME NEW t \in Task, Connecting(t) PROVE keeperRef = k
  BY <1>1, <1>3 DEF McpInv, OwnedWhileWaiting, OwnedWhileStopping, Connecting
<1> QED
  BY <1>2, <1>3 DEF McpInv, McpTypeOK, McpPlaces

\* As long as nobody closes the connection, an open transport that was not told to stop
\* is the one that close will find: concurrent connects, failed attempts and late
\* keepers leave none behind, for any number of tasks and retries.
THEOREM TransportsStayOwned == McpSpec => [](McpTypeOK /\ TransportsAreOwned)
<1>1. McpInv => McpTypeOK
  BY DEF McpInv
<1> QED
  BY <1>1, McpStarts, McpStep, OwnedTransports, PTL DEF McpSpec

-----------------------------------------------------------------------------
(* Sequences without repetition *)

\* The messages of a sequence, and that none comes twice.
Messages(q) == {q[i] : i \in DOMAIN q}
NoRepeat(q) == \A i, j \in DOMAIN q : q[i] = q[j] => i = j

LEMMA AppendedOnce ==
  ASSUME NEW S, NEW q \in Seq(S), NEW m \in S
  PROVE  /\ Append(q, m) \in Seq(S) /\ Len(Append(q, m)) > 0
         /\ Append(q, m)[Len(Append(q, m))] = m
         /\ Messages(Append(q, m)) = Messages(q) \cup {m}
         /\ NoRepeat(q) /\ m \notin Messages(q) => NoRepeat(Append(q, m))
<1> DEFINE r == Append(q, m)
<1>1. /\ Len(q) \in Nat /\ DOMAIN q = 1 .. Len(q) /\ r \in Seq(S) /\ Len(r) = Len(q) + 1
      /\ DOMAIN r = 1 .. Len(q) + 1
      /\ \A i \in 1 .. Len(q) : r[i] = q[i]
      /\ r[Len(q) + 1] = m
  BY LenProperties, AppendProperties
<1> HIDE DEF r
<1>2. \A i \in DOMAIN r : i \in DOMAIN q \/ i = Len(q) + 1
  BY <1>1
<1>3. Messages(r) = Messages(q) \cup {m}
  BY <1>1, <1>2 DEF Messages
<1>4. ASSUME NoRepeat(q), m \notin Messages(q), NEW i \in DOMAIN r, NEW j \in DOMAIN r, r[i] = r[j]
      PROVE  i = j
  BY <1>1, <1>2, <1>4 DEF NoRepeat, Messages
<1>5. Len(r) > 0 /\ r[Len(r)] = m
  BY <1>1
<1>6. NoRepeat(q) /\ m \notin Messages(q) => NoRepeat(r)
  BY <1>4 DEF NoRepeat
<1> QED
  BY <1>1, <1>3, <1>5, <1>6 DEF r

LEMMA JoinedOnce ==
  ASSUME NEW S, NEW p \in Seq(S), NEW q \in Seq(S)
  PROVE  /\ p \o q \in Seq(S) /\ Messages(p \o q) = Messages(p) \cup Messages(q)
         /\ NoRepeat(p) /\ NoRepeat(q) /\ (\A m \in Messages(p) : m \notin Messages(q))
              => NoRepeat(p \o q)
<1> DEFINE r == p \o q
<1>1. /\ Len(p) \in Nat /\ DOMAIN p = 1 .. Len(p) /\ Len(q) \in Nat /\ DOMAIN q = 1 .. Len(q)
      /\ r \in Seq(S) /\ Len(r) = Len(p) + Len(q) /\ DOMAIN r = 1 .. Len(p) + Len(q)
      /\ \A i \in 1 .. Len(p) + Len(q) : r[i] = IF i <= Len(p) THEN p[i] ELSE q[i - Len(p)]
  BY LenProperties, ConcatProperties
<1> HIDE DEF r
<1>2. \A i \in DOMAIN r : \/ i \in DOMAIN p /\ r[i] = p[i]
                          \/ i - Len(p) \in DOMAIN q /\ i > Len(p) /\ r[i] = q[i - Len(p)]
  BY <1>1
<1>3. /\ \A i \in DOMAIN p : i \in DOMAIN r /\ r[i] = p[i]
      /\ \A i \in DOMAIN q : i + Len(p) \in DOMAIN r /\ r[i + Len(p)] = q[i]
  <2>1. \A i \in DOMAIN p : i \in DOMAIN r /\ r[i] = p[i]
    BY <1>1
  <2>2. \A i \in DOMAIN q : /\ i + Len(p) \in DOMAIN r /\ ~(i + Len(p) <= Len(p))
                            /\ i + Len(p) - Len(p) = i
    BY <1>1
  <2> QED
    BY <1>1, <2>1, <2>2
<1>4. Messages(r) = Messages(p) \cup Messages(q)
  BY <1>2, <1>3 DEF Messages
<1>5. ASSUME NoRepeat(p), NoRepeat(q), \A m \in Messages(p) : m \notin Messages(q),
             NEW i \in DOMAIN r, NEW j \in DOMAIN r, r[i] = r[j]
      PROVE  i = j
  <2>1. CASE i \in DOMAIN p /\ r[i] = p[i] /\ j \in DOMAIN p /\ r[j] = p[j]
    BY <1>5, <2>1 DEF NoRepeat
  <2>2. CASE /\ i - Len(p) \in DOMAIN q /\ r[i] = q[i - Len(p)]
             /\ j - Len(p) \in DOMAIN q /\ r[j] = q[j - Len(p)]
    <3>1. i - Len(p) = j - Len(p)
      BY <1>5, <2>2 DEF NoRepeat
    <3> QED
      BY <1>1, <3>1
  <2>3. \A k \in DOMAIN p, l \in DOMAIN q : p[k] # q[l]
    BY <1>5 DEF Messages
  <2> QED
    BY <1>2, <1>5, <2>1, <2>2, <2>3
<1>6. NoRepeat(p) /\ NoRepeat(q) /\ (\A m \in Messages(p) : m \notin Messages(q)) => NoRepeat(r)
  BY <1>5 DEF NoRepeat
<1> QED
  BY <1>1, <1>4, <1>6 DEF r

\* The newest n of a sequence are the last of it, n if it has as many.
LEMMA NewestOf ==
  ASSUME NEW S, NEW q \in Seq(S), NEW n \in Nat \ {0}
  PROVE  /\ Newly(q, n) \in Seq(S)
         /\ Len(Newly(q, n)) = IF Len(q) <= n THEN Len(q) ELSE n
         /\ \A i \in 1 .. Len(Newly(q, n)) :
                /\ Len(q) - Len(Newly(q, n)) + i \in 1 .. Len(q)
                /\ Newly(q, n)[i] = q[Len(q) - Len(Newly(q, n)) + i]
<1>1. Len(q) \in Nat /\ DOMAIN q = 1 .. Len(q) /\ \A i \in 1 .. Len(q) : q[i] \in S
  BY LenProperties, ElementOfSeq
<1>2. CASE Len(q) <= n
  BY <1>1, <1>2 DEF Newly
<1>3. CASE ~(Len(q) <= n)
  <2> DEFINE m == Len(q) - n + 1
             r == SubSeq(q, m, Len(q))
  <2>1. /\ m \in 1 .. Len(q) /\ m \in Int /\ Len(q) \in Int /\ Len(q) - m + 1 = n
        /\ \A i \in m .. Len(q) : q[i] \in S
    BY <1>1, <1>3
  <2> HIDE DEF m
  <2>2. /\ r \in Seq(S) /\ Len(r) = IF m <= Len(q) THEN Len(q) - m + 1 ELSE 0
        /\ \A i \in 1 .. Len(q) - m + 1 : r[i] = q[m + i - 1]
    BY <2>1, SubSeqProperties
  <2> HIDE DEF r
  <2>3. r \in Seq(S) /\ Len(r) = n
    BY <1>1, <2>1, <2>2
  <2>4. ASSUME NEW i \in 1 .. n
        PROVE  Len(q) - n + i \in 1 .. Len(q) /\ r[i] = q[Len(q) - n + i]
    <3>1. m + i - 1 = Len(q) - n + i /\ Len(q) - n + i \in 1 .. Len(q)
      BY <1>1, <1>3, <2>4 DEF m
    <3> QED
      BY <2>1, <2>2, <2>4, <3>1
  <2>5. Newly(q, n) = r
    BY <1>3 DEF Newly, m, r
  <2> QED
    BY <1>3, <2>3, <2>4, <2>5
<1> QED
  BY <1>2, <1>3

LEMMA NewestOnce ==
  ASSUME NEW S, NEW q \in Seq(S), NEW n \in Nat \ {0}
  PROVE  /\ Newly(q, n) \in Seq(S) /\ Len(Newly(q, n)) <= n
         /\ Messages(Newly(q, n)) \subseteq Messages(q)
         /\ NoRepeat(q) => NoRepeat(Newly(q, n))
<1> DEFINE r == Newly(q, n)
<1>1. /\ r \in Seq(S) /\ Len(r) = IF Len(q) <= n THEN Len(q) ELSE n
      /\ \A i \in 1 .. Len(r) : /\ Len(q) - Len(r) + i \in 1 .. Len(q)
                                /\ r[i] = q[Len(q) - Len(r) + i]
  BY NewestOf
<1> HIDE DEF r
<1>2. /\ Len(q) \in Nat /\ DOMAIN q = 1 .. Len(q) /\ Len(r) \in Nat /\ DOMAIN r = 1 .. Len(r)
  BY <1>1, LenProperties
<1>3. Messages(r) \subseteq Messages(q)
  BY <1>1, <1>2 DEF Messages
<1>4. ASSUME NoRepeat(q), NEW i \in DOMAIN r, NEW j \in DOMAIN r, r[i] = r[j] PROVE i = j
  <2>1. Len(q) - Len(r) + i = Len(q) - Len(r) + j
    BY <1>1, <1>2, <1>4 DEF NoRepeat
  <2> QED
    BY <1>2, <2>1
<1>5. NoRepeat(q) => NoRepeat(r)
  BY <1>4 DEF NoRepeat
<1>6. Len(r) <= n
  BY <1>1, <1>2
<1> QED
  BY <1>1, <1>3, <1>5, <1>6 DEF r

-----------------------------------------------------------------------------
(* The turns of a conversation *)

GraphSpec == GraphInit /\ [][GraphNext]_graphVars

Unloaded == {"new", "memory", "load"}
Loaded == {"model", "tools", "commit"}
Active(t) == turn[t].at \notin Over \cup {"new"}
UserMessage(t) == <<t, "user", 0>>
GraphRow == [at : Places, messages : Seq(Said), calls : 0 .. MaxIterations, made : 0 .. MaxIterations]

GraphTypes ==
    /\ GraphTypeOK /\ turn \in [Turn -> GraphRow] /\ thread \in [messages : Seq(Said), calls : Nat]
\* The session: messages of turns that were answered, none twice.
ChatOfAnswered == /\ NoRepeat(chat)
                  /\ \A m \in Messages(chat) : turn[m[1]].at = "answered"
\* The checkpoint: messages of turns that have loaded it, none twice.
ThreadOfLoaded == /\ NoRepeat(thread.messages)
                  /\ \A m \in Messages(thread.messages) : turn[m[1]].at \notin Unloaded
                  /\ checkpoints \/ thread.messages = <<>>
\* The input of a graph: the user's message, after the history of answered turns.
InputOnce(t) == turn[t].at = "load" =>
    /\ NoRepeat(turn[t].messages) /\ UserMessage(t) \in Messages(turn[t].messages)
    /\ \A m \in Messages(turn[t].messages) :
           m = UserMessage(t) \/ (~checkpoints /\ turn[m[1]].at = "answered")
\* A turn's own messages are numbered by the calls of the model it made.
OwnNumbers(t) == turn[t].at \in Loaded =>
    /\ UserMessage(t) \in Messages(turn[t].messages)
    /\ \A m \in Messages(turn[t].messages) : m[1] = t =>
        \/ m = UserMessage(t)
        \/ m[2] = "call" /\ m[3] < turn[t].made
        \/ m[2] = "result" /\ m[3] <= turn[t].made /\ (turn[t].at = "tools" => m[3] < turn[t].made)
        \/ m[2] = "answer" /\ turn[t].at = "commit"
GraphOnce(t) == turn[t].at \in Loaded =>
    /\ NoRepeat(turn[t].messages)
    /\ \A m \in Messages(turn[t].messages) : turn[m[1]].at \notin Unloaded
Counted(t) ==
    /\ turn[t].at \in Unloaded => turn[t].made = 0
    /\ turn[t].at \in {"model", "tools"} =>
           turn[t].made = turn[t].calls /\ turn[t].made < MaxIterations
    /\ turn[t].at = "commit" =>
           LET q == turn[t].messages IN Len(q) > 0 /\ q[Len(q)][1] = t /\ q[Len(q)][2] = "answer"
TurnsOnce == \A t \in Turn : InputOnce(t) /\ OwnNumbers(t) /\ GraphOnce(t) /\ Counted(t)
FirstAlone == turn[FirstTurn].at \in {"new", "memory"} =>
                  \A t \in Turn \ {FirstTurn} : turn[t].at = "new"
\* One turn at a time: it has the whole history, as the checkpoint does.
OneAtATime == ~overlapped =>
    /\ \A t, u \in Turn : Active(t) /\ Active(u) => t = u
    /\ checkpoints =>
         /\ Messages(chat) \subseteq Messages(thread.messages)
         /\ \A t \in Turn : turn[t].at \in Loaded => turn[t].messages = thread.messages
    /\ ~checkpoints => \A t \in Turn : turn[t].at \in {"load"} \cup Loaded =>
                            Messages(chat) \subseteq Messages(turn[t].messages)
GraphInv == /\ GraphTypes /\ ChatOfAnswered /\ ThreadOfLoaded /\ TurnsOnce /\ FirstAlone
            /\ OneAtATime

LEMMA GraphStarts == GraphInit => GraphInv
<1> SUFFICES ASSUME GraphInit PROVE GraphInv
  OBVIOUS
<1> USE DEF GraphInit
<1>1. MaxIterations \in Nat \ {0} /\ MaxChat \in Nat \ {0} /\ FirstTurn \in Turn
  BY GraphAssumption
<1>2. \A t \in Turn : turn[t] = [at |-> "new", messages |-> <<>>, calls |-> 0, made |-> 0]
  OBVIOUS
<1>3. turn \in [Turn -> GraphRow]
  BY <1>1 DEF GraphRow, Places
<1>4. GraphTypes
  <2>1. /\ {checkpoints, overlapped} \subseteq BOOLEAN
        /\ chat = <<>> /\ chat \in Seq(Said) /\ Len(chat) = 0
        /\ thread = [messages |-> chat, calls |-> 0]
    BY EmptySeq
  <2>2. \A row \in GraphRow : /\ row.at \in Places /\ row.messages \in Seq(Said)
                              /\ {row.calls, row.made} \subseteq 0 .. MaxIterations
    BY DEF GraphRow
  <2>3. thread \in [messages : Seq(Said), calls : Nat]
    BY <2>1
  <2> QED
    BY <1>1, <1>3, <2>1, <2>2, <2>3 DEF GraphTypes, GraphTypeOK
<1>5. ChatOfAnswered /\ ThreadOfLoaded
  BY DEF ChatOfAnswered, ThreadOfLoaded, Messages, NoRepeat
<1>6. TurnsOnce
  BY <1>2 DEF TurnsOnce, InputOnce, OwnNumbers, GraphOnce, Counted, Loaded
<1>7. FirstAlone
  BY <1>2 DEF FirstAlone
<1>8. OneAtATime
  BY <1>2 DEF OneAtATime, Active, Loaded, Messages
<1> QED
  BY <1>4, <1>5, <1>6, <1>7, <1>8 DEF GraphInv

LEMMA GraphKnows ==
  ASSUME GraphInv
  PROVE  /\ turn \in [Turn -> GraphRow] /\ chat \in Seq(Said) /\ thread.messages \in Seq(Said)
         /\ MaxIterations \in Nat \ {0} /\ MaxChat \in Nat \ {0} /\ FirstTurn \in Turn
         /\ \A t \in Turn : /\ turn[t].at \in Places /\ turn[t].messages \in Seq(Said)
                            /\ turn[t].calls \in 0 .. MaxIterations
                            /\ turn[t].made \in 0 .. MaxIterations
                            /\ InputOnce(t) /\ OwnNumbers(t) /\ GraphOnce(t) /\ Counted(t)
         /\ \A m \in Said : m[1] \in Turn
         /\ Messages(chat) \subseteq Said /\ Messages(thread.messages) \subseteq Said
<1>1. \A q \in Seq(Said) : Messages(q) \subseteq Said
  BY LenProperties, ElementOfSeq DEF Messages
<1>2. \A m \in Said : m[1] \in Turn
  BY DEF Said
<1>3. MaxIterations \in Nat \ {0} /\ MaxChat \in Nat \ {0} /\ FirstTurn \in Turn
  BY GraphAssumption
<1>4. turn \in [Turn -> GraphRow] /\ chat \in Seq(Said) /\ thread.messages \in Seq(Said)
  BY DEF GraphInv, GraphTypes, GraphTypeOK
<1>5. \A t \in Turn : InputOnce(t) /\ OwnNumbers(t) /\ GraphOnce(t) /\ Counted(t)
  BY DEF GraphInv, TurnsOnce
<1>6. \A row \in GraphRow : /\ row.at \in Places /\ row.messages \in Seq(Said)
                            /\ row.calls \in 0 .. MaxIterations /\ row.made \in 0 .. MaxIterations
  BY DEF GraphRow
<1> QED
  BY <1>1, <1>2, <1>3, <1>4, <1>5, <1>6

\* A turn moves on: no turn becomes unloaded again, nor answered undone, so that what
\* the other turns hold stays right.
LEMMA TurnMoves ==
  ASSUME GraphInv, NEW t \in Turn, NEW r \in GraphRow, turn' = [turn EXCEPT ![t] = r],
         checkpoints' = checkpoints, turn[t].at \notin Over,
         turn[t].at \notin Unloaded => r.at \notin Unloaded
  PROVE  /\ turn' \in [Turn -> GraphRow] /\ turn'[t] = r
         /\ \A u \in Turn \ {t} : turn'[u] = turn[u]
         /\ \A u \in Turn : turn[u].at \notin Unloaded => turn'[u].at \notin Unloaded
         /\ \A u \in Turn : turn[u].at = "answered" => turn'[u].at = "answered"
         /\ \A u \in Turn \ {t} : (InputOnce(u) /\ OwnNumbers(u) /\ GraphOnce(u) /\ Counted(u))'
<1>1. /\ turn' \in [Turn -> GraphRow] /\ turn'[t] = r
      /\ \A u \in Turn \ {t} : turn'[u] = turn[u]
  BY GraphKnows
<1>2. \A u \in Turn : /\ turn[u].at \notin Unloaded => turn'[u].at \notin Unloaded
                      /\ turn[u].at = "answered" => turn'[u].at = "answered"
  BY <1>1 DEF Over
<1>3. ASSUME NEW u \in Turn \ {t} PROVE (InputOnce(u) /\ OwnNumbers(u) /\ GraphOnce(u) /\ Counted(u))'
  <2>1. /\ turn'[u] = turn[u] /\ InputOnce(u) /\ OwnNumbers(u) /\ GraphOnce(u) /\ Counted(u)
        /\ turn[u].messages \in Seq(Said)
    BY <1>1, GraphKnows
  <2>2. \A m \in Messages(turn[u].messages) : m[1] \in Turn
    BY <2>1, GraphKnows, LenProperties, ElementOfSeq DEF Messages
  <2>3. InputOnce(u)'
    BY <1>2, <2>1, <2>2 DEF InputOnce, UserMessage
  <2>4. GraphOnce(u)'
    BY <1>2, <2>1, <2>2 DEF GraphOnce
  <2>5. OwnNumbers(u)' /\ Counted(u)'
    BY <2>1 DEF OwnNumbers, Counted, UserMessage
  <2> QED
    BY <2>1, <2>3, <2>4, <2>5
<1> QED
  BY <1>1, <1>2, <1>3

\* The session and the checkpoint stay right when they are left alone.
LEMMA ChatAndThreadStay ==
  ASSUME GraphInv, UNCHANGED <<checkpoints, chat, thread>>,
         \A u \in Turn : turn[u].at \notin Unloaded => turn'[u].at \notin Unloaded,
         \A u \in Turn : turn[u].at = "answered" => turn'[u].at = "answered"
  PROVE  ChatOfAnswered' /\ ThreadOfLoaded'
<1>1. /\ \A m \in Messages(chat) : m[1] \in Turn
      /\ \A m \in Messages(thread.messages) : m[1] \in Turn
  BY GraphKnows
<1> QED
  BY <1>1 DEF GraphInv, ChatOfAnswered, ThreadOfLoaded

\* A turn is over without an answer.
LEMMA TurnEndKeeps ==
  ASSUME GraphInv, NEW t \in Turn, NEW place \in {"iterations", "failed", "gone"},
         NEW drawn \in 0 .. MaxIterations, TurnEnds(t, place, drawn), Active(t),
         UNCHANGED <<checkpoints, chat, thread, overlapped>>
  PROVE  GraphInv'
<1> DEFINE r == [at |-> place, messages |-> <<>>, calls |-> 0, made |-> drawn]
<1>1. /\ turn' = [turn EXCEPT ![t] = r] /\ turn[t].at \notin Over \cup {"new"}
      /\ r.at = place /\ r.at \in Over /\ r.at \notin Unloaded \cup Loaded
  BY DEF TurnEnds, Active, Over, Unloaded, Loaded
<1>2. r \in GraphRow
  BY GraphKnows DEF GraphRow, Places
<1>3. /\ turn' \in [Turn -> GraphRow] /\ turn'[t] = r
      /\ \A u \in Turn \ {t} : turn'[u] = turn[u]
      /\ \A u \in Turn : turn[u].at \notin Unloaded => turn'[u].at \notin Unloaded
      /\ \A u \in Turn : turn[u].at = "answered" => turn'[u].at = "answered"
      /\ \A u \in Turn \ {t} : (InputOnce(u) /\ OwnNumbers(u) /\ GraphOnce(u) /\ Counted(u))'
  BY <1>1, <1>2, TurnMoves
<1> HIDE DEF r
<1>4. GraphTypes'
  BY <1>3 DEF GraphInv, GraphTypes, GraphTypeOK, GraphRow
<1>5. ChatOfAnswered' /\ ThreadOfLoaded'
  BY <1>3, ChatAndThreadStay
<1>6. (InputOnce(t) /\ OwnNumbers(t) /\ GraphOnce(t) /\ Counted(t))'
  BY <1>1, <1>3 DEF InputOnce, OwnNumbers, GraphOnce, Counted, Unloaded, Loaded
<1>7. FirstAlone'
  BY <1>1, <1>3, GraphKnows DEF GraphInv, FirstAlone, Active, Over, Unloaded
<1>8. OneAtATime'
  BY <1>1, <1>3 DEF GraphInv, OneAtATime, Active, Unloaded, Loaded
<1> QED
  BY <1>3, <1>4, <1>5, <1>6, <1>7, <1>8 DEF GraphInv, TurnsOnce

LEMMA StartTurnKeeps == ASSUME GraphInv, NEW t \in Turn, StartTurn(t) PROVE GraphInv'
<1> DEFINE r == [turn[t] EXCEPT !.at = "memory"]
<1>1. /\ turn[t].at = "new" /\ turn' = [turn EXCEPT ![t] = r]
      /\ t # FirstTurn => turn[FirstTurn].at \notin {"new", "memory"}
      /\ overlapped' = (overlapped \/ \E u \in Turn : Active(u))
      /\ UNCHANGED <<checkpoints, chat, thread>>
  BY DEF StartTurn, TurnTo, Active
<1>2. /\ r \in GraphRow /\ r.at = "memory" /\ r.made = turn[t].made
  BY GraphKnows DEF GraphRow, Places
<1> HIDE DEF r
<1>3. /\ turn' \in [Turn -> GraphRow] /\ turn'[t] = r
      /\ \A u \in Turn \ {t} : turn'[u] = turn[u]
      /\ \A u \in Turn : turn[u].at \notin Unloaded => turn'[u].at \notin Unloaded
      /\ \A u \in Turn : turn[u].at = "answered" => turn'[u].at = "answered"
      /\ \A u \in Turn \ {t} : (InputOnce(u) /\ OwnNumbers(u) /\ GraphOnce(u) /\ Counted(u))'
  BY <1>1, <1>2, TurnMoves DEF Over, Unloaded
<1>4. GraphTypes'
  BY <1>1, <1>3 DEF GraphInv, GraphTypes, GraphTypeOK, GraphRow
<1>5. ChatOfAnswered' /\ ThreadOfLoaded'
  BY <1>1, <1>3, ChatAndThreadStay
<1>6. (InputOnce(t) /\ OwnNumbers(t) /\ GraphOnce(t) /\ Counted(t))'
  BY <1>1, <1>2, <1>3, GraphKnows DEF InputOnce, OwnNumbers, GraphOnce, Counted, Unloaded, Loaded
<1>7. FirstAlone'
  BY <1>1, <1>3, GraphKnows DEF GraphInv, FirstAlone
<1>8. OneAtATime'
  <2> SUFFICES ASSUME ~overlapped' PROVE OneAtATime'
    BY DEF OneAtATime
  <2>1. ~overlapped /\ \A u \in Turn : ~Active(u)
    BY <1>1, GraphKnows DEF GraphInv, GraphTypes, GraphTypeOK
  <2>2. \A u \in Turn : turn'[u].at \notin {"load"} \cup Loaded
    BY <1>2, <1>3, <2>1 DEF Active, Loaded, Over
  <2>3. \A u \in Turn \ {t} : ~Active(u)'
    BY <1>3, <2>1 DEF Active
  <2>4. checkpoints => Messages(chat) \subseteq Messages(thread.messages)
    BY <2>1 DEF GraphInv, OneAtATime
  <2> QED
    BY <1>1, <2>2, <2>3, <2>4 DEF OneAtATime
<1> QED
  BY <1>3, <1>4, <1>5, <1>6, <1>7, <1>8 DEF GraphInv, TurnsOnce

LEMMA BuildInputKeeps == ASSUME GraphInv, NEW t \in Turn, BuildInput(t) PROVE GraphInv'
<1> DEFINE q == Append(HistoryFor(t), UserMessage(t))
           r == [turn[t] EXCEPT !.at = "load", !.messages = q]
<1>1. /\ turn[t].at = "memory" /\ turn[t].made = 0
      /\ UNCHANGED <<checkpoints, chat, thread, overlapped>>
  BY GraphKnows DEF BuildInput, Counted, Unloaded
<1>2. turn' = [turn EXCEPT ![t] = r]
  BY <1>1 DEF BuildInput, Says, UserMessage
<1>3. HistoryFor(t) \in Seq(Said) /\ UserMessage(t) \in Said
  BY GraphKnows, EmptySeq DEF HistoryFor, UserMessage, Said
<1>4. \A m \in Messages(chat) : m[1] \in Turn /\ turn[m[1]].at = "answered"
  BY GraphKnows DEF GraphInv, ChatOfAnswered
<1>5. checkpoints => Messages(HistoryFor(t)) = {}
  <2>1. ASSUME t = FirstTurn, NEW m \in Messages(chat) PROVE FALSE
    BY <1>1, <1>4, <2>1 DEF GraphInv, FirstAlone
  <2> QED
    BY <2>1 DEF HistoryFor, Messages
<1>6. /\ Messages(HistoryFor(t)) \subseteq Messages(chat) /\ NoRepeat(HistoryFor(t))
      /\ ~checkpoints => HistoryFor(t) = chat
  BY DEF HistoryFor, Messages, NoRepeat, GraphInv, ChatOfAnswered
<1>7. UserMessage(t) \notin Messages(HistoryFor(t))
  BY <1>1, <1>4, <1>6 DEF UserMessage
<1>8. /\ q \in Seq(Said) /\ NoRepeat(q)
      /\ Messages(q) = Messages(HistoryFor(t)) \cup {UserMessage(t)}
  BY <1>3, <1>6, <1>7, AppendedOnce
<1> HIDE DEF q
<1>9. /\ r \in GraphRow /\ r.at = "load" /\ r.made = turn[t].made /\ r.messages = q
  BY <1>8, GraphKnows DEF GraphRow, Places
<1> HIDE DEF r
<1>10. /\ turn' \in [Turn -> GraphRow] /\ turn'[t] = r
       /\ \A u \in Turn \ {t} : turn'[u] = turn[u]
       /\ \A u \in Turn : turn[u].at \notin Unloaded => turn'[u].at \notin Unloaded
       /\ \A u \in Turn : turn[u].at = "answered" => turn'[u].at = "answered"
       /\ \A u \in Turn \ {t} : (InputOnce(u) /\ OwnNumbers(u) /\ GraphOnce(u) /\ Counted(u))'
  BY <1>1, <1>2, <1>9, TurnMoves DEF Over, Unloaded
<1>11. GraphTypes'
  BY <1>1, <1>10 DEF GraphInv, GraphTypes, GraphTypeOK, GraphRow
<1>12. ChatOfAnswered' /\ ThreadOfLoaded'
  BY <1>1, <1>10, ChatAndThreadStay
<1>13. InputOnce(t)'
  BY <1>1, <1>4, <1>5, <1>6, <1>8, <1>9, <1>10 DEF InputOnce, UserMessage
<1>14. (OwnNumbers(t) /\ GraphOnce(t) /\ Counted(t))'
  BY <1>1, <1>9, <1>10 DEF OwnNumbers, GraphOnce, Counted, Unloaded, Loaded
<1>15. FirstAlone'
  BY <1>1, <1>9, <1>10, GraphKnows DEF GraphInv, FirstAlone
<1>16. OneAtATime'
  <2> SUFFICES ASSUME ~overlapped PROVE OneAtATime'
    BY <1>1 DEF OneAtATime
  <2>1. \A u \in Turn : Active(u)' <=> Active(u)
    BY <1>1, <1>9, <1>10 DEF Active, Over
  <2>2. \A u \in Turn : turn'[u].at \in Loaded => u # t /\ turn'[u] = turn[u]
    BY <1>9, <1>10 DEF Loaded
  <2>3. ~checkpoints => Messages(chat) \subseteq Messages(turn'[t].messages)
    BY <1>6, <1>8, <1>9, <1>10
  <2> QED
    BY <1>1, <1>10, <2>1, <2>2, <2>3 DEF GraphInv, OneAtATime
<1> QED
  BY <1>10, <1>11, <1>12, <1>13, <1>14, <1>15, <1>16 DEF GraphInv, TurnsOnce

\* The graph of a turn goes on to r, with the messages it had, and the checkpoint follows.
LEMMA GraphGoesOn ==
  ASSUME GraphInv, NEW t \in Turn, NEW r \in GraphRow, turn' = [turn EXCEPT ![t] = r],
         turn[t].at \in {"load"} \cup Loaded, r.at \in Loaded,
         thread' = IF checkpoints THEN [messages |-> r.messages, calls |-> r.calls] ELSE thread,
         UNCHANGED <<checkpoints, chat, overlapped>>,
         NoRepeat(r.messages),
         \A m \in Messages(r.messages) : m[1] = t \/ turn[m[1]].at \notin Unloaded,
         Messages(turn[t].messages) \subseteq Messages(r.messages),
         turn[t].at = "load" => Messages(thread.messages) \subseteq Messages(r.messages),
         turn'[t] = r => OwnNumbers(t)' /\ Counted(t)'
  PROVE  GraphInv'
<1>1. /\ turn' \in [Turn -> GraphRow] /\ turn'[t] = r
      /\ \A u \in Turn \ {t} : turn'[u] = turn[u]
      /\ \A u \in Turn : turn[u].at \notin Unloaded => turn'[u].at \notin Unloaded
      /\ \A u \in Turn : turn[u].at = "answered" => turn'[u].at = "answered"
      /\ \A u \in Turn \ {t} : (InputOnce(u) /\ OwnNumbers(u) /\ GraphOnce(u) /\ Counted(u))'
  BY TurnMoves DEF Over, Unloaded, Loaded
<1>2. /\ r.messages \in Seq(Said) /\ r.calls \in Nat /\ r.at \notin Unloaded
      /\ \A m \in Messages(r.messages) : m[1] \in Turn
  <2>1. r.messages \in Seq(Said) /\ r.calls \in Nat
    BY GraphKnows DEF GraphRow
  <2> QED
    BY <2>1, GraphKnows, LenProperties, ElementOfSeq DEF Messages, Unloaded, Loaded
<1>3. \A m \in Messages(r.messages) : turn'[m[1]].at \notin Unloaded
  BY <1>1, <1>2
<1>4. checkpoints => thread'.messages = r.messages /\ thread'.calls = r.calls
  OBVIOUS
<1>5. GraphTypes'
  <2>1. thread' \in [messages : Seq(Said), calls : Nat]
    BY <1>2 DEF GraphInv, GraphTypes
  <2>2. thread'.messages \in Seq(Said) /\ thread'.calls \in Nat
    BY <2>1
  <2>3. \A u \in Turn : /\ turn'[u].at \in Places /\ turn'[u].messages \in Seq(Said)
                        /\ {turn'[u].calls, turn'[u].made} \subseteq 0 .. MaxIterations
    BY <1>1 DEF GraphRow
  <2> QED
    BY <1>1, <2>1, <2>2, <2>3 DEF GraphInv, GraphTypes, GraphTypeOK
<1>6. ChatOfAnswered'
  BY <1>1, GraphKnows DEF GraphInv, ChatOfAnswered
<1>7. ThreadOfLoaded'
  <2>1. CASE checkpoints
    BY <1>3, <1>4, <2>1 DEF ThreadOfLoaded
  <2>2. CASE ~checkpoints
    BY <1>1, <2>2, GraphKnows DEF GraphInv, ThreadOfLoaded
  <2> QED
    BY <2>1, <2>2
<1>8. (InputOnce(t) /\ GraphOnce(t))'
  BY <1>1, <1>2, <1>3 DEF InputOnce, GraphOnce, Unloaded
<1>9. FirstAlone'
  BY <1>1, <1>2, GraphKnows DEF GraphInv, FirstAlone, Unloaded, Loaded
<1>10. OneAtATime'
  <2> SUFFICES ASSUME ~overlapped PROVE OneAtATime'
    BY DEF OneAtATime
  <2>1. Active(t) /\ Active(t)'
    BY <1>1 DEF Active, Over, Loaded
  <2>2. \A u \in Turn \ {t} : ~Active(u) /\ ~Active(u)'
    BY <1>1, <2>1 DEF GraphInv, OneAtATime, Active
  <2>3. \A u \in Turn \ {t} : turn'[u].at \notin {"load"} \cup Loaded
    BY <2>2 DEF Active, Over, Loaded
  <2>4. checkpoints => /\ Messages(chat) \subseteq Messages(thread.messages)
                       /\ Messages(thread.messages) \subseteq Messages(r.messages)
    BY DEF GraphInv, OneAtATime, Loaded
  <2>5. ~checkpoints => Messages(chat) \subseteq Messages(r.messages)
    BY DEF GraphInv, OneAtATime
  <2> QED
    BY <1>1, <1>4, <2>2, <2>3, <2>4, <2>5 DEF OneAtATime
<1> QED
  BY <1>1, <1>5, <1>6, <1>7, <1>8, <1>9, <1>10 DEF GraphInv, TurnsOnce

LEMMA LoadThreadKeeps == ASSUME GraphInv, NEW t \in Turn, LoadThread(t) PROVE GraphInv'
<1> DEFINE p == thread.messages
           i == turn[t].messages
           q == p \o i
           r == [turn[t] EXCEPT !.at = "model", !.messages = q, !.calls = 0]
<1>1. /\ turn[t].at = "load" /\ turn[t].made = 0
      /\ turn' = [turn EXCEPT ![t] = r]
      /\ thread' = IF checkpoints THEN [messages |-> q, calls |-> 0] ELSE thread
      /\ UNCHANGED <<checkpoints, chat, overlapped>>
  BY GraphKnows DEF LoadThread, InputCalls, Counted, Unloaded
<1>2. /\ NoRepeat(p) /\ (\A m \in Messages(p) : turn[m[1]].at \notin Unloaded)
      /\ checkpoints \/ Messages(p) = {}
  BY DEF GraphInv, ThreadOfLoaded, Messages
<1>3. /\ NoRepeat(i) /\ UserMessage(t) \in Messages(i)
      /\ \A m \in Messages(i) : m = UserMessage(t) \/ (~checkpoints /\ turn[m[1]].at = "answered")
  BY <1>1, GraphKnows DEF InputOnce
<1>4. UserMessage(t)[1] = t
  BY DEF UserMessage
<1>5. \A m \in Messages(p) : m \notin Messages(i)
  BY <1>1, <1>2, <1>3, <1>4 DEF Unloaded
<1>6. q \in Seq(Said) /\ Messages(q) = Messages(p) \cup Messages(i) /\ NoRepeat(q)
  BY <1>2, <1>3, <1>5, JoinedOnce, GraphKnows
<1> HIDE DEF q
<1>7. /\ r \in GraphRow /\ r.at = "model" /\ r.made = 0 /\ r.messages = q /\ r.calls = 0
  BY <1>1, <1>6, GraphKnows DEF GraphRow, Places
<1> HIDE DEF r
<1>8. \A m \in Messages(q) : m[1] = t \/ turn[m[1]].at \notin Unloaded
  BY <1>2, <1>3, <1>4, <1>6 DEF Unloaded
<1>9. \A m \in Messages(q) : m[1] = t => m = UserMessage(t)
  BY <1>1, <1>2, <1>3, <1>6 DEF Unloaded
<1>10. turn'[t] = r => OwnNumbers(t)' /\ Counted(t)'
  BY <1>3, <1>6, <1>7, <1>9, GraphKnows DEF OwnNumbers, Counted, UserMessage, Unloaded
<1> QED
  BY <1>1, <1>6, <1>7, <1>8, <1>10, GraphGoesOn DEF Loaded

\* A node of the graph ends with message m.
LEMMA NodeKeeps ==
  ASSUME GraphInv, NEW t \in Turn, turn[t].at \in {"model", "tools"},
         NEW place \in Loaded, NEW what \in {"call", "result", "answer"},
         NEW calls \in 0 .. MaxIterations,
         calls = IF what = "result" THEN turn[t].calls ELSE turn[t].calls + 1,
         \/ turn[t].at = "model" /\ what = "call" /\ place = "tools" /\ calls < MaxIterations
         \/ turn[t].at = "model" /\ what = "answer" /\ place = "commit"
         \/ turn[t].at = "tools" /\ what = "result" /\ place = "model",
         NodeEnds(t, place, Says(t, what), calls)
  PROVE  GraphInv'
<1> DEFINE m == Says(t, what)
           drawn == IF what = "result" THEN turn[t].made ELSE turn[t].made + 1
           q == Append(turn[t].messages, m)
           r == [turn[t] EXCEPT !.at = place, !.messages = q, !.calls = calls, !.made = drawn]
<1>1. /\ m[1] = t /\ m[2] = what /\ m[3] = turn[t].made
      /\ turn[t].made = turn[t].calls /\ turn[t].made \in 0 .. MaxIterations
      /\ turn[t].made < MaxIterations /\ MaxIterations \in Nat
  BY GraphKnows DEF Says, Counted
<1>2. m \in Said
  BY <1>1 DEF Says, Said
<1>3. turn' = [turn EXCEPT ![t] = r]
  BY DEF NodeEnds, Says
<1>4. /\ thread' = IF checkpoints THEN [messages |-> q, calls |-> calls] ELSE thread
      /\ UNCHANGED <<checkpoints, chat, overlapped>>
  BY DEF NodeEnds
<1>5. /\ UserMessage(t) \in Messages(turn[t].messages)
      /\ \A n \in Messages(turn[t].messages) : n[1] = t =>
           \/ n = UserMessage(t)
           \/ n[2] = "call" /\ n[3] < turn[t].made
           \/ n[2] = "result" /\ n[3] <= turn[t].made /\ (turn[t].at = "tools" => n[3] < turn[t].made)
      /\ NoRepeat(turn[t].messages)
      /\ \A n \in Messages(turn[t].messages) : turn[n[1]].at \notin Unloaded
  BY GraphKnows DEF OwnNumbers, GraphOnce, Loaded
<1>6. UserMessage(t)[2] = "user"
  BY DEF UserMessage
<1>7. m \notin Messages(turn[t].messages)
  BY <1>1, <1>5, <1>6
<1> HIDE DEF m
<1>8. /\ q \in Seq(Said) /\ Len(q) > 0 /\ q[Len(q)] = m /\ NoRepeat(q)
      /\ Messages(q) = Messages(turn[t].messages) \cup {m}
  BY <1>2, <1>5, <1>7, AppendedOnce, GraphKnows
<1> HIDE DEF q
<1>9. drawn \in 0 .. MaxIterations /\ drawn = calls
  BY <1>1
<1>10. /\ r \in GraphRow /\ r.at = place /\ r.messages = q /\ r.calls = calls /\ r.made = drawn
  BY <1>8, <1>9, GraphKnows DEF GraphRow, Places, Loaded
<1> HIDE DEF r
<1>11. \A n \in Messages(q) : n[1] = t \/ turn[n[1]].at \notin Unloaded
  BY <1>1, <1>5, <1>8
<1>12. \A n \in Messages(q) : n[1] = t =>
           \/ n = UserMessage(t)
           \/ n[2] = "call" /\ n[3] < drawn
           \/ n[2] = "result" /\ n[3] <= drawn /\ (place = "tools" => n[3] < drawn)
           \/ n[2] = "answer" /\ place = "commit"
  <2> SUFFICES ASSUME NEW n \in Messages(q), n[1] = t, n # UserMessage(t)
               PROVE  \/ n[2] = "call" /\ n[3] < drawn
                      \/ n[2] = "result" /\ n[3] <= drawn /\ (place = "tools" => n[3] < drawn)
                      \/ n[2] = "answer" /\ place = "commit"
    OBVIOUS
  <2>1. CASE n = m
    BY <1>1, <2>1
  <2>2. CASE n \in Messages(turn[t].messages)
    <3>1. n \in Said /\ n[3] \in Nat
      <4>1. Messages(turn[t].messages) \subseteq Said
        BY GraphKnows, LenProperties, ElementOfSeq DEF Messages
      <4> QED
        BY <2>2, <4>1, GraphKnows DEF Said
    <3> QED
      BY <1>1, <1>5, <2>2, <3>1
  <2> QED
    BY <1>8, <2>1, <2>2
<1>13. turn'[t] = r => OwnNumbers(t)'
  BY <1>5, <1>8, <1>10, <1>12 DEF OwnNumbers, UserMessage
<1>14. turn'[t] = r => Counted(t)'
  BY <1>1, <1>8, <1>9, <1>10 DEF Counted, Unloaded, Loaded
<1> QED
  BY <1>3, <1>4, <1>5, <1>8, <1>10, <1>11, <1>13, <1>14, GraphGoesOn DEF Loaded

LEMMA CommitKeeps == ASSUME GraphInv, NEW t \in Turn, CommitTurn(t) PROVE GraphInv'
<1> DEFINE q == turn[t].messages
           last == q[Len(q)]
           pair == <<UserMessage(t), last>>
           r == [at |-> "answered", messages |-> <<>>, calls |-> 0, made |-> 0]
<1>1. /\ turn[t].at = "commit" /\ turn' = [turn EXCEPT ![t] = r]
      /\ chat' = Newly(chat \o pair, MaxChat)
      /\ UNCHANGED <<checkpoints, thread, overlapped>>
  BY DEF CommitTurn, TurnEnds, UserMessage
<1>2. /\ q \in Seq(Said) /\ Len(q) > 0 /\ last[1] = t /\ last[2] = "answer"
      /\ UserMessage(t) \in Messages(q)
  BY <1>1, GraphKnows DEF Counted, OwnNumbers, Loaded
<1>3. last \in Messages(q) /\ Messages(q) \subseteq Said
  <2>1. Len(q) \in DOMAIN q
    BY <1>2, LenProperties
  <2> QED
    BY <1>2, <2>1, LenProperties, ElementOfSeq DEF Messages
<1>4. UserMessage(t)[1] = t /\ UserMessage(t)[2] = "user"
  BY DEF UserMessage
<1> HIDE DEF q, last
<1>5. /\ pair \in Seq(Said) /\ Messages(pair) = {UserMessage(t), last} /\ NoRepeat(pair)
  <2>1. /\ pair \in Seq(Said) /\ DOMAIN pair = 1 .. 2
        /\ pair[1] = UserMessage(t) /\ pair[2] = last
    BY <1>2, <1>3
  <2>2. UserMessage(t) # last
    BY <1>2, <1>4
  <2>3. \A i \in 1 .. 2 : i = 1 \/ i = 2
    OBVIOUS
  <2> HIDE DEF pair
  <2>4. Messages(pair) = {UserMessage(t), last}
    <3>1. 1 \in DOMAIN pair /\ 2 \in DOMAIN pair
      BY <2>1
    <3> QED
      BY <2>1, <2>3, <3>1 DEF Messages
  <2>5. NoRepeat(pair)
    BY <2>1, <2>2, <2>3 DEF NoRepeat
  <2> QED
    BY <2>1, <2>4, <2>5
<1> HIDE DEF pair
<1>6. \A m \in Messages(chat) : m[1] \in Turn /\ turn[m[1]].at = "answered" /\ m \notin Messages(pair)
  BY <1>1, <1>2, <1>4, <1>5, GraphKnows DEF GraphInv, ChatOfAnswered
<1>7. /\ chat \o pair \in Seq(Said) /\ NoRepeat(chat \o pair)
      /\ Messages(chat \o pair) = Messages(chat) \cup {UserMessage(t), last}
  BY <1>5, <1>6, JoinedOnce, GraphKnows DEF GraphInv, ChatOfAnswered
<1>8. /\ chat' \in Seq(Said) /\ Len(chat') <= MaxChat /\ NoRepeat(chat')
      /\ Messages(chat') \subseteq Messages(chat) \cup {UserMessage(t), last}
  BY <1>1, <1>7, NewestOnce, GraphKnows
<1>9. /\ r \in GraphRow /\ r.at = "answered"
  BY GraphKnows, EmptySeq DEF GraphRow, Places
<1> HIDE DEF r
<1>10. /\ turn' \in [Turn -> GraphRow] /\ turn'[t] = r
       /\ \A u \in Turn \ {t} : turn'[u] = turn[u]
       /\ \A u \in Turn : turn[u].at \notin Unloaded => turn'[u].at \notin Unloaded
       /\ \A u \in Turn : turn[u].at = "answered" => turn'[u].at = "answered"
       /\ \A u \in Turn \ {t} : (InputOnce(u) /\ OwnNumbers(u) /\ GraphOnce(u) /\ Counted(u))'
  BY <1>1, <1>9, TurnMoves DEF Over, Unloaded
<1>11. GraphTypes'
  BY <1>1, <1>8, <1>10 DEF GraphInv, GraphTypes, GraphTypeOK, GraphRow
<1>12. ChatOfAnswered'
  BY <1>2, <1>4, <1>6, <1>8, <1>9, <1>10 DEF ChatOfAnswered
<1>13. ThreadOfLoaded'
  BY <1>1, <1>10, GraphKnows DEF GraphInv, ThreadOfLoaded
<1>14. (InputOnce(t) /\ OwnNumbers(t) /\ GraphOnce(t) /\ Counted(t))'
  BY <1>9, <1>10 DEF InputOnce, OwnNumbers, GraphOnce, Counted, Unloaded, Loaded
<1>15. FirstAlone'
  BY <1>1, <1>9, <1>10, GraphKnows DEF GraphInv, FirstAlone
<1>16. OneAtATime'
  <2> SUFFICES ASSUME ~overlapped PROVE OneAtATime'
    BY <1>1 DEF OneAtATime
  <2>1. Active(t)
    BY <1>1 DEF Active, Over
  <2>2. \A u \in Turn : ~Active(u)'
    BY <1>9, <1>10, <2>1 DEF GraphInv, OneAtATime, Active, Over
  <2>3. \A u \in Turn : turn'[u].at \notin {"load"} \cup Loaded
    BY <2>2 DEF Active, Over, Loaded
  <2>4. checkpoints => Messages(chat) \subseteq Messages(thread.messages) /\ q = thread.messages
    BY <1>1 DEF GraphInv, OneAtATime, Loaded, q
  <2>5. checkpoints => Messages(chat') \subseteq Messages(thread.messages)
    BY <1>2, <1>3, <1>8, <2>4
  <2> QED
    BY <1>1, <2>2, <2>3, <2>5 DEF OneAtATime
<1> QED
  BY <1>10, <1>11, <1>12, <1>13, <1>14, <1>15, <1>16 DEF GraphInv, TurnsOnce

LEMMA GraphStep == GraphInv /\ [GraphNext]_graphVars => GraphInv'
<1> SUFFICES ASSUME GraphInv, [GraphNext]_graphVars PROVE GraphInv'
  OBVIOUS
<1>1. CASE UNCHANGED graphVars
  BY <1>1 DEF graphVars, GraphInv, GraphTypes, GraphTypeOK, ChatOfAnswered, ThreadOfLoaded, TurnsOnce,
     InputOnce, OwnNumbers, GraphOnce, Counted, FirstAlone, OneAtATime, Active
<1>2. ASSUME NEW t \in Turn,
             \/ StartTurn(t) \/ BuildInput(t) \/ LoadThread(t) \/ ModelAnswersTurn(t)
             \/ ModelAsksForTools(t) \/ IterationLimit(t) \/ ToolsReturn(t) \/ TurnFails(t)
             \/ TurnAbandoned(t) \/ CommitTurn(t)
      PROVE  GraphInv'
  <2>1. /\ MaxIterations \in Nat \ {0} /\ turn[t].calls \in 0 .. MaxIterations
        /\ turn[t].at \in {"model", "tools"} =>
               turn[t].made = turn[t].calls /\ turn[t].made < MaxIterations
        /\ {"model", "tools", "commit"} = Loaded
    BY GraphKnows DEF Counted, Loaded
  <2>2. CASE ModelAnswersTurn(t)
    <3>1. turn[t].calls + 1 \in 0 .. MaxIterations
      BY <2>1, <2>2 DEF ModelAnswersTurn
    <3> QED
      BY <2>1, <2>2, <3>1, NodeKeeps DEF ModelAnswersTurn
  <2>3. CASE ModelAsksForTools(t)
    <3>1. turn[t].calls + 1 \in 0 .. MaxIterations
      BY <2>1, <2>3 DEF ModelAsksForTools
    <3> QED
      BY <2>1, <2>3, <3>1, NodeKeeps DEF ModelAsksForTools
  <2>4. CASE ToolsReturn(t)
    BY <2>1, <2>4, NodeKeeps DEF ToolsReturn
  <2>5. CASE IterationLimit(t)
    <3>1. turn[t].made + 1 \in 0 .. MaxIterations
      BY <2>1, <2>5 DEF IterationLimit
    <3> QED
      BY <2>5, <3>1, TurnEndKeeps DEF IterationLimit, Active, Over
  <2>6. CASE TurnFails(t)
    BY <2>1, <2>6, TurnEndKeeps DEF TurnFails, Active, Over
  <2>7. CASE TurnAbandoned(t)
    BY <2>1, <2>7, TurnEndKeeps DEF TurnAbandoned, Active, Over
  <2> QED
    BY <1>2, <2>2, <2>3, <2>4, <2>5, <2>6, <2>7, StartTurnKeeps, BuildInputKeeps, LoadThreadKeeps,
       CommitKeeps
<1> QED
  BY <1>1, <1>2 DEF GraphNext

LEMMA HistoryOnce == GraphInv => HistorySeenOnce
<1> SUFFICES ASSUME GraphInv, NEW t \in Turn, turn[t].at = "model"
             PROVE  /\ NoRepeat(turn[t].messages)
                    /\ ~overlapped => \A i \in DOMAIN chat :
                           \E j \in DOMAIN turn[t].messages : turn[t].messages[j] = chat[i]
  BY DEF HistorySeenOnce, NoRepeat
<1>1. NoRepeat(turn[t].messages)
  BY GraphKnows DEF GraphOnce, Loaded
<1>2. ~overlapped => Messages(chat) \subseteq Messages(turn[t].messages)
  BY DEF GraphInv, GraphTypes, GraphTypeOK, OneAtATime, Loaded
<1> QED
  BY <1>1, <1>2 DEF Messages

\* No model is given a message twice, and one turn at a time is given the whole session,
\* with and without a checkpointer, for any number of turns, iterations and failures.
THEOREM HistoryStaysOnce == GraphSpec => [](GraphTypeOK /\ HistorySeenOnce)
<1>1. GraphInv => GraphTypeOK
  BY DEF GraphInv, GraphTypes
<1> QED
  BY <1>1, GraphStarts, GraphStep, HistoryOnce, PTL DEF GraphSpec

-----------------------------------------------------------------------------
(* The sinks of telemetry *)

TelemetrySpec == TelemetryInit /\ [][TelemetryNext]_telemetryVars

Record == [event : Event, on : 0 .. MaxDay]
SinkTypes == /\ TelemetryTypeOK /\ sink \in {"list", "file", "table"} /\ recorded \in Seq(Record)
\* The event a tracer is recording has its newest number.
EventsNumbered == \A w \in Tracer :
    /\ sinking[w] = "unborn" => numbering[w] = 0
    /\ sinking[w] \notin {"unborn", "idle"} =>
           /\ event[w] = [number |-> numbering[w], capability |-> CapabilityOf[w], by |-> w]
           /\ numbering[w] > 0
\* No row has a number its tracer has not reached, nor that of the event it is recording.
RowsNumbered == \A row \in rows : \E w \in Tracer :
    /\ row.event.by = w /\ row.event.capability = CapabilityOf[w]
    /\ row.event.number \in 1 .. numbering[w]
    /\ sinking[w] \notin {"unborn", "idle"} => row.event.number # numbering[w]
\* The holder of the lock writes the file, and nobody else.
FileLocked == \A w \in Tracer :
    /\ sinking[w] \in {"append", "compact", "replace"} <=> sinkLock = w
    /\ sinking[w] \in {"append", "compact", "replace"} => sink = "file"
    /\ sinking[w] = "append" => Len(lines) < MaxLines
    /\ sinking[w] = "replace" => temporary = NewestLines(Append(lines, event[w]))
\* all is kept as lines q: as many as fit, and the newest.
KeptAs(all, q) ==
    /\ Len(q) = IF Len(all) <= MaxLines THEN Len(all) ELSE MaxLines
    /\ \A i \in 1 .. Len(q) : all[Len(all) - Len(q) + i].event = q[i]
RowsKept == \A i \in DOMAIN recorded :
    Separate(recorded[i].event.by) /\ recorded[i].on + Retention >= day => recorded[i] \in rows
TelemetryInv == /\ SinkTypes /\ EventsNumbered /\ FileLocked
                /\ sink # "table" => KeptAs(recorded, lines)
                /\ sink = "table" => RowsNumbered /\ RowsKept

LEMMA TelemetryStarts == TelemetryInit => TelemetryInv
<1> SUFFICES ASSUME TelemetryInit PROVE TelemetryInv
  OBVIOUS
<1> USE DEF TelemetryInit
<1>1. /\ {MaxLines, Retention} \subseteq Nat \ {0} /\ {MaxOutcomes, MaxDay} \subseteq Nat
      /\ NoTracer \notin Tracer
  BY TelemetryAssumption
<1>2. NoEvent \in Event
  BY DEF NoEvent, Event
<1>3. /\ lines = <<>> /\ recorded = <<>> /\ temporary = <<>>
      /\ lines \in Seq(Event) /\ temporary \in Seq(Event) /\ recorded \in Seq(Record)
      /\ Len(lines) = 0 /\ Len(recorded) = 0
  BY EmptySeq
<1>4. SinkTypes
  BY <1>1, <1>2, <1>3 DEF SinkTypes, TelemetryTypeOK
<1>5. \A w \in Tracer : sinking[w] \in {"idle", "unborn"} /\ numbering[w] = 0
  OBVIOUS
<1>6. EventsNumbered /\ FileLocked
  BY <1>1, <1>5 DEF EventsNumbered, FileLocked
<1>7. KeptAs(recorded, lines)
  BY <1>1, <1>3 DEF KeptAs
<1>8. RowsNumbered /\ RowsKept
  BY <1>3 DEF RowsNumbered, RowsKept
<1> QED
  BY <1>4, <1>6, <1>7, <1>8 DEF TelemetryInv

LEMMA TelemetryKnows ==
  ASSUME TelemetryInv
  PROVE  /\ MaxLines \in Nat \ {0} /\ Retention \in Nat \ {0} /\ MaxOutcomes \in Nat /\ MaxDay \in Nat
         /\ NoTracer \notin Tracer /\ ParentOf \in [Tracer -> Tracer]
         /\ numbering \in [Tracer -> Nat] /\ ended \in [Tracer -> 0 .. MaxOutcomes]
         /\ event \in [Tracer -> Event] /\ day \in 0 .. MaxDay
         /\ sinking \in [Tracer -> {"unborn", "idle", "record", "append", "compact", "replace"}]
         /\ sinkLock \in Tracer \cup {NoTracer}
         /\ lines \in Seq(Event) /\ temporary \in Seq(Event) /\ recorded \in Seq(Record)
         /\ rows \subseteq Record /\ NoEvent \in Event
  BY TelemetryAssumption DEF TelemetryInv, SinkTypes, TelemetryTypeOK, Record, NoEvent, Event

\* The newest lines, with the event appended, are the newest of all that were recorded.
LEMMA LinesAppended ==
  ASSUME NEW q \in Seq(Event), NEW all \in Seq(Record), NEW r \in Record, KeptAs(all, q)
  PROVE  /\ NewestLines(Append(q, r.event)) \in Seq(Event)
         /\ KeptAs(Append(all, r), NewestLines(Append(q, r.event)))
         /\ Len(q) < MaxLines => NewestLines(Append(q, r.event)) = Append(q, r.event)
<1> DEFINE p == Append(q, r.event)
           l == NewestLines(p)
           a == Append(all, r)
<1>1. MaxLines \in Nat \ {0} /\ r.event \in Event
  BY TelemetryAssumption DEF Record
<1>2. /\ Len(q) \in Nat /\ p \in Seq(Event) /\ Len(p) = Len(q) + 1
      /\ \A i \in 1 .. Len(q) : p[i] = q[i]
      /\ p[Len(q) + 1] = r.event
  BY <1>1, LenProperties, AppendProperties
<1>3. /\ Len(all) \in Nat /\ Len(a) = Len(all) + 1
      /\ \A i \in 1 .. Len(all) : a[i] = all[i]
      /\ a[Len(all) + 1] = r
  BY LenProperties, AppendProperties
<1> HIDE DEF p, a
<1>4. l = Newly(p, MaxLines)
  BY DEF NewestLines, Newly
<1>5. Len(q) < MaxLines => l = p
  BY <1>1, <1>2 DEF NewestLines
<1> HIDE DEF l
<1>6. /\ l \in Seq(Event) /\ Len(l) = IF Len(p) <= MaxLines THEN Len(p) ELSE MaxLines
      /\ \A i \in 1 .. Len(l) : Len(p) - Len(l) + i \in 1 .. Len(p) /\ l[i] = p[Len(p) - Len(l) + i]
  <2> DEFINE n == Newly(p, MaxLines)
  <2>1. /\ n \in Seq(Event) /\ Len(n) = IF Len(p) <= MaxLines THEN Len(p) ELSE MaxLines
        /\ \A i \in 1 .. Len(n) : /\ Len(p) - Len(n) + i \in 1 .. Len(p)
                                  /\ n[i] = p[Len(p) - Len(n) + i]
    <3>1. p \in Seq(Event)
      BY <1>2
    <3> QED
      BY <1>1, <3>1, NewestOf
  <2> QED
    BY <1>4, <2>1
<1>7. Len(l) = IF Len(a) <= MaxLines THEN Len(a) ELSE MaxLines
  BY <1>1, <1>2, <1>3, <1>6 DEF KeptAs
<1>8. ASSUME NEW i \in 1 .. Len(l) PROVE a[Len(a) - Len(l) + i].event = l[i]
  <2> DEFINE j == Len(p) - Len(l) + i
  <2>1. Len(l) \in Nat
    BY <1>6, LenProperties
  <2>2. j \in 1 .. Len(p) /\ l[i] = p[j] /\ Len(a) - Len(l) + i = Len(all) - Len(q) + j
    <3>1. j \in 1 .. Len(p) /\ l[i] = p[j]
      BY <1>6, <1>8
    <3>2. Len(p) = Len(q) + 1 /\ Len(a) = Len(all) + 1 /\ Len(q) \in Nat /\ Len(all) \in Nat
      BY <1>2, <1>3
    <3>3. i \in Nat
      BY <1>8, <2>1
    <3> QED
      BY <2>1, <3>1, <3>2, <3>3
  <2>3. Len(q) <= Len(all)
    BY <1>1, <1>2, <1>3 DEF KeptAs
  <2>4. CASE j = Len(p)
    <3>1. Len(all) - Len(q) + Len(p) = Len(all) + 1 /\ l[i] = r.event
      BY <1>2, <1>3, <2>2, <2>4
    <3> HIDE DEF j
    <3> QED
      BY <1>3, <2>2, <2>4, <3>1
  <2>5. CASE j # Len(p)
    <3>1. j \in 1 .. Len(q) /\ Len(all) - Len(q) + j \in 1 .. Len(all)
      <4>1. Len(p) = Len(q) + 1 /\ Len(q) \in Nat /\ Len(all) \in Nat
        BY <1>2, <1>3
      <4>2. j \in 1 .. Len(p)
        BY <2>2
      <4> HIDE DEF j
      <4> QED
        BY <2>3, <2>5, <4>1, <4>2
    <3>2. all[Len(all) - Len(q) + j].event = q[j]
      BY <3>1 DEF KeptAs
    <3> QED
      BY <1>2, <1>3, <2>2, <3>1, <3>2
  <2> QED
    BY <2>4, <2>5
<1>9. KeptAs(a, l)
  BY <1>7, <1>8 DEF KeptAs
<1> QED
  BY <1>5, <1>6, <1>9 DEF a, l, p

\* A tracer leaves the sink, and the lock if it holds it.
LEMMA LeavingKeeps ==
  ASSUME TelemetryInv, NEW w \in Tracer, LeaveSink(w), sinkOnly,
         sinkLock' = IF sinkLock = w THEN NoTracer ELSE sinkLock,
         sinkLock \in Tracer \ {w} => UNCHANGED <<lines, temporary>>
  PROVE  /\ event' \in [Tracer -> Event] /\ sinkLock' \in Tracer \cup {NoTracer}
         /\ sinking' \in [Tracer -> {"unborn", "idle", "record", "append", "compact", "replace"}]
         /\ \A u \in Tracer \ {w} : sinking'[u] = sinking[u] /\ event'[u] = event[u]
         /\ sinking'[w] = "idle"
         /\ EventsNumbered' /\ FileLocked'
<1>1. /\ event' \in [Tracer -> Event] /\ sinkLock' \in Tracer \cup {NoTracer}
      /\ sinking' \in [Tracer -> {"unborn", "idle", "record", "append", "compact", "replace"}]
      /\ \A u \in Tracer \ {w} : sinking'[u] = sinking[u] /\ event'[u] = event[u]
      /\ sinking'[w] = "idle" /\ UNCHANGED <<sink, numbering>>
  BY TelemetryKnows DEF LeaveSink, Sinks, sinkOnly
<1>2. EventsNumbered'
  BY <1>1 DEF TelemetryInv, EventsNumbered
<1>3. ASSUME NEW u \in Tracer
      PROVE  /\ sinking'[u] \in {"append", "compact", "replace"} <=> sinkLock' = u
             /\ sinking'[u] \in {"append", "compact", "replace"} => sink' = "file"
             /\ sinking'[u] = "append" => Len(lines') < MaxLines
             /\ sinking'[u] = "replace" => temporary' = NewestLines(Append(lines', event'[u]))
  <2>1. CASE u = w
    BY <1>1, <2>1, TelemetryKnows
  <2>2. CASE u # w
    <3>1. /\ sinkLock' = u <=> sinkLock = u
          /\ sinkLock = u => UNCHANGED <<lines, temporary>>
      BY <2>2, TelemetryKnows
    <3> QED
      BY <1>1, <2>2, <3>1 DEF TelemetryInv, FileLocked
  <2> QED
    BY <2>1, <2>2
<1> QED
  BY <1>1, <1>2, <1>3 DEF FileLocked

\* A new tracer has recorded nothing, whatever number its context starts from.
LEMMA StartTracerKeeps == ASSUME TelemetryInv, NEW w \in Tracer, StartTracer(w) PROVE TelemetryInv'
<1>1. /\ sinking[w] = "unborn" /\ sinking' = [sinking EXCEPT ![w] = "idle"]
      /\ numbering' = [numbering EXCEPT ![w] = numbering[ParentOf[w]]]
      /\ UNCHANGED <<sink, ended, event, sinkLock, lines, temporary, rows, day, recorded>>
  BY DEF StartTracer, Sinks
<1>2. /\ sinking' \in [Tracer -> {"unborn", "idle", "record", "append", "compact", "replace"}]
      /\ numbering' \in [Tracer -> Nat] /\ sinking'[w] = "idle"
      /\ \A u \in Tracer \ {w} : sinking'[u] = sinking[u] /\ numbering'[u] = numbering[u]
  BY <1>1, TelemetryKnows
<1>3. SinkTypes'
  BY <1>1, <1>2 DEF TelemetryInv, SinkTypes, TelemetryTypeOK
<1>4. EventsNumbered'
  BY <1>1, <1>2 DEF TelemetryInv, EventsNumbered
<1>5. FileLocked'
  BY <1>1, <1>2 DEF TelemetryInv, FileLocked
<1>6. RowsNumbered => RowsNumbered'
  <2> SUFFICES ASSUME NEW row \in rows, NEW u \in Tracer,
                      row.event.by = u, row.event.capability = CapabilityOf[u],
                      row.event.number \in 1 .. numbering[u],
                      sinking[u] \notin {"unborn", "idle"} => row.event.number # numbering[u]
               PROVE  /\ row.event.number \in 1 .. numbering'[u]
                      /\ sinking'[u] \notin {"unborn", "idle"} => row.event.number # numbering'[u]
    BY <1>1 DEF RowsNumbered
  <2>1. numbering[w] = 0
    BY <1>1 DEF TelemetryInv, EventsNumbered
  <2>2. u # w
    BY <2>1
  <2> QED
    BY <1>2, <2>2
<1>7. (sink # "table" => KeptAs(recorded, lines))' /\ (RowsKept => RowsKept')
  BY <1>1 DEF TelemetryInv, KeptAs, RowsKept
<1> QED
  BY <1>1, <1>3, <1>4, <1>5, <1>6, <1>7 DEF TelemetryInv

LEMMA EndSpanKeeps == ASSUME TelemetryInv, NEW w \in Tracer, EndSpan(w) PROVE TelemetryInv'
<1> DEFINE n == numbering[w] + 1
           e == [number |-> n, capability |-> CapabilityOf[w], by |-> w]
<1>1. /\ sinking[w] = "idle" /\ sinking' = [sinking EXCEPT ![w] = "record"]
      /\ numbering' = [numbering EXCEPT ![w] = n] /\ event' = [event EXCEPT ![w] = e]
      /\ ended[w] < MaxOutcomes /\ ended' = [ended EXCEPT ![w] = @ + 1]
      /\ UNCHANGED <<sink, sinkLock, lines, temporary, rows, day, recorded>>
  BY DEF EndSpan, Sinks, NextNumber
<1>2. n \in Nat /\ n > 0 /\ n > numbering[w] /\ numbering[w] \in Nat
  BY TelemetryKnows
<1> HIDE DEF n
<1>3. e \in Event
  BY <1>2 DEF Event
<1> HIDE DEF e
<1>4. ended[w] + 1 \in 0 .. MaxOutcomes
  BY <1>1, TelemetryKnows
<1>5. /\ sinking' \in [Tracer -> {"unborn", "idle", "record", "append", "compact", "replace"}]
      /\ numbering' \in [Tracer -> Nat] /\ event' \in [Tracer -> Event]
      /\ ended' \in [Tracer -> 0 .. MaxOutcomes]
      /\ sinking'[w] = "record" /\ numbering'[w] = n /\ event'[w] = e
      /\ \A u \in Tracer \ {w} : /\ sinking'[u] = sinking[u] /\ numbering'[u] = numbering[u]
                                 /\ event'[u] = event[u]
  BY <1>1, <1>2, <1>3, <1>4, TelemetryKnows
<1>6. SinkTypes'
  BY <1>1, <1>5 DEF TelemetryInv, SinkTypes, TelemetryTypeOK
<1>7. EventsNumbered'
  BY <1>1, <1>2, <1>5 DEF TelemetryInv, EventsNumbered, e
<1>8. FileLocked'
  BY <1>1, <1>5 DEF TelemetryInv, FileLocked
<1>9. RowsNumbered => RowsNumbered'
  <2> SUFFICES ASSUME NEW row \in rows, NEW u \in Tracer,
                      row.event.by = u, row.event.capability = CapabilityOf[u],
                      row.event.number \in 1 .. numbering[u],
                      sinking[u] \notin {"unborn", "idle"} => row.event.number # numbering[u]
               PROVE  /\ row.event.number \in 1 .. numbering'[u]
                      /\ sinking'[u] \notin {"unborn", "idle"} => row.event.number # numbering'[u]
    BY <1>1 DEF RowsNumbered
  <2>1. CASE u = w
    BY <1>2, <1>5, <2>1
  <2>2. CASE u # w
    BY <1>5, <2>2
  <2> QED
    BY <2>1, <2>2
<1>10. (sink # "table" => KeptAs(recorded, lines))' /\ (RowsKept => RowsKept')
  BY <1>1 DEF TelemetryInv, KeptAs, RowsKept
<1> QED
  BY <1>1, <1>6, <1>7, <1>8, <1>9, <1>10 DEF TelemetryInv

\* An event is written as the newest line, of the list or by the holder of the file.
LEMMA LineKeeps ==
  ASSUME TelemetryInv, NEW w \in Tracer, sinking[w] \notin {"unborn", "idle"}, sink # "table",
         Recorded(w), sinkOnly, UNCHANGED rows,
         lines' = NewestLines(Append(lines, event[w])),
         sinkLock' = IF sinkLock = w THEN NoTracer ELSE sinkLock,
         sinkLock \in Tracer \ {w} => UNCHANGED <<lines, temporary>>,
         temporary' \in Seq(Event)
  PROVE  TelemetryInv'
<1> DEFINE r == [event |-> event[w], on |-> day]
<1>1. r \in Record /\ r.event = event[w]
  BY TelemetryKnows DEF Record
<1>2. recorded' = Append(recorded, r) /\ LeaveSink(w) /\ UNCHANGED <<sink, day, numbering, ended>>
  BY DEF Recorded, sinkOnly
<1> HIDE DEF r
<1>3. /\ event' \in [Tracer -> Event] /\ sinkLock' \in Tracer \cup {NoTracer}
      /\ sinking' \in [Tracer -> {"unborn", "idle", "record", "append", "compact", "replace"}]
      /\ EventsNumbered' /\ FileLocked'
  BY <1>2, LeavingKeeps
<1>4. KeptAs(recorded, lines) /\ lines \in Seq(Event) /\ recorded \in Seq(Record)
  BY TelemetryKnows DEF TelemetryInv
<1>5. lines' \in Seq(Event) /\ KeptAs(recorded', lines')
  BY <1>1, <1>2, <1>4, LinesAppended
<1>6. recorded' \in Seq(Record)
  BY <1>1, <1>2, <1>4, AppendProperties
<1>7. SinkTypes'
  BY <1>2, <1>3, <1>5, <1>6 DEF TelemetryInv, SinkTypes, TelemetryTypeOK
<1> QED
  BY <1>2, <1>3, <1>5, <1>7 DEF TelemetryInv

LEMMA RecordInListKeeps == ASSUME TelemetryInv, NEW w \in Tracer, RecordInList(w) PROVE TelemetryInv'
<1>1. \A u \in Tracer : sinkLock # u
  BY DEF RecordInList, TelemetryInv, FileLocked
<1> QED
  BY <1>1, LineKeeps, TelemetryKnows DEF RecordInList

LEMMA AppendLineKeeps == ASSUME TelemetryInv, NEW w \in Tracer, AppendLine(w) PROVE TelemetryInv'
<1>1. sinkLock = w /\ sink = "file" /\ Len(lines) < MaxLines
  BY DEF AppendLine, TelemetryInv, FileLocked
<1>2. lines' = NewestLines(Append(lines, event[w]))
  <2>1. Len(Append(lines, event[w])) = Len(lines) + 1 /\ Len(lines) \in Nat /\ MaxLines \in Nat
    BY TelemetryKnows, AppendProperties, LenProperties
  <2> QED
    BY <1>1, <2>1 DEF AppendLine, NewestLines
<1> QED
  BY <1>1, <1>2, LineKeeps, TelemetryKnows DEF AppendLine

LEMMA ReplaceFileKeeps == ASSUME TelemetryInv, NEW w \in Tracer, ReplaceFile(w) PROVE TelemetryInv'
<1>1. /\ sinkLock = w /\ sink = "file"
      /\ temporary = NewestLines(Append(lines, event[w]))
  BY DEF ReplaceFile, TelemetryInv, FileLocked
<1> QED
  BY <1>1, LineKeeps, EmptySeq DEF ReplaceFile

LEMMA RecordInTableKeeps ==
  ASSUME TelemetryInv, NEW w \in Tracer, RecordInTable(w) PROVE TelemetryInv'
<1> DEFINE r == [event |-> event[w], on |-> day]
           same == \E row \in rows : SameId(row.event, event[w])
<1>1. /\ sinking[w] = "record" /\ sink = "table" /\ recorded' = Append(recorded, r)
      /\ rows' = Fresh(IF same THEN rows ELSE rows \cup {r})
      /\ LeaveSink(w) /\ sinkOnly
      /\ UNCHANGED <<sinkLock, lines, temporary, sink, numbering, ended, day>>
  BY DEF RecordInTable, Recorded, sinkOnly
<1>2. /\ r \in Record /\ r.event = event[w] /\ r.on = day
      /\ event[w] = [number |-> numbering[w], capability |-> CapabilityOf[w], by |-> w]
      /\ numbering[w] > 0 /\ numbering[w] \in Nat
      /\ RowsNumbered /\ RowsKept
  BY <1>1, TelemetryKnows DEF Record, TelemetryInv, EventsNumbered
<1>3. Separate(w) => ~same
  <2> SUFFICES ASSUME Separate(w), NEW row \in rows, SameId(row.event, event[w]) PROVE FALSE
    OBVIOUS
  <2>1. row.event.number = numbering[w] /\ row.event.capability = CapabilityOf[w]
    BY <1>2 DEF SameId
  <2>2. PICK u \in Tracer : /\ row.event.capability = CapabilityOf[u]
                            /\ u = w => row.event.number # numbering[w]
    BY <1>1, <1>2 DEF RowsNumbered
  <2> QED
    BY <2>1, <2>2 DEF Separate
<1> HIDE DEF r, same
<1>4. /\ rows' \subseteq rows \cup {r}
      /\ \A row \in rows : row.on + Retention >= day => row \in rows'
      /\ ~same => r \in rows'
  <2>1. r.on + Retention >= day
    BY <1>2, TelemetryKnows
  <2> QED
    BY <1>1, <2>1 DEF Fresh
<1>5. sinkLock # w
  BY <1>1 DEF TelemetryInv, FileLocked
<1>6. /\ event' \in [Tracer -> Event] /\ sinkLock' \in Tracer \cup {NoTracer}
      /\ sinking' \in [Tracer -> {"unborn", "idle", "record", "append", "compact", "replace"}]
      /\ \A u \in Tracer \ {w} : sinking'[u] = sinking[u] /\ event'[u] = event[u]
      /\ sinking'[w] = "idle"
      /\ EventsNumbered' /\ FileLocked'
  BY <1>1, <1>5, LeavingKeeps
<1>7. /\ Len(recorded) \in Nat /\ DOMAIN recorded = 1 .. Len(recorded)
      /\ recorded' \in Seq(Record) /\ Len(recorded') = Len(recorded) + 1
      /\ DOMAIN recorded' = 1 .. Len(recorded) + 1
      /\ \A i \in 1 .. Len(recorded) : recorded'[i] = recorded[i]
      /\ recorded'[Len(recorded) + 1] = r
  BY <1>1, <1>2, TelemetryKnows, AppendProperties, LenProperties
<1>8. SinkTypes'
  <2>1. rows' \subseteq Record
    BY <1>2, <1>4, TelemetryKnows
  <2> QED
    BY <1>1, <1>6, <1>7, <2>1 DEF TelemetryInv, SinkTypes, TelemetryTypeOK, Record
<1>9. RowsNumbered'
  <2> SUFFICES ASSUME NEW row \in rows'
               PROVE  \E u \in Tracer :
                          /\ row.event.by = u /\ row.event.capability = CapabilityOf[u]
                          /\ row.event.number \in 1 .. numbering[u]
                          /\ sinking'[u] \notin {"unborn", "idle"} => row.event.number # numbering[u]
    BY <1>1 DEF RowsNumbered
  <2>1. CASE row = r
    <3>1. /\ row.event.by = w /\ row.event.capability = CapabilityOf[w]
          /\ row.event.number \in 1 .. numbering[w]
      BY <1>2, <2>1
    <3> QED
      BY <1>6, <3>1
  <2>2. CASE row \in rows
    <3>1. PICK u \in Tracer :
              /\ row.event.by = u /\ row.event.capability = CapabilityOf[u]
              /\ row.event.number \in 1 .. numbering[u]
              /\ sinking[u] \notin {"unborn", "idle"} => row.event.number # numbering[u]
      BY <1>2, <2>2 DEF RowsNumbered
    <3> QED
      BY <1>6, <3>1
  <2> QED
    BY <1>4, <2>1, <2>2
<1>10. RowsKept'
  <2> SUFFICES ASSUME NEW i \in DOMAIN recorded', Separate(recorded'[i].event.by),
                      recorded'[i].on + Retention >= day
               PROVE  recorded'[i] \in rows'
    BY <1>1 DEF RowsKept
  <2>1. CASE i \in 1 .. Len(recorded)
    BY <1>2, <1>4, <1>7, <2>1 DEF RowsKept
  <2>2. CASE i = Len(recorded) + 1
    BY <1>2, <1>3, <1>4, <1>7, <2>2
  <2> QED
    BY <1>7, <2>1, <2>2
<1> QED
  BY <1>1, <1>6, <1>8, <1>9, <1>10 DEF TelemetryInv

\* A step that leaves the lines, the rows and the record of what was recorded alone.
LEMMA NothingKept ==
  ASSUME TelemetryInv, UNCHANGED <<lines, recorded, sink, numbering>>, SinkTypes', EventsNumbered',
         FileLocked',
         \/ UNCHANGED rows /\ day' \in Nat /\ day' >= day
         \/ rows' = Fresh(rows) /\ day' = day,
         \A w \in Tracer : \/ sinking'[w] \in {"unborn", "idle"}
                           \/ sinking[w] \notin {"unborn", "idle"}
  PROVE  TelemetryInv'
<1>1. rows' \subseteq rows
  BY DEF Fresh
<1>2. RowsNumbered => RowsNumbered'
  BY <1>1 DEF RowsNumbered
<1>3. RowsKept => RowsKept'
  <2> SUFFICES ASSUME RowsKept, NEW i \in DOMAIN recorded, Separate(recorded[i].event.by),
                      recorded[i].on + Retention >= day'
               PROVE  recorded[i] \in rows'
    BY DEF RowsKept
  <2>1. recorded[i] \in Record /\ recorded[i].on \in Nat
    <3>1. recorded[i] \in Record
      BY TelemetryKnows, LenProperties, ElementOfSeq
    <3> QED
      BY <3>1 DEF Record
  <2>2. recorded[i].on + Retention >= day
    BY <2>1, TelemetryKnows
  <2> QED
    BY <2>2 DEF RowsKept, Fresh
<1>4. (sink # "table" => KeptAs(recorded, lines))'
  BY DEF TelemetryInv, KeptAs
<1> QED
  BY <1>2, <1>3, <1>4 DEF TelemetryInv

LEMMA LockFileKeeps == ASSUME TelemetryInv, NEW w \in Tracer, LockFile(w) PROVE TelemetryInv'
<1> DEFINE place == IF Len(lines) < MaxLines THEN "append" ELSE "compact"
<1>1. /\ sinking[w] = "record" /\ sink = "file" /\ sinkLock = NoTracer /\ sinkLock' = w
      /\ sinking' = [sinking EXCEPT ![w] = place]
      /\ UNCHANGED <<event, lines, temporary, rows, recorded, sink, numbering, ended, day>>
  BY DEF LockFile, SinkFree, Sinks, sinkOnly
<1>2. place \in {"append", "compact"} /\ (place = "append" => Len(lines) < MaxLines)
  OBVIOUS
<1> HIDE DEF place
<1>3. /\ sinking' \in [Tracer -> {"unborn", "idle", "record", "append", "compact", "replace"}]
      /\ sinking'[w] = place /\ \A u \in Tracer \ {w} : sinking'[u] = sinking[u]
  BY <1>1, <1>2, TelemetryKnows
<1>4. SinkTypes'
  BY <1>1, <1>3 DEF TelemetryInv, SinkTypes, TelemetryTypeOK
<1>5. EventsNumbered'
  BY <1>1, <1>2, <1>3 DEF TelemetryInv, EventsNumbered
<1>6. FileLocked'
  BY <1>1, <1>2, <1>3, TelemetryKnows DEF TelemetryInv, FileLocked
<1>7. day \in Nat /\ day >= day
  BY TelemetryKnows
<1> QED
  BY <1>1, <1>2, <1>3, <1>4, <1>5, <1>6, <1>7, NothingKept

LEMMA WriteTemporaryKeeps ==
  ASSUME TelemetryInv, NEW w \in Tracer, WriteTemporary(w) PROVE TelemetryInv'
<1>1. /\ sinking[w] = "compact" /\ sinking' = [sinking EXCEPT ![w] = "replace"]
      /\ temporary' = NewestLines(Append(lines, event[w]))
      /\ UNCHANGED <<event, sinkLock, lines, rows, recorded, sink, numbering, ended, day>>
  BY DEF WriteTemporary, Sinks, sinkOnly
<1>2. /\ sinking' \in [Tracer -> {"unborn", "idle", "record", "append", "compact", "replace"}]
      /\ sinking'[w] = "replace" /\ \A u \in Tracer \ {w} : sinking'[u] = sinking[u]
  BY <1>1, TelemetryKnows
<1>3. sinkLock = w /\ sink = "file"
  BY <1>1 DEF TelemetryInv, FileLocked
<1>4. temporary' \in Seq(Event)
  <2> DEFINE r == [event |-> event[w], on |-> day]
  <2>1. r \in Record /\ r.event = event[w]
    BY TelemetryKnows DEF Record
  <2>2. KeptAs(recorded, lines)
    BY <1>3 DEF TelemetryInv
  <2> HIDE DEF r
  <2> QED
    BY <1>1, <2>1, <2>2, TelemetryKnows, LinesAppended
<1>5. SinkTypes'
  BY <1>1, <1>2, <1>4 DEF TelemetryInv, SinkTypes, TelemetryTypeOK
<1>6. EventsNumbered'
  BY <1>1, <1>2 DEF TelemetryInv, EventsNumbered
<1>7. FileLocked'
  <2> SUFFICES ASSUME NEW u \in Tracer
               PROVE  /\ sinking'[u] \in {"append", "compact", "replace"} <=> sinkLock = u
                      /\ sinking'[u] \in {"append", "compact", "replace"} => sink = "file"
                      /\ sinking'[u] = "append" => Len(lines) < MaxLines
                      /\ sinking'[u] = "replace" => temporary' = NewestLines(Append(lines, event[u]))
    BY <1>1 DEF FileLocked
  <2>1. CASE u = w
    BY <1>1, <1>2, <1>3, <2>1
  <2>2. CASE u # w
    BY <1>2, <1>3, <2>2 DEF TelemetryInv, FileLocked
  <2> QED
    BY <2>1, <2>2
<1>8. day \in Nat /\ day >= day
  BY TelemetryKnows
<1> QED
  BY <1>1, <1>2, <1>5, <1>6, <1>7, <1>8, NothingKept

LEMMA SinkFailsKeeps == ASSUME TelemetryInv, NEW w \in Tracer, SinkFails(w) PROVE TelemetryInv'
<1>1. /\ sinking[w] \notin {"unborn", "idle"}
      /\ temporary' = IF sinking[w] = "replace" THEN <<>> ELSE temporary
      /\ sinkLock' = IF sinkLock = w THEN NoTracer ELSE sinkLock
      /\ UNCHANGED rows /\ sinkOnly
  BY DEF SinkFails
<1>2. temporary' \in Seq(Event) /\ (sinkLock \in Tracer \ {w} => UNCHANGED temporary)
  BY <1>1, TelemetryKnows, EmptySeq DEF TelemetryInv, FileLocked
<1>3. CASE LeaveSink(w) /\ UNCHANGED <<lines, recorded>>
  <2>1. /\ event' \in [Tracer -> Event] /\ sinkLock' \in Tracer \cup {NoTracer}
        /\ sinking' \in [Tracer -> {"unborn", "idle", "record", "append", "compact", "replace"}]
        /\ \A u \in Tracer \ {w} : sinking'[u] = sinking[u]
        /\ sinking'[w] = "idle"
        /\ EventsNumbered' /\ FileLocked'
    BY <1>1, <1>2, <1>3, LeavingKeeps
  <2>2. SinkTypes'
    BY <1>1, <1>2, <1>3, <2>1 DEF TelemetryInv, SinkTypes, TelemetryTypeOK, sinkOnly
  <2>3. day' = day /\ day' \in Nat /\ day' >= day /\ UNCHANGED <<sink, numbering>>
    BY <1>1, TelemetryKnows DEF sinkOnly
  <2>4. \A u \in Tracer : sinking'[u] \in {"unborn", "idle"} \/ sinking[u] \notin {"unborn", "idle"}
    BY <2>1
  <2> QED
    BY <1>1, <1>3, <2>1, <2>2, <2>3, <2>4, NothingKept
<1>4. CASE sinking[w] = "append" /\ lines' = Append(lines, event[w]) /\ Recorded(w)
  <2>1. sinkLock = w /\ sink = "file" /\ Len(lines) < MaxLines
    BY <1>4 DEF TelemetryInv, FileLocked
  <2>2. Len(Append(lines, event[w])) = Len(lines) + 1 /\ Len(lines) \in Nat /\ MaxLines \in Nat
    BY TelemetryKnows, AppendProperties, LenProperties
  <2>3. lines' = NewestLines(Append(lines, event[w]))
    BY <1>4, <2>1, <2>2 DEF NewestLines
  <2> QED
    BY <1>1, <1>2, <1>4, <2>1, <2>3, LineKeeps
<1> QED
  BY <1>3, <1>4 DEF SinkFails

LEMMA TableKeeps == ASSUME TelemetryInv, PruneTable \/ NextDay PROVE TelemetryInv'
<1>1. CASE NextDay
  <2>1. /\ day' = day + 1 /\ day' \in 0 .. MaxDay
        /\ UNCHANGED <<sink, numbering, ended, event, sinking, sinkLock, lines, temporary, rows,
                       recorded>>
    BY <1>1, TelemetryKnows DEF NextDay
  <2>2. SinkTypes'
    BY <2>1 DEF TelemetryInv, SinkTypes, TelemetryTypeOK
  <2>3. EventsNumbered' /\ FileLocked'
    BY <2>1 DEF TelemetryInv, EventsNumbered, FileLocked
  <2>4. day' \in Nat /\ day' >= day
    BY <2>1, TelemetryKnows
  <2> QED
    BY <2>1, <2>2, <2>3, <2>4, NothingKept
<1>2. CASE PruneTable
  <2>1. /\ sink = "table"
        /\ UNCHANGED <<event, sinking, sinkLock, lines, temporary, sink, numbering, ended, day>>
        /\ rows' \subseteq rows /\ recorded' \in Seq(Record)
    <3>1. Fresh(rows) \subseteq rows
      BY DEF Fresh
    <3>2. recorded \in Seq(Record) /\ <<>> \in Seq(Record)
      BY TelemetryKnows, EmptySeq
    <3> QED
      BY <1>2, <3>1, <3>2 DEF PruneTable, sinkOnly
  <2>2. SinkTypes'
    BY <2>1 DEF TelemetryInv, SinkTypes, TelemetryTypeOK
  <2>3. EventsNumbered' /\ FileLocked'
    BY <2>1 DEF TelemetryInv, EventsNumbered, FileLocked
  <2>4. CASE rows' = Fresh(rows) /\ UNCHANGED recorded
    <3>1. \A w \in Tracer : sinking'[w] \in {"unborn", "idle"} \/ sinking[w] \notin {"unborn", "idle"}
      BY <2>1
    <3> QED
      BY <2>1, <2>2, <2>3, <2>4, <3>1, NothingKept
  <2>5. CASE rows' = {} /\ recorded' = <<>>
    BY <2>1, <2>2, <2>3, <2>5 DEF TelemetryInv, RowsNumbered, RowsKept
  <2> QED
    BY <1>2, <2>4, <2>5 DEF PruneTable
<1> QED
  BY <1>1, <1>2

LEMMA TelemetryStep == TelemetryInv /\ [TelemetryNext]_telemetryVars => TelemetryInv'
<1> SUFFICES ASSUME TelemetryInv, [TelemetryNext]_telemetryVars PROVE TelemetryInv'
  OBVIOUS
<1>1. CASE UNCHANGED telemetryVars
  BY <1>1 DEF telemetryVars, TelemetryInv, SinkTypes, TelemetryTypeOK, EventsNumbered, FileLocked,
     KeptAs, RowsNumbered, RowsKept
<1>2. CASE TelemetryNext
  BY <1>2, StartTracerKeeps, EndSpanKeeps, RecordInListKeeps, RecordInTableKeeps, LockFileKeeps,
     AppendLineKeeps, WriteTemporaryKeeps, ReplaceFileKeeps, SinkFailsKeeps, TableKeeps
     DEF TelemetryNext
<1> QED
  BY <1>1, <1>2

LEMMA KeptTelemetry == TelemetryInv => TelemetryIsKept
<1> SUFFICES ASSUME TelemetryInv PROVE TelemetryIsKept
  OBVIOUS
<1>1. /\ Len(lines) \in Nat /\ DOMAIN lines = 1 .. Len(lines) /\ Len(recorded) \in Nat
      /\ MaxLines \in Nat \ {0}
  BY TelemetryKnows, LenProperties
<1>2. CASE sink # "table"
  <2>1. KeptAs(recorded, lines)
    BY <1>2 DEF TelemetryInv
  <2>2. Len(lines) = IF Len(recorded) <= MaxLines THEN Len(recorded) ELSE MaxLines
    BY <2>1 DEF KeptAs
  <2>3. /\ Len(lines) <= MaxLines /\ Len(recorded) >= Len(lines)
        /\ Len(recorded) >= MaxLines => Len(lines) = MaxLines
    BY <1>1, <2>2
  <2>4. \A i \in DOMAIN lines : recorded[Len(recorded) - Len(lines) + i].event = lines[i]
    BY <1>1, <2>1 DEF KeptAs
  <2> QED
    BY <1>2, <2>3, <2>4 DEF TelemetryIsKept
<1>3. CASE sink = "table"
  BY <1>3 DEF TelemetryInv, RowsKept, TelemetryIsKept
<1> QED
  BY <1>2, <1>3

\* The list and the file hold the newest events that were recorded, and the table
\* misses none that is younger than its retention, for any number of tasks and threads,
\* whatever fails.
THEOREM TelemetryStaysKept == TelemetrySpec => [](TelemetryTypeOK /\ TelemetryIsKept)
<1>1. TelemetryInv => TelemetryTypeOK
  BY DEF TelemetryInv, SinkTypes
<1> QED
  BY <1>1, TelemetryStarts, TelemetryStep, KeptTelemetry, PTL DEF TelemetrySpec

-----------------------------------------------------------------------------
(* The platform *)

\* A step of the platform is one of each component, or changes none of its state.
LEMMA PlatformSteps ==
  ASSUME [PlatformNext]_platformVars
  PROVE  /\ [DeployNext]_deployVars /\ [LocalNext]_localVars /\ [ExternalNext]_extVars
         /\ [McpNext]_mcpVars /\ [AuthNext]_authVars /\ [GraphNext]_graphVars
         /\ [TelemetryNext]_telemetryVars
  BY DEF PlatformNext, platformVars, OnlyApi, OnlyLocal, OnlyExternal, OnlyMcp, OnlyAuth, OnlyGraph,
     OnlyTelemetry

\* However the steps of the components interleave, each of them does in the
\* platform what it does alone, so that what is proved of one holds beside the others.
THEOREM PlatformComponents ==
  PlatformSpec => DeploySpec /\ LocalSpec /\ ExternalSpec /\ McpSpec /\ AuthSpec /\ GraphSpec
                  /\ TelemetrySpec
<1>1. PlatformInit => /\ DeployInit /\ LocalInit /\ ExternalInit /\ McpInit /\ AuthInit /\ GraphInit
                      /\ TelemetryInit
  BY DEF PlatformInit
<1>2. [PlatformNext]_platformVars =>
          /\ [DeployNext]_deployVars /\ [LocalNext]_localVars /\ [ExternalNext]_extVars
          /\ [McpNext]_mcpVars /\ [AuthNext]_authVars /\ [GraphNext]_graphVars
          /\ [TelemetryNext]_telemetryVars
  BY PlatformSteps
<1> QED
  BY <1>1, <1>2, PTL DEF PlatformSpec, DeploySpec, LocalSpec, ExternalSpec, McpSpec, AuthSpec,
     GraphSpec, TelemetrySpec

\* The state of every component of the platform keeps its type.
THEOREM PlatformTypes == PlatformSpec => []PlatformTypeOK
<1>1. DeployTypeOK /\ LocalTypeOK /\ ExternalTypeOK /\ McpTypeOK /\ AuthTypeOK /\ GraphTypeOK
      /\ TelemetryTypeOK => PlatformTypeOK
  BY DEF PlatformTypeOK
<1> QED
  BY <1>1, PlatformComponents, ControlPlaneTypes, LocalTypes, RegistrationsStaySound,
     TransportsStayOwned, AuthTypeCorrect, HistoryStaysOnce, TelemetryStaysKept, PTL

\* And every component of the platform keeps its safety properties: snapshots
\* and immutable versions, one process of an agent, a sound registry, transports
\* with an owner, histories given once, telemetry kept, keys that expire.
THEOREM PlatformIsSafe ==
  PlatformSpec =>
      /\ [](/\ BundlesAreSnapshots /\ OneProcess /\ RegistrationsAreSound /\ TransportsAreOwned
            /\ HistorySeenOnce /\ TelemetryIsKept)
      /\ VersionsAreImmutable /\ LockedArchivedIsFinal /\ DefinitionsChangeByPatch
      /\ TenantsAreSeparate /\ WithdrawnKeysExpire /\ PublishedKeysAreFound
  BY PlatformComponents, BundlesStaySnapshots, OneProcessAlive, RegistrationsStaySound,
     TransportsStayOwned, HistoryStaysOnce, TelemetryStaysKept, VersionsStayImmutable,
     ArchivedIsFinal, OnlyPatchesChangeDefinitions, TenantsStaySeparate, WithdrawnKeysDoExpire,
     PublishedKeysAreAlwaysFound, PTL
=============================================================================
