------------------------- MODULE LocalProviderProofs -------------------------
(***************************************************************************)
(* Proofs about the local deployment provider, for any calls and any       *)
(* number of deployments.                                                  *)
(***************************************************************************)
EXTENDS LocalProvider, FiniteSetTheorems, TLAPS

LocalSpec == LocalInit /\ [][LocalNext]_localVars

\* No deployment runs.
Idle == \A d \in Slot : dep[d].status # "running"

\* Rows with m deployments made: typed; a process that is kept belongs to a
\* deployment that runs or starts; at most one runs; the others are unknown.
RowsOK(rows, m) ==
    /\ rows \in [Slot -> DepRow]
    /\ \A d \in Slot : rows[d].process # "none" => rows[d].status \in {"running", "starting"}
    /\ \A d, e \in Slot : rows[d].status = "running" /\ rows[e].status = "running" => d = e
    /\ \A d \in Slot : d > m => rows[d] = Unknown

NoneStarts(rows) == \A d \in Slot : rows[d].status # "starting"

CallsOK ==
    /\ order \in [Caller -> [op : Operation, of : Nat]]
    \* the lock is held during a start, by the caller that waits for it
    /\ \A c \in Caller : step[c] = "startup" => result[c] \in 1 .. made
    /\ \A c \in Caller : step[c] = "startup" <=> deployLock = c
    \* who restarts found the deployment
    /\ \A c \in Caller : step[c] \in {"lock", "startup"} /\ order[c].op = "restart" =>
           order[c].of \in 1 .. made

LocalInv ==
    /\ LocalTypeOK /\ RowsOK(dep, made) /\ CallsOK
    /\ \A d \in Slot : dep[d].status = "starting" =>
           deployLock # NoCaller /\ result[deployLock] = d
    \* nothing runs while a deployment starts
    /\ deployLock # NoCaller => Idle

\* No call has begun and nothing runs.
LEMMA LocalStarts == LocalInit => LocalInv
  BY LocalAssumption DEF LocalInit, LocalInv, RowsOK, CallsOK, LocalTypeOK, DepRow, Unknown, Slot, NoSlot, KeyError, Idle

\* What runs excludes what starts, and either is alone.
LEMMA OneAlive == LocalInv => OneProcess
<1> SUFFICES ASSUME LocalInv PROVE OneProcess
  OBVIOUS
<1> DEFINE alive == {d \in Slot : Alive(d)}
<1>1. \A d, e \in alive : d = e
  BY DEF LocalInv, RowsOK, Alive, Idle, LocalTypeOK
<1>2. CASE alive = {}
  BY <1>2, FS_EmptySet DEF OneProcess
<1>3. CASE alive # {}
  <2>1. PICK d \in alive : alive = {d}
    BY <1>1, <1>3
  <2>2. Cardinality(alive) = 1
    BY <2>1, FS_Singleton
  <2> QED
    BY <2>2 DEF OneProcess
<1> QED
  BY <1>2, <1>3

-----------------------------------------------------------------------------
\* What the operations do to the rows.

\* stop keeps the rows in order and only ends what ran or started.
LEMMA StoppedRows ==
    ASSUME NEW rows, NEW m \in Nat, RowsOK(rows, m), NEW d \in Slot, rows[d].status # "unknown"
    PROVE  /\ RowsOK(Stopped(rows, d), m) /\ d \in 1 .. m
           /\ \A e \in Slot : Stopped(rows, d)[e].status \in {"running", "starting"} =>
                  Stopped(rows, d)[e] = rows[e]
  BY LocalAssumption DEF RowsOK, Stopped, DepRow, Slot, Unknown

\* The end of deploy or restart: the deployment d of this call has the status s.
LEMMA EndOfDeploy ==
    ASSUME LocalInv, NEW c \in Caller, deployLock \in {NoCaller, c},
           NEW rows, NEW d \in Slot, NEW m \in made .. MaxDeployments, d <= m,
           RowsOK(rows, m), NoneStarts(rows),
           order[c].op = "restart" => order[c].of \in 1 .. made,
           ReturnDeployed(c, rows, d), made' = m, order' = order
    PROVE  LocalInv'
<1> USE LocalAssumption
<1>1. made \in Nat /\ m \in Nat /\ m \in 0 .. MaxDeployments /\ made <= m
  BY DEF LocalInv, LocalTypeOK
<1>2. RowsOK(dep', m) /\ NoneStarts(dep')
  <2>1. CASE Target(c) \in {NoSlot, d}
    BY <2>1 DEF ReturnDeployed, Rekeyed
  <2>2. CASE Target(c) \notin {NoSlot, d}
    <3>1. Target(c) \in Slot /\ Target(c) <= m /\ Target(c) # d
      BY <1>1, <2>2 DEF Target, Slot, NoSlot
    <3>2. dep' = [rows EXCEPT ![Target(c)] = rows[d], ![d] = Unknown]
      BY <2>2 DEF ReturnDeployed, Rekeyed
    <3>3. /\ dep' \in [Slot -> DepRow] /\ dep'[d] = Unknown /\ dep'[Target(c)] = rows[d]
          /\ \A e \in Slot \ {d, Target(c)} : dep'[e] = rows[e]
      BY <3>1, <3>2 DEF RowsOK, Unknown, DepRow
    <3>4. \A e \in Slot : dep'[e] = Unknown \/ (e = Target(c) /\ dep'[e] = rows[d])
                            \/ (e \notin {d, Target(c)} /\ dep'[e] = rows[e])
      BY <3>3
    <3>5. NoneStarts(dep')
      BY <3>4 DEF NoneStarts, Unknown
    <3>6. \A e \in Slot : dep'[e].process # "none" => dep'[e].status \in {"running", "starting"}
      BY <3>4 DEF RowsOK, Unknown
    <3>7. \A e, f \in Slot : dep'[e].status = "running" /\ dep'[f].status = "running" => e = f
      BY <3>4 DEF RowsOK, Unknown
    <3>8. \A e \in Slot : e > m => dep'[e] = Unknown
      BY <1>1, <3>1, <3>4 DEF RowsOK, Slot
    <3> QED
      BY <3>3, <3>5, <3>6, <3>7, <3>8 DEF RowsOK
  <2> QED
    BY <2>1, <2>2
<1>3. /\ step' = [step EXCEPT ![c] = "done"] /\ deployLock' = NoCaller
      /\ result' = [result EXCEPT ![c] = IF Target(c) = NoSlot THEN d ELSE Target(c)]
  BY DEF ReturnDeployed, Return
<1>4. (IF Target(c) = NoSlot THEN d ELSE Target(c)) \in Slot
  BY <1>1 DEF Target, Slot, NoSlot
<1>5. LocalTypeOK'
  BY <1>1, <1>2, <1>3, <1>4 DEF LocalInv, LocalTypeOK, RowsOK
<1>6. CallsOK'
  <2>1. \A k \in Caller : step'[k] # "startup"
    BY <1>3 DEF LocalInv, CallsOK, LocalTypeOK
  <2>2. \A k \in Caller : step'[k] = "lock" => step[k] = "lock"
    BY <1>3 DEF LocalInv, LocalTypeOK
  <2> QED
    BY <1>1, <1>3, <2>1, <2>2 DEF LocalInv, CallsOK
<1> QED
  BY <1>2, <1>3, <1>5, <1>6 DEF LocalInv, NoneStarts

\* A deployment that is made fails at once, or starts and c waits with the lock.
LEMMA DeployBodyKeeps ==
    ASSUME LocalInv, NEW c \in Caller, deployLock = NoCaller,
           NEW rows, RowsOK(rows, made), NoneStarts(rows),
           order[c].op = "restart" => order[c].of \in 1 .. made,
           DeployBody(c, rows), order' = order
    PROVE  LocalInv'
<1> USE LocalAssumption
<1>0. made \in Nat /\ made <= MaxDeployments
  BY DEF LocalInv, LocalTypeOK
<1>1. CASE \E d \in Slot : rows[d].status = "running" /\ ReturnDeployed(c, rows, d) /\ made' = made
  <2>1. PICK d \in Slot : rows[d].status = "running" /\ ReturnDeployed(c, rows, d) /\ made' = made
    BY <1>1
  <2>2. d <= made
    BY <1>0, <2>1 DEF RowsOK, Unknown, Slot
  <2>3. made \in made .. MaxDeployments
    BY <1>0
  <2> QED
    BY <2>1, <2>2, <2>3, EndOfDeploy
<1>2. CASE /\ \A d \in Slot : rows[d].status # "running"
           /\ made < MaxDeployments /\ made' = made + 1
  <2> DEFINE d == made + 1
  <2>1. d \in Slot /\ d \in made .. MaxDeployments /\ d <= d /\ d \in 0 .. MaxDeployments
    BY <1>0, <1>2 DEF Slot
  <2>2. ASSUME ReturnDeployed(c, [rows EXCEPT ![d] = [status |-> "failed", process |-> "none"]], d)
        PROVE  LocalInv'
    <3> DEFINE new == [rows EXCEPT ![d] = [status |-> "failed", process |-> "none"]]
    <3>1. RowsOK(new, d) /\ NoneStarts(new)
      BY <1>0, <1>2, <2>1 DEF RowsOK, NoneStarts, DepRow, Slot
    <3> HIDE DEF new
    <3>2. ReturnDeployed(c, new, d)
      BY <2>2 DEF new
    <3>3. made' = d
      BY <1>2
    <3> HIDE DEF d
    <3> QED
      BY <2>1, <3>1, <3>2, <3>3, EndOfDeploy
  <2>3. ASSUME dep' = [rows EXCEPT ![d] = [status |-> "starting", process |-> "young"]],
               step' = [step EXCEPT ![c] = "startup"],
               result' = [result EXCEPT ![c] = d], deployLock' = c
        PROVE  LocalInv'
    <3>1. RowsOK(dep', d) /\ \A e \in Slot : dep'[e].status # "running"
      BY <1>0, <1>2, <2>1, <2>3 DEF RowsOK, DepRow, Slot
    <3>2. \A e \in Slot : dep'[e].status = "starting" => e = d
      BY <2>3, <2>1 DEF RowsOK, NoneStarts
    <3>3. LocalTypeOK'
      BY <1>2, <2>1, <2>3, <3>1 DEF LocalInv, LocalTypeOK, RowsOK
    <3>4. /\ \A k \in Caller : step'[k] = "startup" <=> k = c
          /\ \A k \in Caller \ {c} : step'[k] = step[k]
          /\ result'[c] = d
      BY <2>3 DEF LocalInv, LocalTypeOK, CallsOK
    <3>5. CallsOK'
      BY <1>0, <1>2, <2>3, <3>4 DEF LocalInv, CallsOK
    <3> QED
      BY <1>2, <2>3, <3>1, <3>2, <3>3, <3>4, <3>5 DEF LocalInv, Idle
  <2> QED
    BY <1>2, <2>2, <2>3 DEF DeployBody
<1> QED
  BY <1>1, <1>2 DEF DeployBody

\* A caller that neither waits for a start nor begins one: the rows lose only
\* processes and starts.
LEMMA OthersKeep ==
    ASSUME LocalInv, NEW c \in Caller, step[c] = "new",
           step' \in {[step EXCEPT ![c] = "lock"], [step EXCEPT ![c] = "done"]},
           NEW v \in Slot \cup {NoSlot, KeyError}, result' = [result EXCEPT ![c] = v],
           UNCHANGED <<made, order, deployLock>>,
           RowsOK(dep', made),
           \A d \in Slot : dep'[d].status \in {"running", "starting"} =>
                               dep'[d].status = dep[d].status,
           step'[c] = "lock" /\ order[c].op = "restart" => order[c].of \in 1 .. made
    PROVE  LocalInv'
<1>1. deployLock # c
  BY DEF LocalInv, CallsOK
<1>2. LocalTypeOK'
  BY DEF LocalInv, LocalTypeOK, RowsOK
<1>3. \A k \in Caller \ {c} : step'[k] = step[k] /\ result'[k] = result[k]
  BY DEF LocalInv, LocalTypeOK
<1>4. step'[c] # "startup"
  BY DEF LocalInv, LocalTypeOK
<1>5. CallsOK'
  BY <1>1, <1>3, <1>4 DEF LocalInv, CallsOK
<1>6. deployLock \in Caller => result'[deployLock] = result[deployLock]
  BY <1>1, <1>3
<1>7. \A d \in Slot : dep'[d].status = "starting" => deployLock # NoCaller /\ result'[deployLock] = d
  BY <1>6 DEF LocalInv, LocalTypeOK
<1>8. (deployLock # NoCaller => Idle)'
  BY DEF LocalInv, Idle
<1> QED
  BY <1>2, <1>5, <1>7, <1>8 DEF LocalInv

\* A caller that waits for the lock keeps its result.
LEMMA UnchangedResult ==
    ASSUME LocalInv, NEW c \in Caller
    PROVE  /\ result[c] \in Slot \cup {NoSlot, KeyError}
           /\ result = [result EXCEPT ![c] = result[c]]
  BY DEF LocalInv, LocalTypeOK

-----------------------------------------------------------------------------
\* Each call and each event of a subprocess keeps the invariant.
LEMMA LocalKept == LocalInv /\ [LocalNext]_localVars => LocalInv'
<1> SUFFICES ASSUME LocalInv, [LocalNext]_localVars PROVE LocalInv'
  OBVIOUS
<1> USE LocalAssumption
<1>0. made \in Nat /\ RowsOK(dep, made)
  BY DEF LocalInv, LocalTypeOK
<1>1. ASSUME NEW c \in Caller, LocalDeploy(c) PROVE LocalInv'
  <2>1. CASE LockFree(c) /\ DeployBody(c, dep) /\ order' = order
    BY <1>0, <1>1, <2>1, DeployBodyKeeps DEF LocalInv, LocalDeploy, LockFree, NoneStarts
  <2>2. CASE Wait(c, "lock") /\ UNCHANGED <<made, dep, deployLock>>
    BY <1>0, <1>1, <2>2, OthersKeep, UnchangedResult DEF LocalDeploy, Wait
  <2> QED
    BY <1>1, <2>1, <2>2 DEF LocalDeploy
<1>2. ASSUME NEW c \in Caller, LocalRestart(c) PROVE LocalInv'
  <2> DEFINE t == Target(c)
             new == Stopped(dep, t)
  <2>0. step[c] = "new" /\ order' = order /\ t = order[c].of /\ deployLock # c
    BY <1>2 DEF LocalRestart, Target, LocalInv, CallsOK
  <2>1. CASE Return(c, KeyError) /\ UNCHANGED <<made, dep>>
    BY <1>0, <2>0, <2>1, OthersKeep DEF Return, LocalInv, LocalTypeOK
  <2>2. ASSUME Known(t) PROVE /\ RowsOK(new, made) /\ t \in 1 .. made
                              /\ \A e \in Slot : new[e].status \in {"running", "starting"} =>
                                     new[e] = dep[e]
    BY <1>0, <2>2, StoppedRows DEF Known
  <2>3. CASE Known(t) /\ LockFree(c) /\ DeployBody(c, new)
    <3>1. NoneStarts(new)
      BY <2>2, <2>3 DEF NoneStarts, LockFree, LocalInv
    <3> HIDE DEF new
    <3> QED
      BY <2>0, <2>2, <2>3, <3>1, DeployBodyKeeps DEF LockFree
  <2>4. CASE Known(t) /\ dep' = new /\ Wait(c, "lock") /\ UNCHANGED <<made, deployLock>>
    <3>1. /\ step' = [step EXCEPT ![c] = "lock"] /\ dep' = new
          /\ result' = [result EXCEPT ![c] = result[c]]
          /\ result[c] \in Slot \cup {NoSlot, KeyError}
      BY <2>4, UnchangedResult DEF Wait
    <3>2. RowsOK(dep', made) /\ order[c].of \in 1 .. made
      BY <2>0, <2>2, <2>4
    <3>3. \A e \in Slot : dep'[e].status \in {"running", "starting"} =>
                               dep'[e].status = dep[e].status
      BY <2>2, <2>4
    <3> QED
      BY <2>0, <2>4, <3>1, <3>2, <3>3, OthersKeep
  <2> QED
    BY <1>2, <2>1, <2>3, <2>4 DEF LocalRestart
<1>3. ASSUME NEW c \in Caller, LocalAcquire(c) PROVE LocalInv'
  BY <1>0, <1>3, DeployBodyKeeps DEF LocalInv, CallsOK, LocalAcquire, LockFree, NoneStarts
<1>4. ASSUME NEW c \in Caller, LocalStarted(c) PROVE LocalInv'
  <2> DEFINE d == result[c]
             up == [dep EXCEPT ![d].status = "running"]
             down == [dep EXCEPT ![d] = [status |-> "failed", process |-> "none"]]
  <2>1. /\ d \in Slot /\ d <= made /\ deployLock = c /\ made \in made .. MaxDeployments
        /\ UNCHANGED <<made, order>> /\ Idle
        /\ order[c].op = "restart" => order[c].of \in 1 .. made
        /\ \A e \in Slot : dep[e].status = "starting" => e = d
    BY <1>0, <1>4 DEF LocalStarted, LocalInv, CallsOK, LocalTypeOK, Slot
  <2>2. CASE dep[d].process = "healthy" /\ ReturnDeployed(c, up, d)
    <3>0. up = [dep EXCEPT ![d] = [status |-> "running", process |-> dep[d].process]]
      <4>1. dep[d] \in DepRow
        BY <1>0, <2>1 DEF RowsOK
      <4>2. [dep[d] EXCEPT !.status = "running"]
                = [status |-> "running", process |-> dep[d].process]
        BY <4>1 DEF DepRow
      <4> QED
        BY <4>2
    <3>1. RowsOK(up, made) /\ NoneStarts(up)
      BY <1>0, <2>1, <3>0 DEF RowsOK, NoneStarts, DepRow, Idle, Slot
    <3> HIDE DEF up, d
    <3> QED
      BY <2>1, <2>2, <3>1, EndOfDeploy
  <2>3. CASE ReturnDeployed(c, down, d)
    <3>1. RowsOK(down, made) /\ NoneStarts(down)
      BY <1>0, <2>1 DEF RowsOK, NoneStarts, DepRow, Idle, Slot
    <3> HIDE DEF down, d
    <3> QED
      BY <2>1, <2>3, <3>1, EndOfDeploy
  <2> QED
    BY <1>4, <2>2, <2>3 DEF LocalStarted
<1>5. ASSUME NEW c \in Caller, LocalStop(c) PROVE LocalInv'
  <2> DEFINE t == order[c].of
             new == Stopped(dep, t)
  <2>0. step[c] = "new" /\ UNCHANGED <<made, order>> /\ deployLock # c
    BY <1>5 DEF LocalStop, LocalInv, CallsOK
  <2>1. CASE Return(c, KeyError) /\ UNCHANGED dep
    BY <1>0, <2>0, <2>1, OthersKeep DEF Return, LocalInv, LocalTypeOK
  <2>2. CASE Known(t) /\ dep' = new /\ Return(c, t)
    <3>1. /\ RowsOK(new, made) /\ t \in Slot
          /\ \A e \in Slot : new[e].status \in {"running", "starting"} => new[e] = dep[e]
      BY <1>0, <2>2, StoppedRows DEF Known
    <3> HIDE DEF new, t
    <3> QED
      BY <2>0, <2>2, <3>1, OthersKeep DEF Return, LocalInv, LocalTypeOK
  <2> QED
    BY <1>5, <2>1, <2>2 DEF LocalStop
<1>6. ASSUME NEW c \in Caller, LocalStatus(c) PROVE LocalInv'
  <2> DEFINE t == order[c].of
  <2>0. step[c] = "new" /\ UNCHANGED <<made, order>> /\ deployLock # c
    BY <1>6 DEF LocalStatus, LocalInv, CallsOK
  <2>1. \E v \in Slot \cup {KeyError} : Return(c, v)
    BY <1>6 DEF LocalStatus, Known
  <2>2. RowsOK(dep', made) /\ \A d \in Slot : dep'[d].status \in {"running", "starting"} =>
                                                  dep'[d].status = dep[d].status
    BY <1>0, <1>6 DEF LocalStatus, Known, RowsOK, DepRow, Unknown
  <2> QED
    BY <2>0, <2>1, <2>2, OthersKeep DEF Return, LocalInv, LocalTypeOK
<1>7. ASSUME NEW c \in Caller, LocalShutdown(c) PROVE LocalInv'
  <2>0. step[c] = "new" /\ UNCHANGED <<made, order>> /\ deployLock # c /\ Return(c, NoSlot)
    BY <1>7 DEF LocalShutdown, LocalInv, CallsOK
  <2>1. RowsOK(dep', made) /\ \A d \in Slot : dep'[d].status \notin {"running", "starting"}
    BY <1>0, <1>7 DEF LocalShutdown, RowsOK, DepRow, Unknown
  <2> QED
    BY <2>0, <2>1, OthersKeep DEF Return, LocalInv, LocalTypeOK
<1>8. ASSUME NEW d \in Slot, ProcessHealthy(d) \/ ProcessExits(d) PROVE LocalInv'
  <2>0. UNCHANGED <<made, order, step, deployLock, result>> /\ dep[d].process \in {"young", "healthy"}
    BY <1>8 DEF ProcessHealthy, ProcessExits, Alive
  <2>1. PICK p \in {"healthy", "exited"} : dep' = [dep EXCEPT ![d].process = p]
    BY <1>8 DEF ProcessHealthy, ProcessExits
  <2>2. dep' = [dep EXCEPT ![d] = [status |-> dep[d].status, process |-> p]]
    <3>1. dep[d] \in DepRow
      BY <1>0 DEF RowsOK
    <3>2. [dep[d] EXCEPT !.process = p] = [status |-> dep[d].status, process |-> p]
      BY <3>1 DEF DepRow
    <3> QED
      BY <2>1, <3>2
  <2>3. RowsOK(dep', made) /\ \A e \in Slot : dep'[e].status = dep[e].status
    BY <1>0, <2>0, <2>2 DEF RowsOK, DepRow, Unknown
  <2>4. LocalTypeOK' /\ CallsOK'
    BY <2>0, <2>3 DEF LocalInv, LocalTypeOK, CallsOK, RowsOK
  <2> QED
    BY <2>0, <2>3, <2>4 DEF LocalInv, Idle
<1>9. CASE UNCHANGED localVars
  BY <1>9 DEF localVars, LocalInv, LocalTypeOK, RowsOK, CallsOK, Idle
<1> QED
  BY <1>1, <1>2, <1>3, <1>4, <1>5, <1>6, <1>7, <1>8, <1>9 DEF LocalNext

\* The inductive invariant of the provider of deployment.py, whatever its calls.
THEOREM LocalInvariant == LocalSpec => []LocalInv
  BY LocalStarts, LocalKept, PTL DEF LocalSpec

\* However deploys, restarts and stops overlap, one process of the agent is alive
\* at most: the lock of deploy covers the start, and restart stops what it replaces.
THEOREM OneProcessAlive == LocalSpec => []OneProcess
  BY LocalInvariant, OneAlive, PTL

\* The rows, the lock, the calls and what they return keep their types.
THEOREM LocalTypes == LocalSpec => []LocalTypeOK
  BY LocalInvariant, PTL DEF LocalInv
=============================================================================
