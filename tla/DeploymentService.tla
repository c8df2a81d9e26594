------------------------- MODULE DeploymentService -------------------------
(***************************************************************************)
(* DeploymentService over the Kubernetes provider: deploy, stop, restart,  *)
(* rollback and status of one agent's deployments, served by several       *)
(* Control Plane replicas that share PostgreSQL and the cluster, and the   *)
(* reconciliation watcher each replica runs.                               *)
(*                                                                         *)
(* Every await of the code is a step boundary.  The lease is a LeaseTable, *)
(* as that of DeploymentOwnership is: a key has at most one live owner, it *)
(* can expire at any moment unless renewed, and an expired key can be      *)
(* taken over.  A kubectl call acts on the cluster in one step, and its    *)
(* answer reaches the provider's objects in a later one.                   *)
(***************************************************************************)
EXTENDS Naturals, FiniteSets

CONSTANTS Op,          \* the requests, one operation each
          Mixes,       \* the kinds the requests may be of, each a [Op -> Kinds]
          Replica,     \* Control Plane processes
          Watching,    \* bound: the replicas whose watcher runs
          Dep,         \* deployment ids: uuid4, bound on the launches
          Agent,       \* the ownership key "agent:<id>"
          NoOp,        \* the owner of a free key or lock
          NoDep,       \* no deployment
          MaxVersion,  \* bound on the agent's versions
          MaxFaults    \* bound on crashes, failed rounds, leases lost while in use

Kinds == {"deploy", "stop", "restart", "rollback", "status"}

ASSUME MixesAssumption == Mixes \subseteq [Op -> Kinds]
ASSUME WatchingAssumption == Watching \subseteq Replica
ASSUME AgentAssumption == Agent \notin Dep /\ NoDep \notin Dep
ASSUME NoOpAssumption == NoOp \notin Op
ASSUME BoundsAssumption == MaxVersion \in Nat \ {0} /\ MaxFaults \in Nat

VARIABLES
    head,      \* the agent's current version
    active,    \* the agent's status is active
    records,   \* records[d]: the durable DeploymentRecord
    workload,  \* workload[d]: the Kubernetes Deployment
    cache,     \* cache[r][d]: status of the provider's object for d on r
    lease,     \* lease[k]: the owner of ownership key k
    lock,      \* lock[r]: who holds the agent's asyncio lock on r
    op,        \* op[o]: the state of request o
    watch,     \* watch[r]: the round of r's watcher
    faults     \* crashes and failed rounds so far

agentVars == <<head, active>>
vars == <<agentVars, records, workload, cache, lease, lock, op, watch, faults>>

Phases == {"starting", "running", "stopped", "failed"}
Keys == Dep \cup {Agent}
Ended == {"ok", "busy", "lost", "failed", "crashed"}
Asserting == {"entered", "launching", "launched", "acted", "reading"}
Persisting == {"persisting", "persistingOld"}
Launching == {"deploying", "applying", "rollout", "rolledOut"}
Acting == {"acting", "actGot", "scaling", "scaled", "rolling", "rolled", "awaiting", "settled"}
Owned == Asserting \cup Persisting \cup Launching \cup Acting
         \cup {"listing", "probing", "probeGot", "targeting", "refreshing", "refreshGot"}
Pcs == {"new", "locking", "acquiring", "leaving", "observeGot", "observed", "upserting"}
       \cup Owned \cup Ended

TypeOK ==
    /\ head \in 1..MaxVersion
    /\ active \in BOOLEAN
    /\ records \in [Dep -> [version : 0..MaxVersion, status : Phases \cup {"none"}]]
    /\ workload \in [Dep -> [version : 0..MaxVersion, phase : Phases \cup {"none"}]]
    /\ cache \in [Replica -> [Dep -> Phases \cup {"none"}]]
    /\ lease \in [Keys -> [op : Op \cup {NoOp}, live : BOOLEAN]]
    /\ lock \in [Replica -> Op \cup {NoOp}]
    /\ \A o \in Op :
         /\ op[o].pc \in Pcs
         /\ op[o].kind \in Kinds
         /\ op[o].rep \in Replica
         /\ {op[o].dep, op[o].new} \subseteq Dep \cup {NoDep}
         /\ op[o].ver \in 0..MaxVersion
         /\ op[o].obs \in Phases \cup {"none"}
         /\ op[o].err \in {"none", "lost", "failed"}
         /\ op[o].cand \subseteq Dep
    /\ \A r \in Replica :
         /\ watch[r].todo \cup watch[r].seen \subseteq Dep
         /\ watch[r].at \in Dep \cup {NoDep}
         /\ watch[r].obs \in Phases \cup {"none"}
    /\ faults \in 0..MaxFaults

Idle == [pc |-> "idle", todo |-> {}, seen |-> {}, at |-> NoDep, obs |-> "none"]
Free == [op |-> NoOp, live |-> FALSE]

Init ==
    /\ head = 1
    /\ active = TRUE
    /\ records = [d \in Dep |-> [version |-> 0, status |-> "none"]]
    /\ workload = [d \in Dep |-> [version |-> 0, phase |-> "none"]]
    /\ cache = [r \in Replica |-> [d \in Dep |-> "none"]]
    /\ lease = [k \in Keys |-> Free]
    /\ lock = [r \in Replica |-> NoOp]
    /\ \E mix \in Mixes, at \in [Op -> Replica] :
         op = [o \in Op |-> [pc |-> "new", kind |-> mix[o], rep |-> at[o],
                             dep |-> NoDep, new |-> NoDep, ver |-> 0, obs |-> "none",
                             err |-> "none", cand |-> {}]]
    /\ watch = [r \in Replica |-> Idle]
    /\ faults = 0

-----------------------------------------------------------------------------
\* Helpers

Known(d) == records[d].status # "none"
Exists(d) == workload[d].phase # "none"

\* o moves on to p; o changes the fields of its state and moves on.
Go(o, p) == op' = [op EXCEPT ![o].pc = p]
Become(o, s) == op' = [op EXCEPT ![o] = s]

\* The body raises: whatever it was doing, it goes on to release its lease.
Leave(o, why) ==
    op' = [op EXCEPT ![o].pc = "leaving", ![o].err = why, ![o].obs = "none", ![o].cand = {}]

\* Mutant: the agent lock is never freed.
FinishKeepsLock(o, result) ==
    /\ op' = [op EXCEPT ![o].pc = result, ![o].obs = "none", ![o].err = "none"]
    /\ UNCHANGED lock

\* The request is over: the agent lock, if o holds one, is free again.
Finish(o, result) ==
    /\ op' = [op EXCEPT ![o].pc = result, ![o].obs = "none", ![o].err = "none"]
    /\ lock' = [r \in Replica |-> IF lock[r] = o THEN NoOp ELSE lock[r]]

\* The ownership key o works on, and whether o still owns it.
Key(o) == IF op[o].kind = "deploy" THEN Agent ELSE op[o].dep
Current(o) == lease[Key(o)] = [op |-> o, live |-> TRUE]

\* The provider on o's replica notes the status s of d.
Note(o, d, s) == cache' = [cache EXCEPT ![op[o].rep][d] = s]

\* The status o reads from the provider's object: the one in the provider's
\* map, unless a listing has replaced that object since o got it.
Readings(o, d) == {op[o].obs, cache[op[o].rep][d]} \ {"none"}

\* An upsert sets the status; the version is that of the first insert.
Upsert(d, ver, s) ==
    records' = [records EXCEPT ![d] =
                  [version |-> IF Known(d) THEN @.version ELSE ver, status |-> s]]

\* A deployment id nobody has used.
Unused(d) ==
    /\ ~Known(d) /\ ~Exists(d)
    /\ \A r \in Replica : cache[r][d] = "none"
    /\ \A p \in Op : op[p].new # d

-----------------------------------------------------------------------------
\* Requests arrive

\* deploy waits for the agent lock of its replica.
RequestDeploy(o) ==
    /\ op[o].pc = "new" /\ op[o].kind = "deploy"
    /\ Go(o, "locking")
    /\ UNCHANGED <<agentVars, records, workload, cache, lease, lock, watch, faults>>

\* stop, restart and rollback find the record of d; rollback then waits for
\* the agent lock.
RequestChange(o, d) ==
    /\ op[o].pc = "new" /\ op[o].kind \in {"stop", "restart", "rollback"}
    /\ Known(d)
    /\ Become(o, [op[o] EXCEPT !.dep = d,
                    !.pc = IF op[o].kind = "rollback" THEN "locking" ELSE "acquiring"])
    /\ UNCHANGED <<agentVars, records, workload, cache, lease, lock, watch, faults>>

\* status asks the provider for the workload d.
RequestStatus(o, d) ==
    /\ op[o].pc = "new" /\ op[o].kind = "status"
    /\ Exists(d)
    /\ Become(o, [op[o] EXCEPT !.dep = d, !.obs = workload[d].phase, !.pc = "observeGot"])
    /\ UNCHANGED <<agentVars, records, workload, cache, lease, lock, watch, faults>>

\* The agent lock is free: deploy reads the agent, which must be active, and
\* deploys the version that is current now.
LockAgent(o) ==
    /\ op[o].pc = "locking"
    /\ lock[op[o].rep] = NoOp
    /\ IF op[o].kind = "deploy" /\ ~active
       THEN Finish(o, "failed")
       ELSE /\ lock' = [lock EXCEPT ![op[o].rep] = o]
            /\ Become(o, [op[o] EXCEPT !.pc = "acquiring",
                            !.ver = IF op[o].kind = "deploy" THEN head ELSE 0])
    /\ UNCHANGED <<agentVars, records, workload, cache, lease, watch, faults>>

\* acquire: the key is free, or its lease has expired.
Acquire(o) ==
    /\ op[o].pc = "acquiring"
    /\ ~lease[Key(o)].live
    /\ lease' = [lease EXCEPT ![Key(o)] = [op |-> o, live |-> TRUE]]
    /\ Go(o, "entered")
    /\ UNCHANGED <<agentVars, records, workload, cache, lock, watch, faults>>

\* Another operation owns the key, or acquire raises.
AcquireFails(o) ==
    /\ op[o].pc = "acquiring"
    /\ Finish(o, IF lease[Key(o)].live THEN "busy" ELSE "failed")
    /\ UNCHANGED <<agentVars, records, workload, cache, lease, watch, faults>>

\* A heartbeat whose transaction began before the lease expired comes through
\* after that, and nobody has taken the key over.
Renew(o) ==
    /\ op[o].pc \in Owned
    /\ lease[Key(o)] = [op |-> o, live |-> FALSE]
    /\ lease' = [lease EXCEPT ![Key(o)].live = TRUE]
    /\ UNCHANGED <<agentVars, records, workload, cache, lock, op, watch, faults>>

-----------------------------------------------------------------------------
\* Ownership checks

\* What the body does when an _assert_owned passes.
AfterAssert(o) ==
    CASE op[o].pc = "entered" ->
           [deploy |-> "listing", stop |-> "acting", restart |-> "acting",
            rollback |-> "targeting"][op[o].kind]
      [] op[o].pc = "launching" -> "deploying"
      [] op[o].pc = "acted" -> IF op[o].kind = "rollback" THEN "persistingOld" ELSE "refreshing"
      [] op[o].pc \in {"launched", "reading"} -> "persisting"

\* The object whose status is read once the check has passed, to be persisted.
Reported(o) ==
    CASE op[o].pc = "launched" -> op[o].new
      [] op[o].pc = "reading" \/ (op[o].pc = "acted" /\ op[o].kind = "rollback") -> op[o].dep
      [] OTHER -> NoDep

\* _assert_owned passes; some checks are followed by reading the status.
AssertOwned(o) ==
    /\ op[o].pc \in Asserting
    /\ Current(o)
    /\ \E s \in IF Reported(o) = NoDep THEN {op[o].obs} ELSE Readings(o, Reported(o)) :
         Become(o, [op[o] EXCEPT !.pc = AfterAssert(o), !.obs = s])
    /\ UNCHANGED <<agentVars, records, workload, cache, lease, lock, watch, faults>>

\* Mutant: the answer of upsert_if_owned is not looked at.
OwnershipLossIgnored(o) ==
    /\ op[o].pc \in Asserting \cup Persisting
    /\ ~Current(o)
    /\ Leave(o, IF op[o].pc \in Persisting THEN "none" ELSE "lost")
    /\ UNCHANGED <<agentVars, records, workload, cache, lease, lock, watch, faults>>

\* _assert_owned, or upsert_if_owned, finds the lease gone.
OwnershipLost(o) ==
    /\ op[o].pc \in Asserting \cup Persisting
    /\ ~Current(o)
    /\ Leave(o, "lost")
    /\ UNCHANGED <<agentVars, records, workload, cache, lease, lock, watch, faults>>

\* Any other exception of the body: a repository error, kubectl failing, a
\* missing agent, version or workload, resources or bundle that cannot be
\* built, or the cancellation of the request.
Raises(o) ==
    /\ op[o].pc \in Owned
    /\ Leave(o, "failed")
    /\ UNCHANGED <<agentVars, records, workload, cache, lease, lock, watch, faults>>

\* Under the row lock of the lease the record is written.  rollback persists
\* the stopped deployment first and goes on to launch its replacement.
Persist(o) ==
    /\ op[o].pc \in Persisting
    /\ Current(o)
    /\ LET d == IF op[o].pc = "persisting" /\ op[o].kind \in {"deploy", "rollback"}
                THEN op[o].new ELSE op[o].dep
       IN  Upsert(d, op[o].ver, op[o].obs)
    /\ Become(o, [op[o] EXCEPT !.pc = IF @ = "persisting" THEN "leaving" ELSE "launching",
                                !.obs = "none"])
    /\ UNCHANGED <<agentVars, workload, cache, lease, lock, watch, faults>>

\* Mutant: release does not look at the fence.
ReleaseAnybody(o) ==
    /\ op[o].pc = "leaving"
    /\ lease' = [lease EXCEPT ![Key(o)] = Free]
    /\ Finish(o, IF op[o].err = "none" THEN "ok" ELSE op[o].err)
    /\ UNCHANGED <<agentVars, records, workload, cache, watch, faults>>

\* release finds o's fence in the row, live or not, and clears it.
Release(o) ==
    /\ op[o].pc = "leaving"
    /\ lease[Key(o)].op = o
    /\ lease' = [lease EXCEPT ![Key(o)] = Free]
    /\ Finish(o, IF op[o].err = "none" THEN "ok" ELSE op[o].err)
    /\ UNCHANGED <<agentVars, records, workload, cache, watch, faults>>

\* The key was taken over, or release raises: the lease, if any, must expire.
ReleaseFails(o) ==
    /\ op[o].pc = "leaving"
    /\ Finish(o, "lost")
    /\ UNCHANGED <<agentVars, records, workload, cache, lease, watch, faults>>

-----------------------------------------------------------------------------
\* deploy, and the second half of rollback

\* The records of the current version that say running.
ListRecords(o) ==
    /\ op[o].pc = "listing"
    /\ Become(o, [op[o] EXCEPT !.pc = "probing",
                    !.cand = {d \in Dep : records[d] = [version |-> op[o].ver,
                                                        status |-> "running"]}])
    /\ UNCHANGED <<agentVars, records, workload, cache, lease, lock, watch, faults>>

\* One of them is asked for its status ...
Probe(o, d) ==
    /\ op[o].pc = "probing"
    /\ d \in op[o].cand
    /\ Become(o, [op[o] EXCEPT !.pc = "probeGot", !.new = d, !.obs = workload[d].phase])
    /\ UNCHANGED <<agentVars, records, workload, cache, lease, lock, watch, faults>>

\* ... and a running one is the answer: nothing is launched or persisted.
ProbeAnswer(o) ==
    /\ op[o].pc = "probeGot"
    /\ Note(o, op[o].new, op[o].obs)
    /\ Become(o, IF op[o].obs = "running"
                 THEN [op[o] EXCEPT !.pc = "leaving", !.obs = "none", !.cand = {}]
                 ELSE [op[o] EXCEPT !.pc = "probing", !.obs = "none", !.new = NoDep,
                                    !.cand = @ \ {op[o].new}])
    /\ UNCHANGED <<agentVars, records, workload, lease, lock, watch, faults>>

\* None is running: resources are reconciled and the bundle is exported.
Probed(o) ==
    /\ op[o].pc = "probing"
    /\ op[o].cand = {}
    /\ Go(o, "launching")
    /\ UNCHANGED <<agentVars, records, workload, cache, lease, lock, watch, faults>>

\* rollback picks its target among the agent's versions.
PickVersion(o, v) ==
    /\ op[o].pc = "targeting"
    /\ v <= head
    /\ Become(o, [op[o] EXCEPT !.pc = "acting", !.ver = v])
    /\ UNCHANGED <<agentVars, records, workload, cache, lease, lock, watch, faults>>

\* Mutant: the version is not compared.
SameAgentOnly(o) == {d \in Dep : cache[op[o].rep][d] = "running"}

\* Objects of the provider on o's replica that it takes for what o wants.
SameDeployment(o) ==
    {d \in Dep : cache[op[o].rep][d] = "running" /\ workload[d].version = op[o].ver}

\* provider.deploy knows of a running deployment of that version ...
DeployKnown(o) ==
    /\ op[o].pc = "deploying"
    /\ \E d \in SameDeployment(o) :
         Become(o, [op[o] EXCEPT !.pc = "launched", !.new = d, !.obs = "running"])
    /\ UNCHANGED <<agentVars, records, workload, cache, lease, lock, watch, faults>>

\* ... or it gives out a new id.
DeployNew(o) ==
    /\ op[o].pc = "deploying"
    /\ SameDeployment(o) = {}
    /\ \E d \in Dep :
         /\ Unused(d)
         /\ Note(o, d, "starting")
         /\ Become(o, [op[o] EXCEPT !.pc = "applying", !.new = d])
    /\ UNCHANGED <<agentVars, records, workload, lease, lock, watch, faults>>

\* kubectl apply creates the workload; the answer may be an error all the same.
Apply(o) ==
    /\ op[o].pc = "applying"
    /\ workload' = [workload EXCEPT ![op[o].new] =
                      [version |-> op[o].ver, phase |-> "starting"]]
    /\ Go(o, "rollout")
    /\ UNCHANGED <<agentVars, records, cache, lease, lock, watch, faults>>

\* The rollout is complete: the ready replicas are those the workload asks for.
Settled(d) == workload[d].phase \in {"running", "stopped"}

RolloutSettles(o) ==
    /\ op[o].pc = "rollout"
    /\ Settled(op[o].new)
    /\ Go(o, "rolledOut")
    /\ UNCHANGED <<agentVars, records, workload, cache, lease, lock, watch, faults>>

RolloutDone(o) ==
    /\ op[o].pc = "rolledOut"
    /\ Note(o, op[o].new, "running")
    /\ Become(o, [op[o] EXCEPT !.pc = "launched", !.obs = "running"])
    /\ UNCHANGED <<agentVars, records, workload, lease, lock, watch, faults>>

\* apply or the wait for the rollout fails: deploy answers a failed deployment.
LaunchFails(o) ==
    /\ op[o].pc \in {"applying", "rollout"}
    /\ Note(o, op[o].new, "failed")
    /\ Become(o, [op[o] EXCEPT !.pc = "launched", !.obs = "failed"])
    /\ UNCHANGED <<agentVars, records, workload, lease, lock, watch, faults>>

-----------------------------------------------------------------------------
\* stop and restart

\* provider.stop and provider.restart ask for the status first.
ActStatus(o) ==
    /\ op[o].pc = "acting"
    /\ Exists(op[o].dep)
    /\ Become(o, [op[o] EXCEPT !.pc = "actGot", !.obs = workload[op[o].dep].phase])
    /\ UNCHANGED <<agentVars, records, workload, cache, lease, lock, watch, faults>>

\* kubectl scale --replicas=0.
ScaleToZero(o) ==
    /\ op[o].pc = "scaling"
    /\ workload' = [workload EXCEPT ![op[o].dep].phase = "stopped"]
    /\ Go(o, "scaled")
    /\ UNCHANGED <<agentVars, records, cache, lease, lock, watch, faults>>

\* kubectl rollout restart replaces the pods; zero replicas have none.
RolloutRestart(o) ==
    /\ op[o].pc = "rolling"
    /\ workload' = [workload EXCEPT ![op[o].dep].phase =
                      IF @ = "stopped" THEN "stopped" ELSE "starting"]
    /\ Go(o, "rolled")
    /\ UNCHANGED <<agentVars, records, cache, lease, lock, watch, faults>>

\* The rollout of the restart is complete.
RestartSettles(o) ==
    /\ op[o].pc = "awaiting"
    /\ Settled(op[o].dep)
    /\ Go(o, "settled")
    /\ UNCHANGED <<agentVars, records, workload, cache, lease, lock, watch, faults>>

\* _refresh_status_owned asks for the status again.
Refresh(o) ==
    /\ op[o].pc = "refreshing"
    /\ Become(o, [op[o] EXCEPT !.pc = "refreshGot", !.obs = workload[op[o].dep].phase])
    /\ UNCHANGED <<agentVars, records, workload, cache, lease, lock, watch, faults>>

\* Mutant: the object is marked stopped, the workload is not scaled.
AfterAnswerUnscaled ==
    [observeGot |-> "observed", actGot |-> "scaled", scaled |-> "acted",
     rolled |-> "awaiting", settled |-> "acted", refreshGot |-> "reading"]

\* What comes after the answer to a kubectl call about o's deployment, and what
\* the answer puts into the provider's object.
AfterAnswer ==
    [observeGot |-> "observed", actGot |-> "scaling", scaled |-> "acted",
     rolled |-> "awaiting", settled |-> "acted", refreshGot |-> "reading"]

AnswerStatus(o) ==
    CASE op[o].pc = "scaled" -> "stopped"
      [] op[o].pc = "rolled" -> "starting"
      [] op[o].pc = "settled" -> "running"
      [] OTHER -> op[o].obs

\* The answer arrives.
Answer(o) ==
    /\ op[o].pc \in DOMAIN AfterAnswer
    /\ Note(o, op[o].dep, AnswerStatus(o))
    /\ Become(o, [op[o] EXCEPT !.obs = AnswerStatus(o),
                    !.pc = IF @ = "actGot" /\ op[o].kind = "restart"
                           THEN "rolling" ELSE AfterAnswer[@]])
    /\ UNCHANGED <<agentVars, records, workload, lease, lock, watch, faults>>

-----------------------------------------------------------------------------
\* status: no lease, no fence

\* Mutant: a deployment without a record is recorded.
StatusAdopts(o) ==
    /\ op[o].pc = "observed"
    /\ \E s \in Readings(o, op[o].dep) :
         Become(o, [op[o] EXCEPT !.pc = "upserting", !.obs = s])
    /\ UNCHANGED <<agentVars, records, workload, cache, lease, lock, watch, faults>>

\* The record is read and given the observed status ...
StatusRead(o) ==
    /\ op[o].pc = "observed"
    /\ IF Known(op[o].dep)
       THEN \E s \in Readings(o, op[o].dep) :
              Become(o, [op[o] EXCEPT !.pc = "upserting", !.obs = s])
       ELSE Go(o, "failed")
    /\ UNCHANGED <<agentVars, records, workload, cache, lease, lock, watch, faults>>

\* ... and written back.
StatusWrite(o) ==
    /\ op[o].pc = "upserting"
    /\ Upsert(op[o].dep, 0, op[o].obs)
    /\ Become(o, [op[o] EXCEPT !.pc = "ok", !.obs = "none"])
    /\ UNCHANGED <<agentVars, workload, cache, lease, lock, watch, faults>>

-----------------------------------------------------------------------------
\* The watcher of replica r: reconcile_provider_state, round after round

\* kubectl get deployments.
WatchList(r) ==
    /\ watch[r].pc = "idle"
    /\ watch' = [watch EXCEPT ![r] = [Idle EXCEPT !.pc = "listing",
                                        !.todo = {d \in Dep : Exists(d)}]]
    /\ UNCHANGED <<agentVars, records, workload, cache, lease, lock, op, faults>>

\* The next item replaces the provider's object for d, which is "starting"
\* until its status is known.
WatchReplace(r, d) ==
    /\ watch[r].pc = "listing"
    /\ d \in watch[r].todo
    /\ cache' = [cache EXCEPT ![r][d] = "starting"]
    /\ watch' = [watch EXCEPT ![r].pc = "probing", ![r].at = d, ![r].todo = @ \ {d}]
    /\ UNCHANGED <<agentVars, records, workload, lease, lock, op, faults>>

WatchProbe(r) ==
    /\ watch[r].pc = "probing"
    /\ watch' = [watch EXCEPT ![r].pc = "probeGot", ![r].obs = workload[watch[r].at].phase]
    /\ UNCHANGED <<agentVars, records, workload, cache, lease, lock, op, faults>>

WatchAnswer(r) ==
    /\ watch[r].pc = "probeGot"
    /\ cache' = [cache EXCEPT ![r][watch[r].at] = watch[r].obs]
    /\ watch' = [watch EXCEPT ![r].pc = "listing", ![r].at = NoDep, ![r].obs = "none",
                              ![r].seen = @ \cup {watch[r].at}]
    /\ UNCHANGED <<agentVars, records, workload, lease, lock, op, faults>>

\* Mutant: a stopped workload is passed over.
WatchSkipsStopped(r, d) ==
    /\ watch[r].pc = "listing" /\ watch[r].todo = {}
    /\ d \in watch[r].seen
    /\ watch' = [watch EXCEPT ![r] =
                   IF Known(d) /\ cache[r][d] # "stopped"
                   THEN [@ EXCEPT !.pc = "writing", !.at = d, !.obs = cache[r][d],
                                  !.seen = watch[r].seen \ {d}]
                   ELSE [@ EXCEPT !.seen = watch[r].seen \ {d}]]
    /\ UNCHANGED <<agentVars, records, workload, cache, lease, lock, op, faults>>

\* All are listed: the record of one of them is read, if it has one, and given
\* the status of the object.
WatchRead(r, d) ==
    /\ watch[r].pc = "listing" /\ watch[r].todo = {}
    /\ d \in watch[r].seen
    /\ watch' = [watch EXCEPT ![r] =
                   IF Known(d)
                   THEN [@ EXCEPT !.pc = "writing", !.at = d, !.obs = cache[r][d],
                                  !.seen = watch[r].seen \ {d}]
                   ELSE [@ EXCEPT !.seen = watch[r].seen \ {d}]]
    /\ UNCHANGED <<agentVars, records, workload, cache, lease, lock, op, faults>>

WatchWrite(r) ==
    /\ watch[r].pc = "writing"
    /\ Upsert(watch[r].at, 0, watch[r].obs)
    /\ watch' = [watch EXCEPT ![r].pc = "listing", ![r].at = NoDep, ![r].obs = "none"]
    /\ UNCHANGED <<agentVars, workload, cache, lease, lock, op, faults>>

\* The round is over.
WatchSleep(r) ==
    /\ watch[r].pc = "listing" /\ watch[r].todo = {} /\ watch[r].seen = {}
    /\ watch' = [watch EXCEPT ![r] = Idle]
    /\ UNCHANGED <<agentVars, records, workload, cache, lease, lock, op, faults>>

\* A provider or database error ends the round; the watcher survives it.
WatchFails(r) ==
    /\ watch[r].pc # "idle"
    /\ faults < MaxFaults
    /\ faults' = faults + 1
    /\ watch' = [watch EXCEPT ![r] = Idle]
    /\ UNCHANGED <<agentVars, records, workload, cache, lease, lock, op>>

-----------------------------------------------------------------------------
\* The environment

\* The pods of d become ready, or do not, or stop being ready.
PodsReady(d) ==
    /\ workload[d].phase = "starting"
    /\ workload' = [workload EXCEPT ![d].phase = "running"]
    /\ UNCHANGED <<agentVars, records, cache, lease, lock, op, watch, faults>>

PodsFail(d) ==
    /\ workload[d].phase = "starting"
    /\ workload' = [workload EXCEPT ![d].phase = "failed"]
    /\ UNCHANGED <<agentVars, records, cache, lease, lock, op, watch, faults>>

PodsLost(d) ==
    /\ workload[d].phase \in {"running", "failed"}
    /\ workload' = [workload EXCEPT ![d].phase = "starting"]
    /\ UNCHANGED <<agentVars, records, cache, lease, lock, op, watch, faults>>

\* A lease expires: that of a request that is no more, since nobody renews it,
\* or that of a running one whose heartbeats fail.
Expire(k) ==
    /\ lease[k].live
    /\ lease' = [lease EXCEPT ![k].live = FALSE]
    /\ IF op[lease[k].op].pc \in Ended
       THEN UNCHANGED faults
       ELSE faults < MaxFaults /\ faults' = faults + 1
    /\ UNCHANGED <<agentVars, records, workload, cache, lock, op, watch>>

\* The agent gets a new current version; it is disabled.
AddVersion ==
    /\ head < MaxVersion
    /\ head' = head + 1
    /\ UNCHANGED <<active, records, workload, cache, lease, lock, op, watch, faults>>

Disable ==
    /\ active
    /\ active' = FALSE
    /\ UNCHANGED <<head, records, workload, cache, lease, lock, op, watch, faults>>

\* Replica r dies and starts again: its requests, locks and objects are gone.
Crash(r) ==
    /\ faults < MaxFaults
    /\ faults' = faults + 1
    /\ op' = [o \in Op |-> IF op[o].rep = r /\ op[o].pc \notin Ended \cup {"new"}
                           THEN [op[o] EXCEPT !.pc = "crashed", !.obs = "none",
                                             !.err = "none", !.cand = {}]
                           ELSE op[o]]
    /\ cache' = [cache EXCEPT ![r] = [d \in Dep |-> "none"]]
    /\ lock' = [lock EXCEPT ![r] = NoOp]
    /\ watch' = [watch EXCEPT ![r] = Idle]
    /\ UNCHANGED <<agentVars, records, workload, lease>>

-----------------------------------------------------------------------------
Request(o) ==
    \/ RequestDeploy(o)
    \/ \E d \in Dep : RequestChange(o, d) \/ RequestStatus(o, d)

\* What a request does on its own once it has arrived.
Proceed(o) ==
    \/ LockAgent(o) \/ Acquire(o) \/ AcquireFails(o)
    \/ AssertOwned(o) \/ OwnershipLost(o) \/ Raises(o)
    \/ Persist(o) \/ Release(o) \/ ReleaseFails(o)
    \/ ListRecords(o) \/ (\E d \in Dep : Probe(o, d)) \/ ProbeAnswer(o) \/ Probed(o)
    \/ (\E v \in 1..MaxVersion : PickVersion(o, v))
    \/ DeployKnown(o) \/ DeployNew(o) \/ Apply(o)
    \/ RolloutSettles(o) \/ RolloutDone(o) \/ LaunchFails(o)
    \/ ActStatus(o) \/ ScaleToZero(o) \/ RolloutRestart(o) \/ RestartSettles(o)
    \/ Refresh(o) \/ Answer(o)
    \/ StatusRead(o) \/ StatusWrite(o)

Watch(r) ==
    \/ WatchList(r)
    \/ (\E d \in Dep : WatchReplace(r, d) \/ WatchRead(r, d))
    \/ WatchProbe(r) \/ WatchAnswer(r) \/ WatchWrite(r) \/ WatchSleep(r)

Environment ==
    \/ \E d \in Dep : PodsReady(d) \/ PodsFail(d) \/ PodsLost(d)
    \/ \E k \in Keys : Expire(k)
    \/ AddVersion \/ Disable
    \/ \E r \in Replica : Crash(r)

Next ==
    \/ \E o \in Op : Request(o) \/ Proceed(o) \/ Renew(o)
    \/ \E r \in Watching : Watch(r) \/ WatchFails(r)
    \/ Environment

Spec == Init /\ [][Next]_vars

\* Requests proceed and watchers do their rounds: a kubectl call ends (a rollout
\* has a timeout), a database call ends, the event loop is fair to its tasks.
Fairness ==
    /\ \A o \in Op : WF_vars(Proceed(o))
    /\ \A r \in Watching : WF_vars(Watch(r))

LiveSpec == Spec /\ Fairness

-----------------------------------------------------------------------------
\* The record of a deployment names the version its workload runs, whichever
\* operation of whichever replica wrote it: a runtime found again by the
\* provider is never recorded as another version.
RecordNamesVersion ==
    \A d \in Dep : (Known(d) /\ Exists(d)) => records[d].version = workload[d].version

\* A deploy or a rollback that reports success left a durable record of the
\* deployment it answers with, of the version it was asked for.
SuccessIsRecorded ==
    \A o \in Op : (op[o].kind \in {"deploy", "rollback"} /\ op[o].pc = "ok") =>
      Known(op[o].new) /\ records[op[o].new].version = op[o].ver

\* After a rollback that reports success the deployment it replaced has no
\* pods, whatever the requests and watchers that overlap with it have done: a
\* restart does not bring a workload back that was scaled to zero.
RollbackStops ==
    \A o \in Op : (op[o].kind = "rollback" /\ op[o].pc = "ok") =>
      workload[op[o].dep].phase = "stopped"

\* Observation never creates a record: a workload that no operation persisted
\* (its deploy failed, lost its lease or crashed) is never promoted into a
\* deployable record by a status request or by the watcher.
OrphansStayUnrecorded ==
    [][\A d \in Dep : (~Known(d) /\ Known(d)') =>
         \E o \in Op : op[o].pc = "persisting" /\ op[o].new = d /\ Current(o)]_vars

\* A record that says stopped is not turned into running while the workload
\* still has no pods.
StoppedStaysStopped ==
    [][\A d \in Dep :
         (records[d].status = "stopped" /\ records'[d].status = "running") =>
            workload[d].phase # "stopped"]_vars

\* The leases, as LeaseTable has them.  Who is leaving still has to release.
Leases == INSTANCE LeaseTable
            WITH Client <- Op, Resource <- Keys, Nobody <- NoOp,
                 owner <- [k \in Keys |-> lease[k].op],
                 live <- [k \in Keys |-> lease[k].live],
                 relying <- {o \in Op : op[o].pc \in Owned \cup {"leaving"}}

LeaseSpec == Leases!Spec

\* Every request that arrives is answered: nobody waits for the agent lock or
\* in the middle of an operation for ever.
RequestsEnd ==
    \A o \in Op : op[o].pc # "new" ~> op[o].pc \in Ended

\* A record of a workload that was scaled to zero says stopped in the end, and
\* goes on saying so, whatever was written late.
StatusConverges ==
    \A d \in Dep :
      (Known(d) /\ workload[d].phase = "stopped") ~> [](records[d].status = "stopped")
=============================================================================
