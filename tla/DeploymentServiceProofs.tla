---------------------- MODULE DeploymentServiceProofs ----------------------
(***************************************************************************)
(* Proofs about DeploymentService, for any requests, replicas, watchers,   *)
(* deployments, versions and faults: types, RecordNamesVersion,            *)
(* SuccessIsRecorded, RollbackStops and OrphansStayUnrecorded, and that    *)
(* the leases of the requests are those of LeaseTable.                     *)
(*                                                                         *)
(* The invariants do not rest on the leases: two requests may be in the    *)
(* middle of the same deployment at the same time, and what is proved      *)
(* holds all the same.  What it rests on is that records and workloads     *)
(* only ever grow (Keeps): a record keeps its version, a workload its      *)
(* version and, once scaled to zero, its phase.                            *)
(***************************************************************************)
EXTENDS DeploymentService, TLAPS

ReqState ==
    [pc : Pcs, kind : Kinds, rep : Replica, dep : Dep \cup {NoDep}, new : Dep \cup {NoDep},
     ver : 0..MaxVersion, obs : Phases \cup {"none"}, err : {"none", "lost", "failed"},
     cand : SUBSET Dep]
Round ==
    [pc : {"idle", "listing", "probing", "probeGot", "writing"}, todo : SUBSET Dep,
     seen : SUBSET Dep, at : Dep \cup {NoDep}, obs : Phases \cup {"none"}]

ServiceTypes ==
    /\ head \in 1..MaxVersion
    /\ active \in BOOLEAN
    /\ records \in [Dep -> [version : 0..MaxVersion, status : Phases \cup {"none"}]]
    /\ workload \in [Dep -> [version : 0..MaxVersion, phase : Phases \cup {"none"}]]
    /\ cache \in [Replica -> [Dep -> Phases \cup {"none"}]]
    /\ lease \in [Keys -> [op : Op \cup {NoOp}, live : BOOLEAN]]
    /\ lock \in [Replica -> Op \cup {NoOp}]
    /\ op \in [Op -> ReqState]
    /\ watch \in [Replica -> Round]
    /\ faults \in 0..MaxFaults

Changes == {"stop", "restart", "rollback"}
Launches == {"deploy", "rollback"}

\* Where a request of each kind may be.
PlaceOK(s) ==
    /\ s.pc \in {"listing", "probing", "probeGot"} => s.kind = "deploy"
    /\ s.pc \in {"targeting", "persistingOld"} => s.kind = "rollback"
    /\ s.pc \in Launching \cup {"launching", "launched"} => s.kind \in Launches
    /\ s.pc \in Acting \cup {"acted"} => s.kind \in Changes
    /\ s.pc \in {"rolling", "rolled", "awaiting", "settled"} => s.kind = "restart"
    /\ s.pc \in {"refreshing", "refreshGot", "reading"} => s.kind \in {"stop", "restart"}
    /\ s.kind = "status" <=> s.pc \in {"observeGot", "observed", "upserting"}
                              \/ (s.kind = "status" /\ s.pc \in Ended \cup {"new"})

\* The deployment it is about has a record, or a workload, or both.
Touching == (Acting \ {"acting"}) \cup {"acted", "refreshing", "refreshGot", "reading"}

TargetOK(s) ==
    /\ (s.kind # "deploy" /\ s.pc # "new") => s.dep \in Dep
    /\ (s.kind \in Changes /\ s.pc # "new") \/ s.pc = "upserting" => Known(s.dep)
    /\ s.pc \in Touching \cup {"observeGot", "observed"} => Exists(s.dep)

\* The version it launches is one of the agent's.
VersionOK(s) ==
    /\ (s.kind = "deploy" /\ s.pc \in Owned \cup {"acquiring"}) => s.ver # 0
    /\ (s.kind = "rollback" /\ s.pc \in Owned \ {"entered", "targeting"}) => s.ver # 0

\* What it is about to write, or to put into the provider's object, is a status.
StatusOK(s) ==
    s.pc \in Persisting \cup {"upserting", "observeGot", "actGot", "refreshGot"} => s.obs # "none"

Succeeds(s) == s.pc = "ok" \/ (s.pc = "leaving" /\ s.err = "none")

\* What it may answer with is recorded, of the version it was asked for.
PickOK(s) ==
    /\ s.pc \in {"probing", "probeGot"} =>
         \A d \in s.cand : Known(d) /\ records[d].version = s.ver
    /\ s.pc = "probeGot" \/ (s.kind \in Launches /\ Succeeds(s)) =>
         s.new \in Dep /\ Known(s.new) /\ records[s.new].version = s.ver

\* A rollback has scaled to zero before anything else.
Scaled == {"scaled", "acted", "launching", "launched"} \cup Launching \cup Persisting
HaltOK(s) ==
    (s.kind = "rollback" /\ (s.pc \in Scaled \/ Succeeds(s))) =>
      workload[s.dep].phase = "stopped"

\* From the choice of an id to the write of its record.
InLaunch(s) ==
    /\ s.kind \in Launches
    /\ s.pc \in {"applying", "rollout", "rolledOut", "launched", "persisting"}

\* A launched deployment runs the version it was launched for, or has neither
\* workload nor record yet; one that was asked about in vain has no workload.
LaunchOK(s) ==
    /\ InLaunch(s) =>
         /\ s.new \in Dep
         /\ Exists(s.new) => workload[s.new].version = s.ver /\ s.pc # "applying"
         /\ ~Exists(s.new) => ~Known(s.new) /\ s.pc \notin {"rollout", "rolledOut"}
    /\ s.pc = "probeGot" /\ s.obs = "none" => ~Exists(s.new)

RequestOK(s) ==
    /\ PlaceOK(s) /\ TargetOK(s) /\ VersionOK(s) /\ StatusOK(s)
    /\ PickOK(s) /\ HaltOK(s) /\ LaunchOK(s)

Requests == \A o \in Op : RequestOK(op[o])

\* A deployment that has no workload yet is being launched by one request only.
Sole ==
    \A o, p \in Op :
      (o # p /\ InLaunch(op[o]) /\ ~Exists(op[o].new)) => op[p].new # op[o].new

Workloads == \A d \in Dep : Exists(d) <=> workload[d].version # 0

\* A watcher's round is about workloads that exist, and knows their status.
RoundOK(r) ==
    /\ \A d \in watch[r].todo \cup watch[r].seen : Exists(d)
    /\ \A d \in watch[r].seen : cache[r][d] # "none"
    /\ watch[r].pc \in {"probing", "probeGot"} => watch[r].at \in Dep /\ Exists(watch[r].at)
    /\ watch[r].pc = "writing" => watch[r].at \in Dep /\ Known(watch[r].at)
    /\ watch[r].pc \in {"probeGot", "writing"} => watch[r].obs # "none"

Rounds == \A r \in Replica : RoundOK(r)

\* The inductive invariant.
ServiceInv ==
    ServiceTypes /\ Workloads /\ RecordNamesVersion /\ Requests /\ Sole /\ Rounds

-----------------------------------------------------------------------------
\* How a step may change what is durable, and what a request launches.

\* Records and workloads are never lost, and keep their version; nothing
\* scales a stopped workload up again.
Keeps ==
    \A d \in Dep :
      /\ Exists(d) => Exists(d)' /\ workload'[d].version = workload[d].version
      /\ Known(d) => Known(d)' /\ records'[d].version = records[d].version
      /\ workload[d].phase = "stopped" => workload'[d].phase = "stopped"

\* Only what o is launching may come into being.
MadeBy(o) ==
    \A d \in Dep :
      (~Exists(d) /\ Exists(d)') \/ (~Known(d) /\ Known(d)') =>
         InLaunch(op[o]) /\ op[o].new = d

\* o goes on with the deployment it had, turns to one that is there, or takes
\* an id nobody has.
NewOK(o, s) ==
    \/ s.new = op[o].new /\ (InLaunch(s) => InLaunch(op[o]))
    \/ s.new = NoDep
    \/ s.new \in Dep /\ Known(s.new) /\ ~InLaunch(s)
    \/ s.new \in Dep /\ Exists(s.new)
    \/ \A p \in Op : op[p].new # s.new

\* The provider's objects of workloads that exist keep having a status.
CacheKept ==
    \A r \in Replica, d \in Dep :
      (Exists(d) /\ cache[r][d] # "none") => cache'[r][d] # "none"

\* What holds of a request that does not move goes on holding.
LEMMA StillOK ==
    ASSUME ServiceInv, NEW q \in Op, Keeps, op'[q] = op[q],
           InLaunch(op[q]) /\ ~Exists(op[q].new) =>
             ~Exists(op[q].new)' /\ ~Known(op[q].new)',
           op[q].pc = "probeGot" /\ op[q].obs = "none" => ~Exists(op[q].new)'
    PROVE  RequestOK(op[q])'
<1> DEFINE s == op[q]
<1>1. RequestOK(s) /\ s \in ReqState
    BY DEF ServiceInv, ServiceTypes, Requests
<1>2. PlaceOK(op[q])' /\ VersionOK(op[q])' /\ StatusOK(op[q])'
    BY <1>1 DEF RequestOK, PlaceOK, VersionOK, StatusOK
<1>3. TargetOK(op[q])'
    BY <1>1 DEF RequestOK, TargetOK, Keeps, Touching, Acting, PlaceOK, ReqState, Changes
<1>4. PickOK(op[q])'
    BY <1>1 DEF RequestOK, PickOK, Succeeds, Keeps, ReqState
<1>5. HaltOK(op[q])'
  <2>1. s.kind = "rollback" /\ (s.pc \in Scaled \/ Succeeds(s)) => s.dep \in Dep
      BY <1>1 DEF RequestOK, TargetOK, Scaled, Succeeds, Launching, Persisting
  <2> QED
      BY <1>1, <2>1 DEF RequestOK, HaltOK, Succeeds, Keeps
<1>6. LaunchOK(op[q])'
    BY <1>1 DEF RequestOK, LaunchOK, InLaunch, Keeps
<1> QED
    BY <1>2, <1>3, <1>4, <1>5, <1>6 DEF RequestOK

\* The other requests, while o makes what it launches.
LEMMA OthersKept ==
    ASSUME ServiceInv, NEW o \in Op, NEW q \in Op, q # o, Keeps, MadeBy(o), op'[q] = op[q]
    PROVE  RequestOK(op[q])'
<1>1. RequestOK(op[q]) /\ RequestOK(op[o])
    BY DEF ServiceInv, Requests
<1>2. ASSUME InLaunch(op[q]), ~Exists(op[q].new)
      PROVE  ~Exists(op[q].new)' /\ ~Known(op[q].new)'
  <2>1. op[q].new \in Dep /\ ~Known(op[q].new) /\ op[o].new # op[q].new
      BY <1>1, <1>2 DEF RequestOK, LaunchOK, ServiceInv, Sole
  <2> QED
      BY <1>2, <2>1 DEF MadeBy
<1>3. ASSUME op[q].pc = "probeGot", op[q].obs = "none" PROVE ~Exists(op[q].new)'
  <2>1. op[q].new \in Dep /\ Known(op[q].new) /\ ~Exists(op[q].new)
      BY <1>1, <1>3 DEF RequestOK, PickOK, LaunchOK
  <2>2. InLaunch(op[o]) /\ ~Exists(op[o].new) => ~Known(op[o].new)
      BY <1>1 DEF RequestOK, LaunchOK
  <2> QED
      BY <2>1, <2>2 DEF MadeBy
<1> QED
    BY <1>2, <1>3, StillOK

\* Nothing comes into being, and no request moves.
NoneMade == \A d \in Dep : (Exists(d)' => Exists(d)) /\ (Known(d)' => Known(d))

LEMMA UnmovedKept ==
    ASSUME ServiceInv, Keeps, NoneMade, UNCHANGED op
    PROVE  Requests' /\ Sole'
<1>1. ASSUME NEW q \in Op PROVE RequestOK(op[q])'
  <2>1. RequestOK(op[q])
      BY DEF ServiceInv, Requests
  <2>2. InLaunch(op[q]) /\ ~Exists(op[q].new) => ~Exists(op[q].new)' /\ ~Known(op[q].new)'
      BY <2>1 DEF RequestOK, LaunchOK, NoneMade
  <2>3. op[q].pc = "probeGot" /\ op[q].obs = "none" => ~Exists(op[q].new)'
      BY <2>1 DEF RequestOK, LaunchOK, PickOK, NoneMade
  <2> QED
      BY <2>2, <2>3, StillOK
<1>2. Requests'
    BY <1>1 DEF Requests
<1>3. Sole'
  <2> SUFFICES ASSUME NEW o \in Op, NEW p \in Op, o # p, InLaunch(op[o]), ~Exists(op[o].new)'
               PROVE  op[p].new # op[o].new
      BY DEF Sole, InLaunch
  <2>1. op[o].new \in Dep
      BY DEF ServiceInv, Requests, RequestOK, LaunchOK
  <2>2. ~Exists(op[o].new)
      BY <2>1 DEF Keeps
  <2> QED
      BY <2>2 DEF ServiceInv, Sole
<1> QED
    BY <1>2, <1>3

\* The invariant of the requests after a step of o that becomes s.
LEMMA RequestsKept ==
    ASSUME ServiceInv, NEW o \in Op, Keeps, MadeBy(o), NEW s \in ReqState,
           op' = [op EXCEPT ![o] = s], RequestOK(op[o])', NewOK(o, s)
    PROVE  Requests' /\ Sole' /\ op' \in [Op -> ReqState]
<1>1. op \in [Op -> ReqState] /\ \A q \in Op : RequestOK(op[q])
    BY DEF ServiceInv, ServiceTypes, Requests
<1>2. op'[o] = s /\ \A q \in Op : q # o => op'[q] = op[q]
    BY <1>1
<1>3. Requests'
    BY <1>2, OthersKept DEF Requests
<1>4. Sole'
  <2> SUFFICES ASSUME NEW p \in Op, NEW q \in Op, p # q, InLaunch(op[p])', ~Exists(op[p].new)',
                      op'[q].new = op'[p].new
               PROVE  FALSE
      BY DEF Sole, InLaunch
  <2>1. op'[p].new \in Dep /\ ~Known(op[p].new)'
      BY <1>3 DEF Requests, RequestOK, LaunchOK, InLaunch
  <2>2. ~Known(op'[p].new) /\ ~Exists(op'[p].new)
      BY <2>1 DEF Keeps
  <2>3. CASE p # o /\ q # o
      BY <1>1, <1>2, <2>2, <2>3 DEF ServiceInv, Sole
  <2>4. CASE p = o
    <3>1. s.new = op[o].new /\ InLaunch(op[o])
        BY <1>2, <2>1, <2>2, <2>4, AgentAssumption DEF NewOK
    <3> QED
        BY <1>2, <2>2, <2>4, <3>1 DEF ServiceInv, Sole
  <2>5. CASE q = o
    <3>1. s.new = op[o].new
        BY <1>2, <2>1, <2>2, <2>5, AgentAssumption DEF NewOK
    <3> QED
        BY <1>2, <2>2, <2>5, <3>1 DEF ServiceInv, Sole
  <2> QED
      BY <2>3, <2>4, <2>5
<1> QED
    BY <1>1, <1>3, <1>4

\* The rounds of the watchers after a step that is not theirs.
LEMMA RoundsKept ==
    ASSUME ServiceInv, Keeps, CacheKept, UNCHANGED watch
    PROVE  Rounds'
<1> SUFFICES ASSUME NEW r \in Replica PROVE RoundOK(r)'
    BY DEF Rounds
<1>1. RoundOK(r) /\ watch[r] \in Round
    BY DEF ServiceInv, ServiceTypes, Rounds
<1> QED
    BY <1>1 DEF RoundOK, Round, Keeps, CacheKept

\* A step of o that leaves records and workloads alone.
Quiet(o) ==
    /\ op' = [op EXCEPT ![o] = op'[o]] /\ op'[o] \in ReqState
    /\ RequestOK(op'[o]) /\ NewOK(o, op'[o])
    /\ cache' \in [Replica -> [Dep -> Phases \cup {"none"}]] /\ CacheKept
    /\ lease' \in [Keys -> [op : Op \cup {NoOp}, live : BOOLEAN]]
    /\ lock' \in [Replica -> Op \cup {NoOp}]
    /\ UNCHANGED <<agentVars, records, workload, watch, faults>>

LEMMA QuietStep ==
    ASSUME ServiceInv, NEW o \in Op, Quiet(o)
    PROVE  ServiceInv'
<1>1. PICK s \in ReqState : op' = [op EXCEPT ![o] = s] /\ RequestOK(s) /\ NewOK(o, s)
    BY DEF Quiet
<1>2. Keeps /\ MadeBy(o)
    BY DEF Quiet, Keeps, MadeBy, Known, Exists
<1>3. op'[o] = s
    BY <1>1 DEF ServiceInv, ServiceTypes
<1>4. RequestOK(op[o])'
    BY <1>1, <1>3 DEF Quiet, RequestOK, PlaceOK, TargetOK, VersionOK, StatusOK, PickOK, HaltOK,
       LaunchOK, InLaunch, Succeeds, Known, Exists
<1>5. Requests' /\ Sole' /\ op' \in [Op -> ReqState]
    BY <1>1, <1>2, <1>4, RequestsKept
<1>6. Rounds'
    BY <1>2, RoundsKept DEF Quiet
<1>7. Workloads' /\ RecordNamesVersion'
    BY DEF Quiet, ServiceInv, Workloads, RecordNamesVersion, Known, Exists
<1>8. ServiceTypes'
    BY <1>5 DEF Quiet, ServiceInv, ServiceTypes, agentVars
<1> QED
    BY <1>5, <1>6, <1>7, <1>8 DEF ServiceInv

-----------------------------------------------------------------------------
\* Steps of a request that leave records and workloads alone.

\* A request that gives up, or is over without success.
LEMMA LeftOK ==
    ASSUME NEW q \in ReqState, RequestOK(q), q.pc # "new", NEW s \in ReqState,
           s.kind = q.kind, s.dep = q.dep,
           \/ s.pc \in Ended \ {"ok"}
           \/ s.pc = "leaving" /\ s.err # "none" /\ s.kind # "status"
    PROVE  RequestOK(s)
<1>1. s.pc \in (Ended \ {"ok"}) \cup {"leaving"} /\ ~Succeeds(s)
    BY DEF Succeeds, Ended
<1>2. PlaceOK(s)
    BY <1>1 DEF PlaceOK, Launching, Acting, Ended
<1>3. TargetOK(s)
    BY <1>1 DEF RequestOK, TargetOK, Touching, Acting, Ended
<1>4. VersionOK(s) /\ StatusOK(s) /\ HaltOK(s) /\ PickOK(s) /\ LaunchOK(s)
    BY <1>1 DEF VersionOK, StatusOK, HaltOK, PickOK, LaunchOK, InLaunch, Ended, Owned, Asserting,
       Persisting, Launching, Acting, Scaled
<1> QED
    BY <1>2, <1>3, <1>4 DEF RequestOK

LEMMA GivesUp ==
    ASSUME ServiceInv, NEW o \in Op, OwnershipLost(o) \/ Raises(o)
    PROVE  ServiceInv'
<1>1. op[o] \in ReqState /\ RequestOK(op[o]) /\ op \in [Op -> ReqState]
    BY DEF ServiceInv, ServiceTypes, Requests
<1>2. op[o].pc \in Owned /\ op[o].kind # "status"
    BY <1>1 DEF OwnershipLost, Raises, Owned, RequestOK, PlaceOK, Ended, Asserting, Persisting, Launching, Acting
<1>3. /\ op' = [op EXCEPT ![o] = op'[o]] /\ op'[o] \in ReqState
      /\ op'[o].pc = "leaving" /\ op'[o].err # "none" /\ op'[o].new = op[o].new
      /\ op'[o].kind = op[o].kind /\ op'[o].dep = op[o].dep
    BY <1>1 DEF OwnershipLost, Raises, Leave, ReqState, Pcs
<1>4. RequestOK(op'[o])
    BY <1>1, <1>2, <1>3, LeftOK DEF Owned, Asserting, Persisting, Launching, Acting
<1>5. NewOK(o, op'[o])
    BY <1>3 DEF NewOK, InLaunch
<1>6. Quiet(o)
    BY <1>3, <1>4, <1>5 DEF Quiet, ServiceInv, ServiceTypes, CacheKept, OwnershipLost, Raises
<1> QED
    BY <1>6, QuietStep

\* The facts about o that every step starts from.
LEMMA AtStart ==
    ASSUME ServiceInv, NEW o \in Op
    PROVE  /\ op[o] \in ReqState /\ op \in [Op -> ReqState] /\ RequestOK(op[o])
           /\ PlaceOK(op[o]) /\ TargetOK(op[o]) /\ VersionOK(op[o]) /\ StatusOK(op[o])
           /\ PickOK(op[o]) /\ HaltOK(op[o]) /\ LaunchOK(op[o])
BY DEF ServiceInv, ServiceTypes, Requests, RequestOK

LEMMA FinishStep ==
    ASSUME ServiceInv, NEW o \in Op, NEW result \in Ended \ {"ok"}, Finish(o, result),
           op[o].pc # "new",
           lease' \in [Keys -> [op : Op \cup {NoOp}, live : BOOLEAN]],
           UNCHANGED <<agentVars, records, workload, cache, watch, faults>>
    PROVE  ServiceInv'
<1>0. /\ op[o] \in ReqState /\ op \in [Op -> ReqState] /\ RequestOK(op[o])
      /\ PlaceOK(op[o]) /\ TargetOK(op[o]) /\ VersionOK(op[o]) /\ StatusOK(op[o])
      /\ PickOK(op[o]) /\ HaltOK(op[o]) /\ LaunchOK(op[o])
    BY AtStart
<1>1. /\ op' = [op EXCEPT ![o] = op'[o]] /\ op'[o] \in ReqState
      /\ op'[o].pc = result /\ op'[o].new = op[o].new
      /\ op'[o].kind = op[o].kind /\ op'[o].dep = op[o].dep
    BY <1>0 DEF Finish, ReqState, Pcs
<1>2. RequestOK(op'[o])
    BY <1>0, <1>1, LeftOK
<1>3. NewOK(o, op'[o])
    BY <1>1 DEF NewOK, InLaunch, Ended
<1>4. lock' \in [Replica -> Op \cup {NoOp}]
    BY DEF Finish, ServiceInv, ServiceTypes
<1>5. Quiet(o)
    BY <1>1, <1>2, <1>3, <1>4 DEF Quiet, ServiceInv, ServiceTypes, CacheKept
<1> QED
    BY <1>5, QuietStep

LEMMA AcquireFailsStep ==
    ASSUME ServiceInv, NEW o \in Op, AcquireFails(o)
    PROVE  ServiceInv'
<1>1. /\ \E result \in {"busy", "failed"} : Finish(o, result)
      /\ op[o].pc # "new"
      /\ UNCHANGED <<agentVars, records, workload, cache, lease, watch, faults>>
    BY DEF AcquireFails
<1>2. lease' \in [Keys -> [op : Op \cup {NoOp}, live : BOOLEAN]]
    BY <1>1 DEF ServiceInv, ServiceTypes
<1> QED
    BY <1>1, <1>2, FinishStep DEF Ended

LEMMA ReleaseStep ==
    ASSUME ServiceInv, NEW o \in Op, Release(o) \/ ReleaseFails(o)
    PROVE  ServiceInv'
<1>0. /\ op[o] \in ReqState /\ op \in [Op -> ReqState] /\ RequestOK(op[o])
      /\ PlaceOK(op[o]) /\ TargetOK(op[o]) /\ VersionOK(op[o]) /\ StatusOK(op[o])
      /\ PickOK(op[o]) /\ HaltOK(op[o]) /\ LaunchOK(op[o])
    BY AtStart
<1>1. lease' \in [Keys -> [op : Op \cup {NoOp}, live : BOOLEAN]]
  <2>1. Free \in [op : Op \cup {NoOp}, live : BOOLEAN]
      BY DEF Free
  <2> QED
      BY <2>1 DEF ServiceInv, ServiceTypes, Release, ReleaseFails
<1>2. CASE ReleaseFails(o) \/ op[o].err # "none"
  <2>1. \E result \in {"lost", "failed"} : Finish(o, result)
      BY <1>2, <1>0 DEF Release, ReleaseFails, ReqState
  <2> QED
      BY <1>1, <2>1, FinishStep DEF Ended, Release, ReleaseFails
<1>3. CASE Release(o) /\ op[o].err = "none"
  <2>1. /\ op' = [op EXCEPT ![o] = op'[o]] /\ op'[o] \in ReqState
        /\ op'[o].pc = "ok" /\ op'[o].new = op[o].new /\ op'[o].ver = op[o].ver
        /\ op'[o].kind = op[o].kind /\ op'[o].dep = op[o].dep
      BY <1>3, <1>0 DEF Release, Finish, ReqState, Pcs, Ended
  <2>2. PlaceOK(op'[o]) /\ TargetOK(op'[o]) /\ VersionOK(op'[o]) /\ StatusOK(op'[o]) /\ LaunchOK(op'[o])
      BY <1>3, <2>1, <1>0 DEF Release, PlaceOK, TargetOK, VersionOK, StatusOK, LaunchOK, InLaunch, Touching,
         Owned, Asserting, Persisting, Launching, Acting, Ended
  <2>3. PickOK(op'[o]) /\ HaltOK(op'[o])
      BY <1>3, <2>1, <1>0 DEF Release, PickOK, HaltOK, Succeeds
  <2>4. NewOK(o, op'[o])
      BY <2>1 DEF NewOK, InLaunch
  <2>5. lock' \in [Replica -> Op \cup {NoOp}]
      BY <1>3 DEF Release, Finish, ServiceInv, ServiceTypes
  <2>6. Quiet(o)
      BY <1>1, <1>3, <2>1, <2>2, <2>3, <2>4, <2>5
         DEF Quiet, ServiceInv, ServiceTypes, CacheKept, Release, RequestOK
  <2> QED
      BY <2>6, QuietStep
<1> QED
    BY <1>2, <1>3 DEF Release

\* A request arrives.
LEMMA RequestStep ==
    ASSUME ServiceInv, NEW o \in Op, Request(o)
    PROVE  ServiceInv'
<1>0. /\ op[o] \in ReqState /\ op \in [Op -> ReqState] /\ RequestOK(op[o])
      /\ PlaceOK(op[o]) /\ TargetOK(op[o]) /\ VersionOK(op[o]) /\ StatusOK(op[o])
      /\ PickOK(op[o]) /\ HaltOK(op[o]) /\ LaunchOK(op[o])
    BY AtStart
<1>1. /\ op' = [op EXCEPT ![o] = op'[o]] /\ op'[o] \in ReqState
      /\ op'[o].new = op[o].new /\ op'[o].kind = op[o].kind
      /\ UNCHANGED <<agentVars, records, workload, cache, lease, lock, watch, faults>>
      /\ \/ op[o].kind = "deploy" /\ op'[o].pc = "locking"
         \/ /\ op[o].kind \in Changes /\ op'[o].pc \in {"locking", "acquiring"}
            /\ op'[o].dep \in Dep /\ Known(op'[o].dep)
         \/ /\ op[o].kind = "status" /\ op'[o].pc = "observeGot"
            /\ op'[o].dep \in Dep /\ Exists(op'[o].dep) /\ op'[o].obs # "none"
  <2>1. CASE RequestDeploy(o)
      BY <2>1, <1>0 DEF RequestDeploy, Go, ReqState, Pcs
  <2>2. CASE \E d \in Dep : RequestChange(o, d)
    <3>1. PICK d \in Dep : RequestChange(o, d)
        BY <2>2
    <3>2. op[o].kind \in Changes
        BY <3>1 DEF RequestChange, Changes
    <3> QED
        BY <3>1, <3>2, <1>0 DEF RequestChange, Become, ReqState, Pcs
  <2>3. CASE \E d \in Dep : RequestStatus(o, d)
    <3>1. PICK d \in Dep : RequestStatus(o, d)
        BY <2>3
    <3>2. workload[d].phase \in Phases /\ workload[d].phase # "none"
        BY <3>1 DEF ServiceInv, ServiceTypes, RequestStatus, Exists
    <3> QED
        BY <3>1, <3>2, <1>0 DEF RequestStatus, Become, ReqState, Pcs
  <2> QED
      BY <2>1, <2>2, <2>3 DEF Request
<1>2. op'[o].kind = "status" <=> op'[o].pc = "observeGot"
    BY <1>1 DEF Changes
<1>3. RequestOK(op'[o])
  <2>1. PlaceOK(op'[o])
      BY <1>1, <1>2 DEF PlaceOK, Launching, Acting, Ended
  <2>2. TargetOK(op'[o]) /\ StatusOK(op'[o])
      BY <1>1 DEF TargetOK, StatusOK, Touching, Acting, Persisting, Changes
  <2>3. VersionOK(op'[o])
      BY <1>1 DEF VersionOK, Owned, Asserting, Persisting, Launching, Acting, Changes
  <2>4. PickOK(op'[o]) /\ HaltOK(op'[o]) /\ LaunchOK(op'[o])
      BY <1>1 DEF PickOK, HaltOK, LaunchOK, InLaunch, Succeeds, Scaled, Persisting, Launching
  <2> QED
      BY <2>1, <2>2, <2>3, <2>4 DEF RequestOK
<1>4. NewOK(o, op'[o])
    BY <1>1 DEF NewOK, InLaunch
<1>5. Quiet(o)
    BY <1>1, <1>3, <1>4 DEF Quiet, ServiceInv, ServiceTypes, CacheKept
<1> QED
    BY <1>5, QuietStep

\* The provider notes a status, of a workload that exists.
LEMMA NoteOK ==
    ASSUME ServiceInv, NEW o \in Op, NEW d \in Dep, NEW s \in Phases \cup {"none"},
           Note(o, d, s), s # "none" \/ ~Exists(d)
    PROVE  cache' \in [Replica -> [Dep -> Phases \cup {"none"}]] /\ CacheKept
<1>1. cache \in [Replica -> [Dep -> Phases \cup {"none"}]]
    BY DEF ServiceInv, ServiceTypes
<1>2. cache' \in [Replica -> [Dep -> Phases \cup {"none"}]]
    BY <1>1 DEF Note
<1>3. ASSUME NEW r \in Replica, NEW e \in Dep PROVE cache'[r][e] \in {cache[r][e]} \cup (IF e = d THEN {s} ELSE {})
    BY <1>1 DEF Note
<1> QED
    BY <1>2, <1>3 DEF CacheKept

LEMMA MoveStep ==
    ASSUME ServiceInv, NEW o \in Op,
           op' = [op EXCEPT ![o] = op'[o]], op'[o] \in ReqState,
           RequestOK(op'[o]), NewOK(o, op'[o]),
           cache' = cache \/ (cache' \in [Replica -> [Dep -> Phases \cup {"none"}]] /\ CacheKept),
           UNCHANGED <<agentVars, records, workload, lease, lock, watch, faults>>
    PROVE  ServiceInv'
<1>1. cache' \in [Replica -> [Dep -> Phases \cup {"none"}]] /\ CacheKept
    BY DEF ServiceInv, ServiceTypes, CacheKept
<1>2. lease' \in [Keys -> [op : Op \cup {NoOp}, live : BOOLEAN]] /\ lock' \in [Replica -> Op \cup {NoOp}]
    BY DEF ServiceInv, ServiceTypes
<1> QED
    BY <1>1, <1>2, QuietStep DEF Quiet

\* Steps of which only the place changes.
LEMMA PassStep ==
    ASSUME ServiceInv, NEW o \in Op, Probed(o) \/ RolloutSettles(o) \/ RestartSettles(o)
    PROVE  ServiceInv'
<1>0. /\ op[o] \in ReqState /\ op \in [Op -> ReqState] /\ RequestOK(op[o])
      /\ PlaceOK(op[o]) /\ TargetOK(op[o]) /\ VersionOK(op[o]) /\ StatusOK(op[o])
      /\ PickOK(op[o]) /\ HaltOK(op[o]) /\ LaunchOK(op[o])
    BY AtStart
<1>1. PICK p \in {"launching", "rolledOut", "settled"} :
        /\ Go(o, p)
        /\ \/ op[o].pc = "probing" /\ p = "launching"
           \/ op[o].pc = "rollout" /\ p = "rolledOut"
           \/ op[o].pc = "awaiting" /\ p = "settled"
    BY DEF Probed, RolloutSettles, RestartSettles
<1>2. /\ op' = [op EXCEPT ![o] = op'[o]] /\ op'[o] \in ReqState /\ op'[o].pc = p
      /\ op'[o].kind = op[o].kind /\ op'[o].dep = op[o].dep /\ op'[o].new = op[o].new
      /\ op'[o].ver = op[o].ver /\ op'[o].obs = op[o].obs /\ op'[o].cand = op[o].cand
    BY <1>0, <1>1 DEF Go, ReqState, Pcs, Owned, Asserting, Launching, Acting
<1>3. RequestOK(op'[o])
    BY <1>0, <1>1, <1>2 DEF RequestOK, PlaceOK, TargetOK, VersionOK, StatusOK, PickOK, HaltOK, LaunchOK, InLaunch, Touching,
         Owned, Asserting, Persisting, Launching, Acting, Ended, Scaled, Succeeds, Changes, Launches
<1>4. NewOK(o, op'[o])
    BY <1>1, <1>2 DEF NewOK, InLaunch
<1> QED
    BY <1>2, <1>3, <1>4, MoveStep DEF Probed, RolloutSettles, RestartSettles

\* The lock and the lease are taken.
LEMMA EnterStep ==
    ASSUME ServiceInv, NEW o \in Op, LockAgent(o) \/ Acquire(o)
    PROVE  ServiceInv'
<1>0. /\ op[o] \in ReqState /\ op \in [Op -> ReqState] /\ RequestOK(op[o])
      /\ PlaceOK(op[o]) /\ TargetOK(op[o]) /\ VersionOK(op[o]) /\ StatusOK(op[o])
      /\ PickOK(op[o]) /\ HaltOK(op[o]) /\ LaunchOK(op[o])
    BY AtStart
<1>1. CASE LockAgent(o) /\ op[o].kind = "deploy" /\ ~active
  <2>1. Finish(o, "failed") /\ op[o].pc # "new"
      BY <1>1 DEF LockAgent
  <2>2. lease' \in [Keys -> [op : Op \cup {NoOp}, live : BOOLEAN]]
      BY <1>1 DEF LockAgent, ServiceInv, ServiceTypes
  <2> QED
      BY <1>1, <2>1, <2>2, FinishStep DEF LockAgent, Ended
<1>2. CASE LockAgent(o) /\ ~(op[o].kind = "deploy" /\ ~active)
  <2>1. head \in 1..MaxVersion /\ head \in 0..MaxVersion /\ 0 \in 0..MaxVersion
      BY BoundsAssumption DEF ServiceInv, ServiceTypes
  <2>2. /\ op[o].pc = "locking"
        /\ op' = [op EXCEPT ![o] = op'[o]] /\ op'[o] \in ReqState /\ op'[o].pc = "acquiring"
        /\ op'[o].kind = op[o].kind /\ op'[o].dep = op[o].dep /\ op'[o].new = op[o].new
        /\ op'[o].ver = (IF op[o].kind = "deploy" THEN head ELSE 0)
    <3>1. PICK v \in 0..MaxVersion :
            /\ op' = [op EXCEPT ![o] = [op[o] EXCEPT !.pc = "acquiring", !.ver = v]]
            /\ v = IF op[o].kind = "deploy" THEN head ELSE 0
        BY <1>2, <2>1 DEF LockAgent, Become
    <3>2. op[o].pc = "locking"
        BY <1>2 DEF LockAgent
    <3> QED
        BY <1>0, <3>1, <3>2 DEF ReqState, Pcs
  <2>3. RequestOK(op'[o])
      BY <1>0, <2>1, <2>2 DEF RequestOK, PlaceOK, TargetOK, VersionOK, StatusOK, PickOK, HaltOK, LaunchOK, InLaunch, Touching,
         Owned, Asserting, Persisting, Launching, Acting, Ended, Scaled, Succeeds, Changes, Launches
  <2>4. NewOK(o, op'[o])
      BY <2>2 DEF NewOK, InLaunch
  <2>5. lock' \in [Replica -> Op \cup {NoOp}]
      BY <1>2 DEF LockAgent, ServiceInv, ServiceTypes
  <2>6. Quiet(o)
      BY <1>2, <2>2, <2>3, <2>4, <2>5 DEF Quiet, LockAgent, ServiceInv, ServiceTypes, CacheKept
  <2> QED
      BY <2>6, QuietStep
<1>3. CASE Acquire(o)
  <2>1. /\ op[o].pc = "acquiring"
        /\ op' = [op EXCEPT ![o] = op'[o]] /\ op'[o] \in ReqState /\ op'[o].pc = "entered"
        /\ op'[o].kind = op[o].kind /\ op'[o].dep = op[o].dep /\ op'[o].new = op[o].new
        /\ op'[o].ver = op[o].ver
      BY <1>0, <1>3 DEF Acquire, Go, ReqState, Pcs, Owned, Asserting
  <2>2. RequestOK(op'[o])
      BY <1>0, <2>1 DEF RequestOK, PlaceOK, TargetOK, VersionOK, StatusOK, PickOK, HaltOK, LaunchOK, InLaunch, Touching,
         Owned, Asserting, Persisting, Launching, Acting, Ended, Scaled, Succeeds, Changes, Launches
  <2>3. NewOK(o, op'[o])
      BY <2>1 DEF NewOK, InLaunch
  <2>4. lease' \in [Keys -> [op : Op \cup {NoOp}, live : BOOLEAN]]
      BY <1>3 DEF Acquire, ServiceInv, ServiceTypes
  <2>5. Quiet(o)
      BY <1>3, <2>1, <2>2, <2>3, <2>4 DEF Quiet, Acquire, ServiceInv, ServiceTypes, CacheKept
  <2> QED
      BY <2>5, QuietStep
<1> QED
    BY <1>1, <1>2, <1>3

\* deploy looks for a deployment that runs; rollback picks a version.
LEMMA PickStep ==
    ASSUME ServiceInv, NEW o \in Op,
           \/ ListRecords(o)
           \/ \E d \in Dep : Probe(o, d)
           \/ \E v \in 1..MaxVersion : PickVersion(o, v)
    PROVE  ServiceInv'
<1>0. /\ op[o] \in ReqState /\ op \in [Op -> ReqState] /\ RequestOK(op[o])
      /\ PlaceOK(op[o]) /\ TargetOK(op[o]) /\ VersionOK(op[o]) /\ StatusOK(op[o])
      /\ PickOK(op[o]) /\ HaltOK(op[o]) /\ LaunchOK(op[o])
    BY AtStart
<1>1. CASE ListRecords(o)
  <2>1. /\ op[o].pc = "listing"
        /\ op' = [op EXCEPT ![o] = op'[o]] /\ op'[o] \in ReqState /\ op'[o].pc = "probing"
        /\ op'[o].kind = op[o].kind /\ op'[o].dep = op[o].dep /\ op'[o].new = op[o].new
        /\ op'[o].ver = op[o].ver
        /\ op'[o].cand = {d \in Dep : records[d] = [version |-> op[o].ver, status |-> "running"]}
      BY <1>0, <1>1 DEF ListRecords, Become, ReqState, Pcs, Owned
  <2>2. \A d \in op'[o].cand : Known(d) /\ records[d].version = op'[o].ver
      BY <2>1 DEF Known
  <2>3. RequestOK(op'[o])
      BY <1>0, <2>1, <2>2 DEF RequestOK, PlaceOK, TargetOK, VersionOK, StatusOK, PickOK, HaltOK, LaunchOK, InLaunch, Touching,
         Owned, Asserting, Persisting, Launching, Acting, Ended, Scaled, Succeeds, Changes, Launches
  <2>4. NewOK(o, op'[o])
      BY <2>1 DEF NewOK, InLaunch
  <2> QED
      BY <1>1, <2>1, <2>3, <2>4, MoveStep DEF ListRecords
<1>2. CASE \E d \in Dep : Probe(o, d)
  <2>1. PICK d \in Dep : Probe(o, d)
      BY <1>2
  <2>2. workload[d].phase \in Phases \cup {"none"}
      BY DEF ServiceInv, ServiceTypes
  <2>3. /\ op[o].pc = "probing" /\ d \in op[o].cand
        /\ op' = [op EXCEPT ![o] = op'[o]] /\ op'[o] \in ReqState /\ op'[o].pc = "probeGot"
        /\ op'[o].kind = op[o].kind /\ op'[o].dep = op[o].dep /\ op'[o].new = d
        /\ op'[o].ver = op[o].ver /\ op'[o].cand = op[o].cand /\ op'[o].obs = workload[d].phase
      BY <1>0, <2>1, <2>2 DEF Probe, Become, ReqState, Pcs, Owned
  <2>4. RequestOK(op'[o])
      BY <1>0, <2>1, <2>3 DEF RequestOK, PlaceOK, TargetOK, VersionOK, StatusOK, PickOK, HaltOK, LaunchOK, InLaunch, Touching,
         Owned, Asserting, Persisting, Launching, Acting, Ended, Scaled, Succeeds, Changes, Launches, Exists
  <2>5. NewOK(o, op'[o])
      BY <1>0, <2>3 DEF NewOK, InLaunch, PickOK
  <2> QED
      BY <2>1, <2>3, <2>4, <2>5, MoveStep DEF Probe
<1>3. CASE \E v \in 1..MaxVersion : PickVersion(o, v)
  <2>1. PICK v \in 1..MaxVersion : PickVersion(o, v)
      BY <1>3
  <2>2. v \in 0..MaxVersion /\ v # 0
      BY BoundsAssumption
  <2>3. /\ op[o].pc = "targeting"
        /\ op' = [op EXCEPT ![o] = op'[o]] /\ op'[o] \in ReqState /\ op'[o].pc = "acting"
        /\ op'[o].kind = op[o].kind /\ op'[o].dep = op[o].dep /\ op'[o].new = op[o].new
        /\ op'[o].ver = v
      BY <1>0, <2>1, <2>2 DEF PickVersion, Become, ReqState, Pcs, Owned, Acting
  <2>4. RequestOK(op'[o])
      BY <1>0, <2>2, <2>3 DEF RequestOK, PlaceOK, TargetOK, VersionOK, StatusOK, PickOK, HaltOK, LaunchOK, InLaunch, Touching,
         Owned, Asserting, Persisting, Launching, Acting, Ended, Scaled, Succeeds, Changes, Launches
  <2>5. NewOK(o, op'[o])
      BY <2>3 DEF NewOK, InLaunch
  <2> QED
      BY <2>1, <2>3, <2>4, <2>5, MoveStep DEF PickVersion
<1> QED
    BY <1>1, <1>2, <1>3

\* A check of the ownership passes; some are followed by reading a status.
LEMMA AssertStep ==
    ASSUME ServiceInv, NEW o \in Op, AssertOwned(o)
    PROVE  ServiceInv'
<1>0. /\ op[o] \in ReqState /\ op \in [Op -> ReqState] /\ RequestOK(op[o])
      /\ PlaceOK(op[o]) /\ TargetOK(op[o]) /\ VersionOK(op[o]) /\ StatusOK(op[o])
      /\ PickOK(op[o]) /\ HaltOK(op[o]) /\ LaunchOK(op[o])
    BY AtStart
<1>1. PICK p, s :
        /\ op' = [op EXCEPT ![o] = [op[o] EXCEPT !.pc = p, !.obs = s]]
        /\ p = AfterAssert(o)
        /\ s \in IF Reported(o) = NoDep THEN {op[o].obs} ELSE Readings(o, Reported(o))
    BY DEF AssertOwned, Become
<1>2. op[o].pc \in Asserting /\ op[o].kind # "status"
    BY <1>0 DEF AssertOwned, PlaceOK, Asserting, Ended
<1>3. \/ op[o].pc = "entered" /\ op[o].kind = "deploy" /\ p = "listing"
      \/ op[o].pc = "entered" /\ op[o].kind \in {"stop", "restart"} /\ p = "acting"
      \/ op[o].pc = "entered" /\ op[o].kind = "rollback" /\ p = "targeting"
      \/ op[o].pc = "launching" /\ p = "deploying"
      \/ op[o].pc = "acted" /\ op[o].kind = "rollback" /\ p = "persistingOld"
      \/ op[o].pc = "acted" /\ op[o].kind # "rollback" /\ p = "refreshing"
      \/ op[o].pc \in {"launched", "reading"} /\ p = "persisting"
  <2>1. CASE op[o].pc = "entered"
    <3>1. op[o].kind \in {"deploy", "stop", "restart", "rollback"}
        BY <1>0, <1>2 DEF ReqState, Kinds
    <3>2. p = [deploy |-> "listing", stop |-> "acting", restart |-> "acting",
               rollback |-> "targeting"][op[o].kind]
        BY <1>1, <2>1 DEF AfterAssert
    <3> QED
        BY <2>1, <3>1, <3>2
  <2>2. CASE op[o].pc # "entered"
      BY <1>1, <1>2, <2>2 DEF AfterAssert, Asserting
  <2> QED
      BY <2>1, <2>2
<1>4. /\ s \in Phases \cup {"none"}
      /\ p \in {"persisting", "persistingOld"} => s # "none"
  <2>1. CASE p \in {"persisting", "persistingOld"}
    <3>1. PICK d \in Dep : s \in Readings(o, d)
      <4>1. Reported(o) \in Dep
          BY <1>0, <1>3, <2>1 DEF Reported, LaunchOK, InLaunch, TargetOK, Touching, PlaceOK, Changes, Launches
      <4> QED
          BY <1>1, <4>1, AgentAssumption
    <3>2. cache[op[o].rep][d] \in Phases \cup {"none"}
        BY <1>0 DEF ServiceInv, ServiceTypes, ReqState
    <3> QED
        BY <1>0, <3>1, <3>2 DEF Readings, ReqState
  <2>2. CASE p \notin {"persisting", "persistingOld"}
    <3>1. Reported(o) = NoDep
        BY <1>3, <2>2 DEF Reported
    <3> QED
        BY <1>0, <1>1, <2>2, <3>1 DEF ReqState
  <2> QED
      BY <2>1, <2>2
<1>5. /\ op' = [op EXCEPT ![o] = op'[o]] /\ op'[o] \in ReqState /\ op'[o].pc = p
      /\ op'[o].kind = op[o].kind /\ op'[o].dep = op[o].dep /\ op'[o].new = op[o].new
      /\ op'[o].ver = op[o].ver /\ op'[o].obs = s /\ op'[o].cand = op[o].cand
  <2>1. p \in Pcs
      BY <1>3 DEF Pcs, Owned, Asserting, Persisting, Launching, Acting
  <2> QED
      BY <1>0, <1>1, <1>4, <2>1 DEF ReqState
<1>6. RequestOK(op'[o])
  <2>1. PlaceOK(op'[o])
      BY <1>0, <1>3, <1>5 DEF PlaceOK, Launching, Acting, Ended, Changes, Launches
  <2>2. TargetOK(op'[o]) /\ StatusOK(op'[o])
      BY <1>0, <1>3, <1>4, <1>5 DEF TargetOK, StatusOK, Touching, Acting, Persisting, Changes
  <2>3. VersionOK(op'[o])
      BY <1>0, <1>3, <1>5 DEF VersionOK, Owned, Asserting, Persisting, Launching, Acting
  <2>4. PickOK(op'[o])
      BY <1>3, <1>5 DEF PickOK, Succeeds
  <2>5. HaltOK(op'[o])
      BY <1>0, <1>3, <1>5 DEF HaltOK, Succeeds, Scaled, Persisting, Launching, PlaceOK
  <2>6. LaunchOK(op'[o])
      BY <1>0, <1>3, <1>5 DEF LaunchOK, InLaunch, PlaceOK, Launches
  <2> QED
      BY <2>1, <2>2, <2>3, <2>4, <2>5, <2>6 DEF RequestOK
<1>7. NewOK(o, op'[o])
    BY <1>0, <1>3, <1>5 DEF NewOK, InLaunch, PlaceOK, Launches
<1> QED
    BY <1>5, <1>6, <1>7, MoveStep DEF AssertOwned

\* A deployment that runs is the answer, or the next one is asked.
LEMMA ProbeAnswerStep ==
    ASSUME ServiceInv, NEW o \in Op, ProbeAnswer(o)
    PROVE  ServiceInv'
<1>0. /\ op[o] \in ReqState /\ op \in [Op -> ReqState] /\ RequestOK(op[o])
      /\ PlaceOK(op[o]) /\ TargetOK(op[o]) /\ VersionOK(op[o]) /\ StatusOK(op[o])
      /\ PickOK(op[o]) /\ HaltOK(op[o]) /\ LaunchOK(op[o])
    BY AtStart
<1>1. op[o].pc = "probeGot" /\ op[o].kind = "deploy" /\ op[o].new \in Dep
    BY <1>0 DEF ProbeAnswer, PlaceOK, PickOK
<1>2. cache' \in [Replica -> [Dep -> Phases \cup {"none"}]] /\ CacheKept
    BY <1>0, <1>1, NoteOK DEF ProbeAnswer, LaunchOK, ReqState
<1>3. CASE op[o].obs = "running"
  <2>1. /\ op' = [op EXCEPT ![o] = op'[o]] /\ op'[o] \in ReqState /\ op'[o].pc = "leaving"
        /\ op'[o].kind = op[o].kind /\ op'[o].dep = op[o].dep /\ op'[o].new = op[o].new
        /\ op'[o].ver = op[o].ver
      BY <1>0, <1>3 DEF ProbeAnswer, Become, ReqState, Pcs
  <2>2. RequestOK(op'[o])
      BY <1>0, <1>1, <2>1 DEF RequestOK, PlaceOK, TargetOK, VersionOK, StatusOK, PickOK, HaltOK, LaunchOK, InLaunch, Touching,
         Owned, Asserting, Persisting, Launching, Acting, Ended, Scaled, Succeeds, Changes, Launches
  <2>3. NewOK(o, op'[o])
      BY <2>1 DEF NewOK, InLaunch
  <2> QED
      BY <1>2, <2>1, <2>2, <2>3, MoveStep DEF ProbeAnswer
<1>4. CASE op[o].obs # "running"
  <2>1. /\ op' = [op EXCEPT ![o] = op'[o]] /\ op'[o] \in ReqState /\ op'[o].pc = "probing"
        /\ op'[o].kind = op[o].kind /\ op'[o].dep = op[o].dep /\ op'[o].new = NoDep
        /\ op'[o].ver = op[o].ver /\ op'[o].cand \subseteq op[o].cand
    <3>1. op[o].cand \ {op[o].new} \in SUBSET Dep
        BY <1>0 DEF ReqState
    <3> QED
        BY <1>0, <1>4, <3>1 DEF ProbeAnswer, Become, ReqState, Pcs, Owned
  <2>2. RequestOK(op'[o])
      BY <1>0, <1>1, <2>1 DEF RequestOK, PlaceOK, TargetOK, VersionOK, StatusOK, PickOK, HaltOK, LaunchOK, InLaunch, Touching,
         Owned, Asserting, Persisting, Launching, Acting, Ended, Scaled, Succeeds, Changes, Launches
  <2>3. NewOK(o, op'[o])
      BY <2>1 DEF NewOK, InLaunch
  <2> QED
      BY <1>2, <2>1, <2>2, <2>3, MoveStep DEF ProbeAnswer
<1> QED
    BY <1>3, <1>4

\* provider.deploy: a deployment the provider knows of, or a new id.
LEMMA LaunchStep ==
    ASSUME ServiceInv, NEW o \in Op, DeployKnown(o) \/ DeployNew(o)
    PROVE  ServiceInv'
<1>0. /\ op[o] \in ReqState /\ op \in [Op -> ReqState] /\ RequestOK(op[o])
      /\ PlaceOK(op[o]) /\ TargetOK(op[o]) /\ VersionOK(op[o]) /\ StatusOK(op[o])
      /\ PickOK(op[o]) /\ HaltOK(op[o]) /\ LaunchOK(op[o])
    BY AtStart
<1>1. op[o].pc = "deploying" /\ op[o].kind \in Launches /\ op[o].ver # 0
    BY <1>0 DEF DeployKnown, DeployNew, PlaceOK, VersionOK, Launching, Launches, Owned
<1>2. CASE DeployKnown(o)
  <2>1. PICK d \in SameDeployment(o) :
          op' = [op EXCEPT ![o] = [op[o] EXCEPT !.pc = "launched", !.new = d, !.obs = "running"]]
      BY <1>2 DEF DeployKnown, Become
  <2>2. d \in Dep /\ workload[d].version = op[o].ver /\ Exists(d)
      BY <1>1 DEF SameDeployment, ServiceInv, Workloads
  <2>3. /\ op' = [op EXCEPT ![o] = op'[o]] /\ op'[o] \in ReqState /\ op'[o].pc = "launched"
        /\ op'[o].kind = op[o].kind /\ op'[o].dep = op[o].dep /\ op'[o].new = d
        /\ op'[o].ver = op[o].ver /\ op'[o].obs = "running"
      BY <1>0, <2>1, <2>2 DEF ReqState, Pcs, Owned, Asserting, Phases
  <2>4. RequestOK(op'[o])
      BY <1>0, <1>1, <2>2, <2>3 DEF RequestOK, PlaceOK, TargetOK, VersionOK, StatusOK, PickOK, HaltOK, LaunchOK, InLaunch, Touching,
         Owned, Asserting, Persisting, Launching, Acting, Ended, Scaled, Succeeds, Changes, Launches
  <2>5. NewOK(o, op'[o])
      BY <2>2, <2>3 DEF NewOK
  <2> QED
      BY <1>2, <2>3, <2>4, <2>5, MoveStep DEF DeployKnown
<1>3. CASE DeployNew(o)
  <2>1. PICK d \in Dep :
          /\ Unused(d) /\ Note(o, d, "starting")
          /\ op' = [op EXCEPT ![o] = [op[o] EXCEPT !.pc = "applying", !.new = d]]
      BY <1>3 DEF DeployNew, Become
  <2>2. cache' \in [Replica -> [Dep -> Phases \cup {"none"}]] /\ CacheKept
      BY <2>1, NoteOK DEF Phases
  <2>3. /\ op' = [op EXCEPT ![o] = op'[o]] /\ op'[o] \in ReqState /\ op'[o].pc = "applying"
        /\ op'[o].kind = op[o].kind /\ op'[o].dep = op[o].dep /\ op'[o].new = d
        /\ op'[o].ver = op[o].ver
      BY <1>0, <2>1 DEF ReqState, Pcs, Owned, Launching
  <2>4. RequestOK(op'[o])
      BY <1>0, <1>1, <2>1, <2>3 DEF RequestOK, PlaceOK, TargetOK, VersionOK, StatusOK, PickOK, HaltOK, LaunchOK, InLaunch, Touching,
         Owned, Asserting, Persisting, Launching, Acting, Ended, Scaled, Succeeds, Changes, Launches, Unused
  <2>5. NewOK(o, op'[o])
      BY <2>1, <2>3 DEF NewOK, Unused
  <2> QED
      BY <1>3, <2>2, <2>3, <2>4, <2>5, MoveStep DEF DeployNew
<1> QED
    BY <1>2, <1>3

\* The rollout is over, or has failed.
LEMMA LaunchedStep ==
    ASSUME ServiceInv, NEW o \in Op, RolloutDone(o) \/ LaunchFails(o)
    PROVE  ServiceInv'
<1>0. /\ op[o] \in ReqState /\ op \in [Op -> ReqState] /\ RequestOK(op[o])
      /\ PlaceOK(op[o]) /\ TargetOK(op[o]) /\ VersionOK(op[o]) /\ StatusOK(op[o])
      /\ PickOK(op[o]) /\ HaltOK(op[o]) /\ LaunchOK(op[o])
    BY AtStart
<1>1. PICK s \in {"running", "failed"} :
        /\ Note(o, op[o].new, s)
        /\ op' = [op EXCEPT ![o] = [op[o] EXCEPT !.pc = "launched", !.obs = s]]
    BY DEF RolloutDone, LaunchFails, Become
<1>2. op[o].pc \in {"applying", "rollout", "rolledOut"} /\ InLaunch(op[o]) /\ op[o].new \in Dep
    BY <1>0 DEF RolloutDone, LaunchFails, PlaceOK, Launching, InLaunch, LaunchOK
<1>3. cache' \in [Replica -> [Dep -> Phases \cup {"none"}]] /\ CacheKept
    BY <1>1, <1>2, NoteOK DEF Phases
<1>4. /\ op' = [op EXCEPT ![o] = op'[o]] /\ op'[o] \in ReqState /\ op'[o].pc = "launched"
      /\ op'[o].kind = op[o].kind /\ op'[o].dep = op[o].dep /\ op'[o].new = op[o].new
      /\ op'[o].ver = op[o].ver
    BY <1>0, <1>1 DEF ReqState, Pcs, Owned, Asserting, Phases
<1>5. RequestOK(op'[o])
    BY <1>0, <1>2, <1>4 DEF RequestOK, PlaceOK, TargetOK, VersionOK, StatusOK, PickOK, HaltOK, LaunchOK, InLaunch, Touching,
       Owned, Asserting, Persisting, Launching, Acting, Ended, Scaled, Succeeds, Changes, Launches
<1>6. NewOK(o, op'[o])
    BY <1>2, <1>4 DEF NewOK
<1> QED
    BY <1>3, <1>4, <1>5, <1>6, MoveStep DEF RolloutDone, LaunchFails

\* stop, restart and rollback ask for the status.
LEMMA AskStep ==
    ASSUME ServiceInv, NEW o \in Op, ActStatus(o) \/ Refresh(o)
    PROVE  ServiceInv'
<1>0. /\ op[o] \in ReqState /\ op \in [Op -> ReqState] /\ RequestOK(op[o])
      /\ PlaceOK(op[o]) /\ TargetOK(op[o]) /\ VersionOK(op[o]) /\ StatusOK(op[o])
      /\ PickOK(op[o]) /\ HaltOK(op[o]) /\ LaunchOK(op[o])
    BY AtStart
<1>1. PICK p, s :
        /\ op' = [op EXCEPT ![o] = [op[o] EXCEPT !.pc = p, !.obs = s]]
        /\ s = workload[op[o].dep].phase
        /\ \/ op[o].pc = "acting" /\ p = "actGot"
           \/ op[o].pc = "refreshing" /\ p = "refreshGot"
    BY DEF ActStatus, Refresh, Become
<1>2. op[o].dep \in Dep /\ Exists(op[o].dep)
    BY <1>0, <1>1 DEF ActStatus, Refresh, TargetOK, PlaceOK, Touching, Acting, Changes
<1>3. s \in Phases \cup {"none"} /\ s # "none"
    BY <1>1, <1>2 DEF ServiceInv, ServiceTypes, Exists
<1>4. /\ op' = [op EXCEPT ![o] = op'[o]] /\ op'[o] \in ReqState /\ op'[o].pc = p
      /\ op'[o].kind = op[o].kind /\ op'[o].dep = op[o].dep /\ op'[o].new = op[o].new
      /\ op'[o].ver = op[o].ver /\ op'[o].obs # "none"
  <2>1. p \in Pcs
      BY <1>1 DEF Pcs, Owned, Acting
  <2> QED
      BY <1>0, <1>1, <1>3, <2>1 DEF ReqState
<1>5. RequestOK(op'[o])
    BY <1>0, <1>1, <1>2, <1>4 DEF RequestOK, PlaceOK, TargetOK, VersionOK, StatusOK, PickOK, HaltOK, LaunchOK, InLaunch, Touching,
       Owned, Asserting, Persisting, Launching, Acting, Ended, Scaled, Succeeds, Changes, Launches
<1>6. NewOK(o, op'[o])
    BY <1>1, <1>4 DEF NewOK, InLaunch
<1> QED
    BY <1>4, <1>5, <1>6, MoveStep DEF ActStatus, Refresh

\* The answer to a call about its deployment arrives.
LEMMA AnswerStep ==
    ASSUME ServiceInv, NEW o \in Op, Answer(o)
    PROVE  ServiceInv'
<1>0. /\ op[o] \in ReqState /\ op \in [Op -> ReqState] /\ RequestOK(op[o])
      /\ PlaceOK(op[o]) /\ TargetOK(op[o]) /\ VersionOK(op[o]) /\ StatusOK(op[o])
      /\ PickOK(op[o]) /\ HaltOK(op[o]) /\ LaunchOK(op[o])
    BY AtStart
<1>1. op[o].pc \in {"observeGot", "actGot", "scaled", "rolled", "settled", "refreshGot"}
    BY DEF Answer, AfterAnswer
<1>2. PICK p, s :
        /\ op' = [op EXCEPT ![o] = [op[o] EXCEPT !.obs = s, !.pc = p]]
        /\ Note(o, op[o].dep, s) /\ s = AnswerStatus(o)
        /\ p = IF op[o].pc = "actGot" /\ op[o].kind = "restart"
               THEN "rolling" ELSE AfterAnswer[op[o].pc]
    BY DEF Answer, Become
<1>3. s \in Phases
  <2>1. CASE op[o].pc \in {"scaled", "rolled", "settled"}
      BY <1>2, <2>1 DEF AnswerStatus, Phases
  <2>2. CASE op[o].pc \in {"observeGot", "actGot", "refreshGot"}
      BY <1>0, <1>2, <2>2 DEF AnswerStatus, StatusOK, ReqState
  <2> QED
      BY <1>1, <2>1, <2>2
<1>4. op[o].dep \in Dep /\ Exists(op[o].dep)
    BY <1>0, <1>1 DEF TargetOK, PlaceOK, Touching, Acting, Changes
<1>5. cache' \in [Replica -> [Dep -> Phases \cup {"none"}]] /\ CacheKept
    BY <1>2, <1>3, <1>4, NoteOK DEF Phases
<1>6. \/ op[o].pc = "observeGot" /\ p = "observed"
      \/ op[o].pc = "actGot" /\ op[o].kind = "restart" /\ p = "rolling"
      \/ op[o].pc = "actGot" /\ op[o].kind # "restart" /\ p = "scaling"
      \/ op[o].pc = "scaled" /\ p = "acted"
      \/ op[o].pc = "rolled" /\ p = "awaiting"
      \/ op[o].pc = "settled" /\ p = "acted"
      \/ op[o].pc = "refreshGot" /\ p = "reading"
    BY <1>1, <1>2 DEF AfterAnswer
<1>7. /\ op' = [op EXCEPT ![o] = op'[o]] /\ op'[o] \in ReqState /\ op'[o].pc = p
      /\ op'[o].kind = op[o].kind /\ op'[o].dep = op[o].dep /\ op'[o].new = op[o].new
      /\ op'[o].ver = op[o].ver
  <2>1. p \in Pcs
      BY <1>6 DEF Pcs, Owned, Asserting, Acting
  <2> QED
      BY <1>0, <1>2, <1>3, <2>1 DEF ReqState
<1>8. RequestOK(op'[o])
  <2>1. PlaceOK(op'[o])
      BY <1>0, <1>6, <1>7 DEF PlaceOK, Launching, Acting, Ended, Changes, Launches
  <2>2. TargetOK(op'[o]) /\ StatusOK(op'[o])
      BY <1>0, <1>6, <1>7 DEF TargetOK, StatusOK, Touching, Acting, Persisting, Changes, PlaceOK
  <2>3. VersionOK(op'[o])
      BY <1>0, <1>6, <1>7 DEF VersionOK, Owned, Asserting, Persisting, Launching, Acting
  <2>4. PickOK(op'[o])
      BY <1>6, <1>7 DEF PickOK, Succeeds
  <2>5. HaltOK(op'[o])
      BY <1>0, <1>6, <1>7 DEF HaltOK, Succeeds, Scaled, Persisting, Launching, PlaceOK
  <2>6. LaunchOK(op'[o])
      BY <1>0, <1>6, <1>7 DEF LaunchOK, InLaunch
  <2> QED
      BY <2>1, <2>2, <2>3, <2>4, <2>5, <2>6 DEF RequestOK
<1>9. NewOK(o, op'[o])
    BY <1>6, <1>7 DEF NewOK, InLaunch
<1> QED
    BY <1>5, <1>7, <1>8, <1>9, MoveStep DEF Answer

\* status reads the record.
LEMMA StatusReadStep ==
    ASSUME ServiceInv, NEW o \in Op, StatusRead(o)
    PROVE  ServiceInv'
<1>0. /\ op[o] \in ReqState /\ op \in [Op -> ReqState] /\ RequestOK(op[o])
      /\ PlaceOK(op[o]) /\ TargetOK(op[o]) /\ VersionOK(op[o]) /\ StatusOK(op[o])
      /\ PickOK(op[o]) /\ HaltOK(op[o]) /\ LaunchOK(op[o])
    BY AtStart
<1>1. op[o].pc = "observed" /\ op[o].kind = "status" /\ op[o].dep \in Dep
    BY <1>0 DEF StatusRead, PlaceOK, TargetOK
<1>2. CASE ~Known(op[o].dep)
  <2>1. /\ op' = [op EXCEPT ![o] = op'[o]] /\ op'[o] \in ReqState /\ op'[o].pc = "failed"
        /\ op'[o].kind = op[o].kind /\ op'[o].dep = op[o].dep /\ op'[o].new = op[o].new
      BY <1>0, <1>2 DEF StatusRead, Go, ReqState, Pcs, Ended
  <2>2. RequestOK(op'[o])
      BY <1>0, <1>1, <2>1, LeftOK DEF Ended
  <2>3. NewOK(o, op'[o])
      BY <2>1 DEF NewOK, InLaunch
  <2> QED
      BY <2>1, <2>2, <2>3, MoveStep DEF StatusRead
<1>3. CASE Known(op[o].dep)
  <2>1. PICK s \in Readings(o, op[o].dep) :
          op' = [op EXCEPT ![o] = [op[o] EXCEPT !.pc = "upserting", !.obs = s]]
      BY <1>3 DEF StatusRead, Become
  <2>2. cache[op[o].rep][op[o].dep] \in Phases \cup {"none"}
      BY <1>0, <1>1 DEF ServiceInv, ServiceTypes, ReqState
  <2>3. s \in Phases \cup {"none"} /\ s # "none"
      BY <1>0, <2>1, <2>2 DEF Readings, ReqState
  <2>4. /\ op' = [op EXCEPT ![o] = op'[o]] /\ op'[o] \in ReqState /\ op'[o].pc = "upserting"
        /\ op'[o].kind = op[o].kind /\ op'[o].dep = op[o].dep /\ op'[o].new = op[o].new
        /\ op'[o].obs # "none"
      BY <1>0, <2>1, <2>3 DEF ReqState, Pcs
  <2>5. RequestOK(op'[o])
      BY <1>0, <1>1, <1>3, <2>4 DEF RequestOK, PlaceOK, TargetOK, VersionOK, StatusOK, PickOK, HaltOK, LaunchOK, InLaunch, Touching,
         Owned, Asserting, Persisting, Launching, Acting, Ended, Scaled, Succeeds, Changes, Launches
  <2>6. NewOK(o, op'[o])
      BY <2>4 DEF NewOK, InLaunch
  <2> QED
      BY <2>4, <2>5, <2>6, MoveStep DEF StatusRead
<1> QED
    BY <1>2, <1>3

-----------------------------------------------------------------------------
\* Steps that write a record or change a workload.

LEMMA WriteStep ==
    ASSUME ServiceInv, NEW o \in Op, Keeps, MadeBy(o),
           op' = [op EXCEPT ![o] = op'[o]], op'[o] \in ReqState,
           RequestOK(op[o])', NewOK(o, op'[o]), Workloads', RecordNamesVersion',
           records' \in [Dep -> [version : 0..MaxVersion, status : Phases \cup {"none"}]],
           workload' \in [Dep -> [version : 0..MaxVersion, phase : Phases \cup {"none"}]],
           UNCHANGED <<agentVars, cache, lease, lock, watch, faults>>
    PROVE  ServiceInv'
<1>1. Requests' /\ Sole' /\ op' \in [Op -> ReqState]
    BY RequestsKept
<1>2. Rounds'
    BY RoundsKept DEF CacheKept
<1>3. ServiceTypes'
    BY <1>1 DEF ServiceInv, ServiceTypes, agentVars
<1> QED
    BY <1>1, <1>2, <1>3 DEF ServiceInv

\* kubectl apply creates the workload.
LEMMA ApplyStep ==
    ASSUME ServiceInv, NEW o \in Op, Apply(o)
    PROVE  ServiceInv'
<1>0. /\ op[o] \in ReqState /\ op \in [Op -> ReqState] /\ RequestOK(op[o])
      /\ PlaceOK(op[o]) /\ TargetOK(op[o]) /\ VersionOK(op[o]) /\ StatusOK(op[o])
      /\ PickOK(op[o]) /\ HaltOK(op[o]) /\ LaunchOK(op[o])
    BY AtStart
<1>1. /\ op[o].pc = "applying" /\ InLaunch(op[o]) /\ op[o].new \in Dep /\ op[o].ver # 0
      /\ ~Exists(op[o].new) /\ ~Known(op[o].new)
    BY <1>0 DEF Apply, PlaceOK, Launching, Launches, InLaunch, LaunchOK, VersionOK, Owned
<1>2. /\ op' = [op EXCEPT ![o] = op'[o]] /\ op'[o] \in ReqState /\ op'[o].pc = "rollout"
      /\ op'[o].kind = op[o].kind /\ op'[o].dep = op[o].dep /\ op'[o].new = op[o].new
      /\ op'[o].ver = op[o].ver
    BY <1>0 DEF Apply, Go, ReqState, Pcs, Owned, Launching
<1>3. /\ workload \in [Dep -> [version : 0..MaxVersion, phase : Phases \cup {"none"}]]
      /\ records \in [Dep -> [version : 0..MaxVersion, status : Phases \cup {"none"}]]
    BY DEF ServiceInv, ServiceTypes
<1>4. /\ workload'[op[o].new] = [version |-> op[o].ver, phase |-> "starting"]
      /\ \A d \in Dep : d # op[o].new => workload'[d] = workload[d]
      /\ records' = records
    BY <1>1, <1>3 DEF Apply
<1>5. Keeps /\ MadeBy(o)
    BY <1>1, <1>4 DEF Keeps, MadeBy, Known, Exists
<1>6. Workloads' /\ RecordNamesVersion'
    BY <1>1, <1>4 DEF ServiceInv, Workloads, RecordNamesVersion, Known, Exists
<1>7. workload' \in [Dep -> [version : 0..MaxVersion, phase : Phases \cup {"none"}]]
    BY <1>0, <1>3 DEF Apply, ReqState, Phases
<1>8. RequestOK(op[o])'
  <2>1. PlaceOK(op[o])' /\ VersionOK(op[o])' /\ StatusOK(op[o])' /\ PickOK(op[o])'
      BY <1>0, <1>1, <1>2 DEF PlaceOK, VersionOK, StatusOK, PickOK, Succeeds, Acting, Launching, Ended,
         Owned, Persisting
  <2>2. TargetOK(op[o])' /\ HaltOK(op[o])'
      BY <1>0, <1>1, <1>2, <1>5 DEF TargetOK, HaltOK, Keeps, Scaled, Launching, Touching, Acting, Changes
  <2>3. LaunchOK(op[o])'
      BY <1>1, <1>2, <1>4 DEF LaunchOK, InLaunch, Exists
  <2> QED
      BY <2>1, <2>2, <2>3 DEF RequestOK
<1>9. NewOK(o, op'[o])
    BY <1>1, <1>2 DEF NewOK
<1> QED
    BY <1>2, <1>3, <1>4, <1>5, <1>6, <1>7, <1>8, <1>9, WriteStep DEF Apply

\* kubectl scale and kubectl rollout restart change the phase of a workload.
LEMMA PhaseStep ==
    ASSUME ServiceInv, NEW o \in Op, ScaleToZero(o) \/ RolloutRestart(o)
    PROVE  ServiceInv'
<1>0. /\ op[o] \in ReqState /\ op \in [Op -> ReqState] /\ RequestOK(op[o])
      /\ PlaceOK(op[o]) /\ TargetOK(op[o]) /\ VersionOK(op[o]) /\ StatusOK(op[o])
      /\ PickOK(op[o]) /\ HaltOK(op[o]) /\ LaunchOK(op[o])
    BY AtStart
<1>1. /\ op[o].pc \in {"scaling", "rolling"} /\ op[o].kind \in Changes
      /\ op[o].dep \in Dep /\ Exists(op[o].dep)
    BY <1>0 DEF ScaleToZero, RolloutRestart, PlaceOK, Acting, TargetOK, Touching, Changes
<1>2. /\ workload \in [Dep -> [version : 0..MaxVersion, phase : Phases \cup {"none"}]]
      /\ records \in [Dep -> [version : 0..MaxVersion, status : Phases \cup {"none"}]]
    BY DEF ServiceInv, ServiceTypes
<1>3. PICK s \in Phases :
        /\ workload' = [workload EXCEPT ![op[o].dep].phase = s]
        /\ workload[op[o].dep].phase = "stopped" => s = "stopped"
        /\ op[o].pc = "scaling" => s = "stopped"
  <2>1. CASE ScaleToZero(o)
      BY <2>1 DEF ScaleToZero, Phases
  <2>2. CASE RolloutRestart(o)
      BY <2>2, <1>1, <1>2 DEF RolloutRestart, Phases
  <2> QED
      BY <2>1, <2>2
<1>4. /\ workload'[op[o].dep].phase = s
      /\ workload'[op[o].dep].version = workload[op[o].dep].version
      /\ \A d \in Dep : d # op[o].dep => workload'[d] = workload[d]
      /\ records' = records
    BY <1>1, <1>2, <1>3 DEF ScaleToZero, RolloutRestart
<1>5. Keeps /\ MadeBy(o)
    BY <1>1, <1>3, <1>4 DEF Keeps, MadeBy, Known, Exists, Phases
<1>6. Workloads' /\ RecordNamesVersion'
    BY <1>1, <1>3, <1>4 DEF ServiceInv, Workloads, RecordNamesVersion, Known, Exists, Phases
<1>7. workload' \in [Dep -> [version : 0..MaxVersion, phase : Phases \cup {"none"}]]
  <2>1. [workload[op[o].dep] EXCEPT !.phase = s] \in [version : 0..MaxVersion, phase : Phases \cup {"none"}]
      BY <1>1, <1>2
  <2>2. workload' = [workload EXCEPT ![op[o].dep] = [workload[op[o].dep] EXCEPT !.phase = s]]
      BY <1>1, <1>2, <1>3
  <2> QED
      BY <1>2, <2>1, <2>2
<1>8. PICK p :
        /\ Go(o, p)
        /\ \/ op[o].pc = "scaling" /\ p = "scaled"
           \/ op[o].pc = "rolling" /\ p = "rolled"
    BY DEF ScaleToZero, RolloutRestart
<1>9. /\ op' = [op EXCEPT ![o] = op'[o]] /\ op'[o] \in ReqState /\ op'[o].pc = p
      /\ op'[o].kind = op[o].kind /\ op'[o].dep = op[o].dep /\ op'[o].new = op[o].new
      /\ op'[o].ver = op[o].ver
    BY <1>0, <1>8 DEF Go, ReqState, Pcs, Owned, Acting
<1>10. RequestOK(op[o])'
  <2>1. PlaceOK(op[o])' /\ VersionOK(op[o])' /\ StatusOK(op[o])' /\ PickOK(op[o])' /\ LaunchOK(op[o])'
      BY <1>0, <1>8, <1>9 DEF PlaceOK, VersionOK, StatusOK, PickOK, LaunchOK, InLaunch, Succeeds,
         Acting, Launching, Ended, Owned, Persisting
  <2>2. TargetOK(op[o])'
      BY <1>0, <1>1, <1>5, <1>8, <1>9 DEF TargetOK, Keeps, Touching, Acting, Changes
  <2>3. HaltOK(op[o])'
      BY <1>0, <1>3, <1>4, <1>8, <1>9 DEF HaltOK, Scaled, Succeeds, PlaceOK, Launching, Persisting
  <2> QED
      BY <2>1, <2>2, <2>3 DEF RequestOK
<1>11. NewOK(o, op'[o])
    BY <1>8, <1>9 DEF NewOK, InLaunch
<1> QED
    BY <1>2, <1>4, <1>5, <1>6, <1>7, <1>9, <1>10, <1>11, WriteStep DEF ScaleToZero, RolloutRestart

\* The fenced write of a record, and the unfenced ones of status and the
\* watcher: the version is set by the first write only.
LEMMA Upserted ==
    ASSUME ServiceInv, NEW d \in Dep, NEW v \in 0..MaxVersion, NEW s \in Phases, Upsert(d, v, s)
    PROVE  /\ records' \in [Dep -> [version : 0..MaxVersion, status : Phases \cup {"none"}]]
           /\ records'[d].status = s
           /\ records'[d].version = IF Known(d) THEN records[d].version ELSE v
           /\ \A e \in Dep : e # d => records'[e] = records[e]
           /\ Known(d)'
<1>1. records \in [Dep -> [version : 0..MaxVersion, status : Phases \cup {"none"}]]
    BY DEF ServiceInv, ServiceTypes
<1>2. PICK w \in 0..MaxVersion :
        /\ records' = [records EXCEPT ![d] = [version |-> w, status |-> s]]
        /\ w = IF Known(d) THEN records[d].version ELSE v
    BY <1>1 DEF Upsert
<1>3. [version |-> w, status |-> s] \in [version : 0..MaxVersion, status : Phases \cup {"none"}]
    OBVIOUS
<1> QED
    BY <1>1, <1>2, <1>3 DEF Known, Phases

LEMMA PersistStep ==
    ASSUME ServiceInv, NEW o \in Op, Persist(o)
    PROVE  ServiceInv'
<1>0. /\ op[o] \in ReqState /\ op \in [Op -> ReqState] /\ RequestOK(op[o])
      /\ PlaceOK(op[o]) /\ TargetOK(op[o]) /\ VersionOK(op[o]) /\ StatusOK(op[o])
      /\ PickOK(op[o]) /\ HaltOK(op[o]) /\ LaunchOK(op[o])
    BY AtStart
<1>1. /\ op[o].pc \in {"persisting", "persistingOld"} /\ op[o].kind # "status"
      /\ op[o].ver \in 0..MaxVersion /\ op[o].obs \in Phases
    BY <1>0 DEF Persist, Persisting, PlaceOK, Ended, ReqState, StatusOK
<1>2. PICK d \in Dep :
        /\ Upsert(d, op[o].ver, op[o].obs)
        /\ \/ InLaunch(op[o]) /\ d = op[o].new
           \/ ~InLaunch(op[o]) /\ d = op[o].dep /\ Known(d)
  <2>1. CASE InLaunch(op[o])
      BY <1>0, <1>1, <2>1 DEF Persist, InLaunch, Launches, LaunchOK
  <2>2. CASE ~InLaunch(op[o])
    <3>1. op[o].kind \in Changes /\ ~(op[o].pc = "persisting" /\ op[o].kind \in Launches)
        BY <1>0, <1>1, <2>2 DEF InLaunch, Launches, Changes, PlaceOK, ReqState, Kinds
    <3>2. op[o].dep \in Dep /\ Known(op[o].dep)
        BY <1>0, <1>1, <3>1 DEF TargetOK, Changes
    <3> QED
        BY <2>2, <3>1, <3>2 DEF Persist, Launches
  <2> QED
      BY <2>1, <2>2
<1>4. /\ records' \in [Dep -> [version : 0..MaxVersion, status : Phases \cup {"none"}]]
      /\ records'[d].version = IF Known(d) THEN records[d].version ELSE op[o].ver
      /\ \A e \in Dep : e # d => records'[e] = records[e]
      /\ Known(d)' /\ workload' = workload
    BY <1>1, <1>2, Upserted DEF Persist
<1>5. InLaunch(op[o]) /\ Exists(d) /\ d = op[o].new => workload[d].version = op[o].ver
    BY <1>0, <1>1 DEF LaunchOK, InLaunch
<1>6. Keeps /\ MadeBy(o)
  <2>1. Keeps
      BY <1>4 DEF Keeps, Known, Exists
  <2>2. MadeBy(o)
      BY <1>2, <1>4 DEF MadeBy, Known, Exists
  <2> QED
      BY <2>1, <2>2
<1>7. Workloads' /\ RecordNamesVersion'
  <2>1. Workloads'
      BY <1>4 DEF ServiceInv, Workloads, Exists
  <2>2. ASSUME NEW e \in Dep, Known(e)', Exists(e)' PROVE records'[e].version = workload'[e].version
    <3>1. Exists(e)
        BY <1>4, <2>2 DEF Exists
    <3>2. CASE e # d
        BY <1>4, <2>2, <3>1, <3>2 DEF ServiceInv, RecordNamesVersion, Known
    <3>3. CASE e = d
        BY <1>1, <1>2, <1>4, <1>5, <3>1, <3>3 DEF ServiceInv, RecordNamesVersion, InLaunch
    <3> QED
        BY <3>2, <3>3
  <2> QED
      BY <2>1, <2>2 DEF RecordNamesVersion
<1>8. /\ op' = [op EXCEPT ![o] = op'[o]] /\ op'[o] \in ReqState
      /\ op[o].pc = "persisting" => op'[o].pc = "leaving"
      /\ op[o].pc = "persistingOld" => op'[o].pc = "launching"
      /\ op'[o].kind = op[o].kind /\ op'[o].dep = op[o].dep /\ op'[o].new = op[o].new
      /\ op'[o].ver = op[o].ver
  <2>1. PICK p \in {"leaving", "launching"} :
          /\ op' = [op EXCEPT ![o] = [op[o] EXCEPT !.pc = p, !.obs = "none"]]
          /\ p = IF op[o].pc = "persisting" THEN "leaving" ELSE "launching"
      BY <1>0 DEF Persist, Become, ReqState
  <2> QED
      BY <1>0, <1>1, <2>1 DEF ReqState, Pcs, Owned, Asserting
<1>9. RequestOK(op[o])'
  <2>1. PlaceOK(op[o])' /\ VersionOK(op[o])' /\ StatusOK(op[o])' /\ LaunchOK(op[o])'
      BY <1>0, <1>1, <1>8 DEF PlaceOK, VersionOK, StatusOK, LaunchOK, InLaunch, Acting, Launching, Ended,
         Owned, Persisting, Asserting, Launches
  <2>2. TargetOK(op[o])' /\ HaltOK(op[o])'
      BY <1>0, <1>1, <1>6, <1>8 DEF TargetOK, HaltOK, Keeps, Scaled, Succeeds, Persisting, Touching, Acting, Changes
  <2>3. PickOK(op[o])'
    <3>1. CASE InLaunch(op[o])
      <4>1. d = op[o].new /\ (Known(d) => Exists(d))
          BY <1>0, <1>2, <3>1 DEF LaunchOK
      <4>2. records'[d].version = op[o].ver
          BY <1>4, <1>5, <3>1, <4>1 DEF ServiceInv, RecordNamesVersion
      <4> QED
          BY <1>1, <1>4, <1>8, <4>1, <4>2 DEF PickOK
    <3>2. CASE ~InLaunch(op[o])
        BY <1>1, <1>8, <3>2 DEF PickOK, Succeeds, InLaunch
    <3> QED
        BY <3>1, <3>2
  <2> QED
      BY <2>1, <2>2, <2>3 DEF RequestOK
<1>10. NewOK(o, op'[o])
    BY <1>1, <1>8 DEF NewOK, InLaunch
<1>11. workload' \in [Dep -> [version : 0..MaxVersion, phase : Phases \cup {"none"}]]
    BY <1>4 DEF ServiceInv, ServiceTypes
<1> QED
    BY <1>4, <1>6, <1>7, <1>8, <1>9, <1>10, <1>11, WriteStep DEF Persist

\* An unfenced write is of a record that is there already.
LEMMA ObservedWrite ==
    ASSUME ServiceInv, NEW d \in Dep, NEW s \in Phases, Upsert(d, 0, s), Known(d), UNCHANGED workload
    PROVE  /\ Keeps /\ NoneMade /\ Workloads' /\ RecordNamesVersion'
           /\ records' \in [Dep -> [version : 0..MaxVersion, status : Phases \cup {"none"}]]
<1>1. 0 \in 0..MaxVersion
    BY BoundsAssumption
<1>2. /\ records' \in [Dep -> [version : 0..MaxVersion, status : Phases \cup {"none"}]]
      /\ records'[d].version = records[d].version
      /\ \A e \in Dep : e # d => records'[e] = records[e]
      /\ Known(d)'
    BY <1>1, Upserted
<1>3. Keeps /\ NoneMade
    BY <1>2 DEF Keeps, NoneMade, Known, Exists
<1>4. Workloads' /\ RecordNamesVersion'
    BY <1>2 DEF ServiceInv, Workloads, RecordNamesVersion, Known, Exists
<1> QED
    BY <1>2, <1>3, <1>4

LEMMA StatusWriteStep ==
    ASSUME ServiceInv, NEW o \in Op, StatusWrite(o)
    PROVE  ServiceInv'
<1>0. /\ op[o] \in ReqState /\ op \in [Op -> ReqState] /\ RequestOK(op[o])
      /\ PlaceOK(op[o]) /\ TargetOK(op[o]) /\ VersionOK(op[o]) /\ StatusOK(op[o])
      /\ PickOK(op[o]) /\ HaltOK(op[o]) /\ LaunchOK(op[o])
    BY AtStart
<1>1. /\ op[o].pc = "upserting" /\ op[o].kind = "status"
      /\ op[o].dep \in Dep /\ Known(op[o].dep) /\ op[o].obs \in Phases
    BY <1>0 DEF StatusWrite, PlaceOK, TargetOK, StatusOK, ReqState
<1>2. /\ Keeps /\ NoneMade /\ Workloads' /\ RecordNamesVersion'
      /\ records' \in [Dep -> [version : 0..MaxVersion, status : Phases \cup {"none"}]]
    BY <1>1, ObservedWrite DEF StatusWrite
<1>3. /\ op' = [op EXCEPT ![o] = op'[o]] /\ op'[o] \in ReqState /\ op'[o].pc = "ok"
      /\ op'[o].kind = op[o].kind /\ op'[o].dep = op[o].dep /\ op'[o].new = op[o].new
    BY <1>0 DEF StatusWrite, Become, ReqState, Pcs, Ended
<1>4. RequestOK(op[o])'
    BY <1>1, <1>3 DEF RequestOK, PlaceOK, TargetOK, VersionOK, StatusOK, PickOK, HaltOK, LaunchOK, InLaunch, Touching,
       Owned, Asserting, Persisting, Launching, Acting, Ended, Scaled, Succeeds, Changes, Launches
<1>5. NewOK(o, op'[o])
    BY <1>3 DEF NewOK, InLaunch
<1>6. MadeBy(o)
    BY <1>2 DEF MadeBy, NoneMade
<1>7. workload' \in [Dep -> [version : 0..MaxVersion, phase : Phases \cup {"none"}]]
    BY DEF StatusWrite, ServiceInv, ServiceTypes
<1> QED
    BY <1>2, <1>3, <1>4, <1>5, <1>6, <1>7, WriteStep DEF StatusWrite

-----------------------------------------------------------------------------
\* The watchers.

LEMMA RoundStep ==
    ASSUME ServiceInv, NEW r \in Replica,
           watch' = [watch EXCEPT ![r] = watch'[r]], watch'[r] \in Round, RoundOK(r)',
           cache' \in [Replica -> [Dep -> Phases \cup {"none"}]],
           \A x \in Replica : x # r => cache'[x] = cache[x],
           faults' \in 0..MaxFaults,
           UNCHANGED <<agentVars, records, workload, lease, lock, op>>
    PROVE  ServiceInv'
<1>1. watch \in [Replica -> Round] /\ Rounds
    BY DEF ServiceInv, ServiceTypes
<1>2. watch' \in [Replica -> Round] /\ \A x \in Replica : x # r => watch'[x] = watch[x]
    BY <1>1
<1>3. Rounds'
  <2> SUFFICES ASSUME NEW x \in Replica, x # r PROVE RoundOK(x)'
      BY DEF Rounds
  <2>1. RoundOK(x) /\ watch'[x] = watch[x] /\ cache'[x] = cache[x]
      BY <1>1, <1>2 DEF Rounds
  <2> QED
      BY <2>1 DEF RoundOK, Known, Exists
<1>4. Keeps /\ NoneMade
    BY DEF Keeps, NoneMade, Known, Exists
<1>5. Requests' /\ Sole'
    BY <1>4, UnmovedKept
<1>6. Workloads' /\ RecordNamesVersion'
    BY DEF ServiceInv, Workloads, RecordNamesVersion, Known, Exists
<1>7. ServiceTypes'
    BY <1>2 DEF ServiceInv, ServiceTypes, agentVars
<1> QED
    BY <1>3, <1>5, <1>6, <1>7 DEF ServiceInv

\* Steps that leave the provider's objects alone.
LEMMA LookStep ==
    ASSUME ServiceInv, NEW r \in Replica,
           \/ WatchList(r) \/ WatchProbe(r) \/ WatchSleep(r) \/ WatchFails(r)
           \/ \E d \in Dep : WatchRead(r, d)
    PROVE  ServiceInv'
<1>1. watch \in [Replica -> Round] /\ watch[r] \in Round /\ RoundOK(r) /\ faults \in 0..MaxFaults
    BY DEF ServiceInv, ServiceTypes, Rounds
<1>2. cache \in [Replica -> [Dep -> Phases \cup {"none"}]] /\ cache' = cache
      /\ records' = records /\ workload' = workload
    BY DEF ServiceInv, ServiceTypes, WatchList, WatchProbe, WatchSleep, WatchFails, WatchRead
<1>3. Idle \in Round
    BY DEF Idle, Round
<1>4. /\ watch' = [watch EXCEPT ![r] = watch'[r]]
      /\ watch'[r] \in Round /\ RoundOK(r)'
  <2>1. CASE WatchSleep(r) \/ WatchFails(r)
    <3>1. watch'[r] = Idle /\ watch' = [watch EXCEPT ![r] = watch'[r]]
        BY <1>1, <2>1 DEF WatchSleep, WatchFails
    <3> QED
        BY <1>3, <3>1 DEF RoundOK, Idle
  <2>2. CASE WatchList(r)
    <3>1. watch'[r] = [Idle EXCEPT !.pc = "listing", !.todo = {d \in Dep : Exists(d)}]
          /\ watch' = [watch EXCEPT ![r] = watch'[r]]
        BY <1>1, <2>2 DEF WatchList
    <3>2. /\ watch'[r].pc = "listing" /\ watch'[r].todo = {d \in Dep : Exists(d)}
          /\ watch'[r].seen = {} /\ watch'[r] \in Round
        BY <3>1 DEF Idle, Round
    <3> QED
        BY <1>2, <3>1, <3>2 DEF RoundOK, Exists
  <2>3. CASE WatchProbe(r)
    <3>1. watch[r].at \in Dep /\ Exists(watch[r].at)
        BY <1>1, <2>3 DEF RoundOK, WatchProbe
    <3>2. workload[watch[r].at].phase \in Phases \cup {"none"}
        BY <3>1 DEF ServiceInv, ServiceTypes
    <3>3. /\ watch' = [watch EXCEPT ![r] = watch'[r]]
          /\ watch'[r].pc = "probeGot" /\ watch'[r].todo = watch[r].todo /\ watch'[r].seen = watch[r].seen
          /\ watch'[r].at = watch[r].at /\ watch'[r].obs = workload[watch[r].at].phase
          /\ watch'[r] \in Round
        BY <1>1, <2>3, <3>2 DEF WatchProbe, Round
    <3> QED
        BY <1>1, <1>2, <3>1, <3>3 DEF RoundOK, Exists
  <2>4. CASE \E d \in Dep : WatchRead(r, d)
    <3>1. PICK d \in Dep : WatchRead(r, d)
        BY <2>4
    <3>5. d \in watch[r].seen /\ watch[r].pc = "listing"
        BY <3>1 DEF WatchRead
    <3>2. cache[r][d] \in Phases \cup {"none"} /\ cache[r][d] # "none"
        BY <1>1, <1>2, <3>5 DEF RoundOK
    <3>3. CASE Known(d)
      <4>1. /\ watch' = [watch EXCEPT ![r] = watch'[r]]
            /\ watch'[r].pc = "writing" /\ watch'[r].todo = watch[r].todo
            /\ watch'[r].seen = watch[r].seen \ {d}
            /\ watch'[r].at = d /\ watch'[r].obs = cache[r][d]
            /\ watch'[r] \in Round
        <5>1. watch' = [watch EXCEPT ![r] = [watch[r] EXCEPT !.pc = "writing", !.at = d,
                                               !.obs = cache[r][d], !.seen = watch[r].seen \ {d}]]
            BY <3>1, <3>3 DEF WatchRead
        <5> QED
            BY <1>1, <3>2, <5>1 DEF Round
      <4> QED
          BY <1>1, <1>2, <3>2, <3>3, <4>1 DEF RoundOK, Exists, Known
    <3>4. CASE ~Known(d)
      <4>1. /\ watch' = [watch EXCEPT ![r] = watch'[r]]
            /\ watch'[r].pc = "listing" /\ watch'[r].todo = watch[r].todo
            /\ watch'[r].seen = watch[r].seen \ {d}
            /\ watch'[r] \in Round
        <5>1. watch' = [watch EXCEPT ![r] = [watch[r] EXCEPT !.seen = watch[r].seen \ {d}]]
            BY <3>1, <3>4 DEF WatchRead
        <5> QED
            BY <1>1, <3>5, <5>1 DEF Round
      <4> QED
          BY <1>1, <1>2, <4>1 DEF RoundOK, Exists, Known
    <3> QED
        BY <3>3, <3>4
  <2> QED
      BY <2>1, <2>2, <2>3, <2>4
<1>5. faults' \in 0..MaxFaults
  <2>1. faults' = faults \/ (faults < MaxFaults /\ faults' = faults + 1)
      BY DEF WatchList, WatchProbe, WatchSleep, WatchFails, WatchRead
  <2> QED
      BY <1>1, <2>1, BoundsAssumption
<1> QED
    BY <1>2, <1>4, <1>5, RoundStep DEF WatchList, WatchProbe, WatchSleep, WatchFails, WatchRead

\* Steps that replace or update the provider's objects.
LEMMA ObjectStep ==
    ASSUME ServiceInv, NEW r \in Replica, WatchAnswer(r) \/ \E d \in Dep : WatchReplace(r, d)
    PROVE  ServiceInv'
<1>1. watch \in [Replica -> Round] /\ watch[r] \in Round /\ RoundOK(r)
    BY DEF ServiceInv, ServiceTypes, Rounds
<1>2. cache \in [Replica -> [Dep -> Phases \cup {"none"}]]
    BY DEF ServiceInv, ServiceTypes
<1>3. CASE WatchAnswer(r)
  <2>1. PICK d \in Dep, s \in Phases \cup {"none"} :
          d = watch[r].at /\ s = watch[r].obs /\ s # "none" /\ Exists(d)
      BY <1>1, <1>3 DEF WatchAnswer, RoundOK, Round
  <2>2. /\ cache' = [cache EXCEPT ![r][d] = s] /\ records' = records /\ workload' = workload
        /\ watch' = [watch EXCEPT ![r] = watch'[r]]
        /\ watch'[r].pc = "listing" /\ watch'[r].todo = watch[r].todo
        /\ watch'[r].seen = watch[r].seen \cup {d} /\ watch'[r] \in Round
      BY <1>1, <1>3, <2>1 DEF WatchAnswer, Round
  <2>3. /\ cache' \in [Replica -> [Dep -> Phases \cup {"none"}]]
        /\ \A x \in Replica : x # r => cache'[x] = cache[x]
        /\ cache'[r][d] = s /\ \A e \in Dep : e # d => cache'[r][e] = cache[r][e]
      BY <1>2, <2>1, <2>2
  <2>4. RoundOK(r)'
      BY <1>1, <2>1, <2>2, <2>3 DEF RoundOK, Exists, Round
  <2>5. faults' \in 0..MaxFaults
      BY <1>3 DEF WatchAnswer, ServiceInv, ServiceTypes
  <2> QED
      BY <1>3, <2>2, <2>3, <2>4, <2>5, RoundStep DEF WatchAnswer
<1>4. CASE \E d \in Dep : WatchReplace(r, d)
  <2>1. PICK d \in Dep : WatchReplace(r, d)
      BY <1>4
  <2>2. /\ cache' = [cache EXCEPT ![r][d] = "starting"] /\ records' = records /\ workload' = workload
        /\ watch' = [watch EXCEPT ![r] = watch'[r]] /\ d \in watch[r].todo
        /\ watch'[r].pc = "probing" /\ watch'[r].todo = watch[r].todo \ {d} /\ watch'[r].at = d
        /\ watch'[r].seen = watch[r].seen /\ watch'[r] \in Round
      BY <1>1, <2>1 DEF WatchReplace, Round
  <2>3. /\ cache' \in [Replica -> [Dep -> Phases \cup {"none"}]]
        /\ \A x \in Replica : x # r => cache'[x] = cache[x]
        /\ cache'[r][d] = "starting" /\ \A e \in Dep : e # d => cache'[r][e] = cache[r][e]
      BY <1>2, <2>2 DEF Phases
  <2>4. RoundOK(r)'
      BY <1>1, <2>2, <2>3 DEF RoundOK, Exists, Round
  <2>5. faults' \in 0..MaxFaults
      BY <2>1 DEF WatchReplace, ServiceInv, ServiceTypes
  <2> QED
      BY <2>1, <2>2, <2>3, <2>4, <2>5, RoundStep DEF WatchReplace
<1> QED
    BY <1>3, <1>4

LEMMA WatchWriteStep ==
    ASSUME ServiceInv, NEW r \in Replica, WatchWrite(r)
    PROVE  ServiceInv'
<1>1. watch \in [Replica -> Round] /\ watch[r] \in Round /\ RoundOK(r) /\ Rounds
    BY DEF ServiceInv, ServiceTypes, Rounds
<1>2. watch[r].at \in Dep /\ Known(watch[r].at) /\ watch[r].obs \in Phases
    BY <1>1 DEF WatchWrite, RoundOK, Round
<1>3. /\ Keeps /\ NoneMade /\ Workloads' /\ RecordNamesVersion'
      /\ records' \in [Dep -> [version : 0..MaxVersion, status : Phases \cup {"none"}]]
    BY <1>2, ObservedWrite DEF WatchWrite
<1>4. Requests' /\ Sole'
    BY <1>3, UnmovedKept DEF WatchWrite
<1>5. /\ watch' \in [Replica -> Round]
      /\ watch'[r].pc = "listing" /\ watch'[r].todo = watch[r].todo /\ watch'[r].seen = watch[r].seen
      /\ \A x \in Replica : x # r => watch'[x] = watch[x]
    BY <1>1 DEF WatchWrite, Round
<1>6. Rounds'
  <2> SUFFICES ASSUME NEW x \in Replica PROVE RoundOK(x)'
      BY DEF Rounds
  <2>1. RoundOK(x) /\ watch[x] \in Round /\ cache' = cache /\ workload' = workload
      BY <1>1 DEF Rounds, WatchWrite
  <2>2. CASE x = r
      BY <1>5, <2>1, <2>2 DEF RoundOK, Exists
  <2>3. CASE x # r
      BY <1>3, <1>5, <2>1, <2>3 DEF RoundOK, Exists, Keeps
  <2> QED
      BY <2>2, <2>3
<1>7. ServiceTypes'
    BY <1>3, <1>5 DEF WatchWrite, ServiceInv, ServiceTypes, agentVars
<1> QED
    BY <1>3, <1>4, <1>6, <1>7 DEF ServiceInv

-----------------------------------------------------------------------------
\* The environment.

\* Pods become ready, fail or are lost: never those of a stopped workload.
LEMMA PodsStep ==
    ASSUME ServiceInv, NEW d \in Dep, PodsReady(d) \/ PodsFail(d) \/ PodsLost(d)
    PROVE  ServiceInv'
<1>1. workload \in [Dep -> [version : 0..MaxVersion, phase : Phases \cup {"none"}]]
    BY DEF ServiceInv, ServiceTypes
<1>2. PICK s \in Phases :
        /\ workload' = [workload EXCEPT ![d].phase = s]
        /\ workload[d].phase \in {"starting", "running", "failed"}
        /\ UNCHANGED <<agentVars, records, cache, lease, lock, op, watch, faults>>
    BY DEF PodsReady, PodsFail, PodsLost, Phases
<1>3. /\ workload'[d].phase = s /\ workload'[d].version = workload[d].version
      /\ \A e \in Dep : e # d => workload'[e] = workload[e]
      /\ workload' \in [Dep -> [version : 0..MaxVersion, phase : Phases \cup {"none"}]]
  <2>1. [workload[d] EXCEPT !.phase = s] \in [version : 0..MaxVersion, phase : Phases \cup {"none"}]
      BY <1>1
  <2>2. workload' = [workload EXCEPT ![d] = [workload[d] EXCEPT !.phase = s]]
      BY <1>1, <1>2
  <2> QED
      BY <1>1, <2>1, <2>2
<1>4. Keeps /\ NoneMade
    BY <1>2, <1>3 DEF Keeps, NoneMade, Known, Exists, Phases
<1>5. Requests' /\ Sole'
    BY <1>2, <1>4, UnmovedKept
<1>6. Workloads' /\ RecordNamesVersion'
    BY <1>2, <1>3 DEF ServiceInv, Workloads, RecordNamesVersion, Known, Exists, Phases
<1>7. Rounds'
    BY <1>2, <1>4, RoundsKept DEF CacheKept
<1>8. ServiceTypes'
    BY <1>2, <1>3 DEF ServiceInv, ServiceTypes, agentVars
<1> QED
    BY <1>5, <1>6, <1>7, <1>8 DEF ServiceInv

\* Leases expire and come back, the agent changes.
LEMMA AroundStep ==
    ASSUME ServiceInv,
           AddVersion \/ Disable \/ (\E k \in Keys : Expire(k)) \/ (\E o \in Op : Renew(o))
    PROVE  ServiceInv'
<1>1. UNCHANGED <<records, workload, cache, lock, op, watch>>
    BY DEF AddVersion, Disable, Expire, Renew
<1>2. Keeps /\ NoneMade
    BY <1>1 DEF Keeps, NoneMade, Known, Exists
<1>3. Requests' /\ Sole'
    BY <1>1, <1>2, UnmovedKept
<1>4. Workloads' /\ RecordNamesVersion'
    BY <1>1 DEF ServiceInv, Workloads, RecordNamesVersion, Known, Exists
<1>5. Rounds'
    BY <1>1, <1>2, RoundsKept DEF CacheKept
<1>6. ServiceTypes'
  <2>1. CASE AddVersion \/ Disable
    <3>1. head' \in 1..MaxVersion /\ active' \in BOOLEAN
      <4>1. head' = head \/ (head < MaxVersion /\ head' = head + 1)
          BY <2>1 DEF AddVersion, Disable
      <4>2. active' = active \/ active' = FALSE
          BY <2>1 DEF AddVersion, Disable
      <4>3. head \in 1..MaxVersion
          BY DEF ServiceInv, ServiceTypes
      <4>4. active \in BOOLEAN
          BY DEF ServiceInv, ServiceTypes
      <4>5. head' \in 1..MaxVersion
          BY <4>1, <4>3, BoundsAssumption
      <4>6. active' \in BOOLEAN
          BY <4>2, <4>4
      <4> QED
          BY <4>5, <4>6
    <3> QED
        BY <1>1, <2>1, <3>1 DEF AddVersion, Disable, ServiceInv, ServiceTypes
  <2>2. CASE \E k \in Keys : Expire(k)
    <3>1. PICK k \in Keys : Expire(k)
        BY <2>2
    <3>2. lease' \in [Keys -> [op : Op \cup {NoOp}, live : BOOLEAN]]
      <4>1. lease \in [Keys -> [op : Op \cup {NoOp}, live : BOOLEAN]]
          BY DEF ServiceInv, ServiceTypes
      <4>2. lease' = [lease EXCEPT ![k] = [lease[k] EXCEPT !.live = FALSE]]
          BY <3>1, <4>1 DEF Expire
      <4>3. [lease[k] EXCEPT !.live = FALSE] \in [op : Op \cup {NoOp}, live : BOOLEAN]
          BY <4>1
      <4> QED
          BY <4>1, <4>2, <4>3
    <3>3. faults' \in 0..MaxFaults
        BY <3>1, BoundsAssumption DEF Expire, ServiceInv, ServiceTypes
    <3> QED
        BY <1>1, <3>1, <3>2, <3>3 DEF Expire, ServiceInv, ServiceTypes, agentVars
  <2>3. CASE \E o \in Op : Renew(o)
    <3>1. PICK o \in Op : Renew(o)
        BY <2>3
    <3>2. PICK k : k = Key(o)
        OBVIOUS
    <3>3. lease' \in [Keys -> [op : Op \cup {NoOp}, live : BOOLEAN]]
      <4>1. lease \in [Keys -> [op : Op \cup {NoOp}, live : BOOLEAN]]
          BY DEF ServiceInv, ServiceTypes
      <4>2. lease' = [lease EXCEPT ![k] = [lease[k] EXCEPT !.live = TRUE]]
          BY <3>1, <3>2, <4>1 DEF Renew
      <4>3. ASSUME k \in Keys
            PROVE  [lease[k] EXCEPT !.live = TRUE] \in [op : Op \cup {NoOp}, live : BOOLEAN]
          BY <4>1, <4>3
      <4> QED
          BY <4>1, <4>2, <4>3
    <3> QED
        BY <1>1, <3>1, <3>3 DEF Renew, ServiceInv, ServiceTypes, agentVars
  <2> QED
      BY <2>1, <2>2, <2>3
<1> QED
    BY <1>3, <1>4, <1>5, <1>6 DEF ServiceInv

\* A replica dies: what its requests were doing stays as far as it got.
LEMMA CrashStep ==
    ASSUME ServiceInv, NEW r \in Replica, Crash(r)
    PROVE  ServiceInv'
<1>1. op \in [Op -> ReqState] /\ \A o \in Op : RequestOK(op[o])
    BY DEF ServiceInv, ServiceTypes, Requests
<1>2. UNCHANGED <<agentVars, records, workload, lease>>
    BY DEF Crash
<1>3. ASSUME NEW o \in Op
      PROVE  /\ op'[o] \in ReqState /\ RequestOK(op'[o]) /\ op'[o].new = op[o].new
             /\ InLaunch(op'[o]) => InLaunch(op[o])
  <2>1. CASE op'[o] = op[o]
      BY <1>1, <2>1
  <2>2. CASE op'[o] # op[o]
    <3>1. /\ op[o].pc # "new"
          /\ op'[o] = [op[o] EXCEPT !.pc = "crashed", !.obs = "none", !.err = "none", !.cand = {}]
        BY <2>2 DEF Crash
    <3>2. /\ op'[o] \in ReqState /\ op'[o].pc = "crashed" /\ op'[o].new = op[o].new
          /\ op'[o].kind = op[o].kind /\ op'[o].dep = op[o].dep
      <4>1. op[o] \in ReqState
          BY <1>1
      <4> QED
          BY <3>1, <4>1 DEF ReqState, Pcs, Ended
    <3>3. RequestOK(op'[o])
        BY <1>1, <3>1, <3>2, LeftOK DEF Ended
    <3> QED
        BY <3>2, <3>3 DEF InLaunch
  <2> QED
      BY <2>1, <2>2
<1>4. op' \in [Op -> ReqState]
    BY <1>3 DEF Crash
<1>5. Requests'
  <2> SUFFICES ASSUME NEW o \in Op PROVE RequestOK(op[o])'
      BY DEF Requests
  <2> QED
      BY <1>2, <1>3 DEF RequestOK, PlaceOK, TargetOK, VersionOK, StatusOK, PickOK, HaltOK,
         LaunchOK, InLaunch, Succeeds, Known, Exists
<1>6. Sole'
  <2> SUFFICES ASSUME NEW o \in Op, NEW p \in Op, o # p, InLaunch(op'[o]), ~Exists(op[o].new)'
               PROVE  op'[p].new # op'[o].new
      BY DEF Sole, InLaunch
  <2>1. InLaunch(op[o]) /\ ~Exists(op[o].new)
      BY <1>2, <1>3 DEF Exists
  <2> QED
      BY <1>3, <2>1 DEF ServiceInv, Sole
<1>7. cache' \in [Replica -> [Dep -> Phases \cup {"none"}]] /\ \A x \in Replica : x # r => cache'[x] = cache[x]
  <2>1. [d \in Dep |-> "none"] \in [Dep -> Phases \cup {"none"}]
      OBVIOUS
  <2> QED
      BY <2>1 DEF Crash, ServiceInv, ServiceTypes
<1>8. watch' \in [Replica -> Round] /\ watch'[r] = Idle /\ \A x \in Replica : x # r => watch'[x] = watch[x]
  <2>1. Idle \in Round
      BY DEF Idle, Round
  <2> QED
      BY <2>1 DEF Crash, ServiceInv, ServiceTypes
<1>9. Rounds'
  <2> SUFFICES ASSUME NEW x \in Replica PROVE RoundOK(x)'
      BY DEF Rounds
  <2>1. CASE x = r
      BY <1>8, <2>1 DEF RoundOK, Idle
  <2>2. CASE x # r
    <3>1. RoundOK(x) /\ watch'[x] = watch[x] /\ cache'[x] = cache[x]
        BY <1>7, <1>8, <2>2 DEF ServiceInv, Rounds
    <3> QED
        BY <1>2, <3>1 DEF RoundOK, Known, Exists
  <2> QED
      BY <2>1, <2>2
<1>10. lock' \in [Replica -> Op \cup {NoOp}] /\ faults' \in 0..MaxFaults
  <2>1. lock' \in [Replica -> Op \cup {NoOp}]
      BY DEF Crash, ServiceInv, ServiceTypes
  <2>2. faults \in 0..MaxFaults /\ faults < MaxFaults /\ faults' = faults + 1
      BY DEF Crash, ServiceInv, ServiceTypes
  <2> QED
      BY <2>1, <2>2, BoundsAssumption
<1>11. Workloads' /\ RecordNamesVersion'
    BY <1>2 DEF ServiceInv, Workloads, RecordNamesVersion, Known, Exists
<1>12. ServiceTypes'
    BY <1>2, <1>4, <1>7, <1>8, <1>10 DEF ServiceInv, ServiceTypes, agentVars
<1> QED
    BY <1>5, <1>6, <1>9, <1>11, <1>12 DEF ServiceInv

-----------------------------------------------------------------------------
\* The inductive invariant and what follows from it.

LEMMA ServiceStarts ==
    Init => ServiceInv
<1> SUFFICES ASSUME Init PROVE ServiceInv
    OBVIOUS
<1>1. PICK mix \in Mixes, at \in [Op -> Replica] :
        op = [o \in Op |-> [pc |-> "new", kind |-> mix[o], rep |-> at[o],
                            dep |-> NoDep, new |-> NoDep, ver |-> 0, obs |-> "none",
                            err |-> "none", cand |-> {}]]
    BY DEF Init
<1>2. 0 \in 0..MaxVersion /\ 1 \in 1..MaxVersion /\ 0 \in 0..MaxFaults
    BY BoundsAssumption
<1>3. ASSUME NEW o \in Op
      PROVE  op[o] \in ReqState /\ op[o].pc = "new"
    BY <1>1, <1>2, MixesAssumption DEF ReqState, Pcs, Kinds
<1>4. Requests
    BY <1>3 DEF Requests, RequestOK, PlaceOK, TargetOK, VersionOK, StatusOK, PickOK, HaltOK, LaunchOK, InLaunch, Touching,
       Owned, Asserting, Persisting, Launching, Acting, Ended, Scaled, Succeeds, Changes, Launches
<1>5. Sole
    BY <1>3 DEF Sole, InLaunch
<1>6. Workloads /\ RecordNamesVersion
    BY DEF Init, Workloads, RecordNamesVersion, Known, Exists
<1>7. Rounds
    BY DEF Init, Rounds, RoundOK, Idle
<1>8. ServiceTypes
  <2>1. op \in [Op -> ReqState]
      BY <1>1, <1>3
  <2>2. watch \in [Replica -> Round]
      BY DEF Init, Idle, Round
  <2>3. /\ records \in [Dep -> [version : 0..MaxVersion, status : Phases \cup {"none"}]]
        /\ workload \in [Dep -> [version : 0..MaxVersion, phase : Phases \cup {"none"}]]
        /\ cache \in [Replica -> [Dep -> Phases \cup {"none"}]]
      BY <1>2 DEF Init
  <2>4. lease \in [Keys -> [op : Op \cup {NoOp}, live : BOOLEAN]]
    <3>1. Free \in [op : Op \cup {NoOp}, live : BOOLEAN]
        BY DEF Free
    <3> QED
        BY <3>1 DEF Init
  <2>5. lock \in [Replica -> Op \cup {NoOp}]
      BY DEF Init
  <2> QED
      BY <1>2, <2>1, <2>2, <2>3, <2>4, <2>5 DEF ServiceTypes, Init
<1> QED
    BY <1>4, <1>5, <1>6, <1>7, <1>8 DEF ServiceInv

LEMMA ServiceGoesOn ==
    ServiceInv /\ [Next]_vars => ServiceInv'
<1> SUFFICES ASSUME ServiceInv, [Next]_vars PROVE ServiceInv'
    OBVIOUS
<1>1. CASE \E o \in Op : Request(o)
    BY <1>1, RequestStep
<1>2. CASE \E o \in Op : Proceed(o)
  <2>1. PICK o \in Op : Proceed(o)
      BY <1>2
  <2>2. CASE LockAgent(o) \/ Acquire(o) \/ AcquireFails(o)
      BY <2>2, EnterStep, AcquireFailsStep
  <2>3. CASE AssertOwned(o) \/ OwnershipLost(o) \/ Raises(o)
      BY <2>3, AssertStep, GivesUp
  <2>4. CASE Persist(o) \/ Release(o) \/ ReleaseFails(o)
      BY <2>4, PersistStep, ReleaseStep
  <2>5. CASE ListRecords(o) \/ (\E d \in Dep : Probe(o, d)) \/ (\E v \in 1..MaxVersion : PickVersion(o, v))
      BY <2>5, PickStep
  <2>6. CASE ProbeAnswer(o)
      BY <2>6, ProbeAnswerStep
  <2>7. CASE Probed(o) \/ RolloutSettles(o) \/ RestartSettles(o)
      BY <2>7, PassStep
  <2>8. CASE DeployKnown(o) \/ DeployNew(o)
      BY <2>8, LaunchStep
  <2>9. CASE RolloutDone(o) \/ LaunchFails(o)
      BY <2>9, LaunchedStep
  <2>10. CASE Apply(o) \/ ScaleToZero(o) \/ RolloutRestart(o)
      BY <2>10, ApplyStep, PhaseStep
  <2>11. CASE ActStatus(o) \/ Refresh(o)
      BY <2>11, AskStep
  <2>12. CASE Answer(o)
      BY <2>12, AnswerStep
  <2>13. CASE StatusRead(o) \/ StatusWrite(o)
      BY <2>13, StatusReadStep, StatusWriteStep
  <2> QED
      BY <2>1, <2>2, <2>3, <2>4, <2>5, <2>6, <2>7, <2>8, <2>9, <2>10, <2>11, <2>12, <2>13 DEF Proceed
<1>3. CASE \E r \in Watching : Watch(r) \/ WatchFails(r)
  <2>1. PICK r \in Replica : Watch(r) \/ WatchFails(r)
      BY <1>3, WatchingAssumption
  <2> QED
      BY <2>1, LookStep, ObjectStep, WatchWriteStep DEF Watch
<1>4. CASE Environment
  <2>1. CASE \E d \in Dep : PodsReady(d) \/ PodsFail(d) \/ PodsLost(d)
      BY <2>1, PodsStep
  <2>2. CASE AddVersion \/ Disable \/ \E k \in Keys : Expire(k)
      BY <2>2, AroundStep
  <2>3. CASE \E r \in Replica : Crash(r)
      BY <2>3, CrashStep
  <2> QED
      BY <1>4, <2>1, <2>2, <2>3 DEF Environment
<1>5. CASE \E o \in Op : Renew(o)
    BY <1>5, AroundStep
<1>6. CASE UNCHANGED vars
  <2>1. Keeps /\ NoneMade /\ CacheKept
      BY <1>6 DEF vars, Keeps, NoneMade, CacheKept, Known, Exists
  <2>2. Requests' /\ Sole' /\ Rounds'
      BY <1>6, <2>1, UnmovedKept, RoundsKept DEF vars
  <2>3. Workloads' /\ RecordNamesVersion'
      BY <1>6 DEF vars, ServiceInv, Workloads, RecordNamesVersion, Known, Exists
  <2>4. ServiceTypes'
      BY <1>6 DEF vars, agentVars, ServiceInv, ServiceTypes
  <2> QED
      BY <2>2, <2>3, <2>4 DEF ServiceInv
<1> QED
    BY <1>1, <1>2, <1>3, <1>4, <1>5, <1>6 DEF Next

\* The inductive invariant holds, of the specification without fairness.
THEOREM ServiceInvariant == Spec => []ServiceInv
<1> QED
    BY ServiceStarts, ServiceGoesOn, PTL DEF Spec

\* Records, workloads, objects, leases, locks and requests keep their types.
THEOREM ServiceTypeCorrect == Spec => []TypeOK
<1>1. ServiceInv => TypeOK
    BY DEF ServiceInv, ServiceTypes, TypeOK, ReqState, Round
<1> QED
    BY <1>1, ServiceInvariant, PTL

\* Whichever requests and watchers of whichever replicas write it, with
\* whatever lease, a record names the version its workload runs.
THEOREM RecordsNameVersions == Spec => []RecordNamesVersion
<1>1. ServiceInv => RecordNamesVersion
    BY DEF ServiceInv
<1> QED
    BY <1>1, ServiceInvariant, PTL

\* A deploy or rollback that reports success has left a record of what it
\* answers with, of the version it was asked for.
THEOREM SuccessStaysRecorded == Spec => []SuccessIsRecorded
<1>1. ServiceInv => SuccessIsRecorded
    BY DEF ServiceInv, Requests, RequestOK, PickOK, Succeeds, Launches, SuccessIsRecorded
<1> QED
    BY <1>1, ServiceInvariant, PTL

\* The deployment a successful rollback replaces has no pods, and gets none
\* again by any later restart, launch or recovery of pods.
THEOREM RollbacksStop == Spec => []RollbackStops
<1>1. ServiceInv => RollbackStops
    BY DEF ServiceInv, Requests, RequestOK, HaltOK, Succeeds, RollbackStops
<1> QED
    BY <1>1, ServiceInvariant, PTL

\* Who writes records.
LEMMA RecordWriters ==
    ASSUME [Next]_vars
    PROVE  \/ records' = records
           \/ \E o \in Op : Persist(o) \/ StatusWrite(o)
           \/ \E r \in Replica : WatchWrite(r)
<1>1. CASE \E o \in Op : Request(o)
    BY <1>1 DEF Request, RequestDeploy, RequestChange, RequestStatus
<1>2. CASE \E o \in Op : Proceed(o)
  <2>1. PICK o \in Op : Proceed(o)
      BY <1>2
  <2>2. CASE LockAgent(o) \/ Acquire(o) \/ AcquireFails(o) \/ AssertOwned(o) \/ OwnershipLost(o)
             \/ Raises(o) \/ Release(o) \/ ReleaseFails(o)
      BY <2>2 DEF LockAgent, Acquire, AcquireFails, AssertOwned, OwnershipLost, Raises, Release, ReleaseFails
  <2>3. CASE ListRecords(o) \/ (\E d \in Dep : Probe(o, d)) \/ ProbeAnswer(o) \/ Probed(o)
             \/ (\E v \in 1..MaxVersion : PickVersion(o, v)) \/ DeployKnown(o) \/ DeployNew(o)
      BY <2>3 DEF ListRecords, Probe, ProbeAnswer, Probed, PickVersion, DeployKnown, DeployNew
  <2>4. CASE Apply(o) \/ RolloutSettles(o) \/ RolloutDone(o) \/ LaunchFails(o) \/ ActStatus(o) \/ ScaleToZero(o)
      BY <2>4 DEF Apply, RolloutSettles, RolloutDone, LaunchFails, ActStatus, ScaleToZero
  <2>5. CASE RolloutRestart(o) \/ RestartSettles(o) \/ Refresh(o) \/ Answer(o) \/ StatusRead(o)
      BY <2>5 DEF RolloutRestart, RestartSettles, Refresh, Answer, StatusRead
  <2> QED
      BY <2>1, <2>2, <2>3, <2>4, <2>5 DEF Proceed
<1>3. CASE \E r \in Watching : Watch(r) \/ WatchFails(r)
    BY <1>3, WatchingAssumption DEF Watch, WatchList, WatchReplace, WatchRead, WatchProbe, WatchAnswer, WatchSleep, WatchFails
<1>4. CASE Environment
    BY <1>4 DEF Environment, PodsReady, PodsFail, PodsLost, Expire, AddVersion, Disable, Crash
<1>5. CASE UNCHANGED vars
    BY <1>5 DEF vars
<1>6. CASE \E o \in Op : Renew(o)
    BY <1>6 DEF Renew
<1> QED
    BY <1>1, <1>2, <1>3, <1>4, <1>5, <1>6 DEF Next

\* A record comes into being by the fenced write of the operation that
\* launched its deployment, and by nothing else: no status request and no
\* watcher makes a record of an orphan.
THEOREM OrphansAreNeverRecorded == Spec => OrphansStayUnrecorded
<1> DEFINE Recorded ==
      \A d \in Dep : (~Known(d) /\ Known(d)') =>
        \E o \in Op : op[o].pc = "persisting" /\ op[o].new = d /\ Current(o)
<1>1. ASSUME ServiceInv, [Next]_vars PROVE Recorded
  <2>1. CASE records' = records
      BY <2>1 DEF Known
  <2>2. CASE \E o \in Op : Persist(o)
    <3>1. PICK o \in Op : Persist(o)
        BY <2>2
    <3>2. RequestOK(op[o]) /\ op[o] \in ReqState
        BY <1>1, AtStart
    <3>3. MadeBy(o) /\ Current(o) /\ op[o].pc \in Persisting
      <4>1. PICK d : /\ d = (IF op[o].pc = "persisting" /\ op[o].kind \in {"deploy", "rollback"}
                              THEN op[o].new ELSE op[o].dep)
                     /\ Upsert(d, op[o].ver, op[o].obs)
          BY <3>1 DEF Persist
      <4>2. ~(op[o].pc = "persisting" /\ op[o].kind \in {"deploy", "rollback"}) => Known(d)
          BY <3>1, <3>2, <4>1 DEF Persist, Persisting, RequestOK, TargetOK, PlaceOK, ReqState, Kinds, Changes, Ended
      <4>3. \A e \in Dep : e # d => records'[e] = records[e]
          BY <1>1, <4>1 DEF Upsert, ServiceInv, ServiceTypes
      <4>4. workload' = workload
          BY <3>1 DEF Persist
      <4> QED
          BY <3>1, <4>1, <4>2, <4>3, <4>4 DEF Persist, MadeBy, Known, Exists, InLaunch, Launches
    <3>4. InLaunch(op[o]) => op[o].pc = "persisting"
        BY <3>3 DEF InLaunch, Persisting
    <3> QED
        BY <3>3, <3>4 DEF MadeBy
  <2>3. CASE \E o \in Op : StatusWrite(o)
    <3>1. PICK o \in Op : StatusWrite(o)
        BY <2>3
    <3>2. op[o].dep \in Dep /\ Known(op[o].dep) /\ op[o].obs \in Phases
        BY <1>1, <3>1, AtStart DEF StatusWrite, PlaceOK, TargetOK, StatusOK, ReqState
    <3>3. NoneMade
        BY <1>1, <3>1, <3>2, ObservedWrite DEF StatusWrite
    <3> QED
        BY <3>3 DEF NoneMade
  <2>4. CASE \E r \in Replica : WatchWrite(r)
    <3>1. PICK r \in Replica : WatchWrite(r)
        BY <2>4
    <3>2. RoundOK(r) /\ watch[r] \in Round
        BY <1>1 DEF ServiceInv, ServiceTypes, Rounds
    <3>3. watch[r].at \in Dep /\ Known(watch[r].at) /\ watch[r].obs \in Phases
        BY <3>1, <3>2 DEF WatchWrite, RoundOK, Round
    <3>4. NoneMade
        BY <1>1, <3>1, <3>3, ObservedWrite DEF WatchWrite
    <3> QED
        BY <3>4 DEF NoneMade
  <2> QED
      BY <1>1, <2>1, <2>2, <2>3, <2>4, RecordWriters
<1>2. ServiceInv /\ [Next]_vars => [Recorded]_vars
    BY <1>1
<1> QED
    BY <1>2, ServiceInvariant, PTL DEF Spec, OrphansStayUnrecorded

-----------------------------------------------------------------------------
\* The leases.

Relied == Owned \cup {"leaving"}

\* The leases stay as they are, and nobody begins to rely on one.
LeaseKept ==
    /\ lease' = lease
    /\ \A q \in Op : op'[q].pc \in Relied => op[q].pc \in Relied

\* A request moves that relied on its lease already, or that does not now.
LEMMA RequestKeepsLeases ==
    ASSUME ServiceInv, NEW o \in Op, Request(o) \/ Proceed(o), ~Acquire(o), ~Release(o)
    PROVE  LeaseKept
<1>0. op \in [Op -> ReqState]
    BY AtStart
<1>1. SUFFICES /\ lease' = lease
               /\ op[o].pc \in Relied \/ op'[o].pc \notin Relied
               /\ \A q \in Op : q # o => op'[q] = op[q]
    BY DEF LeaseKept
<1> USE <1>0
<1>2. CASE Request(o)
  <2>1. op'[o].pc \in {"locking", "acquiring", "observeGot"}
    <3>1. CASE RequestDeploy(o)
        BY <3>1 DEF RequestDeploy, Go
    <3>2. CASE \E d \in Dep : RequestChange(o, d)
      <4>1. PICK d \in Dep : RequestChange(o, d)
          BY <3>2
      <4>2. op'[o] = [op[o] EXCEPT !.dep = d,
                        !.pc = IF op[o].kind = "rollback" THEN "locking" ELSE "acquiring"]
          BY <4>1 DEF RequestChange, Become
      <4> QED
          BY <4>2 DEF ReqState
    <3>3. CASE \E d \in Dep : RequestStatus(o, d)
      <4>1. PICK d \in Dep : RequestStatus(o, d)
          BY <3>3
      <4>2. op'[o] = [op[o] EXCEPT !.dep = d, !.obs = workload[d].phase, !.pc = "observeGot"]
          BY <4>1 DEF RequestStatus, Become
      <4> QED
          BY <4>2 DEF ReqState
    <3> QED
        BY <1>2, <3>1, <3>2, <3>3 DEF Request
  <2> QED
      BY <1>2, <2>1 DEF Request, RequestDeploy, RequestChange, RequestStatus, Go, Become, Relied,
         Owned, Asserting, Persisting, Launching, Acting
<1>3. CASE LockAgent(o) \/ AcquireFails(o)
  <2>1. op'[o].pc \in {"acquiring", "busy", "failed"}
    <3>1. CASE \E result \in {"busy", "failed"} : Finish(o, result)
      <4>1. PICK result \in {"busy", "failed"} :
              op' = [op EXCEPT ![o].pc = result, ![o].obs = "none", ![o].err = "none"]
          BY <3>1 DEF Finish
      <4> QED
          BY <4>1 DEF ReqState
    <3>2. CASE \E v : Become(o, [op[o] EXCEPT !.pc = "acquiring", !.ver = v])
        BY <3>2 DEF Become, ReqState
    <3> QED
        BY <1>3, <3>1, <3>2 DEF LockAgent, AcquireFails
  <2> QED
      BY <1>3, <2>1 DEF LockAgent, AcquireFails, Finish, Become, Relied,
         Owned, Asserting, Persisting, Launching, Acting
<1>4. CASE AssertOwned(o) \/ OwnershipLost(o) \/ Raises(o) \/ Persist(o) \/ ReleaseFails(o)
    BY <1>4 DEF AssertOwned, OwnershipLost, Raises, Persist, ReleaseFails, Finish, Become, Leave,
       Relied, Owned
<1>5. CASE ListRecords(o) \/ (\E d \in Dep : Probe(o, d)) \/ ProbeAnswer(o) \/ Probed(o)
           \/ (\E v \in 1..MaxVersion : PickVersion(o, v)) \/ DeployKnown(o) \/ DeployNew(o)
    BY <1>5 DEF ListRecords, Probe, ProbeAnswer, Probed, PickVersion, DeployKnown, DeployNew,
       Go, Become, Relied, Owned, Asserting, Launching
<1>6. CASE Apply(o) \/ RolloutSettles(o) \/ RolloutDone(o) \/ LaunchFails(o) \/ ActStatus(o)
           \/ ScaleToZero(o)
    BY <1>6 DEF Apply, RolloutSettles, RolloutDone, LaunchFails, ActStatus, ScaleToZero,
       Go, Become, Relied, Owned, Launching, Acting
<1>7. CASE RolloutRestart(o) \/ RestartSettles(o) \/ Refresh(o)
    BY <1>7 DEF RolloutRestart, RestartSettles, Refresh, Go, Become, Relied, Owned, Acting
<1>8. CASE Answer(o)
  <2>1. op[o].pc \in Relied \/ op[o].pc = "observeGot"
      BY <1>8 DEF Answer, AfterAnswer, Relied, Owned, Acting
  <2>2. op[o].pc = "observeGot" => op'[o].pc = "observed"
      BY <1>8 DEF Answer, AfterAnswer, Become, ReqState
  <2> QED
      BY <1>8, <2>1, <2>2 DEF Answer, Become, Relied, Owned, Asserting, Persisting, Launching, Acting
<1>9. CASE StatusRead(o) \/ StatusWrite(o)
  <2>1. op'[o].pc \in {"upserting", "failed", "ok"}
      BY <1>9 DEF StatusRead, StatusWrite, Go, Become, ReqState
  <2> QED
      BY <1>9, <2>1 DEF StatusRead, StatusWrite, Go, Become, Relied, Owned, Asserting, Persisting,
         Launching, Acting
<1> QED
    BY <1>2, <1>3, <1>4, <1>5, <1>6, <1>7, <1>8, <1>9 DEF Proceed

LEMMA LeaseWriters ==
    ASSUME ServiceInv, [Next]_vars
    PROVE  \/ LeaseKept
           \/ \E o \in Op : Acquire(o) \/ Release(o) \/ Renew(o)
           \/ \E k \in Keys : Expire(k)
<1>1. CASE \E o \in Op : Request(o) \/ Proceed(o)
    BY <1>1, RequestKeepsLeases
<1>2. CASE \E r \in Watching : Watch(r) \/ WatchFails(r)
    BY <1>2 DEF Watch, WatchList, WatchReplace, WatchRead, WatchProbe, WatchAnswer,
       WatchWrite, WatchSleep, WatchFails, LeaseKept
<1>3. CASE Environment /\ ~(\E r \in Replica : Crash(r))
    BY <1>3 DEF Environment, PodsReady, PodsFail, PodsLost, AddVersion, Disable, LeaseKept
<1>4. CASE \E r \in Replica : Crash(r)
  <2>1. PICK r \in Replica : Crash(r)
      BY <1>4
  <2>2. op \in [Op -> ReqState]
      BY AtStart DEF ServiceInv, ServiceTypes
  <2>3. ASSUME NEW q \in Op PROVE op'[q] = op[q] \/ op'[q].pc = "crashed"
      BY <2>1, <2>2 DEF Crash, ReqState
  <2>4. "crashed" \notin Relied
      BY DEF Relied, Owned, Asserting, Persisting, Launching, Acting
  <2> QED
      BY <2>1, <2>3, <2>4 DEF Crash, LeaseKept
<1>5. CASE UNCHANGED vars
    BY <1>5 DEF vars, LeaseKept
<1> QED
    BY <1>1, <1>2, <1>3, <1>4, <1>5 DEF Next, Environment

\* The key a request works on, once it has arrived.
LEMMA KeyThere ==
    ASSUME ServiceInv, NEW o \in Op, op[o].pc \in Relied \cup {"acquiring"}
    PROVE  Key(o) \in Keys
<1>1. op[o].pc # "new"
    BY DEF Relied, Owned, Asserting, Persisting, Launching, Acting
<1> QED
    BY <1>1, AtStart DEF Key, Keys, TargetOK

\* The leases under which the requests work are those of a LeaseTable: none is
\* granted while another is live, none is given up by anybody but its owner,
\* and it is renewed for its owner only.
THEOREM ServiceImplementsLeases == Spec => LeaseSpec
<1>1. ASSUME Init PROVE Leases!Init
  <2>1. \A o \in Op : op[o].pc = "new"
      BY <1>1 DEF Init
  <2>2. {o \in Op : op[o].pc \in Relied} = {}
      BY <2>1 DEF Relied, Owned, Asserting, Persisting, Launching, Acting
  <2> QED
      BY <1>1, <2>2 DEF Init, Leases!Init, Free, Relied
<1>2. ASSUME ServiceInv, [Next]_vars PROVE [Leases!Next]_Leases!leaseVars
  <2>0. /\ op \in [Op -> ReqState]
        /\ lease \in [Keys -> [op : Op \cup {NoOp}, live : BOOLEAN]]
      BY <1>2 DEF ServiceInv, ServiceTypes
  <2>1. CASE LeaseKept
    <3>1. {q \in Op : op'[q].pc \in Relied} \subseteq {q \in Op : op[q].pc \in Relied}
        BY <2>1 DEF LeaseKept
    <3> QED
        BY <2>1, <3>1 DEF LeaseKept, Leases!Next, Leases!Abandon, Relied
  <2>2. ASSUME NEW o \in Op, Acquire(o) PROVE Leases!Next
    <3>1. PICK k \in Keys : k = Key(o)
        BY <1>2, <2>2, KeyThere DEF Acquire
    <3>2. ~lease[k].live /\ lease' = [lease EXCEPT ![k] = [op |-> o, live |-> TRUE]]
        BY <2>2, <3>1 DEF Acquire
    <3>3. op' = [op EXCEPT ![o].pc = "entered"] /\ op[o].pc = "acquiring"
        BY <2>2 DEF Acquire, Go
    <3>4. op'[o].pc = "entered" /\ \A q \in Op : q # o => op'[q] = op[q]
        BY <2>0, <3>3 DEF ReqState
    <3>5. /\ {q \in Op : op'[q].pc \in Relied} = {q \in Op : op[q].pc \in Relied} \cup {o}
          /\ o \notin {q \in Op : op[q].pc \in Relied}
        BY <3>3, <3>4 DEF Relied, Owned, Asserting, Persisting, Launching, Acting
    <3>6. /\ [x \in Keys |-> lease'[x].op] = [[x \in Keys |-> lease[x].op] EXCEPT ![k] = o]
          /\ [x \in Keys |-> lease'[x].live] = [[x \in Keys |-> lease[x].live] EXCEPT ![k] = TRUE]
        BY <2>0, <3>2
    <3>7. Leases!Dated(k)
        BY <3>6 DEF Leases!Dated
    <3>8. Leases!Grant(o, k)
        BY <3>2, <3>5, <3>6, <3>7 DEF Leases!Grant, Relied
    <3> QED
        BY <3>8 DEF Leases!Next
  <2>3. ASSUME NEW o \in Op, Release(o) PROVE Leases!Next
    <3>1. PICK k \in Keys : k = Key(o)
        BY <1>2, <2>3, KeyThere DEF Release, Relied
    <3>2. lease[k].op = o /\ lease' = [lease EXCEPT ![k] = Free]
        BY <2>3, <3>1 DEF Release
    <3>3. /\ op[o].pc = "leaving" /\ op'[o].pc \in {"ok", "lost", "failed"}
          /\ \A q \in Op : q # o => op'[q] = op[q]
      <4>1. PICK result \in {"ok", "lost", "failed"} : Finish(o, result)
          BY <2>0, <2>3 DEF Release, ReqState
      <4> QED
          BY <2>0, <2>3, <4>1 DEF Release, Finish, ReqState
    <3>4. /\ {q \in Op : op'[q].pc \in Relied} = {q \in Op : op[q].pc \in Relied} \ {o}
          /\ o \in {q \in Op : op[q].pc \in Relied}
        BY <3>3 DEF Relied, Owned, Asserting, Persisting, Launching, Acting
    <3>5. /\ [x \in Keys |-> lease'[x].op] = [[x \in Keys |-> lease[x].op] EXCEPT ![k] = NoOp]
          /\ [x \in Keys |-> lease'[x].live] = [[x \in Keys |-> lease[x].live] EXCEPT ![k] = FALSE]
        BY <2>0, <3>2 DEF Free
    <3>6. Leases!GiveUp(o, k)
        BY <3>2, <3>4, <3>5 DEF Leases!GiveUp, Relied
    <3> QED
        BY <3>6 DEF Leases!Next
  <2>4. ASSUME NEW o \in Op, Renew(o) PROVE Leases!Next
    <3>1. PICK k \in Keys : k = Key(o)
        BY <1>2, <2>4, KeyThere DEF Renew, Relied
    <3>2. /\ lease[k].op = o /\ lease' = [lease EXCEPT ![k].live = TRUE]
          /\ op[o].pc \in Relied /\ op' = op
      <4>1. lease[k] = [op |-> o, live |-> FALSE] /\ lease' = [lease EXCEPT ![k].live = TRUE]
          BY <2>4, <3>1 DEF Renew
      <4>2. op[o].pc \in Relied /\ op' = op
          BY <2>4 DEF Renew, Relied
      <4> QED
          BY <4>1, <4>2
    <3>3. /\ [x \in Keys |-> lease'[x].op] = [x \in Keys |-> lease[x].op]
          /\ [x \in Keys |-> lease'[x].live] = [[x \in Keys |-> lease[x].live] EXCEPT ![k] = TRUE]
        BY <2>0, <3>2
    <3>4. Leases!Dated(k)
        BY <3>3 DEF Leases!Dated
    <3>5. Leases!Renew(o, k)
        BY <3>2, <3>3, <3>4 DEF Leases!Renew, Relied
    <3> QED
        BY <3>5 DEF Leases!Next
  <2>5. ASSUME NEW k \in Keys, Expire(k) PROVE Leases!Next
    <3>1. lease' = [lease EXCEPT ![k].live = FALSE] /\ op' = op
        BY <2>5 DEF Expire
    <3>2. \A x \in Keys : /\ lease'[x].op = lease[x].op /\ lease'[x].live \in BOOLEAN
                          /\ lease'[x].live => lease[x].live
        BY <2>0, <3>1
    <3>3. Leases!Lapse
        BY <3>1, <3>2 DEF Leases!Lapse
    <3> QED
        BY <3>3 DEF Leases!Next
  <2> QED
      BY <1>2, <2>1, <2>2, <2>3, <2>4, <2>5, LeaseWriters
<1> QED
    BY <1>1, <1>2, ServiceInvariant, PTL DEF Spec, LeaseSpec, Leases!Spec
=============================================================================
