------------------------ MODULE DeploymentOwnership ------------------------
(***************************************************************************)
(* The deployment-operation lease of the Control Plane                     *)
(* (deployment_ownership.py) and the context manager under which every     *)
(* mutating operation runs (DeploymentService._owned_operation).           *)
(*                                                                         *)
(* One row per ownership key holds the operation that owns it, a fencing   *)
(* epoch and an expiry time.  A database transaction takes its time        *)
(* (func.now()) when it starts and the row lock when it gets it, which may *)
(* be later: each such call is two actions, Begin... and its effect.       *)
(***************************************************************************)
EXTENDS Naturals

CONSTANTS Op,            \* operation ids: a fresh uuid4 per accepted command
          Resource,      \* ownership keys (tenant and resource_id)
          KeyOf,         \* the key each operation works on
          LeaseSeconds,  \* lease_seconds
          Backend,       \* "postgres" (shared) or "memory" (one process)
          MaxClock,      \* bound: the clock stops there
          NoOp           \* the operation_id of a row nobody acquired

ASSUME KeyOfAssumption == KeyOf \in [Op -> Resource]
ASSUME LeaseSecondsAssumption == LeaseSeconds \in Nat \ {0}
ASSUME BackendAssumption == Backend \in {"postgres", "memory"}
ASSUME MaxClockAssumption == MaxClock \in Nat
ASSUME NoOpAssumption == NoOp \notin Op

VARIABLES
    row,      \* row[r]: the ownership row of key r
    clock,    \* the database clock (the process clock for "memory")
    pc,       \* pc[o]: where operation o stands, or how it ended
    start,    \* start[o]: now() of the transaction that o's body has open
    beat,     \* beat[o]: the heartbeat task: "off", "sleeping", "inflight"
    beatAt,   \* beatAt[o]: now() of the heartbeat transaction in flight
    lost,     \* lost[o]: the event the heartbeat task sets
    err,      \* err[o]: the exception the body raised
    epoch,    \* epoch[o]: the fencing epoch of o's lease; 0 before it has one
    until,    \* until[o]: the expiry of the last grant or renewal of o
    written   \* written[r]: the epoch of the last durable write accepted for r

opVars == <<pc, start, beat, beatAt, lost, err, epoch, until>>
vars == <<row, clock, opVars, written>>

Row == [active: BOOLEAN, op: Op \cup {NoOp}, epoch: Nat, expires: Nat]

Running == {"acquiring", "entering", "body", "persisting", "leaving", "releasing"}
Ended == {"ok", "busy", "lost", "failed", "crashed"}
Owning == Running \ {"acquiring"}

TypeOK ==
    /\ row \in [Resource -> Row]
    /\ clock \in Nat
    /\ pc \in [Op -> {"new"} \cup Running \cup Ended]
    /\ start \in [Op -> Nat]
    /\ beat \in [Op -> {"off", "sleeping", "inflight"}]
    /\ beatAt \in [Op -> Nat]
    /\ lost \in [Op -> BOOLEAN]
    /\ err \in [Op -> {"none", "lost", "failed"}]
    /\ epoch \in [Op -> Nat]
    /\ until \in [Op -> Nat]
    /\ written \in [Resource -> Nat]

-----------------------------------------------------------------------------
\* The rows

\* The row that the first acquire of a key inserts.
FreshRow == [active |-> FALSE, op |-> NoOp, epoch |-> 0, expires |-> 0]

\* Mutant: the lease counts as expired one tick early.
BusyEarly(rw, now) == rw.active /\ rw.expires > now + 1

\* Somebody else's lease is live: acquire answers None.
Busy(rw, now) == rw.active /\ rw.expires > now

\* Mutant: the fencing epoch is not incremented.
GrantedSameEpoch(rw, o, now) ==
    [active |-> TRUE, op |-> o, epoch |-> rw.epoch, expires |-> now + LeaseSeconds]

\* The row that a successful acquire leaves.
Granted(rw, o, now) ==
    [active |-> TRUE, op |-> o, epoch |-> rw.epoch + 1, expires |-> now + LeaseSeconds]

\* The row carries o's operation id and fencing epoch.
HoldsFence(rw, o) == rw.active /\ rw.op = o /\ rw.epoch = epoch[o]

\* ... and the lease has not expired.
Matches(rw, o, now) == HoldsFence(rw, o) /\ rw.expires > now

\* Mutant: release does not look at the fence.
MayReleaseAnybody(rw, o, now) == rw.active

\* What release asks of the row: the shared store does not look at the expiry.
MayRelease(rw, o, now) ==
    IF Backend = "postgres" THEN HoldsFence(rw, o) ELSE Matches(rw, o, now)

-----------------------------------------------------------------------------
Init ==
    /\ row = [r \in Resource |-> FreshRow]
    /\ clock = 0
    /\ pc = [o \in Op |-> "new"]
    /\ start = [o \in Op |-> 0]
    /\ beat = [o \in Op |-> "off"]
    /\ beatAt = [o \in Op |-> 0]
    /\ lost = [o \in Op |-> FALSE]
    /\ err = [o \in Op |-> "none"]
    /\ epoch = [o \in Op |-> 0]
    /\ until = [o \in Op |-> 0]
    /\ written = [r \in Resource |-> 0]

\* A transaction of o's body begins: its now() is fixed; and ends.
Begin(o) == start' = [start EXCEPT ![o] = clock]
End(o) == start' = [start EXCEPT ![o] = 0]

\* Mutant: the heartbeat task goes on.
LeaveBeating(o, why) ==
    /\ pc' = [pc EXCEPT ![o] = "leaving"]
    /\ err' = [err EXCEPT ![o] = why]
    /\ UNCHANGED <<beat, beatAt>>

\* The body raises: the heartbeat task is cancelled and the lease released.
Leave(o, why) ==
    /\ pc' = [pc EXCEPT ![o] = "leaving"]
    /\ err' = [err EXCEPT ![o] = why]
    /\ beat' = [beat EXCEPT ![o] = "off"]
    /\ beatAt' = [beatAt EXCEPT ![o] = 0]

\* acquire opens its transaction.
BeginAcquire(o) ==
    /\ pc[o] = "new"
    /\ pc' = [pc EXCEPT ![o] = "acquiring"]
    /\ Begin(o)
    /\ UNCHANGED <<row, clock, beat, beatAt, lost, err, epoch, until, written>>

\* It gets the row lock and the row is free, released or expired.
AcquireGranted(o) ==
    LET r == KeyOf[o] IN
    /\ pc[o] = "acquiring"
    /\ ~Busy(row[r], start[o])
    /\ row' = [row EXCEPT ![r] = Granted(@, o, start[o])]
    /\ epoch' = [epoch EXCEPT ![o] = row[r].epoch + 1]
    /\ until' = [until EXCEPT ![o] = start[o] + LeaseSeconds]
    /\ beat' = [beat EXCEPT ![o] = "sleeping"]
    /\ pc' = [pc EXCEPT ![o] = "entering"]
    /\ End(o)
    /\ UNCHANGED <<clock, beatAt, lost, err, written>>

\* A live lease of another operation: DeploymentOperationBusyError.
AcquireRefused(o) ==
    /\ pc[o] = "acquiring"
    /\ Busy(row[KeyOf[o]], start[o])
    /\ pc' = [pc EXCEPT ![o] = "busy"]
    /\ End(o)
    /\ UNCHANGED <<row, clock, beat, beatAt, lost, err, epoch, until, written>>

\* acquire itself raises and rolls back: there is no lease to release.
AcquireRaises(o) ==
    /\ Backend = "postgres"
    /\ pc[o] = "acquiring"
    /\ pc' = [pc EXCEPT ![o] = "failed"]
    /\ End(o)
    /\ UNCHANGED <<row, clock, beat, beatAt, lost, err, epoch, until, written>>

\* The lease is o's and has not expired: is_current.
IsCurrent(o) == Matches(row[KeyOf[o]], o, clock)

\* The first _assert_owned passes; it is the only one that also looks at the
\* lost event.
Enter(o) ==
    /\ pc[o] = "entering"
    /\ ~lost[o]
    /\ IsCurrent(o)
    /\ pc' = [pc EXCEPT ![o] = "body"]
    /\ UNCHANGED <<row, clock, start, beat, beatAt, lost, err, epoch, until, written>>

\* An _assert_owned, the first or a later one, finds the lease gone.  A later
\* one that passes changes nothing: what it guards is in DeploymentService.
AssertFails(o) ==
    /\ pc[o] \in {"entering", "body"}
    /\ (pc[o] = "entering" /\ lost[o]) \/ ~IsCurrent(o)
    /\ Leave(o, "lost")
    /\ UNCHANGED <<row, clock, start, lost, epoch, until, written>>

\* The body returns.
BodyReturns(o) ==
    /\ pc[o] = "body"
    /\ Leave(o, "none")
    /\ UNCHANGED <<row, clock, start, lost, epoch, until, written>>

\* The body raises anything else: a provider or database error (an open
\* transaction rolls back), or the cancellation of the request.
BodyRaises(o) ==
    /\ pc[o] \in {"entering", "body", "persisting"}
    /\ Leave(o, "failed")
    /\ End(o)
    /\ UNCHANGED <<row, clock, lost, epoch, until, written>>

\* The _assert_owned of _persist has passed and upsert_if_owned opens its
\* transaction.  The local repositories write right after the check.
BeginPersist(o) ==
    /\ pc[o] = "body"
    /\ Backend = "memory" => IsCurrent(o)
    /\ pc' = [pc EXCEPT ![o] = "persisting"]
    /\ Begin(o)
    /\ UNCHANGED <<row, clock, beat, beatAt, lost, err, epoch, until, written>>

\* Under the row lock the fence holds: the record is written with it.  The
\* local repositories have no fence to look at.
PersistAccepted(o) ==
    /\ pc[o] = "persisting"
    /\ Backend = "memory" \/ Matches(row[KeyOf[o]], o, start[o])
    /\ written' = [written EXCEPT ![KeyOf[o]] = epoch[o]]
    /\ pc' = [pc EXCEPT ![o] = "body"]
    /\ End(o)
    /\ UNCHANGED <<row, clock, beat, beatAt, lost, err, epoch, until>>

\* It does not: nothing is written and the operation is lost.
PersistRejected(o) ==
    /\ Backend = "postgres"
    /\ pc[o] = "persisting"
    /\ ~Matches(row[KeyOf[o]], o, start[o])
    /\ Leave(o, "lost")
    /\ End(o)
    /\ UNCHANGED <<row, clock, lost, epoch, until, written>>

\* release reads its clock (memory) or opens its transaction (postgres).
BeginRelease(o) ==
    /\ pc[o] = "leaving"
    /\ pc' = [pc EXCEPT ![o] = "releasing"]
    /\ Begin(o)
    /\ UNCHANGED <<row, clock, beat, beatAt, lost, err, epoch, until, written>>

\* The row as release leaves it; the in-memory store keeps the expiry.
ReleasedRow(rw, now) ==
    [rw EXCEPT !.active = FALSE,
               !.expires = IF Backend = "postgres" THEN now ELSE @]

\* The release finds its fence, and the operation reports what its body did.
ReleaseAccepted(o) ==
    /\ pc[o] = "releasing"
    /\ MayRelease(row[KeyOf[o]], o, start[o])
    /\ row' = [row EXCEPT ![KeyOf[o]] = ReleasedRow(@, start[o])]
    /\ pc' = [pc EXCEPT ![o] = IF err[o] = "none" THEN "ok" ELSE err[o]]
    /\ End(o)
    /\ UNCHANGED <<clock, beat, beatAt, lost, err, epoch, until, written>>

\* It does not: whatever the body did, the operation reports lost ownership.
ReleaseRejected(o) ==
    /\ pc[o] = "releasing"
    /\ ~MayRelease(row[KeyOf[o]], o, start[o])
    /\ pc' = [pc EXCEPT ![o] = "lost"]
    /\ End(o)
    /\ UNCHANGED <<row, clock, beat, beatAt, lost, err, epoch, until, written>>

\* The release call itself raises: the outcome is unknown to the caller and
\* the row is not changed.
ReleaseRaises(o) ==
    /\ Backend = "postgres"
    /\ pc[o] = "releasing"
    /\ pc' = [pc EXCEPT ![o] = "lost"]
    /\ End(o)
    /\ UNCHANGED <<row, clock, beat, beatAt, lost, err, epoch, until, written>>

-----------------------------------------------------------------------------
\* The heartbeat task of one operation

\* It wakes up and calls heartbeat.
BeginHeartbeat(o) ==
    /\ beat[o] = "sleeping"
    /\ beat' = [beat EXCEPT ![o] = "inflight"]
    /\ beatAt' = [beatAt EXCEPT ![o] = clock]
    /\ UNCHANGED <<row, clock, pc, start, lost, err, epoch, until, written>>

\* Under the row lock the lease still matches: it is renewed.
Renew(o) ==
    /\ beat[o] = "inflight"
    /\ Matches(row[KeyOf[o]], o, beatAt[o])
    /\ row' = [row EXCEPT ![KeyOf[o]].expires = beatAt[o] + LeaseSeconds]
    /\ until' = [until EXCEPT ![o] = beatAt[o] + LeaseSeconds]
    /\ beat' = [beat EXCEPT ![o] = "sleeping"]
    /\ beatAt' = [beatAt EXCEPT ![o] = 0]
    /\ UNCHANGED <<clock, pc, start, lost, err, epoch, written>>

\* It does not, or the call raises: the task sets lost and ends.
HeartbeatFails(o) ==
    /\ beat[o] = "inflight"
    /\ Backend = "postgres" \/ ~Matches(row[KeyOf[o]], o, beatAt[o])
    /\ lost' = [lost EXCEPT ![o] = TRUE]
    /\ beat' = [beat EXCEPT ![o] = "off"]
    /\ beatAt' = [beatAt EXCEPT ![o] = 0]
    /\ UNCHANGED <<row, clock, pc, start, err, epoch, until, written>>

-----------------------------------------------------------------------------
\* The replica that runs o dies; its open transactions roll back.  (With the
\* in-memory store a crash takes the rows with it: nothing is left to model.)
Crash(o) ==
    /\ Backend = "postgres"
    /\ pc[o] \in Running
    /\ pc' = [pc EXCEPT ![o] = "crashed"]
    /\ beat' = [beat EXCEPT ![o] = "off"]
    /\ End(o)
    /\ beatAt' = [beatAt EXCEPT ![o] = 0]
    /\ UNCHANGED <<row, clock, lost, err, epoch, until, written>>

Tick ==
    /\ clock < MaxClock
    /\ clock' = clock + 1
    /\ UNCHANGED <<row, opVars, written>>

OpNext(o) ==
    \/ BeginAcquire(o) \/ AcquireGranted(o) \/ AcquireRefused(o) \/ AcquireRaises(o)
    \/ Enter(o) \/ AssertFails(o) \/ BodyReturns(o) \/ BodyRaises(o)
    \/ BeginPersist(o) \/ PersistAccepted(o) \/ PersistRejected(o)
    \/ BeginRelease(o) \/ ReleaseAccepted(o) \/ ReleaseRejected(o) \/ ReleaseRaises(o)
    \/ BeginHeartbeat(o) \/ Renew(o) \/ HeartbeatFails(o)
    \/ Crash(o)

Next == Tick \/ \E o \in Op : OpNext(o)

Spec == Init /\ [][Next]_vars

-----------------------------------------------------------------------------
\* While the last expiry that o was told lies ahead, nobody else has been
\* granted the key and the row still carries o's fence: acquire refuses on a
\* live lease even though its now() may be older than the row it locks.
LeaseExclusive ==
    \A o \in Op : (pc[o] \in Owning /\ until[o] > clock) => HoldsFence(row[KeyOf[o]], o)

\* No two operations on one key were ever given the same fencing epoch.
EpochsUnique ==
    \A o, p \in Op : (o # p /\ KeyOf[o] = KeyOf[p] /\ epoch[o] > 0) => epoch[o] # epoch[p]

\* What the two invariants above rest on.  The now() of an open transaction
\* is not in the future; no operation's epoch is ahead of its row; an owner has
\* an epoch; and the row expires no earlier than its owner was told.
TimesPast == \A o \in Op : start[o] <= clock /\ beatAt[o] <= clock
EpochBound == \A o \in Op : epoch[o] <= row[KeyOf[o]].epoch
OwnersHaveEpoch == \A o \in Op : pc[o] \in Owning => epoch[o] > 0
PromiseKept ==
    \A o \in Op :
      (pc[o] \in Owning /\ HoldsFence(row[KeyOf[o]], o)) => until[o] <= row[KeyOf[o]].expires

\* A heartbeat task runs while its operation works, and not longer.
HeartbeatsOwned ==
    \A o \in Op : beat[o] # "off" => pc[o] \in {"entering", "body", "persisting"}

\* The inductive invariant.
LeaseInv ==
    /\ TypeOK
    /\ TimesPast
    /\ EpochBound
    /\ OwnersHaveEpoch
    /\ EpochsUnique
    /\ PromiseKept
    /\ HeartbeatsOwned
    /\ LeaseExclusive

\* p was granted o's key after o was.
Superseded(o) == \E p \in Op : KeyOf[p] = KeyOf[o] /\ epoch[p] > epoch[o]

\* A durable write is accepted from the newest owner of the key only: a late
\* result of an expired owner is rejected once somebody took the key over.
LateWritesRejected ==
    [][\A o \in Op : (pc[o] = "persisting" /\ pc'[o] = "body") => ~Superseded(o)]_vars

\* An operation that reports success was not taken over before it released.
SuccessMeansOwned ==
    [][\A o \in Op : (pc[o] # "ok" /\ pc'[o] = "ok") => ~Superseded(o)]_vars

\* A lease is given up by its own operation, never by an older owner.
OnlyHolderReleases ==
    [][\A r \in Resource :
         (row[r].active /\ ~row'[r].active) => pc[row[r].op] = "releasing"]_vars

\* The store keeps the promise of FencingToken.
Fencing == INSTANCE FencingToken
             WITH Client <- Op,
                  newest <- [r \in Resource |-> row[r].epoch],
                  token <- epoch,
                  accepted <- written

FencingSpec == Fencing!Spec

\* Seen by the operations it is a table of leases: a key that was taken is its
\* operation's, and live until the row expires.
Leases == INSTANCE LeaseTable
            WITH Client <- Op, Resource <- Resource, Nobody <- NoOp,
                 owner <- [r \in Resource |-> IF row[r].active THEN row[r].op ELSE NoOp],
                 live <- [r \in Resource |-> row[r].active /\ row[r].expires > clock],
                 relying <- {o \in Op : pc[o] \in Owning}

LeaseSpec == Leases!Spec
=============================================================================
