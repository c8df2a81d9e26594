--------------------- MODULE DeploymentOwnershipProofs ---------------------
(***************************************************************************)
(* Proofs about DeploymentOwnership for any operations, keys, lease length *)
(* and either store.                                                       *)
(***************************************************************************)
EXTENDS DeploymentOwnership, TLAPS

USE DEF Row, Running, Ended, Owning

\* Every step keeps the types; the cases are the actions of one operation.
LEMMA TypeStep == TypeOK /\ [Next]_vars => TypeOK'
<1> USE KeyOfAssumption, LeaseSecondsAssumption, NoOpAssumption
<1> SUFFICES ASSUME TypeOK, [Next]_vars PROVE TypeOK'
  OBVIOUS
<1> USE DEF TypeOK
<1>0. CASE UNCHANGED vars
  BY <1>0 DEF vars, opVars
<1>1. CASE Tick
  BY <1>1 DEF Tick, opVars
<1>2. ASSUME NEW o \in Op, BeginAcquire(o) PROVE TypeOK'
  BY <1>2 DEF BeginAcquire, Begin
<1>3. ASSUME NEW o \in Op, AcquireGranted(o) PROVE TypeOK'
  BY <1>3 DEF AcquireGranted, Granted, End
<1>4. ASSUME NEW o \in Op, AcquireRefused(o) PROVE TypeOK'
  BY <1>4 DEF AcquireRefused, End
<1>5. ASSUME NEW o \in Op, AcquireRaises(o) PROVE TypeOK'
  BY <1>5 DEF AcquireRaises, End
<1>6. ASSUME NEW o \in Op, Enter(o) PROVE TypeOK'
  BY <1>6 DEF Enter
<1>7. ASSUME NEW o \in Op, AssertFails(o) PROVE TypeOK'
  BY <1>7 DEF AssertFails, Leave
<1>8. ASSUME NEW o \in Op, BodyReturns(o) PROVE TypeOK'
  BY <1>8 DEF BodyReturns, Leave
<1>9. ASSUME NEW o \in Op, BodyRaises(o) PROVE TypeOK'
  BY <1>9 DEF BodyRaises, Leave, End
<1>10. ASSUME NEW o \in Op, BeginPersist(o) PROVE TypeOK'
  BY <1>10 DEF BeginPersist, Begin
<1>11. ASSUME NEW o \in Op, PersistAccepted(o) PROVE TypeOK'
  BY <1>11 DEF PersistAccepted, End
<1>12. ASSUME NEW o \in Op, PersistRejected(o) PROVE TypeOK'
  BY <1>12 DEF PersistRejected, Leave, End
<1>13. ASSUME NEW o \in Op, BeginRelease(o) PROVE TypeOK'
  BY <1>13 DEF BeginRelease, Begin
<1>14. ASSUME NEW o \in Op, ReleaseAccepted(o) PROVE TypeOK'
  <2>1. row[KeyOf[o]] \in Row /\ start[o] \in Nat
    OBVIOUS
  <2>2. ReleasedRow(row[KeyOf[o]], start[o]) \in Row
    BY <2>1 DEF ReleasedRow
  <2>3. (IF err[o] = "none" THEN "ok" ELSE err[o]) \in Ended
    OBVIOUS
  <2>4. QED
    BY <1>14, <2>2, <2>3 DEF ReleaseAccepted, End
<1>15. ASSUME NEW o \in Op, ReleaseRejected(o) PROVE TypeOK'
  BY <1>15 DEF ReleaseRejected, End
<1>16. ASSUME NEW o \in Op, ReleaseRaises(o) PROVE TypeOK'
  BY <1>16 DEF ReleaseRaises, End
<1>17. ASSUME NEW o \in Op, BeginHeartbeat(o) PROVE TypeOK'
  BY <1>17 DEF BeginHeartbeat
<1>18. ASSUME NEW o \in Op, Renew(o) PROVE TypeOK'
  <2>1. row[KeyOf[o]] \in Row /\ beatAt[o] + LeaseSeconds \in Nat
    OBVIOUS
  <2>2. [row[KeyOf[o]] EXCEPT !.expires = beatAt[o] + LeaseSeconds] \in Row
    BY <2>1
  <2>3. QED
    BY <1>18, <2>1, <2>2 DEF Renew
<1>19. ASSUME NEW o \in Op, HeartbeatFails(o) PROVE TypeOK'
  BY <1>19 DEF HeartbeatFails
<1>20. ASSUME NEW o \in Op, Crash(o) PROVE TypeOK'
  BY <1>20 DEF Crash, End
<1>21. QED
  BY <1>0, <1>1, <1>2, <1>3, <1>4, <1>5, <1>6, <1>7, <1>8, <1>9, <1>10, <1>11, <1>12, <1>13, <1>14, <1>15, <1>16, <1>17, <1>18, <1>19, <1>20
  DEF Next, OpNext

\* The state of every variable stays within its type, whatever order the calls
\* of the operations and of their heartbeat tasks take effect in.
THEOREM TypeCorrect == Spec => []TypeOK
<1>1. Init => TypeOK
  BY KeyOfAssumption, NoOpAssumption DEF Init, TypeOK, FreshRow
<1>2. QED
  BY <1>1, TypeStep, PTL DEF Spec

-----------------------------------------------------------------------------
\* A step that changes no row, no epoch and no promise: operations only leave
\* the states in which they own a lease, and transactions open at the clock.
Quiet ==
    /\ row' = row /\ epoch' = epoch /\ until' = until
    /\ clock' = clock \/ (clock' = clock + 1 /\ pc' = pc)
    /\ written' = written \/ \E p \in Op : PersistAccepted(p)
    /\ \A p \in Op : pc'[p] \in Owning => pc[p] \in Owning
    /\ \A p \in Op : start'[p] \in {start[p], clock, 0}
    /\ \A p \in Op : beatAt'[p] \in {beatAt[p], clock, 0}
    /\ \A p \in Op : beat'[p] # "off" =>
         beat[p] # "off" /\ (pc[p] \in {"entering", "body", "persisting"} =>
                              pc'[p] \in {"entering", "body", "persisting"})

\* All steps are quiet but the three that write a row.
LEMMA StepShape ==
  ASSUME TypeOK, [Next]_vars
  PROVE  Quiet \/ \E o \in Op : AcquireGranted(o) \/ ReleaseAccepted(o) \/ Renew(o)
<1> USE DEF TypeOK, Quiet
<1>0. CASE UNCHANGED vars
  BY <1>0 DEF vars, opVars
<1>1. CASE Tick
  BY <1>1 DEF Tick, opVars
<1>2. ASSUME NEW o \in Op, BeginAcquire(o) PROVE Quiet
  BY <1>2 DEF BeginAcquire, Begin
<1>3. ASSUME NEW o \in Op, AcquireRefused(o) PROVE Quiet
  BY <1>3 DEF AcquireRefused, End
<1>4. ASSUME NEW o \in Op, AcquireRaises(o) PROVE Quiet
  BY <1>4 DEF AcquireRaises, End
<1>5. ASSUME NEW o \in Op, Enter(o) PROVE Quiet
  BY <1>5 DEF Enter
<1>6. ASSUME NEW o \in Op, AssertFails(o) PROVE Quiet
  BY <1>6 DEF AssertFails, Leave
<1>7. ASSUME NEW o \in Op, BodyReturns(o) PROVE Quiet
  BY <1>7 DEF BodyReturns, Leave
<1>8. ASSUME NEW o \in Op, BodyRaises(o) PROVE Quiet
  BY <1>8 DEF BodyRaises, Leave, End
<1>9. ASSUME NEW o \in Op, BeginPersist(o) PROVE Quiet
  BY <1>9 DEF BeginPersist, Begin
<1>10. ASSUME NEW o \in Op, PersistAccepted(o) PROVE Quiet
  BY <1>10 DEF PersistAccepted, End
<1>11. ASSUME NEW o \in Op, PersistRejected(o) PROVE Quiet
  BY <1>11 DEF PersistRejected, Leave, End
<1>12. ASSUME NEW o \in Op, BeginRelease(o) PROVE Quiet
  BY <1>12 DEF BeginRelease, Begin
<1>13. ASSUME NEW o \in Op, ReleaseRejected(o) PROVE Quiet
  BY <1>13 DEF ReleaseRejected, End
<1>14. ASSUME NEW o \in Op, ReleaseRaises(o) PROVE Quiet
  BY <1>14 DEF ReleaseRaises, End
<1>15. ASSUME NEW o \in Op, BeginHeartbeat(o) PROVE Quiet
  BY <1>15 DEF BeginHeartbeat
<1>16. ASSUME NEW o \in Op, HeartbeatFails(o) PROVE Quiet
  BY <1>16 DEF HeartbeatFails
<1>17. ASSUME NEW o \in Op, Crash(o) PROVE Quiet
  BY <1>17 DEF Crash, End
<1>18. QED
  BY <1>0, <1>1, <1>2, <1>3, <1>4, <1>5, <1>6, <1>7, <1>8, <1>9, <1>10, <1>11, <1>12, <1>13, <1>14, <1>15, <1>16, <1>17 DEF Next, OpNext

\* The open transactions' times: each was the clock when it began.
LEMMA TimesPastStep == ASSUME TypeOK, TimesPast, [Next]_vars PROVE TimesPast'
<1> USE DEF TypeOK, TimesPast
<1>1. CASE Quiet
  BY <1>1 DEF Quiet
<1>2. ASSUME NEW o \in Op, AcquireGranted(o) PROVE TimesPast'
  BY <1>2 DEF AcquireGranted, End
<1>3. ASSUME NEW o \in Op, ReleaseAccepted(o) PROVE TimesPast'
  BY <1>3 DEF ReleaseAccepted, End
<1>4. ASSUME NEW o \in Op, Renew(o) PROVE TimesPast'
  BY <1>4 DEF Renew
<1>5. QED
  BY StepShape, <1>1, <1>2, <1>3, <1>4

\* No operation's epoch is ahead of its row's: the row's epoch only grows, and
\* an operation takes it from there.
LEMMA EpochBoundStep == ASSUME TypeOK, EpochBound, [Next]_vars PROVE EpochBound'
<1> USE KeyOfAssumption
<1> USE DEF TypeOK, EpochBound
<1>1. CASE Quiet
  BY <1>1 DEF Quiet
<1>2. ASSUME NEW o \in Op, AcquireGranted(o) PROVE EpochBound'
  BY <1>2 DEF AcquireGranted, Granted
<1>3. ASSUME NEW o \in Op, ReleaseAccepted(o) PROVE EpochBound'
  BY <1>3 DEF ReleaseAccepted, ReleasedRow
<1>4. ASSUME NEW o \in Op, Renew(o) PROVE EpochBound'
  BY <1>4 DEF Renew
<1>5. QED
  BY StepShape, <1>1, <1>2, <1>3, <1>4

\* An operation owns nothing before it has an epoch.
LEMMA OwnersHaveEpochStep ==
  ASSUME TypeOK, OwnersHaveEpoch, [Next]_vars PROVE OwnersHaveEpoch'
<1> USE KeyOfAssumption
<1> USE DEF TypeOK, OwnersHaveEpoch
<1>1. CASE Quiet
  BY <1>1 DEF Quiet
<1>2. ASSUME NEW o \in Op, AcquireGranted(o) PROVE OwnersHaveEpoch'
  BY <1>2 DEF AcquireGranted
<1>3. ASSUME NEW o \in Op, ReleaseAccepted(o) PROVE OwnersHaveEpoch'
  BY <1>3 DEF ReleaseAccepted
<1>4. ASSUME NEW o \in Op, Renew(o) PROVE OwnersHaveEpoch'
  BY <1>4 DEF Renew
<1>5. QED
  BY StepShape, <1>1, <1>2, <1>3, <1>4

\* A new epoch differs from all the others because it is past the row's.
LEMMA EpochsUniqueStep ==
  ASSUME TypeOK, EpochBound, EpochsUnique, [Next]_vars PROVE EpochsUnique'
<1> USE KeyOfAssumption
<1> USE DEF TypeOK, EpochsUnique
<1>1. CASE Quiet
  BY <1>1 DEF Quiet
<1>2. ASSUME NEW o \in Op, AcquireGranted(o) PROVE EpochsUnique'
  BY <1>2 DEF AcquireGranted, EpochBound
<1>3. ASSUME NEW o \in Op, ReleaseAccepted(o) PROVE EpochsUnique'
  BY <1>3 DEF ReleaseAccepted
<1>4. ASSUME NEW o \in Op, Renew(o) PROVE EpochsUnique'
  BY <1>4 DEF Renew
<1>5. QED
  BY StepShape, <1>1, <1>2, <1>3, <1>4

\* A release asks for the releaser's own fence, whatever the store.
LEMMA ReleaseHoldsFence ==
  ASSUME NEW rw, NEW o, NEW now, MayRelease(rw, o, now) PROVE HoldsFence(rw, o)
BY DEF MayRelease, Matches

\* The row expires when its owner was told: both are written together, and a
\* row that changes hands or is released carries nobody else's fence.
LEMMA PromiseKeptStep ==
  ASSUME TypeOK, PromiseKept, [Next]_vars PROVE PromiseKept'
<1> USE KeyOfAssumption, LeaseSecondsAssumption
<1> USE DEF TypeOK, PromiseKept, HoldsFence
<1>1. CASE Quiet
  BY <1>1 DEF Quiet
<1>2. ASSUME NEW o \in Op, AcquireGranted(o) PROVE PromiseKept'
  BY <1>2 DEF AcquireGranted, Granted
<1>3. ASSUME NEW o \in Op, ReleaseAccepted(o) PROVE PromiseKept'
  BY <1>3 DEF ReleaseAccepted, ReleasedRow
<1>4. ASSUME NEW o \in Op, Renew(o) PROVE PromiseKept'
  BY <1>4 DEF Renew, Matches
<1>5. QED
  BY StepShape, <1>1, <1>2, <1>3, <1>4

\* A heartbeat task starts with the lease and ends when the operation leaves.
LEMMA HeartbeatsOwnedStep ==
  ASSUME TypeOK, HeartbeatsOwned, [Next]_vars PROVE HeartbeatsOwned'
<1> USE DEF TypeOK, HeartbeatsOwned
<1>1. CASE Quiet
  BY <1>1 DEF Quiet
<1>2. ASSUME NEW o \in Op, AcquireGranted(o) PROVE HeartbeatsOwned'
  BY <1>2 DEF AcquireGranted
<1>3. ASSUME NEW o \in Op, ReleaseAccepted(o) PROVE HeartbeatsOwned'
  BY <1>3 DEF ReleaseAccepted
<1>4. ASSUME NEW o \in Op, Renew(o) PROVE HeartbeatsOwned'
  BY <1>4 DEF Renew
<1>5. QED
  BY StepShape, <1>1, <1>2, <1>3, <1>4

\* Nobody takes a key whose owner was promised more time.
LEMMA LeaseExclusiveStep ==
  ASSUME TypeOK, TimesPast, PromiseKept, LeaseExclusive, [Next]_vars
  PROVE  LeaseExclusive'
<1> USE KeyOfAssumption, LeaseSecondsAssumption
<1> USE DEF TypeOK, LeaseExclusive, HoldsFence
<1>1. CASE Quiet
  BY <1>1 DEF Quiet
<1>2. ASSUME NEW o \in Op, AcquireGranted(o) PROVE LeaseExclusive'
  <2> SUFFICES ASSUME NEW p \in Op, (pc[p] \in Owning)', until'[p] > clock'
               PROVE  HoldsFence(row[KeyOf[p]], p)'
    OBVIOUS
  <2> USE <1>2 DEF AcquireGranted
  <2>1. CASE p = o
    BY <2>1 DEF Granted
  <2>2. CASE p # o
    <3>1. pc[p] \in Owning /\ until[p] > clock
      BY <2>2
    <3>2. HoldsFence(row[KeyOf[p]], p) /\ until[p] <= row[KeyOf[p]].expires
      BY <3>1 DEF PromiseKept
    <3>3. start[o] <= clock
      BY DEF TimesPast
    <3>4. KeyOf[p] # KeyOf[o]
      BY <3>1, <3>2, <3>3 DEF Busy
    <3>5. QED
      BY <2>2, <3>2, <3>4
  <2>3. QED
    BY <2>1, <2>2
<1>3. ASSUME NEW o \in Op, ReleaseAccepted(o) PROVE LeaseExclusive'
  BY <1>3, ReleaseHoldsFence DEF ReleaseAccepted, ReleasedRow
<1>4. ASSUME NEW o \in Op, Renew(o) PROVE LeaseExclusive'
  BY <1>4 DEF Renew, Matches
<1>5. QED
  BY StepShape, <1>1, <1>2, <1>3, <1>4

-----------------------------------------------------------------------------
\* The inductive invariant holds: types, times, epochs, and the promise of each
\* grant, which together make the lease exclusive.
THEOREM LeaseInvariant == Spec => []LeaseInv
<1>1. Init => LeaseInv
  BY KeyOfAssumption, NoOpAssumption
  DEF Init, LeaseInv, TypeOK, FreshRow, TimesPast, EpochBound, OwnersHaveEpoch,
      EpochsUnique, PromiseKept, HeartbeatsOwned, LeaseExclusive
<1>2. LeaseInv /\ [Next]_vars => LeaseInv'
  BY TypeStep, TimesPastStep, EpochBoundStep, OwnersHaveEpochStep,
     EpochsUniqueStep, PromiseKeptStep, HeartbeatsOwnedStep, LeaseExclusiveStep DEF LeaseInv
<1>3. QED
  BY <1>1, <1>2, PTL DEF Spec

\* acquire never hands a key over while its owner still counts on it.
THEOREM LeaseIsExclusive == Spec => []LeaseExclusive
<1>1. LeaseInv => LeaseExclusive
  BY DEF LeaseInv
<1>2. QED
  BY <1>1, LeaseInvariant, PTL

\* The fencing epochs of one key are all different.
THEOREM EpochsAreUnique == Spec => []EpochsUnique
<1>1. LeaseInv => EpochsUnique
  BY DEF LeaseInv
<1>2. QED
  BY <1>1, LeaseInvariant, PTL

-----------------------------------------------------------------------------
\* The state of an operation is changed by that operation's own actions only.
LEMMA OwnStep ==
  ASSUME TypeOK, [Next]_vars, NEW o \in Op PROVE pc'[o] = pc[o] \/ OpNext(o)
<1> USE DEF TypeOK
<1>0. CASE UNCHANGED vars \/ Tick
  BY <1>0 DEF vars, opVars, Tick
<1>1. ASSUME NEW p \in Op, p # o, OpNext(p) PROVE pc'[o] = pc[o]
  <2>1. CASE BeginAcquire(p)
    BY <1>1, <2>1 DEF BeginAcquire
  <2>2. CASE AcquireGranted(p)
    BY <1>1, <2>2 DEF AcquireGranted
  <2>3. CASE AcquireRefused(p)
    BY <1>1, <2>3 DEF AcquireRefused
  <2>4. CASE AcquireRaises(p)
    BY <1>1, <2>4 DEF AcquireRaises
  <2>5. CASE Enter(p)
    BY <1>1, <2>5 DEF Enter
  <2>6. CASE AssertFails(p)
    BY <1>1, <2>6 DEF AssertFails, Leave
  <2>7. CASE BodyReturns(p)
    BY <1>1, <2>7 DEF BodyReturns, Leave
  <2>8. CASE BodyRaises(p)
    BY <1>1, <2>8 DEF BodyRaises, Leave
  <2>9. CASE BeginPersist(p)
    BY <1>1, <2>9 DEF BeginPersist
  <2>10. CASE PersistAccepted(p)
    BY <1>1, <2>10 DEF PersistAccepted
  <2>11. CASE PersistRejected(p)
    BY <1>1, <2>11 DEF PersistRejected, Leave
  <2>12. CASE BeginRelease(p)
    BY <1>1, <2>12 DEF BeginRelease
  <2>13. CASE ReleaseAccepted(p)
    BY <1>1, <2>13 DEF ReleaseAccepted
  <2>14. CASE ReleaseRejected(p)
    BY <1>1, <2>14 DEF ReleaseRejected
  <2>15. CASE ReleaseRaises(p)
    BY <1>1, <2>15 DEF ReleaseRaises
  <2>16. CASE BeginHeartbeat(p)
    BY <1>1, <2>16 DEF BeginHeartbeat
  <2>17. CASE Renew(p)
    BY <1>1, <2>17 DEF Renew
  <2>18. CASE HeartbeatFails(p)
    BY <1>1, <2>18 DEF HeartbeatFails
  <2>19. CASE Crash(p)
    BY <1>1, <2>19 DEF Crash
  <2>20. QED
    BY <1>1, <2>1, <2>2, <2>3, <2>4, <2>5, <2>6, <2>7, <2>8, <2>9, <2>10, <2>11, <2>12, <2>13, <2>14, <2>15, <2>16, <2>17, <2>18, <2>19 DEF OpNext
<1>2. QED
  BY <1>0, <1>1 DEF Next

\* Who holds the row's fence has the newest epoch of the key.
LEMMA FenceIsNewest ==
  ASSUME EpochBound, TypeOK, NEW o \in Op, HoldsFence(row[KeyOf[o]], o)
  PROVE  ~Superseded(o)
BY KeyOfAssumption DEF EpochBound, TypeOK, HoldsFence, Superseded

\* The shared store's upsert_if_owned never accepts the late result of an
\* operation whose key was taken over.
THEOREM LateWritesAreRejected ==
  ASSUME Backend = "postgres"
  PROVE  Spec => LateWritesRejected
<1>1. ASSUME LeaseInv, [Next]_vars, NEW o \in Op, pc[o] = "persisting", pc'[o] = "body"
      PROVE  ~Superseded(o)
  <2>1. OpNext(o) /\ TypeOK /\ EpochBound
    BY <1>1, OwnStep DEF LeaseInv
  <2>2. PersistAccepted(o)
    BY <1>1, <2>1 DEF OpNext, TypeOK, BeginAcquire, AcquireGranted, AcquireRefused, AcquireRaises, Enter,
      AssertFails, BodyReturns, BodyRaises, BeginPersist, PersistRejected,
      BeginRelease, ReleaseAccepted, ReleaseRejected, ReleaseRaises, BeginHeartbeat,
      Renew, HeartbeatFails, Crash, Leave
  <2>3. HoldsFence(row[KeyOf[o]], o)
    BY <2>2, BackendAssumption DEF PersistAccepted, Matches
  <2>4. QED
    BY <2>1, <2>3, FenceIsNewest
<1>2. LeaseInv /\ [Next]_vars =>
        [\A o \in Op : (pc[o] = "persisting" /\ pc'[o] = "body") => ~Superseded(o)]_vars
  BY <1>1
<1>3. QED
  BY <1>2, LeaseInvariant, PTL DEF Spec, LateWritesRejected

\* An operation that answers its caller with success was still the newest
\* owner of its key when it released it.
THEOREM SuccessMeansOwnership == Spec => SuccessMeansOwned
<1>1. ASSUME LeaseInv, [Next]_vars, NEW o \in Op, pc[o] # "ok", pc'[o] = "ok"
      PROVE  ~Superseded(o)
  <2>1. OpNext(o) /\ TypeOK /\ EpochBound
    BY <1>1, OwnStep DEF LeaseInv
  <2>2. ReleaseAccepted(o)
    BY <1>1, <2>1 DEF OpNext, TypeOK, BeginAcquire, AcquireGranted, AcquireRefused, AcquireRaises, Enter,
      AssertFails, BodyReturns, BodyRaises, BeginPersist, PersistAccepted, PersistRejected,
      BeginRelease, ReleaseRejected, ReleaseRaises, BeginHeartbeat, Renew,
      HeartbeatFails, Crash, Leave
  <2>3. HoldsFence(row[KeyOf[o]], o)
    BY <2>2, ReleaseHoldsFence DEF ReleaseAccepted
  <2>4. QED
    BY <2>1, <2>3, FenceIsNewest
<1>2. LeaseInv /\ [Next]_vars =>
        [\A o \in Op : (pc[o] # "ok" /\ pc'[o] = "ok") => ~Superseded(o)]_vars
  BY <1>1
<1>3. QED
  BY <1>2, LeaseInvariant, PTL DEF Spec, SuccessMeansOwned

\* release gives up only the lease of the operation that calls it.
THEOREM OnlyHolderGivesUp == Spec => OnlyHolderReleases
<1>1. ASSUME LeaseInv, [Next]_vars, NEW r \in Resource, row[r].active, ~row'[r].active
      PROVE  pc[row[r].op] = "releasing"
  <2> USE <1>1, KeyOfAssumption DEF LeaseInv, TypeOK
  <2>1. CASE Quiet
    BY <2>1 DEF Quiet
  <2>2. ASSUME NEW o \in Op, AcquireGranted(o) PROVE FALSE
    BY <2>2 DEF AcquireGranted, Granted
  <2>3. ASSUME NEW o \in Op, ReleaseAccepted(o) PROVE pc[row[r].op] = "releasing"
    <3>1. HoldsFence(row[KeyOf[o]], o)
      BY <2>3, ReleaseHoldsFence DEF ReleaseAccepted
    <3>2. r = KeyOf[o]
      BY <2>3 DEF ReleaseAccepted
    <3>3. QED
      BY <2>3, <3>1, <3>2 DEF HoldsFence, ReleaseAccepted
  <2>4. ASSUME NEW o \in Op, Renew(o) PROVE FALSE
    BY <2>4 DEF Renew
  <2>5. QED
    BY StepShape, <2>1, <2>2, <2>3, <2>4
<1>2. LeaseInv /\ [Next]_vars =>
        [\A r \in Resource :
           (row[r].active /\ ~row'[r].active) => pc[row[r].op] = "releasing"]_vars
  BY <1>1
<1>3. QED
  BY <1>2, LeaseInvariant, PTL DEF Spec, OnlyHolderReleases

-----------------------------------------------------------------------------
\* The shared store implements the fencing token: granting a key issues a token, an
\* accepted durable write is accepted there, and every other step stutters.
THEOREM ImplementsFencing ==
  ASSUME Backend = "postgres"
  PROVE  Spec => FencingSpec
<1> USE KeyOfAssumption
<1>1. Init => Fencing!Init
  BY DEF Init, Fencing!Init, FreshRow
<1>2. ASSUME LeaseInv, [Next]_vars PROVE [Fencing!Next]_Fencing!fencingVars
  <2> USE <1>2 DEF LeaseInv, TypeOK
  <2>1. ASSUME NEW o \in Op, AcquireGranted(o) PROVE Fencing!Issue(o)
    BY <2>1 DEF AcquireGranted, Granted, Fencing!Issue
  <2>2. ASSUME NEW o \in Op, PersistAccepted(o) PROVE Fencing!Accept(o)
    <3>1. epoch[o] > 0 /\ epoch[o] = row[KeyOf[o]].epoch
      BY <2>2 DEF PersistAccepted, Matches, HoldsFence, OwnersHaveEpoch
    <3>2. QED
      BY <2>2, <3>1 DEF PersistAccepted, Fencing!Accept
  <2>3. ASSUME NEW o \in Op, ReleaseAccepted(o) PROVE UNCHANGED Fencing!fencingVars
    BY <2>3 DEF ReleaseAccepted, ReleasedRow, Fencing!fencingVars
  <2>4. ASSUME NEW o \in Op, Renew(o) PROVE UNCHANGED Fencing!fencingVars
    BY <2>4 DEF Renew, Fencing!fencingVars
  <2>5. CASE Quiet
    <3>1. CASE written' = written
      BY <2>5, <3>1 DEF Quiet, Fencing!fencingVars
    <3>2. QED
      BY <2>2, <2>5, <3>1 DEF Quiet, Fencing!Next
  <2>6. QED
    BY StepShape, <2>1, <2>3, <2>4, <2>5 DEF Fencing!Next
<1>3. QED
  BY <1>1, <1>2, LeaseInvariant, PTL DEF Spec, FencingSpec, Fencing!Spec

-----------------------------------------------------------------------------
\* To the operations either store is a table of leases: although a grant is decided
\* with the time at which its transaction began, and a renewal with that of the
\* heartbeat's, a key changes hands only when nobody's lease on it is live, is
\* renewed only for an operation that still works under it, and is given up only
\* by that operation.
THEOREM ImplementsLeases == Spec => LeaseSpec
<1> USE KeyOfAssumption, LeaseSecondsAssumption
<1>1. ASSUME Init PROVE Leases!Init
  <2>1. \A r \in Resource : ~row[r].active
    BY <1>1 DEF Init, FreshRow
  <2>2. {o \in Op : pc[o] \in Owning} = {}
    BY <1>1 DEF Init, Owning, Running
  <2>3. QED
    BY <2>1, <2>2 DEF Leases!Init
<1>2. ASSUME LeaseInv, [Next]_vars PROVE [Leases!Next]_Leases!leaseVars
  <2> USE <1>2 DEF LeaseInv, TypeOK
  <2>1. ASSUME NEW o \in Op, AcquireGranted(o) PROVE Leases!Grant(o, KeyOf[o])
    <3>1. start[o] <= clock /\ ~Busy(row[KeyOf[o]], start[o]) /\ pc[o] = "acquiring"
      BY <2>1 DEF AcquireGranted, TimesPast
    <3>2. ~(row[KeyOf[o]].active /\ row[KeyOf[o]].expires > clock)
      BY <3>1 DEF Busy
    <3>3. row' = [row EXCEPT ![KeyOf[o]] = Granted(@, o, start[o])] /\ clock' = clock
          /\ pc' = [pc EXCEPT ![o] = "entering"]
      BY <2>1 DEF AcquireGranted
    <3>4. {p \in Op : pc'[p] \in Owning} = {p \in Op : pc[p] \in Owning} \cup {o}
      BY <3>3
    <3>5. \A r \in Resource : row'[r] = IF r = KeyOf[o] THEN Granted(row[r], o, start[o]) ELSE row[r]
      BY <3>3
    <3>6. Leases!Dated(KeyOf[o])
      BY <3>3, <3>5 DEF Leases!Dated
    <3>7. /\ row'[KeyOf[o]].active /\ row'[KeyOf[o]].op = o
          /\ \A r \in Resource : r # KeyOf[o] => row'[r] = row[r]
      <4>1. row'[KeyOf[o]] = Granted(row[KeyOf[o]], o, start[o])
        BY <3>5
      <4>2. \A rw, now : Granted(rw, o, now).active = TRUE /\ Granted(rw, o, now).op = o
        BY DEF Granted
      <4>3. QED
        BY <3>5, <4>1, <4>2
    <3>8. [r \in Resource |-> IF row'[r].active THEN row'[r].op ELSE NoOp]
          = [[r \in Resource |-> IF row[r].active THEN row[r].op ELSE NoOp]
               EXCEPT ![KeyOf[o]] = o]
      BY <3>7
    <3>9. o \notin {p \in Op : pc[p] \in Owning}
      BY <3>1 DEF Owning
    <3>10. ~[r \in Resource |-> row[r].active /\ row[r].expires > clock][KeyOf[o]]
      BY <3>2
    <3>11. QED
      BY <3>4, <3>6, <3>8, <3>9, <3>10 DEF Leases!Grant
  <2>2. ASSUME NEW o \in Op, ReleaseAccepted(o) PROVE Leases!GiveUp(o, KeyOf[o])
    <3>1. HoldsFence(row[KeyOf[o]], o) /\ pc[o] = "releasing"
      BY <2>2, ReleaseHoldsFence DEF ReleaseAccepted
    <3>2. pc'[o] \in Ended /\ \A p \in Op : p # o => pc'[p] = pc[p]
      BY <2>2 DEF ReleaseAccepted
    <3>3. {p \in Op : pc'[p] \in Owning} = {p \in Op : pc[p] \in Owning} \ {o}
      BY <3>2
    <3>4. /\ \A r \in Resource : r # KeyOf[o] => row'[r] = row[r]
          /\ ~row'[KeyOf[o]].active /\ clock' = clock
      BY <2>2 DEF ReleaseAccepted, ReleasedRow
    <3>5. [r \in Resource |-> IF row'[r].active THEN row'[r].op ELSE NoOp]
          = [[r \in Resource |-> IF row[r].active THEN row[r].op ELSE NoOp]
               EXCEPT ![KeyOf[o]] = NoOp]
      BY <3>4
    <3>6. [r \in Resource |-> row'[r].active /\ row'[r].expires > clock']
          = [[r \in Resource |-> row[r].active /\ row[r].expires > clock]
               EXCEPT ![KeyOf[o]] = FALSE]
      BY <3>4, Zenon
    <3>7. o \in {p \in Op : pc[p] \in Owning}
      BY <3>1 DEF Owning, Running
    <3>8. [r \in Resource |-> IF row[r].active THEN row[r].op ELSE NoOp][KeyOf[o]] = o
      BY <3>1 DEF HoldsFence
    <3>9. QED
      BY <3>3, <3>5, <3>6, <3>7, <3>8 DEF Leases!GiveUp
  <2>3. ASSUME NEW o \in Op, Renew(o) PROVE Leases!Renew(o, KeyOf[o])
    <3>1. HoldsFence(row[KeyOf[o]], o) /\ beat[o] # "off"
      BY <2>3 DEF Renew, Matches
    <3>2. pc[o] \in Owning /\ pc' = pc /\ clock' = clock
      BY <2>3, <3>1 DEF Renew, HeartbeatsOwned
    <3>3. \A r \in Resource : /\ row'[r].active = row[r].active /\ row'[r].op = row[r].op
                              /\ r # KeyOf[o] => row'[r] = row[r]
      BY <2>3 DEF Renew
    <3>4. Leases!Dated(KeyOf[o])
      BY <3>2, <3>3 DEF Leases!Dated
    <3>5. QED
      BY <3>1, <3>2, <3>3, <3>4 DEF Leases!Renew, HoldsFence
  <2>4. CASE Quiet
    <3>1. CASE clock' = clock
      BY <2>4, <3>1 DEF Quiet, Leases!Next, Leases!Abandon
    <3>2. CASE clock' = clock + 1 /\ pc' = pc
      BY <2>4, <3>2 DEF Quiet, Leases!Next, Leases!Lapse
    <3>3. QED
      BY <2>4, <3>1, <3>2 DEF Quiet
  <2>5. QED
    BY StepShape, <2>1, <2>2, <2>3, <2>4 DEF Leases!Next
<1>3. QED
  BY <1>1, <1>2, LeaseInvariant, PTL DEF Spec, LeaseSpec, Leases!Spec
=============================================================================
