-------------------------- MODULE ActorLeaseProofs --------------------------
(***************************************************************************)
(* The lease keeps Hosts and native processes apart for every number of    *)
(* Hosts, attempts and children: LeaseInv is inductive, and the properties *)
(* of ActorLease follow from it.                                           *)
(***************************************************************************)
EXTENDS ActorLease, TLAPS

\* An attempt that has published its owner record and has not removed it.
Published(a) ==
  att[a].pc \in Holding \cup {"untemp", "confirm", "noClaim", "mark", "claimed", "dropChild",
                              "dropClaim", "final"}

\* The lock of a live Host that has published is its own.
LockKept == \A a \in Attempts : HostOf[a] \in alive /\ Published(a) => lock = a

\* An attempt that linked the claim and has not dropped it.
Claimant(a) ==
  \/ att[a].pc \in {"verify", "verifyLock", "verifyChild", "unlink", "dropChild", "dropClaim"}
  \/ att[a].recovering /\ att[a].pc \in {"publish", "untemp", "confirm", "mark", "claimed"}

\* There is one recovery at a time: whoever claims leaves the claim until the end.
OneClaimant ==
  /\ \A a \in Attempts : Claimant(a) => claim # None
  /\ \A a, b \in Attempts : Claimant(a) /\ Claimant(b) => a = b

\* An attempt recovers only after it has unlinked the lock.
RecoversLate ==
  \A a \in Attempts : att[a].recovering =>
    att[a].pc \notin {"idle", "lock", "marker", "child", "owner", "oldChild", "claim", "verify",
                      "verifyLock", "verifyChild", "unlink", "noClaim"}

\* What a recovery is about to unlink is the lock of a dead Host that it read at first.
LockStale ==
  \A a \in Attempts :
    /\ att[a].pc \in {"owner", "oldChild", "claim", "verify", "verifyLock", "verifyChild", "unlink"}
         => att[a].prev # None
    /\ att[a].pc \in {"verifyChild", "unlink"} => lock = att[a].prev /\ OwnerStale(lock)

\* Children are numbered from one, and a holder that records or releases has none running.
ChildrenKept ==
  \A a \in Attempts :
    /\ kid[a].state # "none" => kid[a].n # 0
    /\ HostOf[a] \in alive =>
         /\ att[a].pc \in {"recording", "recorded"} => kid[a].state \in {"stopped", "dead"}
         /\ att[a].pc \in {"releaseMarker", "releaseChild", "releaseLock"} => kid[a].state \in {"none", "dead"}
         /\ att[a].pc \in {"recording", "releaseMarker", "releaseChild"} => ChildGone(a)

LeaseInv ==
  /\ TypeOK
  /\ LockKept
  /\ OneClaimant
  /\ RecoversLate
  /\ LockStale
  /\ ChildrenKept
  /\ RunningIsRecorded

\* Initially nothing exists.
LEMMA InitInv == Init => LeaseInv
<1> SUFFICES ASSUME Init PROVE LeaseInv
  OBVIOUS
<1> USE DEF Init
<1>1. TypeOK
  <2>1. "idle" \in Progress /\ 0 \in 0..MaxChildren
    BY ActorLeaseAssumption DEF Progress
  <2> QED
    BY <2>1 DEF TypeOK
<1>2. LockKept /\ OneClaimant
  BY DEF LockKept, Published, Holding, OneClaimant, Claimant
<1>3. RecoversLate /\ LockStale /\ ChildrenKept /\ RunningIsRecorded
  BY DEF RecoversLate, LockStale, ChildrenKept, RunningIsRecorded
<1> QED
  BY <1>1, <1>2, <1>3 DEF LeaseInv

\* Where an attempt goes is typed.
LEMMA GoesType ==
  ASSUME TypeOK, NEW a \in Attempts, NEW pc \in Progress
  PROVE  [att EXCEPT ![a].pc = pc] \in
           [Attempts -> [pc: Progress, prev: Attempts \cup {None}, recovering: BOOLEAN]]
BY DEF TypeOK

\* The types are kept by every step.
LEMMA TypeStep ==
  ASSUME LeaseInv, [Next]_vars
  PROVE  TypeOK'
<1> USE ActorLeaseAssumption DEF LeaseInv, TypeOK, files, Progress, Acquiring, Holding, Children, At, Goes
<1>1. ASSUME NEW a \in Attempts, AcquireStep(a)
      PROVE  TypeOK'
  <2>1. CASE Start(a)
    BY <2>1 DEF Start
  <2>2. CASE ReadLock(a)
    BY <2>2 DEF ReadLock
  <2>3. CASE NoMarker(a)
    BY <2>3 DEF NoMarker
  <2>4. CASE NoChild(a)
    BY <2>4 DEF NoChild
  <2>5. CASE OwnerIsStale(a)
    BY <2>5 DEF OwnerIsStale
  <2>6. CASE OldChildIsStale(a)
    BY <2>6 DEF OldChildIsStale
  <2>7. CASE LinkClaim(a)
    BY <2>7 DEF LinkClaim
  <2>8. CASE VerifyClaim(a)
    BY <2>8 DEF VerifyClaim
  <2>9. CASE VerifyLock(a)
    BY <2>9 DEF VerifyLock
  <2>10. CASE VerifyChild(a)
    BY <2>10 DEF VerifyChild
  <2>11. CASE UnlinkStale(a)
    <3>1. "publish" \in Progress
      OBVIOUS
    <3>2. att' = [att EXCEPT ![a].pc = "publish", ![a].recovering = TRUE]
      BY <2>11 DEF UnlinkStale
    <3> DEFINE moved == [att EXCEPT ![a].pc = "publish"]
    <3>3. moved \in [Attempts -> [pc: Progress, prev: Attempts \cup {None}, recovering: BOOLEAN]]
      BY <3>1, GoesType
    <3>4. att' = [moved EXCEPT ![a].recovering = TRUE]
      BY <3>2
    <3>5. att' \in [Attempts -> [pc: Progress, prev: Attempts \cup {None}, recovering: BOOLEAN]]
      <4> HIDE DEF moved, Progress
      <4> QED
        BY <3>3, <3>4
    <3> QED
      BY <2>11, <3>5 DEF UnlinkStale
  <2>12. CASE Publish(a)
    BY <2>12 DEF Publish
  <2>13. CASE UnlinkTemp(a)
    BY <2>13 DEF UnlinkTemp
  <2>14. CASE ConfirmLock(a)
    BY <2>14 DEF ConfirmLock
  <2>15. CASE ConfirmNoClaim(a)
    BY <2>15 DEF ConfirmNoClaim
  <2>16. CASE MakeMarker(a)
    BY <2>16 DEF MakeMarker
  <2>17. CASE ReadClaim(a)
    BY <2>17 DEF ReadClaim
  <2>18. CASE DropChild(a)
    BY <2>18 DEF DropChild
  <2>19. CASE DropClaim(a)
    BY <2>19 DEF DropClaim
  <2>20. CASE Acquired(a)
    BY <2>20 DEF Acquired
  <2>21. CASE GiveUp(a)
    <3>1. "failed" \in Progress
      OBVIOUS
    <3> QED
      BY <2>21, <3>1, GoesType DEF GiveUp
  <2> QED
    BY <1>1, <2>1, <2>2, <2>3, <2>4, <2>5, <2>6, <2>7, <2>8, <2>9, <2>10, <2>11, <2>12, <2>13, <2>14, <2>15, <2>16, <2>17, <2>18, <2>19, <2>20, <2>21 DEF AcquireStep
<1>2. ASSUME NEW a \in Attempts, HolderStep(a)
      PROVE  TypeOK'
  <2>1. CASE Spawn(a)
    BY <2>1 DEF Spawn, ChildrenKept
  <2>2. CASE RecordChecks(a)
    <3>1. "recording" \in Progress
      OBVIOUS
    <3> QED
      BY <2>2, <3>1, GoesType DEF RecordChecks
  <2>3. CASE RecordWrites(a)
    BY <2>3 DEF RecordWrites, ChildrenKept
  <2>4. CASE Continue(a)
    <3>1. "held" \in Progress
      OBVIOUS
    <3>2. kid' \in [Attempts -> [n: 0..MaxChildren, state: {"none", "stopped", "running", "dead"}]]
      BY <2>4 DEF Continue
    <3>3. att' \in [Attempts -> [pc: Progress, prev: Attempts \cup {None}, recovering: BOOLEAN]]
      <4> HIDE DEF Progress, Acquiring, Holding
      <4> QED
        BY <2>4, <3>1, GoesType DEF Continue
    <3> QED
      BY <2>4, <3>2, <3>3 DEF Continue
  <2>5. CASE RecordFails(a)
    <3>1. "held" \in Progress
      OBVIOUS
    <3> QED
      BY <2>5, <3>1, GoesType DEF RecordFails
  <2>6. CASE ReleaseChecks(a)
    <3>1. "releaseMarker" \in Progress
      OBVIOUS
    <3> QED
      BY <2>6, <3>1, GoesType DEF ReleaseChecks
  <2>7. CASE ReleaseMarker(a)
    <3>1. "releaseChild" \in Progress
      OBVIOUS
    <3> QED
      BY <2>7, <3>1, GoesType DEF ReleaseMarker
  <2>8. CASE ReleaseChild(a)
    <3>1. "releaseLock" \in Progress
      OBVIOUS
    <3> QED
      BY <2>8, <3>1, GoesType DEF ReleaseChild
  <2>9. CASE ReleaseLock(a)
    <3>1. "unlinked" \in Progress
      OBVIOUS
    <3> QED
      BY <2>9, <3>1, GoesType DEF ReleaseLock
  <2>10. CASE Released(a)
    BY <2>10 DEF Released, ChildrenKept
  <2> QED
    BY <1>2, <2>1, <2>2, <2>3, <2>4, <2>5, <2>6, <2>7, <2>8, <2>9, <2>10 DEF HolderStep
<1>3. ASSUME NEW a \in Attempts, ChildExits(a)
      PROVE  TypeOK'
  BY <1>3 DEF ChildExits
<1>4. ASSUME NEW h \in Hosts, Crash(h)
      PROVE  TypeOK'
  BY <1>4 DEF Crash
<1>5. CASE UNCHANGED vars
  BY <1>5 DEF vars
<1> QED
  BY <1>1, <1>2, <1>3, <1>4, <1>5 DEF Next

\* Only its owner, or a recovery once the owner is dead, removes a lock.
LEMMA LockStep ==
  ASSUME LeaseInv, [Next]_vars
  PROVE  LockKept'
<1> USE ActorLeaseAssumption DEF LeaseInv, TypeOK, LockKept, Published, LockStale, OwnerStale, Holding, At, Goes, files
<1>1. ASSUME NEW a \in Attempts, AcquireStep(a)
      PROVE  LockKept'
  BY <1>1 DEF AcquireStep, Start, ReadLock, NoMarker, NoChild, OwnerIsStale, OldChildIsStale,
     LinkClaim, VerifyClaim, VerifyLock, VerifyChild, UnlinkStale, Publish, UnlinkTemp, ConfirmLock,
     ConfirmNoClaim, MakeMarker, ReadClaim, DropChild, DropClaim, Acquired, GiveUp
<1>2. ASSUME NEW a \in Attempts, HolderStep(a)
      PROVE  LockKept'
  BY <1>2 DEF HolderStep, Spawn, RecordChecks, RecordWrites, Continue, RecordFails, ReleaseChecks,
     ReleaseMarker, ReleaseChild, ReleaseLock, Released
<1>3. ASSUME NEW a \in Attempts, ChildExits(a)
      PROVE  LockKept'
  BY <1>3 DEF ChildExits
<1>4. ASSUME NEW h \in Hosts, Crash(h)
      PROVE  LockKept'
  BY <1>4 DEF Crash
<1>5. CASE UNCHANGED vars
  BY <1>5 DEF vars
<1> QED
  BY <1>1, <1>2, <1>3, <1>4, <1>5 DEF Next

\* The claim is dropped only by the attempt that linked it.
LEMMA ClaimStep ==
  ASSUME LeaseInv, [Next]_vars
  PROVE  OneClaimant'
<1> USE ActorLeaseAssumption DEF LeaseInv, TypeOK, OneClaimant, Claimant, RecoversLate, Holding, At, Goes, files
<1>1. ASSUME NEW a \in Attempts, AcquireStep(a)
      PROVE  OneClaimant'
  <2>1. CASE Start(a)
    BY <2>1 DEF Start
  <2>2. CASE ReadLock(a)
    BY <2>2 DEF ReadLock
  <2>3. CASE NoMarker(a)
    BY <2>3 DEF NoMarker
  <2>4. CASE NoChild(a)
    BY <2>4 DEF NoChild
  <2>5. CASE OwnerIsStale(a)
    BY <2>5 DEF OwnerIsStale
  <2>6. CASE OldChildIsStale(a)
    BY <2>6 DEF OldChildIsStale
  <2>7. CASE LinkClaim(a)
    BY <2>7 DEF LinkClaim
  <2>8. CASE VerifyClaim(a)
    BY <2>8 DEF VerifyClaim
  <2>9. CASE VerifyLock(a)
    BY <2>9 DEF VerifyLock
  <2>10. CASE VerifyChild(a)
    BY <2>10 DEF VerifyChild
  <2>11. CASE UnlinkStale(a)
    BY <2>11 DEF UnlinkStale
  <2>12. CASE Publish(a)
    BY <2>12 DEF Publish
  <2>13. CASE UnlinkTemp(a)
    BY <2>13 DEF UnlinkTemp
  <2>14. CASE ConfirmLock(a)
    BY <2>14 DEF ConfirmLock
  <2>15. CASE ConfirmNoClaim(a)
    BY <2>15 DEF ConfirmNoClaim
  <2>16. CASE MakeMarker(a)
    BY <2>16 DEF MakeMarker
  <2>17. CASE ReadClaim(a)
    BY <2>17 DEF ReadClaim
  <2>18. CASE DropChild(a)
    BY <2>18 DEF DropChild
  <2>19. CASE DropClaim(a)
    BY <2>19 DEF DropClaim
  <2>20. CASE Acquired(a)
    BY <2>20 DEF Acquired
  <2>21. CASE GiveUp(a)
    BY <2>21 DEF GiveUp
  <2> QED
    BY <1>1, <2>1, <2>2, <2>3, <2>4, <2>5, <2>6, <2>7, <2>8, <2>9, <2>10, <2>11, <2>12, <2>13, <2>14, <2>15, <2>16, <2>17, <2>18, <2>19, <2>20, <2>21 DEF AcquireStep
<1>2. ASSUME NEW a \in Attempts, HolderStep(a)
      PROVE  OneClaimant'
  <2>1. CASE Spawn(a)
    BY <2>1 DEF Spawn
  <2>2. CASE RecordChecks(a)
    BY <2>2 DEF RecordChecks
  <2>3. CASE RecordWrites(a)
    BY <2>3 DEF RecordWrites
  <2>4. CASE Continue(a)
    BY <2>4 DEF Continue
  <2>5. CASE RecordFails(a)
    BY <2>5 DEF RecordFails
  <2>6. CASE ReleaseChecks(a)
    BY <2>6 DEF ReleaseChecks
  <2>7. CASE ReleaseMarker(a)
    BY <2>7 DEF ReleaseMarker
  <2>8. CASE ReleaseChild(a)
    BY <2>8 DEF ReleaseChild
  <2>9. CASE ReleaseLock(a)
    BY <2>9 DEF ReleaseLock
  <2>10. CASE Released(a)
    BY <2>10 DEF Released
  <2> QED
    BY <1>2, <2>1, <2>2, <2>3, <2>4, <2>5, <2>6, <2>7, <2>8, <2>9, <2>10 DEF HolderStep
<1>3. ASSUME NEW a \in Attempts, ChildExits(a)
      PROVE  OneClaimant'
  BY <1>3 DEF ChildExits
<1>4. ASSUME NEW h \in Hosts, Crash(h)
      PROVE  OneClaimant'
  BY <1>4 DEF Crash
<1>5. CASE UNCHANGED vars
  BY <1>5 DEF vars
<1> QED
  BY <1>1, <1>2, <1>3, <1>4, <1>5 DEF Next

\* Attempts go through their steps once.
LEMMA RecoversStep ==
  ASSUME LeaseInv, [Next]_vars
  PROVE  RecoversLate'
<1> USE ActorLeaseAssumption DEF LeaseInv, TypeOK, RecoversLate, Acquiring, At, Goes, files
<1>1. ASSUME NEW a \in Attempts, AcquireStep(a)
      PROVE  RecoversLate'
  BY <1>1 DEF AcquireStep, Start, ReadLock, NoMarker, NoChild, OwnerIsStale, OldChildIsStale,
     LinkClaim, VerifyClaim, VerifyLock, VerifyChild, UnlinkStale, Publish, UnlinkTemp, ConfirmLock,
     ConfirmNoClaim, MakeMarker, ReadClaim, DropChild, DropClaim, Acquired, GiveUp
<1>2. ASSUME NEW a \in Attempts, HolderStep(a)
      PROVE  RecoversLate'
  BY <1>2 DEF HolderStep, Spawn, RecordChecks, RecordWrites, Continue, RecordFails, ReleaseChecks,
     ReleaseMarker, ReleaseChild, ReleaseLock, Released
<1>3. ASSUME NEW a \in Attempts, ChildExits(a)
      PROVE  RecoversLate'
  BY <1>3 DEF ChildExits
<1>4. ASSUME NEW h \in Hosts, Crash(h)
      PROVE  RecoversLate'
  BY <1>4 DEF Crash
<1>5. CASE UNCHANGED vars
  BY <1>5 DEF vars
<1> QED
  BY <1>1, <1>2, <1>3, <1>4, <1>5 DEF Next

\* While a recovery is about to unlink, nobody else changes the lock.
LEMMA StaleStep ==
  ASSUME LeaseInv, [Next]_vars
  PROVE  LockStale'
<1> USE ActorLeaseAssumption DEF LeaseInv, TypeOK, LockStale, OwnerStale, LockKept, Published, Holding, OneClaimant, Claimant, At, Goes, files
<1>1. ASSUME NEW a \in Attempts, AcquireStep(a)
      PROVE  LockStale'
  BY <1>1 DEF AcquireStep, Start, ReadLock, NoMarker, NoChild, OwnerIsStale, OldChildIsStale,
     LinkClaim, VerifyClaim, VerifyLock, VerifyChild, UnlinkStale, Publish, UnlinkTemp, ConfirmLock,
     ConfirmNoClaim, MakeMarker, ReadClaim, DropChild, DropClaim, Acquired, GiveUp
<1>2. ASSUME NEW a \in Attempts, HolderStep(a)
      PROVE  LockStale'
  BY <1>2 DEF HolderStep, Spawn, RecordChecks, RecordWrites, Continue, RecordFails, ReleaseChecks,
     ReleaseMarker, ReleaseChild, ReleaseLock, Released
<1>3. ASSUME NEW a \in Attempts, ChildExits(a)
      PROVE  LockStale'
  BY <1>3 DEF ChildExits
<1>4. ASSUME NEW h \in Hosts, Crash(h)
      PROVE  LockStale'
  BY <1>4 DEF Crash
<1>5. CASE UNCHANGED vars
  BY <1>5 DEF vars
<1> QED
  BY <1>1, <1>2, <1>3, <1>4, <1>5 DEF Next

\* The record of a holder changes only by its own steps.
LEMMA ChildrenStep ==
  ASSUME LeaseInv, [Next]_vars
  PROVE  ChildrenKept'
<1> USE ActorLeaseAssumption DEF LeaseInv, TypeOK, ChildrenKept, ChildGone, ChildStale, LockKept, Published, Holding, Acquiring, Children, At, Goes, files
<1>1. ASSUME NEW a \in Attempts, AcquireStep(a)
      PROVE  ChildrenKept'
  <2>1. CASE Start(a)
    BY <2>1 DEF Start
  <2>2. CASE ReadLock(a)
    BY <2>2 DEF ReadLock
  <2>3. CASE NoMarker(a)
    BY <2>3 DEF NoMarker
  <2>4. CASE NoChild(a)
    BY <2>4 DEF NoChild
  <2>5. CASE OwnerIsStale(a)
    BY <2>5 DEF OwnerIsStale
  <2>6. CASE OldChildIsStale(a)
    BY <2>6 DEF OldChildIsStale
  <2>7. CASE LinkClaim(a)
    BY <2>7 DEF LinkClaim
  <2>8. CASE VerifyClaim(a)
    BY <2>8 DEF VerifyClaim
  <2>9. CASE VerifyLock(a)
    BY <2>9 DEF VerifyLock
  <2>10. CASE VerifyChild(a)
    BY <2>10 DEF VerifyChild
  <2>11. CASE UnlinkStale(a)
    BY <2>11 DEF UnlinkStale
  <2>12. CASE Publish(a)
    BY <2>12 DEF Publish
  <2>13. CASE UnlinkTemp(a)
    BY <2>13 DEF UnlinkTemp
  <2>14. CASE ConfirmLock(a)
    BY <2>14 DEF ConfirmLock
  <2>15. CASE ConfirmNoClaim(a)
    BY <2>15 DEF ConfirmNoClaim
  <2>16. CASE MakeMarker(a)
    BY <2>16 DEF MakeMarker
  <2>17. CASE ReadClaim(a)
    BY <2>17 DEF ReadClaim
  <2>18. CASE DropChild(a)
    BY <2>18 DEF DropChild
  <2>19. CASE DropClaim(a)
    BY <2>19 DEF DropClaim
  <2>20. CASE Acquired(a)
    BY <2>20 DEF Acquired
  <2>21. CASE GiveUp(a)
    BY <2>21 DEF GiveUp
  <2> QED
    BY <1>1, <2>1, <2>2, <2>3, <2>4, <2>5, <2>6, <2>7, <2>8, <2>9, <2>10, <2>11, <2>12, <2>13, <2>14, <2>15, <2>16, <2>17, <2>18, <2>19, <2>20, <2>21 DEF AcquireStep
<1>2. ASSUME NEW a \in Attempts, HolderStep(a)
      PROVE  ChildrenKept'
  <2>1. CASE Spawn(a)
    BY <2>1 DEF Spawn
  <2>2. CASE RecordChecks(a)
    BY <2>2 DEF RecordChecks
  <2>3. CASE RecordWrites(a)
    BY <2>3 DEF RecordWrites
  <2>4. CASE Continue(a)
    BY <2>4 DEF Continue
  <2>5. CASE RecordFails(a)
    BY <2>5 DEF RecordFails
  <2>6. CASE ReleaseChecks(a)
    BY <2>6 DEF ReleaseChecks
  <2>7. CASE ReleaseMarker(a)
    BY <2>7 DEF ReleaseMarker
  <2>8. CASE ReleaseChild(a)
    BY <2>8 DEF ReleaseChild
  <2>9. CASE ReleaseLock(a)
    BY <2>9 DEF ReleaseLock
  <2>10. CASE Released(a)
    BY <2>10 DEF Released
  <2> QED
    BY <1>2, <2>1, <2>2, <2>3, <2>4, <2>5, <2>6, <2>7, <2>8, <2>9, <2>10 DEF HolderStep
<1>3. ASSUME NEW a \in Attempts, ChildExits(a)
      PROVE  ChildrenKept'
  BY <1>3 DEF ChildExits
<1>4. ASSUME NEW h \in Hosts, Crash(h)
      PROVE  ChildrenKept'
  BY <1>4 DEF Crash
<1>5. CASE UNCHANGED vars
  BY <1>5 DEF vars
<1> QED
  BY <1>1, <1>2, <1>3, <1>4, <1>5 DEF Next

\* A record is replaced or removed only when its child is dead.
LEMMA RunningStep ==
  ASSUME LeaseInv, [Next]_vars
  PROVE  RunningIsRecorded'
<1> USE ActorLeaseAssumption DEF LeaseInv, TypeOK, RunningIsRecorded, ChildrenKept, ChildGone, ChildStale, LockKept, Published, Holding, Children, At, Goes, files
<1>1. ASSUME NEW a \in Attempts, AcquireStep(a)
      PROVE  RunningIsRecorded'
  BY <1>1 DEF AcquireStep, Start, ReadLock, NoMarker, NoChild, OwnerIsStale, OldChildIsStale,
     LinkClaim, VerifyClaim, VerifyLock, VerifyChild, UnlinkStale, Publish, UnlinkTemp, ConfirmLock,
     ConfirmNoClaim, MakeMarker, ReadClaim, DropChild, DropClaim, Acquired, GiveUp
<1>2. ASSUME NEW a \in Attempts, HolderStep(a)
      PROVE  RunningIsRecorded'
  <2>1. CASE Spawn(a)
    BY <2>1 DEF Spawn
  <2>2. CASE RecordChecks(a)
    BY <2>2 DEF RecordChecks
  <2>3. CASE RecordWrites(a)
    <3>1. ASSUME NEW b \in Attempts, kid[b].state = "running"
          PROVE  FALSE
      <4>1. record = [owner |-> b, n |-> kid[b].n]
        BY <3>1
      <4>2. record # None => record.owner = a /\ (kid[a].n # record.n \/ kid[a].state = "dead")
        BY <2>3 DEF RecordWrites
      <4>3. record # None
        BY <3>1, <4>1, <2>3 DEF RecordWrites
      <4> QED
        BY <3>1, <4>1, <4>2, <4>3
    <3> QED
      BY <2>3, <3>1 DEF RecordWrites
  <2>4. CASE Continue(a)
    BY <2>4 DEF Continue
  <2>5. CASE RecordFails(a)
    BY <2>5 DEF RecordFails
  <2>6. CASE ReleaseChecks(a)
    BY <2>6 DEF ReleaseChecks
  <2>7. CASE ReleaseMarker(a)
    BY <2>7 DEF ReleaseMarker
  <2>8. CASE ReleaseChild(a)
    BY <2>8 DEF ReleaseChild
  <2>9. CASE ReleaseLock(a)
    BY <2>9 DEF ReleaseLock
  <2>10. CASE Released(a)
    BY <2>10 DEF Released
  <2> QED
    BY <1>2, <2>1, <2>2, <2>3, <2>4, <2>5, <2>6, <2>7, <2>8, <2>9, <2>10 DEF HolderStep
<1>3. ASSUME NEW a \in Attempts, ChildExits(a)
      PROVE  RunningIsRecorded'
  BY <1>3 DEF ChildExits
<1>4. ASSUME NEW h \in Hosts, Crash(h)
      PROVE  RunningIsRecorded'
  BY <1>4 DEF Crash
<1>5. CASE UNCHANGED vars
  BY <1>5 DEF vars
<1> QED
  BY <1>1, <1>2, <1>3, <1>4, <1>5 DEF Next
\* LeaseInv is inductive.
LEMMA LeaseStep ==
  ASSUME LeaseInv, [Next]_vars
  PROVE  LeaseInv'
BY TypeStep, LockStep, ClaimStep, RecoversStep, StaleStep, ChildrenStep, RunningStep DEF LeaseInv

\* LeaseInv holds in every reachable state.
LEMMA InvHolds == Spec => []LeaseInv
<1>1. Init => LeaseInv
  BY InitInv
<1>2. LeaseInv /\ [Next]_vars => LeaseInv'
  BY LeaseStep
<1> QED
  BY <1>1, <1>2, PTL DEF Spec

-----------------------------------------------------------------------------

\* The lease directory, the attempts and the children keep their types.
THEOREM TypeCorrect == Spec => []TypeOK
<1>1. LeaseInv => TypeOK
  BY DEF LeaseInv
<1> QED
  BY <1>1, InvHolds, PTL

\* Two live Hosts never hold the lease at once: the lock of each would be its own.
THEOREM SingleOwnerHolds == Spec => []SingleOwner
<1>1. LeaseInv => SingleOwner
  BY DEF LeaseInv, LockKept, Published, SingleOwner, Owns
<1> QED
  BY <1>1, InvHolds, PTL

\* A running native process is on record.
THEOREM RunningIsRecordedHolds == Spec => []RunningIsRecorded
<1>1. LeaseInv => RunningIsRecorded
  BY DEF LeaseInv
<1> QED
  BY <1>1, InvHolds, PTL

\* Two native processes never run at once: the one record names both.
THEOREM SingleNativeHolds == Spec => []SingleNative
<1>1. LeaseInv => SingleNative
  BY DEF LeaseInv, RunningIsRecorded, SingleNative
<1> QED
  BY <1>1, InvHolds, PTL

\* A live holder's lock, record and marker are changed by nobody else: whoever else writes
\* a file has published, and then the lock is its own, or unlinks a dead Host's lock.
THEOREM HolderUndisturbedHolds == Spec => HolderUndisturbed
<1> DEFINE Kept == \A a \in Attempts : Owns(a) /\ att'[a] = att[a] =>
                     lock' = lock /\ record' = record /\ marker' = marker
<1>1. ASSUME LeaseInv, [Next]_vars
      PROVE  Kept
  <2> SUFFICES ASSUME NEW a \in Attempts, Owns(a), att'[a] = att[a]
               PROVE  lock' = lock /\ record' = record /\ marker' = marker
    OBVIOUS
  <2> USE <1>1 DEF LeaseInv, TypeOK, LockKept, Published, LockStale, OwnerStale, Owns, Holding, At, Goes, files
  <2>1. lock = a
    OBVIOUS
  <2>2. ASSUME NEW b \in Attempts, AcquireStep(b)
        PROVE  lock' = lock /\ record' = record /\ marker' = marker
    BY <2>1, <2>2, ActorLeaseAssumption DEF AcquireStep, Start, ReadLock, NoMarker, NoChild, OwnerIsStale,
       OldChildIsStale, LinkClaim, VerifyClaim, VerifyLock, VerifyChild, UnlinkStale, Publish, UnlinkTemp,
       ConfirmLock, ConfirmNoClaim, MakeMarker, ReadClaim, DropChild, DropClaim, Acquired, GiveUp
  <2>3. ASSUME NEW b \in Attempts, HolderStep(b)
        PROVE  lock' = lock /\ record' = record /\ marker' = marker
    BY <2>1, <2>3 DEF HolderStep, Spawn, RecordChecks, RecordWrites, Continue, RecordFails, ReleaseChecks,
       ReleaseMarker, ReleaseChild, ReleaseLock, Released
  <2> QED
    BY <2>2, <2>3 DEF Next, ChildExits, Crash, vars
<1>2. LeaseInv /\ [Next]_vars => [Kept]_vars
  BY <1>1
<1> QED
  BY <1>2, InvHolds, PTL DEF Spec, HolderUndisturbed

=============================================================================
