------------------------- MODULE WorkerProofs -------------------------
(*****************************************************************************)
(* The worker, for any calls, tasks, plans, images, retries and faults: its  *)
(* local locks are leases (LockLocal), plans have one worker (TaskRouting),  *)
(* commands find their files and outputs are whole (TaskFiles), images reach *)
(* their pods (ImageTransfer) and a profile is that of the last attempt      *)
(* (TaskProfiling).                                                          *)
(*****************************************************************************)
EXTENDS WorkerParts, LockLocal, FiniteSetTheorems, SequenceTheorems, WellFoundedInduction, TLAPS

(* LockLocal.  Two inductive invariants carry everything.  LockInv holds when  *)
(* no wait for the secondary lock can time out (SecondaryIsSafe): then the     *)
(* secondary lock is exclusive, so that nobody removes the lock file between   *)
(* another call's look at it and its removal.  UntimedInv holds whatever goes  *)
(* wrong when no ttl is given: then only a release removes the lock file, and  *)
(* a release has read its own uuid in it.                                      *)

\* The state predicates of LockLocal keep their types: every step assigns a
\* caller or NoCaller to the files and a known place to pc.
THEOREM TypeCorrect == Spec => []TypeOK
<1>1. Init => TypeOK
  BY DEF Init, TypeOK, Pc, Waiting
<1>2. TypeOK /\ [Next]_vars => TypeOK'
  <2> SUFFICES ASSUME TypeOK, [Next]_vars PROVE TypeOK'
    OBVIOUS
  <2> USE DEF TypeOK, Goto, Pc, Waiting, InSecondary, Ended
  <2>1. ASSUME NEW c \in Caller, Call(c) PROVE TypeOK'
    BY <2>1 DEF Call
  <2>2. ASSUME NEW c \in Caller, TryAcquireLock(c) PROVE TypeOK'
    BY <2>2 DEF TryAcquireLock
  <2>3. ASSUME NEW c \in Caller, Retry(c) PROVE TypeOK'
    BY <2>3 DEF Retry
  <2>4. ASSUME NEW c \in Caller, GiveUp(c) PROVE TypeOK'
    BY <2>4 DEF GiveUp
  <2>5. ASSUME NEW c \in Caller, EndBody(c) PROVE TypeOK'
    BY <2>5 DEF EndBody
  <2>6. ASSUME NEW c \in Caller, TryAcquireSecondaryLock(c) PROVE TypeOK'
    BY <2>6 DEF TryAcquireSecondaryLock
  <2>7. ASSUME NEW c \in Caller, SecondaryTimeout(c) PROVE TypeOK'
    BY <2>7 DEF SecondaryTimeout
  <2>8. ASSUME NEW c \in Caller, ReleaseSecondaryLock(c) PROVE TypeOK'
    BY <2>8 DEF ReleaseSecondaryLock
  <2>9. ASSUME NEW c \in Caller, StatLockFile(c) PROVE TypeOK'
    BY <2>9 DEF StatLockFile
  <2>10. ASSUME NEW c \in Caller, RemoveExpired(c) PROVE TypeOK'
    BY <2>10 DEF RemoveExpired
  <2>11. ASSUME NEW c \in Caller, ReadLockFile(c) PROVE TypeOK'
    BY <2>11 DEF ReadLockFile
  <2>12. ASSUME NEW c \in Caller, RemoveLockFile(c) PROVE TypeOK'
    BY <2>12 DEF RemoveLockFile
  <2>13. ASSUME NEW c \in Caller, TtlElapses(c) PROVE TypeOK'
    BY <2>13 DEF TtlElapses
  <2>14. ASSUME NEW c \in Caller, Crash(c) PROVE TypeOK'
    BY <2>14 DEF Crash
  <2>15. CASE UNCHANGED vars
    BY <2>15 DEF vars
  <2> QED
    BY <2>1, <2>2, <2>3, <2>4, <2>5, <2>6, <2>7, <2>8, <2>9, <2>10, <2>11,
       <2>12, <2>13, <2>14, <2>15 DEF Next, Step, AllEnded
<1> QED
  BY <1>1, <1>2, PTL DEF Spec

\* No step changes the faults of the behaviour.
LEMMA FaultsStay == [Next]_vars => faults' = faults
  BY DEF Next, Step, AllEnded, vars, Call, TryAcquireLock, Retry, GiveUp, EndBody,
         TryAcquireSecondaryLock, SecondaryTimeout, ReleaseSecondaryLock, StatLockFile,
         RemoveExpired, ReadLockFile, RemoveLockFile, TtlElapses, Crash

-----------------------------------------------------------------------------
\* Before the first call there is no lock file and no secondary lock file, and
\* LockInv holds.
LEMMA LockInvInit == Init => LockInv
  BY LockAssumption
     DEF Init, LockInv, SecondaryOwned, NotRaising, FreshBeforeHold,
         KeptUntilOverdue, OwnAtRemoval, OverdueAtRemoval, InSecondary

\* One step preserves LockInv: each case below is one operation of the code.
LEMMA LockInvStep ==
  ASSUME SecondaryIsSafe, TypeOK, LockInv, [Next]_vars
  PROVE  LockInv'
<1> USE LockAssumption
    DEF TypeOK, LockInv, SecondaryOwned, NotRaising, FreshBeforeHold,
        KeptUntilOverdue, OwnAtRemoval, OverdueAtRemoval, InSecondary,
        Waiting, Goto
<1>1. ASSUME NEW c \in Caller, Call(c) PROVE LockInv'
  BY <1>1 DEF Call
<1>2. ASSUME NEW c \in Caller, TryAcquireLock(c) PROVE LockInv'
  BY <1>2 DEF TryAcquireLock
<1>3. ASSUME NEW c \in Caller, Retry(c) PROVE LockInv'
  BY <1>3 DEF Retry
<1>4. ASSUME NEW c \in Caller, GiveUp(c) PROVE LockInv'
  BY <1>4 DEF GiveUp
<1>5. ASSUME NEW c \in Caller, EndBody(c) PROVE LockInv'
  BY <1>5 DEF EndBody
<1>6. ASSUME NEW c \in Caller, TryAcquireSecondaryLock(c) PROVE LockInv'
  BY <1>6 DEF TryAcquireSecondaryLock
<1>7. ASSUME NEW c \in Caller, SecondaryTimeout(c) PROVE LockInv'
  <2>1. secondaryFile \in Caller /\ pc[secondaryFile] = "crashed"
    BY <1>7 DEF SecondaryTimeout, SecondaryIsSafe
  <2> QED  BY <2>1
<1>8. ASSUME NEW c \in Caller, ReleaseSecondaryLock(c) PROVE LockInv'
  BY <1>8 DEF ReleaseSecondaryLock
<1>9. ASSUME NEW c \in Caller, StatLockFile(c) PROVE LockInv'
  BY <1>9 DEF StatLockFile
<1>10. ASSUME NEW c \in Caller, RemoveExpired(c) PROVE LockInv'
  BY <1>10 DEF RemoveExpired
<1>11. ASSUME NEW c \in Caller, ReadLockFile(c) PROVE LockInv'
  BY <1>11 DEF ReadLockFile
<1>12. ASSUME NEW c \in Caller, RemoveLockFile(c) PROVE LockInv'
  BY <1>12 DEF RemoveLockFile
<1>13. ASSUME NEW c \in Caller, TtlElapses(c) PROVE LockInv'
  BY <1>13 DEF TtlElapses
<1>14. ASSUME NEW c \in Caller, Crash(c) PROVE LockInv'
  BY <1>14 DEF Crash, SecondaryIsSafe, Ended
<1>15. CASE UNCHANGED vars
  BY <1>15 DEF vars
<1> QED
  BY <1>1, <1>2, <1>3, <1>4, <1>5, <1>6, <1>7, <1>8, <1>9, <1>10, <1>11,
     <1>12, <1>13, <1>14, <1>15 DEF Next, Step, AllEnded

\* When no wait for the secondary lock times out, the lock file of a call that
\* is younger than its ttl stays in place from the exclusive create to the
\* os.remove of _release_lock, and whoever is about to remove a lock file still
\* finds there the one it has looked at.
THEOREM LockInvariant == Spec => [](SecondaryIsSafe => LockInv)
<1>1. Init => (SecondaryIsSafe => LockInv)
  BY LockInvInit
<1>2. TypeOK /\ (SecondaryIsSafe => LockInv) /\ [Next]_vars => (SecondaryIsSafe => LockInv)'
  <2> SUFFICES ASSUME TypeOK, SecondaryIsSafe => LockInv, [Next]_vars, SecondaryIsSafe'
               PROVE  LockInv'
    OBVIOUS
  <2>1. SecondaryIsSafe
    BY FaultsStay DEF SecondaryIsSafe
  <2> QED
    BY <2>1, LockInvStep
<1> QED
  BY <1>1, <1>2, TypeCorrect, PTL DEF Spec

\* When no wait for the secondary lock times out, that lock is exclusive.
THEOREM SecondaryExclusive == Spec => []SecondaryExclusion
<1>1. (SecondaryIsSafe => LockInv) => SecondaryExclusion
  BY DEF LockInv, SecondaryOwned, SecondaryExclusion
<1> QED
  BY <1>1, LockInvariant, PTL

\* No call that has held the lock fails in the locking code, when no wait for
\* the secondary lock times out: its own removal of the secondary lock file
\* always finds it.
THEOREM NoLateFailure == Spec => NoFailureAfterHolding
<1>1. TypeOK /\ (SecondaryIsSafe => LockInv) /\ [Next]_vars =>
        [SecondaryIsSafe => \A c \in Caller :
           pc'[c] = "failed" /\ pc[c] # "failed" => pc[c] = "retry"]_vars
  <2> SUFFICES ASSUME TypeOK, LockInv, [Next]_vars, NEW c \in Caller,
                      pc'[c] = "failed", pc[c] # "failed"
               PROVE  pc[c] = "retry"
    OBVIOUS
  <2> USE LockAssumption
      DEF TypeOK, LockInv, SecondaryOwned, NotRaising, InSecondary, Goto
  <2>1. ASSUME NEW d \in Caller, ReleaseSecondaryLock(d) PROVE FALSE
    BY <2>1 DEF ReleaseSecondaryLock
  <2>2. ASSUME NEW d \in Caller, GiveUp(d) PROVE pc[c] = "retry"
    BY <2>2 DEF GiveUp
  <2> QED
    BY <2>1, <2>2
       DEF Next, Step, AllEnded, vars, Call, TryAcquireLock, Retry, EndBody,
           TryAcquireSecondaryLock, SecondaryTimeout, StatLockFile, RemoveExpired,
           ReadLockFile, RemoveLockFile, TtlElapses, Crash
<1> QED
  BY <1>1, LockInvariant, TypeCorrect, PTL DEF Spec, NoFailureAfterHolding

-----------------------------------------------------------------------------
(* Without a ttl, whatever crashes and whatever times out *)

\* No lock file is ever overdue, and no call looks for an expired one
\* (_try_acquire_lock: `if ttl and ...`).
NeverExpires ==
  /\ overdue = {}
  /\ \A c \in Caller : pc[c] \notin {"expWait", "expStat", "expRemove", "expExit"}
\* What remains of LockInv when the secondary lock may fail: everything that
\* is said of the lock file.
UntimedInv ==
  /\ NeverExpires /\ FreshBeforeHold /\ KeptUntilOverdue /\ OwnAtRemoval

\* One step of the code, of a crash or of a timeout preserves UntimedInv: the
\* only removal left is the one of _release_lock, behind the uuid's comparison.
LEMMA UntimedInvStep ==
  ASSUME ~HasTtl, TypeOK, UntimedInv, [Next]_vars
  PROVE  UntimedInv'
<1> USE LockAssumption
    DEF TypeOK, UntimedInv, NeverExpires, FreshBeforeHold, KeptUntilOverdue,
        OwnAtRemoval, Waiting, Goto
<1>1. ASSUME NEW c \in Caller, Call(c) PROVE UntimedInv'
  BY <1>1 DEF Call
<1>2. ASSUME NEW c \in Caller, TryAcquireLock(c) PROVE UntimedInv'
  BY <1>2 DEF TryAcquireLock
<1>3. ASSUME NEW c \in Caller, Retry(c) \/ GiveUp(c) \/ EndBody(c)
      PROVE  UntimedInv'
  BY <1>3 DEF Retry, GiveUp, EndBody
<1>4. ASSUME NEW c \in Caller,
             TryAcquireSecondaryLock(c) \/ SecondaryTimeout(c)
      PROVE  UntimedInv'
  BY <1>4 DEF TryAcquireSecondaryLock, SecondaryTimeout
<1>5. ASSUME NEW c \in Caller, ReleaseSecondaryLock(c) PROVE UntimedInv'
  BY <1>5 DEF ReleaseSecondaryLock
<1>6. ASSUME NEW c \in Caller, StatLockFile(c) \/ RemoveExpired(c)
      PROVE  UntimedInv'
  BY <1>6 DEF StatLockFile, RemoveExpired
<1>7. ASSUME NEW c \in Caller, ReadLockFile(c) PROVE UntimedInv'
  BY <1>7 DEF ReadLockFile
<1>8. ASSUME NEW c \in Caller, RemoveLockFile(c) PROVE UntimedInv'
  BY <1>8 DEF RemoveLockFile
<1>9. ASSUME NEW c \in Caller, TtlElapses(c) PROVE UntimedInv'
  BY <1>9 DEF TtlElapses
<1>10. ASSUME NEW c \in Caller, Crash(c) PROVE UntimedInv'
  BY <1>10 DEF Crash
<1>11. CASE UNCHANGED vars
  BY <1>11 DEF vars
<1> QED
  BY <1>1, <1>2, <1>3, <1>4, <1>5, <1>6, <1>7, <1>8, <1>9, <1>10, <1>11
     DEF Next, Step, AllEnded

\* Calls of lock_resource without a ttl keep UntimedInv, whatever crashes and
\* whatever times out.
THEOREM UntimedInvariant == ~HasTtl => (Spec => []UntimedInv)
<1> SUFFICES ASSUME ~HasTtl PROVE Spec => []UntimedInv
  OBVIOUS
<1>1. Init => UntimedInv
  BY LockAssumption
     DEF Init, UntimedInv, NeverExpires, FreshBeforeHold, KeptUntilOverdue,
         OwnAtRemoval
<1>2. TypeOK /\ UntimedInv /\ [Next]_vars => UntimedInv'
  BY UntimedInvStep
<1> QED
  BY <1>1, <1>2, TypeCorrect, PTL DEF Spec

-----------------------------------------------------------------------------
(* The two together: what both invariants say of the lock file itself *)

\* The parts of both invariants that speak of the lock file.
FileInv == FreshBeforeHold /\ KeptUntilOverdue /\ OwnAtRemoval /\ OverdueAtRemoval

\* The lock file stays its creator's until it is overdue or released, when the
\* secondary lock never times out or when the calls have no ttl.
LEMMA FileInvariant == Spec => [](FileIsSafe => FileInv)
<1>1. CASE HasTtl
  <2>1. (SecondaryIsSafe => LockInv) => (FileIsSafe => FileInv)
    BY <1>1 DEF LockInv, FileInv, FileIsSafe
  <2> QED
    BY <2>1, LockInvariant, PTL
<1>2. CASE ~HasTtl
  <2>1. UntimedInv => (FileIsSafe => FileInv)
    BY DEF UntimedInv, NeverExpires, FileInv, OverdueAtRemoval
  <2> QED
    BY <1>2, <2>1, UntimedInvariant, PTL
<1> QED
  BY <1>1, <1>2

\* Two callers are inside the "with" block only when one of them has outlived
\* its ttl; without a ttl never, whatever crashes.
THEOREM Exclusion == Spec => []LeaseExclusion
<1>1. (FileIsSafe => FileInv) => LeaseExclusion
  BY DEF FileInv, KeptUntilOverdue, LeaseExclusion, Holders
<1> QED
  BY <1>1, FileInvariant, PTL

\* One step removes a lock file only if it is overdue or its creator is at the
\* os.remove of _release_lock.
LEMMA RemovalStep ==
  ASSUME TypeOK, FileInv, [Next]_vars, NEW c \in Caller,
         lockFile = c, lockFile' # c
  PROVE  c \in overdue \/ pc[c] = "relRemove"
<1>1. CASE \E d \in Caller : RemoveExpired(d)
  BY <1>1 DEF RemoveExpired, FileInv, OverdueAtRemoval
<1>2. CASE \E d \in Caller : RemoveLockFile(d)
  BY <1>2 DEF RemoveLockFile, FileInv, OwnAtRemoval
<1>3. CASE \E d \in Caller : TryAcquireLock(d)
  BY <1>3, LockAssumption DEF TryAcquireLock
<1> QED
  BY <1>1, <1>2, <1>3
     DEF Next, Step, AllEnded, vars, Call, Retry, GiveUp, EndBody,
         TryAcquireSecondaryLock, SecondaryTimeout, ReleaseSecondaryLock,
         StatLockFile, ReadLockFile, TtlElapses, Crash

\* "Ensure we only remove the file _we_ created" (lock_local.py:119): a lock file
\* that is not overdue is removed by nobody but its creator.
THEOREM RemovalIsLegitimate == Spec => RemovedByOwnerOrExpired
<1>1. TypeOK /\ (FileIsSafe => FileInv) /\ [Next]_vars =>
        [FileIsSafe => \A c \in Caller :
           lockFile = c /\ lockFile' # c => c \in overdue \/ pc[c] = "relRemove"]_vars
  BY RemovalStep
<1> QED
  BY <1>1, TypeCorrect, FileInvariant, PTL DEF Spec, RemovedByOwnerOrExpired

-----------------------------------------------------------------------------
(* The lock implements the lease *)

\* With no call in the "with" block and no ttl run out, the lease is free.
LEMMA LeaseInit == Init => LeaseRefinement!Init
  BY DEF Init, LeaseRefinement!Init, Holders

\* Each step of lock_resource is a step of the lease or changes nothing of it:
\* the exclusive create acquires it, the end of the block (or the death of the
\* process in it) releases it.
LEMMA LeaseStep ==
  ASSUME TypeOK, FileIsSafe => FileInv, [Next]_vars
  PROVE  [LeaseRefinement!Next]_(LeaseRefinement!vars)
<1>0. FileIsSafe' <=> FileIsSafe
  BY FaultsStay DEF FileIsSafe, SecondaryIsSafe
<1>7. CASE ~FileIsSafe
  <2>1. ASSUME overdue' # overdue
        PROVE  \E c \in Caller : HasTtl /\ overdue' = overdue \union {c}
    BY <2>1 DEF Next, Step, AllEnded, vars, Call, TryAcquireLock, Retry, GiveUp, EndBody,
         TryAcquireSecondaryLock, SecondaryTimeout, ReleaseSecondaryLock, StatLockFile,
         RemoveExpired, ReadLockFile, RemoveLockFile, TtlElapses, Crash
  <2> QED
    BY <1>0, <1>7, <2>1
       DEF LeaseRefinement!vars, LeaseRefinement!Next, LeaseRefinement!Lapse
<1>8. CASE FileIsSafe
  <2> USE <1>0, <1>8 DEF LeaseRefinement!vars, Holders, Goto, TypeOK
  <2>1. ASSUME NEW c \in Caller, TryAcquireLock(c), lockFile = NoCaller
        PROVE  LeaseRefinement!Acquire(c)
    <3>1. Holders' = Holders \union {c}
      BY <2>1 DEF TryAcquireLock
    <3>2. Holders \subseteq overdue
      BY <2>1, LockAssumption DEF FileInv, KeptUntilOverdue
    <3>3. c \notin Holders /\ c \notin overdue /\ overdue' = overdue
      BY <2>1 DEF TryAcquireLock, FileInv, FreshBeforeHold, Waiting
    <3> QED
      BY <3>1, <3>2, <3>3 DEF LeaseRefinement!Acquire
  <2>2. ASSUME NEW c \in Caller, EndBody(c) \/ Crash(c), pc[c] = "hold"
        PROVE  LeaseRefinement!Release(c)
    <3>1. Holders' = Holders \ {c} /\ c \in Holders /\ overdue' = overdue
      BY <2>2 DEF EndBody, Crash
    <3> QED
      BY <3>1 DEF LeaseRefinement!Release
  <2>3. ASSUME NEW c \in Caller, TtlElapses(c)
        PROVE  LeaseRefinement!Lapse(c)
    BY <2>3 DEF TtlElapses, LeaseRefinement!Lapse
  <2>4. ASSUME NEW c \in Caller, Call(c) \/ Step(c) \/ Crash(c),
               pc[c] # "hold",
               ~(TryAcquireLock(c) /\ lockFile = NoCaller)
        PROVE  UNCHANGED <<Holders, overdue>>
    <3>1. pc'[c] # "hold" /\ (\A d \in Caller \ {c} : pc'[d] = pc[d])
            /\ overdue' = overdue
      BY <2>4
         DEF Step, Call, Crash, TryAcquireLock, Retry, GiveUp, EndBody,
             TryAcquireSecondaryLock, SecondaryTimeout, ReleaseSecondaryLock,
             StatLockFile, RemoveExpired, ReadLockFile, RemoveLockFile
    <3> QED
      BY <3>1, <2>4
  <2>5. ASSUME NEW c \in Caller, Call(c) \/ Step(c), pc[c] = "hold"
        PROVE  EndBody(c)
    BY <2>5
       DEF Step, Call, TryAcquireLock, Retry, GiveUp, EndBody,
           TryAcquireSecondaryLock, SecondaryTimeout, ReleaseSecondaryLock,
           StatLockFile, RemoveExpired, ReadLockFile, RemoveLockFile
  <2>6. CASE UNCHANGED vars
    BY <2>6 DEF vars
  <2> QED
    BY <2>1, <2>2, <2>3, <2>4, <2>5, <2>6 DEF Next, AllEnded, LeaseRefinement!Next
<1> QED
  BY <1>7, <1>8

\* lock_resource gives its callers the lease they are promised.
THEOREM Refinement == Spec => ImplementsLease
<1>1. TypeOK /\ (FileIsSafe => FileInv) /\ [Next]_vars
        => [LeaseRefinement!Next]_(LeaseRefinement!vars)
  BY LeaseStep
<1> QED
  BY LeaseInit, <1>1, TypeCorrect, FileInvariant, PTL
     DEF Spec, ImplementsLease, LeaseRefinement!Spec

-----------------------------------------------------------------------------
(* TaskRouting: the rows that are about to be inserted are counted. *)

\* The reactors that are about to insert a row for the worker.
Pending(w) == {r \in Reactor : \E entry \in routing[r] : entry.worker = w}

Typed ==
  /\ IsFiniteSet(rows) /\ rows \subseteq Row
  /\ scale \in 1..MaxWorkers
  /\ routing \in [Reactor -> SUBSET Row]

\* A reactor is about to insert at most one row.
OneRow == \A r \in Reactor : \A q, s \in routing[r] : q = s

\* A worker that a reactor has chosen had the fewest plans then, and the others
\* have had no less since: it can be ahead only by what is yet to be inserted.
Balanced ==
  settled =>
    \A v \in Worker, w \in 0..(scale - 1) :
      CountOf(v) + Cardinality(Pending(v)) <= CountOf(w) + Cardinality(Reactor)

Inv == Typed /\ OneRow /\ OneWorkerPerPlan /\ Balanced

-----------------------------------------------------------------------------
\* The worker that get_worker_with_fewest takes exists.
LEMMA Smallest ==
  ASSUME NEW S, S \subseteq Nat, S # {}
  PROVE  Min(S) \in S /\ \A y \in S : Min(S) <= y
<1> DEFINE below == {0..n : n \in S}
<1>1. below \subseteq FiniteSubsetsOf(Nat) /\ below # {}
  <2>1. ASSUME NEW n \in S PROVE IsFiniteSet(0..n) /\ 0..n \subseteq Nat
    BY FS_Interval
  <2> QED
    BY <2>1 DEF FiniteSubsetsOf
<1>2. PICK T \in below : \A U \in below : ~(<<U, T>> \in StrictSubsetOrdering(Nat))
  BY <1>1, WFMin, FS_StrictSubsetOrderingWellFounded
<1>3. PICK x \in S : T = 0..x
  OBVIOUS
<1>4. ASSUME NEW y \in S PROVE x <= y
  <2>1. ~(y < x)
    <3> SUFFICES ASSUME y < x PROVE FALSE
      OBVIOUS
    <3>1. 0..y \subseteq 0..x /\ 0..y # 0..x
      OBVIOUS
    <3>2. <<0..y, 0..x>> \in StrictSubsetOrdering(Nat)
      <4>1. 0..y \in SUBSET Nat /\ 0..x \in SUBSET Nat
        OBVIOUS
      <4> HIDE DEF below
      <4> QED
        BY <3>1, <4>1, Zenon DEF StrictSubsetOrdering
    <3> QED
      BY <1>2, <1>3, <3>2
  <2> QED
    BY <2>1
<1> QED
  BY <1>4 DEF Min

LEMMA CountIsNat ==
  ASSUME IsFiniteSet(rows), NEW w
  PROVE  CountOf(w) \in Nat
  BY FS_Subset, FS_CardinalityType DEF CountOf

LEMMA PendingIsBounded ==
  ASSUME NEW w
  PROVE  /\ IsFiniteSet(Pending(w)) /\ Cardinality(Pending(w)) \in Nat
         /\ Cardinality(Pending(w)) <= Cardinality(Reactor) /\ Cardinality(Reactor) \in Nat
  BY FS_Subset, FS_CardinalityType, TaskRoutingAssumption DEF Pending

LEMMA LeastLoaded ==
  ASSUME Typed
  PROVE  /\ Min(WithFewestPlans) \in Worker
         /\ \A v \in 0..(scale - 1) : CountOf(Min(WithFewestPlans)) <= CountOf(v)
<1>1. Counted \subseteq Worker /\ Worker \subseteq Nat /\ 0 \in Counted
  BY TaskRoutingAssumption DEF Typed, Counted, Row, Worker
<1>2. PICK w \in Counted : \A v \in Counted : CountOf(w) <= CountOf(v)
  <2> DEFINE counts == {CountOf(w) : w \in Counted}
  <2>1. counts \subseteq Nat /\ counts # {}
    BY <1>1, CountIsNat DEF Typed
  <2>2. Min(counts) \in counts /\ \A y \in counts : Min(counts) <= y
    BY <2>1, Smallest
  <2> QED
    BY <2>2
<1>3. WithFewestPlans \subseteq Nat /\ WithFewestPlans # {}
  BY <1>1, <1>2 DEF WithFewestPlans
<1>4. Min(WithFewestPlans) \in WithFewestPlans
  BY <1>3, Smallest
<1> QED
  BY <1>1, <1>4 DEF WithFewestPlans, Counted

-----------------------------------------------------------------------------
\* A reactor with nothing to insert chooses the least loaded worker.
LEMMA ChooseInv ==
  ASSUME Inv, NEW r \in Reactor, NEW p \in Plan, ChooseWorker(r, p)
  PROVE  Inv'
<1> DEFINE chosen == Min(WithFewestPlans)
           entry == [plan |-> p, worker |-> chosen]
<1>1. /\ routing[r] = {} /\ routing' = [routing EXCEPT ![r] = {entry}]
      /\ UNCHANGED <<rows, scale, settled>>
  BY DEF ChooseWorker
<1>2. chosen \in Worker /\ \A v \in 0..(scale - 1) : CountOf(chosen) <= CountOf(v)
  BY LeastLoaded DEF Inv
<1>3. entry \in Row /\ entry.worker = chosen
  BY <1>2 DEF Row
<1> HIDE DEF chosen, entry
<1>4. Typed' /\ OneRow' /\ OneWorkerPerPlan'
  BY <1>1, <1>3 DEF Inv, Typed, OneRow, OneWorkerPerPlan
<1>5. ASSUME settled, NEW v \in Worker, NEW w \in 0..(scale - 1)
      PROVE  CountOf(v) + Cardinality(Pending(v)') <= CountOf(w) + Cardinality(Reactor)
  <2>1. CASE v = chosen
    <3>1. CountOf(v) \in Nat /\ CountOf(w) \in Nat
      BY CountIsNat DEF Inv, Typed
    <3>2. Cardinality(Pending(v)') \in Nat /\ Cardinality(Reactor) \in Nat
          /\ Cardinality(Pending(v)') <= Cardinality(Reactor)
      BY PendingIsBounded, FS_Subset, FS_CardinalityType, TaskRoutingAssumption DEF Pending
    <3> QED
      BY <1>2, <2>1, <3>1, <3>2
  <2>2. CASE v # chosen
    <3>1. Pending(v)' = Pending(v)
      BY <1>1, <1>3, <2>2 DEF Pending, Inv, Typed
    <3> QED
      BY <1>5, <3>1 DEF Inv, Balanced
  <2> QED
    BY <2>1, <2>2
<1> QED
  BY <1>1, <1>4, <1>5 DEF Inv, Balanced, CountOf

\* The row that a reactor inserts was pending, or it is refused.
LEMMA InsertInv ==
  ASSUME Inv, NEW r \in Reactor, InsertRow(r)
  PROVE  Inv'
<1>1. PICK entry \in routing[r] :
        rows' = IF RowsOf(entry.plan) = {} THEN rows \union {entry} ELSE rows
  BY DEF InsertRow
<1>2. /\ routing' = [routing EXCEPT ![r] = {}] /\ UNCHANGED <<scale, settled>>
      /\ entry \in Row /\ routing[r] = {entry}
  BY DEF InsertRow, Inv, Typed, OneRow
<1>3. Typed' /\ OneRow' /\ OneWorkerPerPlan'
  BY <1>1, <1>2, FS_AddElement DEF Inv, Typed, OneRow, OneWorkerPerPlan, RowsOf
<1>4. ASSUME NEW w
      PROVE  /\ CountOf(w) \in Nat /\ CountOf(w)' \in Nat /\ CountOf(w) <= CountOf(w)'
             /\ CountOf(w)' <= CountOf(w) + 1
             /\ CountOf(w)' # CountOf(w) => entry.worker = w
  <2> DEFINE S == {q \in rows : q.worker = w}
             T == {q \in rows' : q.worker = w}
  <2>1. IsFiniteSet(S) /\ CountOf(w) = Cardinality(S) /\ CountOf(w)' = Cardinality(T)
    BY FS_Subset DEF Inv, Typed, CountOf
  <2>2. T = S \/ (T = S \union {entry} /\ entry.worker = w)
    BY <1>1
  <2> HIDE DEF S, T
  <2>3. Cardinality(S) \in Nat
    BY <2>1, FS_CardinalityType
  <2>4. T = S \/ (Cardinality(T) \in {Cardinality(S), Cardinality(S) + 1} /\ entry.worker = w)
    BY <2>1, <2>2, FS_AddElement
  <2> QED
    BY <2>1, <2>3, <2>4
<1>5. ASSUME NEW v
      PROVE  /\ Cardinality(Pending(v)) \in Nat /\ Cardinality(Pending(v)') \in Nat
             /\ Cardinality(Pending(v)') <= Cardinality(Pending(v))
             /\ entry.worker = v => Cardinality(Pending(v)') = Cardinality(Pending(v)) - 1
  <2>1. IsFiniteSet(Pending(v)) /\ Cardinality(Pending(v)) \in Nat
    BY PendingIsBounded
  <2>2. Pending(v)' = Pending(v) \ {r} /\ (entry.worker = v => r \in Pending(v))
    BY <1>2 DEF Pending, Inv, Typed
  <2>3. CASE r \in Pending(v)
    <3> DEFINE waiting == Pending(v)
    <3>1. Pending(v)' = waiting \ {r}
      BY <2>2
    <3>2. IsFiniteSet(waiting) /\ r \in waiting /\ Cardinality(waiting) \in Nat
      BY <2>1, <2>3
    <3> HIDE DEF waiting
    <3>3. IsFiniteSet(waiting \ {r}) /\ Cardinality(waiting \ {r}) = Cardinality(waiting) - 1
      BY <3>2, FS_RemoveElement
    <3>4. Cardinality(waiting \ {r}) \in Nat
      BY <3>3, FS_CardinalityType
    <3>5. Cardinality(waiting \ {r}) <= Cardinality(waiting)
      BY <3>2, <3>3
    <3> QED
      BY <3>1, <3>2, <3>3, <3>4, <3>5 DEF waiting
  <2>4. CASE r \notin Pending(v)
    <3>1. Pending(v)' = Pending(v) /\ entry.worker # v
      BY <2>2, <2>4
    <3> QED
      BY <2>1, <3>1
  <2> QED
    BY <2>3, <2>4
<1>6. Balanced'
  <2> SUFFICES ASSUME settled, NEW v \in Worker, NEW w \in 0..(scale - 1)
               PROVE  CountOf(v)' + Cardinality(Pending(v)') <= CountOf(w)' + Cardinality(Reactor)
    BY <1>2 DEF Balanced
  <2>1. CountOf(v) + Cardinality(Pending(v)) <= CountOf(w) + Cardinality(Reactor)
    BY DEF Inv, Balanced
  <2>2. Cardinality(Reactor) \in Nat
    BY PendingIsBounded
  <2>3. CountOf(v)' + Cardinality(Pending(v)') <= CountOf(v) + Cardinality(Pending(v))
    BY <1>4, <1>5
  <2>4. CountOf(v)' \in Nat /\ CountOf(v) \in Nat /\ CountOf(w)' \in Nat /\ CountOf(w) \in Nat
        /\ CountOf(w) <= CountOf(w)'
    BY <1>4
  <2>5. Cardinality(Pending(v)) \in Nat /\ Cardinality(Pending(v)') \in Nat
    BY <1>5
  <2> QED
    BY <2>1, <2>2, <2>3, <2>4, <2>5
<1> QED
  BY <1>3, <1>6 DEF Inv

\* The steps that end the time in which plans only arrive.
LEMMA UnsettledInv ==
  ASSUME Inv,
         (\E p \in Plan : Release(p)) \/ (\E n \in 1..MaxWorkers : Rescale(n)) \/ UNCHANGED routingVars
  PROVE  Inv'
<1>1. ASSUME NEW p \in Plan, Release(p) PROVE Inv'
  BY <1>1, FS_Subset DEF Release, Inv, Typed, OneRow, OneWorkerPerPlan, Balanced, RowsOf
<1>2. ASSUME NEW n \in 1..MaxWorkers, Rescale(n) PROVE Inv'
  BY <1>2 DEF Rescale, Inv, Typed, OneRow, OneWorkerPerPlan, Balanced
<1>3. CASE UNCHANGED routingVars
  BY <1>3 DEF routingVars, Inv, Typed, OneRow, OneWorkerPerPlan, Balanced, CountOf, Pending
<1> QED
  BY <1>1, <1>2, <1>3

\* "At a given point in time, a compute plan can only be mapped to one worker"
\* (task_routing.py:26), and plans that arrive together, each routed on counts
\* that do not show the others, are spread all the same
\* (_get_workers_with_fewest_running_cps).
THEOREM PlansAreRouted == RoutingSpec => []RoutingHolds
<1>1. RoutingInit => Inv
  <2> SUFFICES ASSUME RoutingInit PROVE Inv
    OBVIOUS
  <2>1. Typed /\ OneRow /\ OneWorkerPerPlan
    BY FS_EmptySet DEF RoutingInit, Typed, OneRow, OneWorkerPerPlan
  <2>2. ASSUME NEW w PROVE CountOf(w) = 0 /\ Pending(w) = {}
    BY FS_EmptySet DEF RoutingInit, CountOf, Pending
  <2>3. Balanced
    BY <2>2, FS_EmptySet, PendingIsBounded DEF Balanced
  <2> QED
    BY <2>1, <2>3 DEF Inv
<1>2. Inv /\ [RoutingNext]_routingVars => Inv'
  BY ChooseInv, InsertInv, UnsettledInv DEF RoutingNext, AllRouted
<1>3. Inv => RoutingHolds
  <2> SUFFICES ASSUME Inv, settled, NEW v \in 0..(scale - 1), NEW w \in 0..(scale - 1)
               PROVE  CountOf(v) <= CountOf(w) + Cardinality(Reactor)
    BY DEF Inv, RoutingHolds, Spread
  <2>1. v \in Worker
    BY TaskRoutingAssumption DEF Inv, Typed, Worker
  <2>2. CountOf(v) \in Nat /\ CountOf(w) \in Nat
    BY CountIsNat DEF Inv, Typed
  <2> QED
    BY <2>1, <2>2, PendingIsBounded DEF Inv, Balanced
<1> QED
  BY <1>1, <1>2, <1>3, PTL DEF RoutingSpec

-----------------------------------------------------------------------------
(* TaskFiles: what an attempt has linked, written, stored and registered at    *)
(* each place, where the chainkeys are, and which faults an attempt that fails *)
(* can be charged to.                                                          *)

Prepared == {"prepare", "dump", "clear secrets", "restore"}
Fed == Prepared \union {"pod", "args", "exec"}
Keyed == {"restore", "pod", "args", "exec", "perf", "store", "models", "post", "commit", "move", "done"}
Saved == {"post", "commit", "move", "done"}
Place == {"idle", "link", "perf", "store", "models"} \union Fed \union Saved

FilesTyped ==
  /\ plan \in Plans
  /\ status \in [Task -> {"none", "todo", "doing", "done", "failed"}]
  /\ failures \in [Task -> Nat] /\ attempt \in [Task -> Nat] /\ filesFaults \in Nat
  /\ place \in Place /\ task \in Task \union {NoTask}
  /\ (place = "idle" <=> task = NoTask)
  /\ place # "idle" => status[task] = "doing"
  /\ place \in Prepared \union {"commit", "move"} => plan.keyed
  /\ secrets \subseteq Secret /\ DOMAIN pods = Image
  /\ registered \subseteq Task \X Output \X Nat /\ stored \subseteq Task \X Output \X Nat

\* Of the task that the process works on.
MyInputs == F!InputAssets(task)
MyPaths == F!OutputResources(task)
MyModels == F!Models(task)
MyPerfs == F!Perfs(task)
Mine(o) == <<task, o, attempt[task]>>

PodMade(t) == \E u \in Task : F!PodOf(u) = F!PodOf(t) /\ pods[F!PodOf(t)] = F!Mounts(u)
MyPodIsMade == \E u \in Task : plan.image[u] = plan.image[task] /\ pods[plan.image[task]] = F!Mounts(u)
ArgsInv ==
  /\ \A t \in Task : pods[F!PodOf(t)] = NoPod \/ PodMade(t)
  /\ place \in Fed => MyInputs \subseteq files
  /\ place \in {"args", "exec"} => MyPodIsMade
  /\ place = "exec" => args = [task |-> task, paths |-> MyInputs \union MyPaths]

OutputsNamed ==
  /\ \A r \in registered : r[2] \in F!Outputs(r[1]) /\ r[3] <= attempt[r[1]]
  /\ \A m \in stored : m[2] \in F!Models(m[1]) /\ m[3] <= attempt[m[1]]
AttemptIsFresh ==
  /\ place \in {"link"} \union Fed => \A r \in registered \union stored : r[1] = task => r[3] # attempt[task]
  /\ place = "perf" => \A m \in stored : m[1] = task => m[3] # attempt[task]
  /\ place \in {"perf", "store", "models"} =>
       \A r \in registered : r[1] = task /\ r[3] = attempt[task] => r[2] \in MyPerfs
SavedSoFar ==
  /\ place \in {"store", "models"} \union Saved => \A o \in MyPerfs : Mine(o) \in registered
  /\ place = "models" => \A o \in MyModels : Mine(o) \in stored
  /\ place \in Saved => \A o \in MyModels : Mine(o) \in registered
DoneHasAll ==
  \A t \in Task : status[t] = "done" =>
    \A o \in F!Outputs(t) : \E r \in registered : r[1] = t /\ r[2] = o
RegisteredAreStored ==
  "lost" \notin gaps => \A r \in registered : r[2] \in F!Models(r[1]) => r \in stored
StoredAreRegistered ==
  "orphan" \notin gaps =>
    \A m \in stored : \/ m \in registered
                      \/ place \in {"store", "models"} /\ m[1] = task /\ m[3] = attempt[task]
OutputsInv ==
  /\ OutputsNamed /\ AttemptIsFresh /\ SavedSoFar
  /\ DoneHasAll /\ RegisteredAreStored /\ StoredAreRegistered

SecretsWait == IF secrets = Secret THEN planKeys = {} /\ ran = <<>> ELSE secrets = {}
\* Where the chainkeys are, while none of these gaps was left.
Secrecy ==
  "secrets" \notin gaps =>
    /\ place \in {"idle", "link", "prepare"} => SecretsWait
    /\ place \in {"dump", "clear secrets"} => ran = <<>>
    /\ place \in Keyed => secrets = {} /\ secrets # Secret
Chain ==
  gaps \intersect {"advanced", "commit", "torn", "removed"} = {} =>
    /\ place \in {"idle", "link", "prepare"} => planKeys = {ran} \/ (planKeys = {} /\ ran = <<>>)
    /\ place = "dump" => ran = <<>>
    /\ place \in {"clear secrets", "restore", "pod", "args", "exec", "perf", "store", "models", "post", "commit"} =>
         planKeys = {ran}
    /\ place \in {"pod", "args", "exec"} => taskKeys = {ran}
    /\ place \in {"perf", "store", "models", "post", "commit", "move"} => taskKeys = {Append(ran, task)}
    /\ place = "done" => planKeys = {Append(ran, task)}
KeysThere ==
  gaps \intersect {"secrets", "commit", "removed"} = {} =>
    /\ place \in {"idle", "link", "prepare"} => planKeys # {} \/ secrets = Secret
    /\ place \in {"dump", "clear secrets", "done"} \union (Keyed \ {"move"}) => planKeys # {}
    /\ place \in {"pod", "args", "exec", "perf", "store", "models", "post", "commit", "move"} => taskKeys # {}
KeysInv == plan.keyed => Secrecy /\ Chain /\ KeysThere

Excuse == {"user", "registered", "lost", "commit", "secrets", "removed"}
\* A fault already met that an attempt may still fail for: the links a killed
\* attempt left.
Debt == IF place \in {"idle", "link"} /\ \E path \in files : path[1] = "in_models" THEN 1 ELSE 0
SurvivalInv ==
  gaps \intersect Excuse = {} =>
    /\ \A r \in registered : status[r[1]] = "done" \/ (r[1] = task /\ r[3] = attempt[task])
    /\ \A t \in Task : ~F!SharesPod(t) =>
         /\ failures[t] + Debt <= filesFaults
         /\ status[t] = "failed" => failures[t] > MaxRetries
         /\ place \in {"perf", "store"} /\ task = t => F!OutputResources(t) \subseteq files

FilesInv == FilesTyped /\ ArgsInv /\ OutputsInv /\ KeysInv /\ SurvivalInv

-----------------------------------------------------------------------------
\* The moves of TaskFiles: an attempt ends before it is done, or goes on.
Refused ==
  /\ \/ place = "link" /\ \E path \in F!InputAssets(task) : F!Unlinkable(path)
     \/ place = "prepare" /\ planKeys = {} /\ secrets # Secret
     \/ place = "perf" /\ \E o \in F!Perfs(task) :
          Mine(o) \notin registered /\ (F!PerfPath(o) \notin files \/ F!Known(o))
     \/ place = "store" /\ \E o \in F!Models(task) : F!ModelPath(o) \notin files
  /\ F!RaiseHere
  /\ UNCHANGED <<planKeys, secrets, stored, registered, filesFaults>>
ModelsRefused ==
  /\ place = "models" /\ (\E o \in F!Models(task) : F!Known(o))
  /\ F!Raise /\ gaps' = gaps \union (F!LeftBehind \ {"orphan"})
  /\ stored' = stored \ F!MyModels
  /\ UNCHANGED <<planKeys, secrets, registered, filesFaults>>
AttemptEnds == Refused \/ ModelsRefused \/ F!StepFails \/ F!Kill \/ F!RunFails \/ F!AnswerLost
Ends ==
  /\ place # "idle" /\ place' = "idle" /\ task \in Task /\ task' = NoTask
  /\ UNCHANGED <<plan, planKeys, secrets, pods, ran, attempt>>
  /\ gaps \subseteq gaps'
  /\ place \in {"dump", "clear secrets"} => "secrets" \in gaps'
  /\ place = "move" => "commit" \in gaps'
  /\ place = "done" /\ plan.keyed => "advanced" \in gaps'
  /\ place = "dump" => "torn" \in gaps'
  /\ status' \in [Task -> {"none", "todo", "doing", "done", "failed"}]
  /\ status'[task] \in {"doing", "failed"}
  /\ \A t \in Task \ {task} : status'[t] = status[t]

LEMMA TheFunction ==
  ASSUME FilesTyped
  PROVE  /\ plan \in F!SettingType
         /\ \A t \in Task : /\ F!Models(t) \subseteq Output /\ F!Perfs(t) \subseteq Output
                            /\ F!Models(t) \intersect F!Perfs(t) = {} /\ IsFiniteSet(F!Models(t))
                            /\ F!Outputs(t) = F!Models(t) \union F!Perfs(t)
<1>1. plan \in F!SettingType
  BY FilesAssumption DEF FilesTyped
<1> QED
  BY <1>1, FilesAssumption DEF FilesTyped, F!SettingType, F!Models, F!Perfs, F!Outputs

LEMMA EndedEnds ==
  ASSUME FilesTyped, AttemptEnds
  PROVE  Ends /\ failures' \in [Task -> Nat] /\ filesFaults' \in Nat
<1>p. place # "idle" /\ task \in Task /\ status[task] = "doing"
  BY DEF FilesTyped, AttemptEnds, Refused, ModelsRefused, F!StepFails, F!Kill, F!RunFails, F!AnswerLost
<1>b. /\ status \in [Task -> {"none", "todo", "doing", "done", "failed"}]
      /\ failures \in [Task -> Nat] /\ filesFaults \in Nat
  BY DEF FilesTyped
<1>r. ASSUME F!Raise
      PROVE  /\ place' = "idle" /\ task' = NoTask /\ UNCHANGED <<plan, attempt, pods, ran>>
             /\ status' \in [Task -> {"none", "todo", "doing", "done", "failed"}]
             /\ status'[task] \in {"doing", "failed"}
             /\ \A t \in Task \ {task} : status'[t] = status[t]
             /\ failures' \in [Task -> Nat]
  <2>1. failures[task] + 1 \in Nat
    BY <1>p, <1>b
  <2> QED
    BY <1>p, <1>b, <1>r, <2>1 DEF F!Raise
<1>l. /\ place \in {"dump", "clear secrets"} => "secrets" \in F!LeftBehind
      /\ place = "move" => "commit" \in F!LeftBehind
      /\ place = "done" /\ plan.keyed => "advanced" \in F!LeftBehind
      /\ place = "dump" => "torn" \in F!LeftBehind
  BY DEF F!LeftBehind, F!HalfDone
<1>1. CASE Refused
  BY <1>p, <1>b, <1>r, <1>l, <1>1 DEF Refused, F!RaiseHere, Ends
<1>2. CASE ModelsRefused
  BY <1>p, <1>b, <1>r, <1>2 DEF ModelsRefused, Ends
<1>3. CASE F!StepFails
  <2>1. /\ F!Raise /\ UNCHANGED <<planKeys, secrets>> /\ filesFaults' = filesFaults + 1
        /\ gaps' = gaps \union (IF place = "models" THEN F!LeftBehind \ {"orphan"} ELSE F!LeftBehind)
    BY <1>3 DEF F!StepFails, F!Fault, F!keyVars
  <2>2. gaps \subseteq gaps' /\ (place # "models" => F!LeftBehind \subseteq gaps')
    BY <2>1
  <2>3. filesFaults' \in Nat
    BY <1>b, <2>1
  <2>4. Ends
    BY <1>p, <1>r, <1>l, <2>1, <2>2 DEF Ends
  <2> QED
    BY <1>r, <2>1, <2>3, <2>4
<1>4. CASE F!Kill
  <2>1. /\ place' = "idle" /\ task' = NoTask /\ filesFaults' = filesFaults + 1
        /\ gaps' = gaps \union F!LeftBehind
        /\ UNCHANGED <<plan, planKeys, secrets, pods, ran, attempt, status, failures>>
    BY <1>4 DEF F!Kill, F!Fault, F!keyVars, F!taskVars
  <2>2. gaps \subseteq gaps' /\ F!LeftBehind \subseteq gaps'
    BY <2>1
  <2>3. filesFaults' \in Nat
    BY <1>b, <2>1
  <2>4. Ends
    BY <1>p, <1>b, <1>l, <2>1, <2>2 DEF Ends
  <2> QED
    BY <1>b, <2>1, <2>3, <2>4
<1>5. CASE F!RunFails
  BY <1>p, <1>b, <1>5 DEF F!RunFails, F!Fault, F!keyVars, Ends
<1>6. CASE F!AnswerLost
  BY <1>p, <1>b, <1>r, <1>6 DEF F!AnswerLost, F!Fault, F!keyVars, Ends
<1> QED
  BY <1>1, <1>2, <1>3, <1>4, <1>5, <1>6 DEF AttemptEnds

\* A step that leaves the attempt where it goes on.
Goes == place # "idle" /\ place' # "idle" /\ UNCHANGED <<plan, task, status, attempt, failures, gaps, ran, filesFaults>>

LEMMA FilesMoves ==
  ASSUME FilesTyped, F!Next
  PROVE  \/ AttemptEnds
         \/ \E t \in Task : F!Register(t) \/ F!Start(t)
         \/ /\ Goes
            /\ \/ F!LinkAssets \/ F!PrepareKeys \/ F!WriteKeys \/ F!RestoreKeys
               \/ \E s \in Secret : F!ClearSecret(s)
               \/ F!FindOrCreatePod \/ F!WriteArgs \/ F!RunSucceeds
               \/ F!SavePerformance \/ F!StoreModel \/ F!RegisterModels \/ F!PostModels
               \/ F!CommitRemove \/ F!CommitMove
         \/ F!MarkAsDone
         \/ F!Teardown
<1> USE DEF F!Goto, F!keyVars, F!outVars
<1>1. CASE F!LinkAssets
  BY <1>1 DEF F!LinkAssets, AttemptEnds, Refused, Goes
<1>2. CASE F!PrepareKeys
  <2>1. CASE planKeys # {}
    BY <1>2, <2>1 DEF F!PrepareKeys, Goes
  <2>2. CASE planKeys = {} /\ secrets = Secret
    BY <1>2, <2>2 DEF F!PrepareKeys, Goes
  <2>3. CASE planKeys = {} /\ secrets # Secret
    BY <1>2, <2>3 DEF F!PrepareKeys, AttemptEnds, Refused
  <2> QED
    BY <2>1, <2>2, <2>3
<1>3. CASE F!WriteKeys \/ F!RestoreKeys \/ (\E s \in Secret : F!ClearSecret(s)) \/ F!FindOrCreatePod
           \/ F!WriteArgs \/ F!RunSucceeds \/ F!PostModels \/ F!CommitRemove \/ F!CommitMove
  <2>1. Goes
    BY <1>3 DEF F!WriteKeys, F!RestoreKeys, F!ClearSecret, F!FindOrCreatePod, F!WriteArgs, F!RunSucceeds,
         F!PostModels, F!CommitRemove, F!CommitMove, F!AfterOutputs, Goes
  <2> QED
    BY <1>3, <2>1
<1>4. CASE F!SavePerformance
  <2>1. CASE \A o \in F!Perfs(task) : <<task, o, attempt[task]>> \in registered
    BY <1>4, <2>1 DEF F!SavePerformance, F!AfterPerfs, F!AfterOutputs, Goes
  <2>2. CASE ~\A o \in F!Perfs(task) : <<task, o, attempt[task]>> \in registered
    <3>1. F!NextPerf \in F!Perfs(task) /\ Mine(F!NextPerf) \notin registered
      BY <2>2 DEF F!NextPerf, Mine
    <3> QED
      BY <1>4, <2>2, <3>1 DEF F!SavePerformance, AttemptEnds, Refused, Goes
  <2> QED
    BY <2>1, <2>2
<1>5. CASE F!StoreModel
  BY <1>5 DEF F!StoreModel, AttemptEnds, Refused, Goes
<1>6. CASE F!RegisterModels
  BY <1>6 DEF F!RegisterModels, AttemptEnds, ModelsRefused, Goes
<1> QED
  BY <1>1, <1>2, <1>3, <1>4, <1>5, <1>6 DEF F!Next, AttemptEnds

LEMMA FilesTypedStep == ASSUME FilesTyped, [F!Next]_(F!vars) PROVE FilesTyped'
<1> USE DEF F!Goto, F!keyVars, F!outVars, F!dirVars, F!taskVars, F!histVars
<1>b. /\ plan \in Plans /\ status \in [Task -> {"none", "todo", "doing", "done", "failed"}]
      /\ failures \in [Task -> Nat] /\ attempt \in [Task -> Nat] /\ filesFaults \in Nat
      /\ place \in Place /\ task \in Task \union {NoTask} /\ (place = "idle" <=> task = NoTask)
      /\ place # "idle" => status[task] = "doing" /\ task \in Task
      /\ place \in Prepared \union {"commit", "move"} => plan.keyed
      /\ secrets \subseteq Secret /\ DOMAIN pods = Image
      /\ registered \subseteq Task \X Output \X Nat /\ stored \subseteq Task \X Output \X Nat
  BY DEF FilesTyped
<1>m. place # "idle" => \A o \in F!Models(task) \union F!Perfs(task) :
                       <<task, o, attempt[task]>> \in Task \X Output \X Nat
  BY <1>b, TheFunction
<1>1. ASSUME AttemptEnds PROVE FilesTyped'
  <2>1. Ends /\ failures' \in [Task -> Nat] /\ filesFaults' \in Nat
    BY <1>1, EndedEnds
  <2>2. stored' \subseteq stored
    BY <1>1 DEF AttemptEnds, Refused, ModelsRefused, F!StepFails, F!Kill, F!RunFails, F!AnswerLost
  <2>3. registered' \subseteq Task \X Output \X Nat
    <3>1. CASE F!AnswerLost
      <4>1. place # "idle" /\ registered' = registered \union {<<task, o, attempt[task]>> : o \in F!Models(task)}
        BY <3>1 DEF F!AnswerLost, F!RegisterOutputs
      <4> QED
        BY <1>b, <1>m, <4>1
    <3>2. CASE ~F!AnswerLost
      BY <1>1, <1>b, <3>2 DEF AttemptEnds, Refused, ModelsRefused, F!StepFails, F!Kill, F!RunFails
    <3> QED
      BY <3>1, <3>2
  <2> QED
    BY <1>b, <2>1, <2>2, <2>3 DEF FilesTyped, Ends, Place, Prepared, Fed, Saved
<1>2. ASSUME NEW t \in Task, F!Register(t) PROVE FilesTyped'
  BY <1>b, <1>2 DEF F!Register, FilesTyped
<1>3. ASSUME NEW t \in Task, F!Start(t) PROVE FilesTyped'
  <2>1. attempt' \in [Task -> Nat]
    <3>1. attempt[t] + 1 \in Nat
      BY <1>b
    <3> QED
      BY <1>b, <1>3, <3>1 DEF F!Start
  <2> QED
    BY <1>b, <1>3, <2>1, FilesAssumption DEF F!Start, FilesTyped, Place, Prepared
<1>g. ASSUME Goes, place' \in Place, place' \in Prepared \union {"commit", "move"} => plan.keyed,
             secrets' \subseteq secrets, DOMAIN pods' = Image,
             registered' \subseteq Task \X Output \X Nat, stored' \subseteq Task \X Output \X Nat
      PROVE  FilesTyped'
  BY <1>b, <1>g DEF Goes, FilesTyped
<1>4. ASSUME Goes, F!LinkAssets \/ F!PrepareKeys \/ F!WriteKeys \/ F!RestoreKeys
                   \/ F!FindOrCreatePod \/ F!WriteArgs \/ F!RunSucceeds \/ F!CommitRemove \/ F!CommitMove
      PROVE  FilesTyped'
  <2>1. /\ place' \in Place /\ (place' \in Prepared \union {"commit", "move"} => plan.keyed)
        /\ UNCHANGED <<secrets, registered, stored>> /\ DOMAIN pods' = Image
    <3>1. CASE F!LinkAssets
      BY <1>b, <1>4, <3>1 DEF F!LinkAssets, F!RaiseHere, F!Raise, Goes, Place, Prepared, Fed
    <3>2. CASE F!PrepareKeys
      BY <1>b, <1>4, <3>2 DEF F!PrepareKeys, F!RaiseHere, F!Raise, Goes, Place, Prepared, Fed
    <3>3. CASE ~F!LinkAssets /\ ~F!PrepareKeys
      BY <1>b, <1>4, <3>3 DEF F!WriteKeys, F!RestoreKeys, F!FindOrCreatePod, F!WriteArgs, F!RunSucceeds,
           F!CommitRemove, F!CommitMove, Place, Prepared, Fed, Saved
    <3> QED
      BY <3>1, <3>2, <3>3
  <2> QED
    BY <1>4, <1>b, <1>g, <2>1
<1>5. ASSUME Goes, NEW s \in Secret, F!ClearSecret(s) PROVE FilesTyped'
  <2>1. /\ place' \in {"restore", "clear secrets"} /\ place = "clear secrets" /\ secrets' \subseteq secrets
        /\ UNCHANGED <<pods, registered, stored>>
    BY <1>5 DEF F!ClearSecret
  <2> QED
    BY <1>5, <1>b, <1>g, <2>1 DEF Place, Prepared, Fed
<1>6. ASSUME Goes, F!SavePerformance PROVE FilesTyped'
  <2>1. /\ place' \in {"perf", "store", "done", "commit"} /\ (place' = "commit" => plan.keyed)
        /\ UNCHANGED <<secrets, pods, stored>>
    BY <1>6 DEF F!SavePerformance, F!AfterPerfs, F!AfterOutputs, F!RaiseHere, F!Raise, Goes
  <2>2. registered' \subseteq Task \X Output \X Nat
    <3>1. CASE \A o \in F!Perfs(task) : <<task, o, attempt[task]>> \in registered
      BY <1>6, <1>b, <3>1 DEF F!SavePerformance
    <3>2. CASE ~\A o \in F!Perfs(task) : <<task, o, attempt[task]>> \in registered
      <4>1. F!NextPerf \in F!Perfs(task)
        BY <3>2 DEF F!NextPerf
      <4>2. place # "idle" /\ registered' = registered \union {<<task, F!NextPerf, attempt[task]>>}
        BY <1>6, <3>2 DEF F!SavePerformance, F!RegisterOutputs, F!RaiseHere, F!Raise, Goes
      <4> QED
        BY <1>b, <1>m, <4>1, <4>2
    <3> QED
      BY <3>1, <3>2
  <2> QED
    BY <1>6, <1>b, <1>g, <2>1, <2>2 DEF Place, Prepared, Fed, Saved
<1>7. ASSUME Goes, F!StoreModel PROVE FilesTyped'
  <2>1. /\ place' \in {"store", "models"} /\ UNCHANGED <<secrets, pods, registered>>
        /\ \E o \in F!Models(task) : stored' = stored \union {<<task, o, attempt[task]>>}
    BY <1>7 DEF F!StoreModel, F!RaiseHere, F!Raise, Goes
  <2>2. stored' \subseteq Task \X Output \X Nat
    BY <1>7, <1>b, <1>m, <2>1 DEF Goes
  <2> QED
    BY <1>7, <1>b, <1>g, <2>1, <2>2 DEF Place, Prepared, Fed, Saved
<1>8. ASSUME Goes, F!RegisterModels PROVE FilesTyped'
  <2>1. /\ place' = "post" /\ UNCHANGED <<secrets, pods, stored>>
        /\ registered' = registered \union {<<task, o, attempt[task]>> : o \in F!Models(task)}
    BY <1>8 DEF F!RegisterModels, F!RegisterOutputs, F!Raise, Goes
  <2>2. registered' \subseteq Task \X Output \X Nat
    BY <1>8, <1>b, <1>m, <2>1 DEF Goes
  <2> QED
    BY <1>8, <1>b, <1>g, <2>1, <2>2 DEF Place, Prepared, Fed, Saved
<1>9. ASSUME Goes, F!PostModels PROVE FilesTyped'
  <2>1. /\ place' \in {"commit", "done"} /\ UNCHANGED <<secrets, pods, stored, registered>>
        /\ place' = "commit" => plan.keyed
    BY <1>9 DEF F!PostModels, F!AfterOutputs
  <2> QED
    BY <1>9, <1>b, <1>g, <2>1 DEF Place, Prepared, Fed, Saved
<1>10. ASSUME F!MarkAsDone PROVE FilesTyped'
  BY <1>b, <1>10, FilesAssumption DEF F!MarkAsDone, FilesTyped, Place, Prepared
<1>11. ASSUME F!Teardown PROVE FilesTyped'
  BY <1>b, <1>11 DEF F!Teardown, FilesTyped
<1>12. ASSUME UNCHANGED F!vars PROVE FilesTyped'
  BY <1>b, <1>12 DEF F!vars, FilesTyped
<1> QED
  BY <1>1, <1>2, <1>3, <1>4, <1>5, <1>6, <1>7, <1>8, <1>9, <1>10, <1>11, <1>12, FilesMoves

\* What is made of the plan alone does not change.
LEMMA PlanKept ==
  ASSUME UNCHANGED plan
  PROVE  /\ \A t \in Task : /\ F!PodOf(t)' = F!PodOf(t) /\ F!Mounts(t)' = F!Mounts(t)
                            /\ F!Models(t)' = F!Models(t) /\ F!Perfs(t)' = F!Perfs(t)
                            /\ F!Outputs(t)' = F!Outputs(t)
                            /\ F!OutputResources(t)' = F!OutputResources(t)
                            /\ (F!SharesPod(t)' <=> F!SharesPod(t))
         /\ task' = task => MyPaths' = MyPaths /\ MyModels' = MyModels /\ MyPerfs' = MyPerfs
         /\ UNCHANGED <<task, registered>> => MyInputs' = MyInputs
<1>1. \A t \in Task : /\ F!PodOf(t)' = F!PodOf(t) /\ F!Models(t)' = F!Models(t) /\ F!Perfs(t)' = F!Perfs(t)
                      /\ F!Outputs(t)' = F!Outputs(t) /\ F!OutputResources(t)' = F!OutputResources(t)
  BY DEF F!PodOf, F!Models, F!Perfs, F!Outputs, F!OutputResources
<1>2. \A t \in Task : F!Mounts(t)' = F!Mounts(t)
  BY <1>1 DEF F!Mounts
<1>3. \A t \in Task : F!SharesPod(t)' <=> F!SharesPod(t)
  BY <1>1 DEF F!SharesPod
<1>4. task' = task => MyPaths' = MyPaths /\ MyModels' = MyModels /\ MyPerfs' = MyPerfs
  BY DEF MyPaths, MyModels, MyPerfs, F!OutputResources, F!Models, F!Perfs
<1>5. UNCHANGED <<task, registered>> => MyInputs' = MyInputs
  BY DEF MyInputs, F!InputAssets, F!Models
<1> QED
  BY <1>1, <1>2, <1>3, <1>4, <1>5

LEMMA ArgsStep ==
  ASSUME FilesTyped, FilesTyped', ArgsInv, [F!Next]_(F!vars) PROVE ArgsInv'
<1> USE DEF F!Goto, F!keyVars, F!outVars, F!dirVars, F!taskVars, F!histVars
<1>b. /\ \A t \in Task : pods[F!PodOf(t)] = NoPod \/ PodMade(t)
      /\ place \in Fed => MyInputs \subseteq files
      /\ place \in {"args", "exec"} => MyPodIsMade
      /\ place = "exec" => args = [task |-> task, paths |-> MyInputs \union MyPaths]
  BY DEF ArgsInv
\* The pods stay as they are.
<1>p. ASSUME UNCHANGED <<plan, pods>> PROVE \A t \in Task : pods'[F!PodOf(t)'] = NoPod \/ PodMade(t)'
  <2>1. \A t \in Task : F!PodOf(t)' = F!PodOf(t) /\ F!Mounts(t)' = F!Mounts(t)
    BY <1>p, PlanKept
  <2> QED
    BY <1>b, <1>p, <2>1 DEF PodMade
<1>q. ASSUME UNCHANGED <<plan, pods, task>>, MyPodIsMade PROVE MyPodIsMade'
  <2>1. \A t \in Task : F!Mounts(t)' = F!Mounts(t)
    BY <1>q, PlanKept
  <2> QED
    BY <1>q, <2>1 DEF MyPodIsMade
\* Nothing is claimed of where the process goes.
<1>n. ASSUME UNCHANGED <<plan, pods>>, place' \notin Fed PROVE ArgsInv'
  BY <1>n, <1>p DEF ArgsInv, Fed
<1>1. ASSUME AttemptEnds PROVE ArgsInv'
  BY <1>1, <1>n, EndedEnds DEF Ends, Fed, Prepared
<1>2. ASSUME NEW t \in Task, F!Register(t) PROVE ArgsInv'
  <2>1. UNCHANGED <<plan, pods, place, task, files, args, registered>>
    BY <1>2 DEF F!Register
  <2> QED
    BY <2>1, <1>b, <1>p, <1>q, PlanKept DEF ArgsInv
<1>3. ASSUME NEW t \in Task, F!Start(t) PROVE ArgsInv'
  <2>1. place' = "link" /\ UNCHANGED <<plan, pods>>
    BY <1>3 DEF F!Start
  <2> QED
    BY <2>1, <1>n DEF Fed, Prepared
\* The inputs stay linked.
<1>f. ASSUME UNCHANGED <<plan, task, registered>>, place \in Fed, files' = files, UNCHANGED pods,
             place' = "args" => MyPodIsMade, place' = "exec" => MyPodIsMade,
             place' = "exec" => args' = [task |-> task, paths |-> MyInputs \union MyPaths]
      PROVE  ArgsInv'
  <2>1. MyInputs' = MyInputs /\ MyPaths' = MyPaths
    BY <1>f, PlanKept
  <2> QED
    BY <1>b, <1>f, <1>p, <1>q, <2>1 DEF ArgsInv
<1>4. ASSUME Goes, F!LinkAssets PROVE ArgsInv'
  <2>1. /\ files' = files \union MyInputs /\ place' \in {"prepare", "pod"}
        /\ UNCHANGED <<plan, pods, registered, task>>
    BY <1>4 DEF F!LinkAssets, F!RaiseHere, F!Raise, Goes, MyInputs
  <2>2. MyInputs' = MyInputs
    BY <2>1, PlanKept
  <2> QED
    BY <1>p, <2>1, <2>2 DEF ArgsInv
<1>5. ASSUME Goes, F!PrepareKeys \/ F!WriteKeys \/ F!RestoreKeys \/ \E s \in Secret : F!ClearSecret(s)
      PROVE  ArgsInv'
  <2>1. /\ place \in Fed /\ place' \in Prepared \union {"pod"}
        /\ UNCHANGED <<plan, pods, registered, task, files>>
    <3>1. CASE F!PrepareKeys
      BY <1>5, <3>1 DEF F!PrepareKeys, F!RaiseHere, F!Raise, Goes, Fed, Prepared
    <3>2. CASE ~F!PrepareKeys
      BY <1>5, <3>2 DEF F!WriteKeys, F!RestoreKeys, F!ClearSecret, Goes, Fed, Prepared
    <3> QED
      BY <3>1, <3>2
  <2> QED
    BY <1>f, <2>1 DEF Prepared
<1>6. ASSUME Goes, F!FindOrCreatePod PROVE ArgsInv'
  <2>1. /\ place = "pod" /\ place' = "args" /\ UNCHANGED <<plan, registered, task, files>>
        /\ task \in Task
        /\ pods' = [pods EXCEPT ![F!PodOf(task)] = IF pods[F!PodOf(task)] = NoPod THEN F!Mounts(task)
                                                     ELSE pods[F!PodOf(task)]]
    BY <1>6 DEF F!FindOrCreatePod, FilesTyped
  <2>2. /\ \A t \in Task : /\ F!PodOf(t) = plan.image[t] /\ F!PodOf(t)' = F!PodOf(t)
                           /\ F!PodOf(t) \in DOMAIN pods /\ F!Mounts(t)' = F!Mounts(t)
        /\ MyInputs' = MyInputs
    BY <2>1, PlanKept, TheFunction DEF F!PodOf, FilesTyped, F!SettingType
  <2>3. ASSUME NEW t \in Task PROVE pods'[F!PodOf(t)'] = NoPod \/ PodMade(t)'
    <3>1. CASE F!PodOf(t) = F!PodOf(task) /\ pods[F!PodOf(task)] = NoPod
      <4>1. pods'[F!PodOf(t)] = F!Mounts(task)
        BY <2>1, <2>2, <3>1
      <4> QED
        BY <2>1, <2>2, <3>1, <4>1 DEF PodMade
    <3>2. CASE ~(F!PodOf(t) = F!PodOf(task) /\ pods[F!PodOf(task)] = NoPod)
      <4>1. pods'[F!PodOf(t)] = pods[F!PodOf(t)]
        BY <2>1, <2>2, <3>2
      <4> QED
        BY <1>b, <2>2, <4>1 DEF PodMade
    <3> QED
      BY <3>1, <3>2
  <2>4. MyPodIsMade'
    <3>1. CASE pods[F!PodOf(task)] = NoPod
      <4>1. pods'[plan.image[task]] = F!Mounts(task)
        BY <2>1, <2>2, <3>1
      <4> QED
        BY <2>1, <2>2, <4>1 DEF MyPodIsMade
    <3>2. CASE pods[F!PodOf(task)] # NoPod
      <4>1. pods'[plan.image[task]] = pods[plan.image[task]]
        BY <2>1, <2>2, <3>2
      <4>2. PICK u \in Task : F!PodOf(u) = F!PodOf(task) /\ pods[F!PodOf(task)] = F!Mounts(u)
        BY <1>b, <2>1, <3>2 DEF PodMade
      <4> QED
        BY <2>1, <2>2, <4>1, <4>2 DEF MyPodIsMade
    <3> QED
      BY <3>1, <3>2
  <2> QED
    BY <1>b, <2>1, <2>2, <2>3, <2>4 DEF ArgsInv, Fed
<1>7. ASSUME Goes, F!WriteArgs PROVE ArgsInv'
  <2>1. /\ place = "args" /\ place' = "exec" /\ UNCHANGED <<plan, registered, task, files, pods>>
        /\ args' = [task |-> task, paths |-> MyInputs \union MyPaths]
    BY <1>7 DEF F!WriteArgs, MyInputs, MyPaths
  <2> QED
    BY <1>b, <1>f, <2>1 DEF Fed
<1>8. ASSUME Goes, F!RunSucceeds \/ F!SavePerformance \/ F!StoreModel \/ F!RegisterModels \/ F!PostModels
                   \/ F!CommitRemove \/ F!CommitMove
      PROVE  ArgsInv'
  <2>1. place' \notin Fed /\ UNCHANGED <<plan, pods>>
    <3>1. CASE F!SavePerformance \/ F!StoreModel \/ F!RegisterModels
      BY <1>8, <3>1 DEF F!SavePerformance, F!StoreModel, F!RegisterModels, F!AfterPerfs, F!AfterOutputs,
           F!RaiseHere, F!Raise, Goes, Fed, Prepared
    <3>2. CASE ~(F!SavePerformance \/ F!StoreModel \/ F!RegisterModels)
      BY <1>8, <3>2 DEF F!RunSucceeds, F!PostModels, F!AfterOutputs, F!CommitRemove, F!CommitMove, Goes,
           Fed, Prepared
    <3> QED
      BY <3>1, <3>2
  <2> QED
    BY <1>n, <2>1
<1>9. ASSUME F!MarkAsDone PROVE ArgsInv'
  BY <1>9, <1>n DEF F!MarkAsDone, Fed, Prepared
<1>10. ASSUME F!Teardown PROVE ArgsInv'
  <2>1. /\ place' = "idle" /\ UNCHANGED plan /\ pods' = [i \in Image |-> NoPod]
    BY <1>10 DEF F!Teardown
  <2>2. \A t \in Task : F!PodOf(t) \in Image /\ F!PodOf(t)' = F!PodOf(t)
    BY <2>1, PlanKept, TheFunction DEF F!PodOf, F!SettingType
  <2> QED
    BY <2>1, <2>2 DEF ArgsInv, Fed, Prepared
<1>11. ASSUME UNCHANGED F!vars PROVE ArgsInv'
  <2>1. UNCHANGED <<plan, pods, place, task, files, args, registered>>
    BY <1>11 DEF F!vars
  <2> QED
    BY <2>1, <1>b, <1>p, <1>q, PlanKept DEF ArgsInv
<1> QED
  BY <1>1, <1>2, <1>3, <1>4, <1>5, <1>6, <1>7, <1>8, <1>9, <1>10, <1>11, FilesMoves

\* Once as many models are stored as the task has, they are all stored.
LEMMA AllAreStored ==
  ASSUME FilesTyped, OutputsNamed, task \in Task, NEW o \in F!Models(task),
         Mine(o) \notin stored,
         F!Cardinality(F!MyModels) + 1 = F!Cardinality(F!Models(task))
  PROVE  \A p \in F!Models(task) : Mine(p) \in stored \union {Mine(o)}
<1> DEFINE S == F!Models(task)
           T == {Mine(p) : p \in S}
           M == F!MyModels \union {Mine(o)}
<1>1. IsFiniteSet(S) /\ S \subseteq Output
  BY TheFunction
<1>2. \A U : F!Cardinality(U) = Cardinality(U)
  BY DEF F!Cardinality, Cardinality
<1>3. IsFiniteSet(T) /\ Cardinality(T) = Cardinality(S)
  <2> DEFINE f == [p \in S |-> Mine(p)]
  <2>1. f \in Bijection(S, T)
    <3>1. f \in [S -> T]
      OBVIOUS
    <3>2. \A p, q \in S : f[p] = f[q] => p = q
      BY DEF Mine
    <3>3. \A m \in T : \E p \in S : f[p] = m
      OBVIOUS
    <3> QED
      BY <3>1, <3>2, <3>3 DEF Bijection, Injection, IsInjective, Surjection
  <2>2. ExistsBijection(S, T)
    BY <2>1 DEF ExistsBijection
  <2> QED
    BY <1>1, <2>2, FS_Bijection
<1>4. M \subseteq T
  <2>1. \A m \in stored : m[1] = task /\ m[3] = attempt[task] => \E p \in S : m = Mine(p)
    <3> TAKE m \in stored
    <3> HAVE m[1] = task /\ m[3] = attempt[task]
    <3>1. m \in Task \X Output \X Nat /\ m[2] \in S
      BY DEF FilesTyped, OutputsNamed
    <3>2. m = <<m[1], m[2], m[3]>>
      BY <3>1
    <3> QED
      BY <3>1, <3>2 DEF Mine
  <2> QED
    BY <2>1 DEF F!MyModels
<1>5. IsFiniteSet(F!MyModels) /\ Mine(o) \notin F!MyModels
  <2>1. F!MyModels \subseteq T
    BY <1>4
  <2> QED
    BY <1>3, <2>1, FS_Subset DEF F!MyModels
<1>6. Cardinality(M) = Cardinality(F!MyModels) + 1
  BY <1>5, FS_AddElement
<1>7. Cardinality(M) = Cardinality(T)
  BY <1>2, <1>3, <1>6
<1>8. M = T
  BY <1>3, <1>4, <1>7, FS_Subset
<1> QED
  BY <1>8 DEF F!MyModels

LEMMA OutputsStep ==
  ASSUME FilesTyped, FilesTyped', OutputsInv, [F!Next]_(F!vars) PROVE OutputsInv'
<1> USE DEF F!Goto, F!keyVars, F!outVars, F!dirVars, F!taskVars, F!histVars
<1>b. /\ OutputsNamed /\ AttemptIsFresh /\ SavedSoFar
      /\ DoneHasAll /\ RegisteredAreStored /\ StoredAreRegistered
  BY DEF OutputsInv
<1>t. /\ attempt \in [Task -> Nat] /\ status \in [Task -> {"none", "todo", "doing", "done", "failed"}]
      /\ registered \subseteq Task \X Output \X Nat /\ stored \subseteq Task \X Output \X Nat
      /\ \A r \in registered \union stored : r[1] \in Task /\ r[2] \in Output /\ r[3] \in Nat
  BY DEF FilesTyped
<1>x. place # "idle" => task \in Task /\ status[task] = "doing"
  BY DEF FilesTyped
<1>c. UNCHANGED plan
  BY FilesMoves, EndedEnds DEF Ends, F!Register, F!Start, Goes, F!MarkAsDone, F!Teardown, F!vars
<1>k. /\ \A t \in Task : /\ F!Models(t)' = F!Models(t) /\ F!Perfs(t)' = F!Perfs(t)
                         /\ F!Outputs(t)' = F!Outputs(t)
      /\ task' = task => MyModels' = MyModels /\ MyPerfs' = MyPerfs
  BY <1>c, PlanKept
\* Attempts, statuses and outputs stay; the process goes on to a place of which
\* no more is claimed.
<1>f. ASSUME UNCHANGED <<task, status, attempt, registered, stored>>, gaps \subseteq gaps',
             \/ place \in {"link"} \union Fed /\ place' \in Fed \union {"perf"}
             \/ place \in Saved /\ place' \in Saved
             \/ place = place'
      PROVE  OutputsInv'
  <2>1. OutputsNamed' /\ DoneHasAll' /\ RegisteredAreStored'
    BY <1>b, <1>t, <1>k, <1>f DEF OutputsNamed, DoneHasAll, RegisteredAreStored
  <2>2. AttemptIsFresh'
    BY <1>b, <1>k, <1>f DEF AttemptIsFresh, Fed, Prepared, Saved
  <2>3. SavedSoFar'
    BY <1>b, <1>k, <1>f DEF SavedSoFar, Mine, Fed, Prepared, Saved
  <2>4. StoredAreRegistered'
    BY <1>b, <1>f DEF StoredAreRegistered, Fed, Prepared, Saved
  <2> QED
    BY <2>1, <2>2, <2>3, <2>4 DEF OutputsInv
\* An attempt is over and its models are registered, or an orphan is a gap.
<1>e. ASSUME place' = "idle", UNCHANGED <<attempt, registered>>, gaps \subseteq gaps', stored' \subseteq stored,
             \A t \in Task : status'[t] = "done" => status[t] = "done",
             \A m \in stored \ stored' : m \notin registered,
             \/ "orphan" \in gaps'
             \/ place \in {"store", "models"} => \A m \in stored' : ~(m[1] = task /\ m[3] = attempt[task])
      PROVE  OutputsInv'
  <2>1. OutputsNamed' /\ DoneHasAll' /\ RegisteredAreStored'
    BY <1>b, <1>t, <1>k, <1>e DEF OutputsNamed, DoneHasAll, RegisteredAreStored
  <2>2. AttemptIsFresh' /\ SavedSoFar'
    BY <1>e DEF AttemptIsFresh, SavedSoFar, Fed, Prepared, Saved
  <2>3. StoredAreRegistered'
    BY <1>b, <1>e DEF StoredAreRegistered
  <2> QED
    BY <2>1, <2>2, <2>3 DEF OutputsInv
<1>l. /\ "orphan" \in F!LeftBehind \/ (place \in {"store", "models"} => F!MyModels = {})
      /\ F!MyModels = {m \in stored : m[1] = task /\ m[3] = attempt[task]}
  BY DEF F!LeftBehind, F!MyModels
<1>n. place = "models" => \A m \in F!MyModels : m \notin registered
  <2> SUFFICES ASSUME place = "models", NEW m \in stored, m[1] = task, m[3] = attempt[task], m \in registered
               PROVE  FALSE
    BY <1>l
  <2>1. m[2] \in MyPerfs /\ m[2] \in F!Models(task)
    BY <1>b DEF AttemptIsFresh, OutputsNamed
  <2>2. F!Models(task) \intersect F!Perfs(task) = {}
    BY <1>x, TheFunction
  <2> QED
    BY <2>1, <2>2 DEF MyPerfs
<1>1. ASSUME AttemptEnds PROVE OutputsInv'
  <2>1. Ends
    BY <1>1, EndedEnds
  <2>2. /\ place' = "idle" /\ UNCHANGED attempt /\ gaps \subseteq gaps'
        /\ \A t \in Task : status'[t] = "done" => status[t] = "done"
    BY <2>1 DEF Ends
  <2>3. CASE Refused \/ F!Kill
    <3>1. gaps' = gaps \union F!LeftBehind /\ UNCHANGED <<stored, registered>>
      BY <2>3 DEF Refused, F!RaiseHere, F!Kill
    <3> QED
      BY <1>e, <1>l, <2>2, <3>1
  <2>4. CASE ModelsRefused
    <3>1. place = "models" /\ stored' = stored \ F!MyModels /\ UNCHANGED registered
      BY <2>4 DEF ModelsRefused
    <3> QED
      BY <1>e, <1>l, <1>n, <2>2, <3>1
  <2>5. CASE F!StepFails
    <3>1. CASE place = "models"
      <4>1. stored' = stored \ F!MyModels /\ UNCHANGED registered
        BY <2>5, <3>1 DEF F!StepFails
      <4> QED
        BY <1>e, <1>l, <1>n, <2>2, <3>1, <4>1
    <3>2. CASE place # "models"
      <4>1. gaps' = gaps \union F!LeftBehind /\ UNCHANGED <<stored, registered>>
        BY <2>5, <3>2 DEF F!StepFails
      <4> QED
        BY <1>e, <1>l, <2>2, <4>1
    <3> QED
      BY <3>1, <3>2
  <2>6. CASE F!RunFails
    <3>1. place = "exec" /\ UNCHANGED <<stored, registered>>
      BY <2>6 DEF F!RunFails
    <3> QED
      BY <1>e, <2>2, <3>1
  <2>7. CASE F!AnswerLost
    <3>1. /\ place = "models" /\ stored' = stored \ F!MyModels /\ "lost" \in gaps'
          /\ registered' = registered \union {Mine(o) : o \in F!Models(task)}
      BY <2>7 DEF F!AnswerLost, F!RegisterOutputs, Mine
    <3>2. task \in Task /\ F!Models(task) \subseteq F!Outputs(task)
      BY <1>x, <3>1, TheFunction
    <3>3. \A r \in registered' : r \in registered \/ (r[1] = task /\ r[2] \in F!Models(task) /\ r[3] = attempt[task])
      BY <3>1 DEF Mine
    <3>4. OutputsNamed'
      <4>1. \A r \in registered' : r[2] \in F!Outputs(r[1]) /\ r[3] <= attempt[r[1]]
        <5> TAKE r \in registered'
        <5>1. CASE r \in registered
          BY <1>b, <5>1 DEF OutputsNamed
        <5>2. CASE r \notin registered
          <6>1. r[1] = task /\ r[2] \in F!Models(task) /\ r[3] = attempt[task]
            BY <3>3, <5>2
          <6>2. attempt[task] <= attempt[task]
            BY <1>t, <3>2
          <6> QED
            BY <3>2, <6>1, <6>2
        <5> QED
          BY <5>1, <5>2
      <4>2. \A r \in registered' : r[1] \in Task
        BY <1>t, <3>2, <3>3
      <4> QED
        BY <1>b, <1>t, <1>k, <2>2, <3>1, <4>1, <4>2 DEF OutputsNamed
    <3>5. DoneHasAll'
      BY <1>b, <1>k, <2>2, <3>1 DEF DoneHasAll
    <3>6. RegisteredAreStored'
      BY <3>1 DEF RegisteredAreStored
    <3>7. AttemptIsFresh' /\ SavedSoFar'
      BY <2>2 DEF AttemptIsFresh, SavedSoFar, Fed, Prepared, Saved
    <3>8. StoredAreRegistered'
      BY <1>b, <1>l, <2>2, <3>1 DEF StoredAreRegistered
    <3> QED
      BY <3>4, <3>5, <3>6, <3>7, <3>8 DEF OutputsInv
  <2> QED
    BY <1>1, <2>3, <2>4, <2>5, <2>6, <2>7 DEF AttemptEnds
<1>2. ASSUME NEW t \in Task, F!Register(t) PROVE OutputsInv'
  <2>1. /\ UNCHANGED <<place, task, attempt, registered, stored, gaps>>
        /\ status' = [status EXCEPT ![t] = "todo"]
    BY <1>2 DEF F!Register
  <2>2. \A u \in Task : status'[u] = "done" => status[u] = "done"
    BY <1>t, <2>1
  <2>3. OutputsNamed' /\ DoneHasAll' /\ RegisteredAreStored'
    BY <1>b, <1>t, <1>k, <2>1, <2>2 DEF OutputsNamed, DoneHasAll, RegisteredAreStored
  <2>4. AttemptIsFresh' /\ SavedSoFar' /\ StoredAreRegistered'
    BY <1>b, <1>k, <2>1 DEF AttemptIsFresh, SavedSoFar, StoredAreRegistered, Mine
  <2> QED
    BY <2>3, <2>4 DEF OutputsInv
<1>3. ASSUME NEW t \in Task, F!Start(t) PROVE OutputsInv'
  <2>1. /\ place = "idle" /\ place' = "link" /\ task' = t /\ UNCHANGED <<registered, stored, gaps>>
        /\ status' = [status EXCEPT ![t] = "doing"] /\ attempt' = [attempt EXCEPT ![t] = attempt[t] + 1]
    BY <1>3 DEF F!Start
  <2>2. /\ \A u \in Task : status'[u] = "done" => status[u] = "done"
        /\ attempt'[t] = attempt[t] + 1 /\ \A u \in Task \ {t} : attempt'[u] = attempt[u]
    BY <1>t, <2>1
  <2>3. OutputsNamed'
    <3>1. \A r \in registered \union stored : r[3] <= attempt[r[1]] => r[3] <= attempt'[r[1]]
      <4> TAKE r \in registered \union stored
      <4>1. r[1] \in Task /\ r[3] \in Nat /\ attempt[r[1]] \in Nat
        BY <1>t
      <4> QED
        BY <2>2, <4>1
    <3> QED
      BY <1>b, <1>t, <1>k, <2>1, <3>1 DEF OutputsNamed
  <2>4. AttemptIsFresh'
    <3>1. \A r \in registered \union stored : r[1] = t => r[3] # attempt'[t]
      <4> TAKE r \in registered \union stored
      <4>1. r[3] \in Nat /\ attempt[t] \in Nat /\ r[3] <= attempt[r[1]]
        BY <1>b, <1>t DEF OutputsNamed
      <4> QED
        BY <2>2, <4>1
    <3> QED
      BY <2>1, <3>1 DEF AttemptIsFresh
  <2>5. SavedSoFar' /\ DoneHasAll' /\ RegisteredAreStored' /\ StoredAreRegistered'
    BY <1>b, <1>t, <1>k, <2>1, <2>2 DEF SavedSoFar, DoneHasAll, RegisteredAreStored, StoredAreRegistered, Saved
  <2> QED
    BY <2>3, <2>4, <2>5 DEF OutputsInv
<1>4. ASSUME Goes, \/ F!LinkAssets \/ F!PrepareKeys \/ F!WriteKeys \/ F!RestoreKeys
                   \/ \E s \in Secret : F!ClearSecret(s)
                   \/ F!FindOrCreatePod \/ F!WriteArgs \/ F!RunSucceeds
      PROVE  OutputsInv'
  <2>1. UNCHANGED <<task, status, attempt, gaps>>
    BY <1>4 DEF Goes
  <2>2. UNCHANGED <<registered, stored>> /\ place \in {"link"} \union Fed /\ place' \in Fed \union {"perf"}
    <3>1. CASE F!LinkAssets
      BY <1>4, <3>1 DEF F!LinkAssets, F!RaiseHere, F!Raise, Goes, Fed, Prepared
    <3>2. CASE F!PrepareKeys
      BY <1>4, <3>2 DEF F!PrepareKeys, F!RaiseHere, F!Raise, Goes, Fed, Prepared
    <3>3. CASE ~F!LinkAssets /\ ~F!PrepareKeys
      BY <1>4, <3>3 DEF F!WriteKeys, F!RestoreKeys, F!ClearSecret, F!FindOrCreatePod, F!WriteArgs,
           F!RunSucceeds, Fed, Prepared
    <3> QED
      BY <3>1, <3>2, <3>3
  <2> QED
    BY <1>f, <2>1, <2>2
<1>5. ASSUME Goes, F!PostModels \/ F!CommitRemove \/ F!CommitMove PROVE OutputsInv'
  <2>1. UNCHANGED <<task, status, attempt, gaps>>
    BY <1>5 DEF Goes
  <2>2. UNCHANGED <<registered, stored>> /\ place \in Saved /\ place' \in Saved
    BY <1>5 DEF F!PostModels, F!AfterOutputs, F!CommitRemove, F!CommitMove, Saved
  <2> QED
    BY <1>f, <2>1, <2>2
<1>6. ASSUME Goes, F!SavePerformance PROVE OutputsInv'
  <2>0. place = "perf" /\ task \in Task /\ UNCHANGED <<task, status, attempt, gaps>>
    BY <1>6, <1>x DEF F!SavePerformance, Goes
  <2>1. CASE \A o \in F!Perfs(task) : Mine(o) \in registered
    <3>1. /\ UNCHANGED <<registered, stored>>
          /\ place' \in {"store", "commit", "done"} /\ (place' # "store" => F!Models(task) = {})
      BY <1>6, <2>1 DEF F!SavePerformance, F!AfterPerfs, F!AfterOutputs, Mine
    <3>2. SavedSoFar'
      BY <1>b, <1>k, <2>0, <2>1, <3>1 DEF SavedSoFar, Mine, MyPerfs, MyModels, Saved
    <3>3. AttemptIsFresh'
      BY <1>b, <1>k, <2>0, <3>1 DEF AttemptIsFresh, Fed, Prepared
    <3>4. OutputsNamed' /\ DoneHasAll' /\ RegisteredAreStored' /\ StoredAreRegistered'
      BY <1>b, <1>t, <1>k, <2>0, <3>1 DEF OutputsNamed, DoneHasAll, RegisteredAreStored, StoredAreRegistered
    <3> QED
      BY <3>2, <3>3, <3>4 DEF OutputsInv
  <2>2. CASE ~\A o \in F!Perfs(task) : Mine(o) \in registered
    <3>1. F!NextPerf \in F!Perfs(task)
      BY <2>2 DEF F!NextPerf, Mine
    <3>2. PICK p \in F!Perfs(task) : registered' = registered \union {<<task, p, attempt[task]>>}
      BY <1>6, <2>2, <3>1 DEF F!SavePerformance, F!RegisterOutputs, F!RaiseHere, F!Raise, Goes, Mine
    <3>3. place' = "perf" /\ UNCHANGED stored
      BY <1>6, <2>2 DEF F!SavePerformance, F!RaiseHere, F!Raise, Goes, Mine
    <3>4. p \notin F!Models(task) /\ p \in F!Outputs(task) /\ attempt[task] \in Nat
      BY <1>t, <2>0, TheFunction
    <3>5. \A r \in registered' : \/ r \in registered
                                 \/ r = <<task, p, attempt[task]>> /\ r[1] = task /\ r[2] = p /\ r[3] = attempt[task]
      BY <3>2
    <3>6. OutputsNamed'
      <4>1. \A r \in registered' : r[1] \in Task /\ r[2] \in F!Outputs(r[1]) /\ r[3] <= attempt[r[1]]
        BY <1>b, <1>t, <2>0, <3>4, <3>5 DEF OutputsNamed
      <4> QED
        BY <1>b, <1>t, <1>k, <2>0, <3>3, <4>1 DEF OutputsNamed
    <3>7. AttemptIsFresh'
      BY <1>b, <1>k, <2>0, <3>3, <3>5 DEF AttemptIsFresh, MyPerfs, Fed, Prepared
    <3>8. SavedSoFar'
      BY <3>3 DEF SavedSoFar, Saved
    <3>9. DoneHasAll' /\ StoredAreRegistered'
      BY <1>b, <1>k, <2>0, <3>2, <3>3 DEF DoneHasAll, StoredAreRegistered
    <3>10. RegisteredAreStored'
      BY <1>b, <1>k, <1>t, <2>0, <3>3, <3>4, <3>5 DEF RegisteredAreStored
    <3> QED
      BY <3>6, <3>7, <3>8, <3>9, <3>10 DEF OutputsInv
  <2> QED
    BY <2>1, <2>2
<1>7. ASSUME Goes, F!StoreModel PROVE OutputsInv'
  <2>0. place = "store" /\ task \in Task /\ UNCHANGED <<task, status, attempt, gaps>>
    BY <1>7, <1>x DEF F!StoreModel, Goes
  <2>1. PICK o \in F!Models(task) :
          /\ Mine(o) \notin stored /\ stored' = stored \union {Mine(o)} /\ UNCHANGED registered
          /\ place' = IF F!Cardinality(F!MyModels) + 1 = F!Cardinality(F!Models(task)) THEN "models" ELSE "store"
    BY <1>7 DEF F!StoreModel, F!RaiseHere, F!Raise, Goes, Mine
  <2>2. place' \in {"store", "models"}
    BY <2>1
  <2>3. \A m \in stored' : \/ m \in stored
                           \/ m = Mine(o) /\ m[1] = task /\ m[2] = o /\ m[3] = attempt[task]
    BY <2>1 DEF Mine
  <2>4. OutputsNamed'
    <3>1. \A m \in stored' : m[1] \in Task /\ m[2] \in F!Models(m[1]) /\ m[3] <= attempt[m[1]]
      BY <1>b, <1>t, <2>0, <2>3 DEF OutputsNamed
    <3> QED
      BY <1>b, <1>t, <1>k, <2>0, <2>1, <3>1 DEF OutputsNamed
  <2>5. AttemptIsFresh'
    BY <1>b, <1>k, <2>0, <2>1, <2>2 DEF AttemptIsFresh, Fed, Prepared
  <2>6. place' = "models" => \A p \in F!Models(task) : Mine(p) \in stored'
    BY <1>b, <2>0, <2>1, AllAreStored
  <2>7. SavedSoFar'
    BY <1>b, <1>k, <2>0, <2>1, <2>2, <2>6 DEF SavedSoFar, Mine, MyModels, Saved
  <2>8. DoneHasAll' /\ RegisteredAreStored'
    BY <1>b, <1>k, <1>t, <2>0, <2>1 DEF DoneHasAll, RegisteredAreStored
  <2>9. StoredAreRegistered'
    BY <1>b, <2>0, <2>1, <2>2, <2>3 DEF StoredAreRegistered
  <2> QED
    BY <2>4, <2>5, <2>7, <2>8, <2>9 DEF OutputsInv
<1>8. ASSUME Goes, F!RegisterModels PROVE OutputsInv'
  <2>0. place = "models" /\ task \in Task /\ UNCHANGED <<task, status, attempt, gaps>>
    BY <1>8, <1>x DEF F!RegisterModels, Goes
  <2>1. /\ registered' = registered \union {Mine(o) : o \in F!Models(task)}
        /\ place' = "post" /\ UNCHANGED stored
    BY <1>8 DEF F!RegisterModels, F!RegisterOutputs, F!Raise, Goes, Mine
  <2>2. \A r \in registered' : \/ r \in registered
                               \/ /\ \E o \in F!Models(task) : r = Mine(o)
                                  /\ r[1] = task /\ r[2] \in F!Models(task) /\ r[3] = attempt[task]
    BY <2>1 DEF Mine
  <2>3. OutputsNamed'
    <3>1. F!Models(task) \subseteq F!Outputs(task)
      BY <2>0, TheFunction
    <3>2. \A r \in registered' : r[1] \in Task /\ r[2] \in F!Outputs(r[1]) /\ r[3] <= attempt[r[1]]
      BY <1>b, <1>t, <2>0, <2>2, <3>1 DEF OutputsNamed
    <3> QED
      BY <1>b, <1>t, <1>k, <2>0, <2>1, <3>2 DEF OutputsNamed
  <2>4. SavedSoFar'
    BY <1>b, <1>k, <2>0, <2>1 DEF SavedSoFar, Mine, MyModels
  <2>5. AttemptIsFresh'
    BY <2>1 DEF AttemptIsFresh, Fed, Prepared
  <2>6. DoneHasAll'
    BY <1>b, <1>k, <2>0, <2>1 DEF DoneHasAll
  <2>7. RegisteredAreStored'
    BY <1>b, <1>k, <1>t, <2>0, <2>1, <2>2 DEF RegisteredAreStored, SavedSoFar, MyModels
  <2>8. StoredAreRegistered'
    <3>1. \A m \in stored : m[1] = task /\ m[3] = attempt[task] => m \in registered'
      <4> TAKE m \in stored
      <4> HAVE m[1] = task /\ m[3] = attempt[task]
      <4>1. m = <<m[1], m[2], m[3]>> /\ m[2] \in F!Models(task)
        BY <1>b, <1>t DEF OutputsNamed
      <4> QED
        BY <2>1, <4>1 DEF Mine
    <3> QED
      BY <1>b, <2>0, <2>1, <3>1 DEF StoredAreRegistered
  <2> QED
    BY <2>3, <2>4, <2>5, <2>6, <2>7, <2>8 DEF OutputsInv
<1>9. ASSUME F!MarkAsDone PROVE OutputsInv'
  <2>1. /\ place = "done" /\ place' = "idle" /\ task \in Task
        /\ UNCHANGED <<attempt, registered, stored, gaps>> /\ status' = [status EXCEPT ![task] = "done"]
    BY <1>9, <1>x DEF F!MarkAsDone
  <2>2. DoneHasAll'
    <3>1. \A o \in F!Outputs(task) : Mine(o) \in registered
      BY <1>b, <2>1, TheFunction DEF SavedSoFar, MyPerfs, MyModels, Saved
    <3>2. \A u \in Task \ {task} : status'[u] = status[u]
      BY <1>t, <2>1
    <3>3. \A u \in Task : status'[u] = "done" =>
             \A o \in F!Outputs(u) : \E r \in registered : r[1] = u /\ r[2] = o
      <4> TAKE u \in Task
      <4>1. CASE u = task
        BY <3>1, <4>1 DEF Mine
      <4>2. CASE u # task
        BY <1>b, <3>2, <4>2 DEF DoneHasAll
      <4> QED
        BY <4>1, <4>2
    <3> QED
      BY <1>k, <2>1, <3>3 DEF DoneHasAll
  <2>3. OutputsNamed' /\ RegisteredAreStored'
    BY <1>b, <1>t, <1>k, <2>1 DEF OutputsNamed, RegisteredAreStored
  <2>4. AttemptIsFresh' /\ SavedSoFar' /\ StoredAreRegistered'
    BY <1>b, <2>1 DEF AttemptIsFresh, SavedSoFar, StoredAreRegistered, Fed, Prepared, Saved
  <2> QED
    BY <2>2, <2>3, <2>4 DEF OutputsInv
<1>10. ASSUME F!Teardown PROVE OutputsInv'
  <2>1. UNCHANGED <<task, place, status, attempt, registered, stored>> /\ gaps \subseteq gaps'
    BY <1>10 DEF F!Teardown
  <2> QED
    BY <1>f, <2>1
<1>11. ASSUME UNCHANGED F!vars PROVE OutputsInv'
  <2>1. UNCHANGED <<task, place, status, attempt, registered, stored, gaps>>
    BY <1>11 DEF F!vars
  <2> QED
    BY <1>f, <2>1
<1> QED
  BY <1>1, <1>2, <1>3, <1>4, <1>5, <1>6, <1>7, <1>8, <1>9, <1>10, <1>11, FilesMoves

LEMMA KeysStep ==
  ASSUME FilesTyped, FilesTyped', KeysInv, [F!Next]_(F!vars) PROVE KeysInv'
<1> USE DEF F!Goto, F!keyVars, F!outVars, F!dirVars, F!taskVars, F!histVars
<1>c. UNCHANGED plan
  BY FilesMoves, EndedEnds DEF Ends, F!Register, F!Start, Goes, F!MarkAsDone, F!Teardown, F!vars
<1> SUFFICES ASSUME plan.keyed PROVE Secrecy' /\ Chain' /\ KeysThere'
  BY <1>c DEF KeysInv
<1>b. Secrecy /\ Chain /\ KeysThere
  BY DEF KeysInv
<1>t. secrets \subseteq Secret /\ place \in Place
  BY DEF FilesTyped
<1>w. UNCHANGED <<planKeys, secrets, ran>> => (SecretsWait' <=> SecretsWait)
  BY DEF SecretsWait
\* The chainkeys, the tasks done and the place stay.
<1>s. ASSUME UNCHANGED <<place, task, planKeys, secrets, ran, taskKeys>>, gaps \subseteq gaps'
      PROVE  Secrecy' /\ Chain' /\ KeysThere'
  <2>1. Secrecy'
    BY <1>b, <1>s, <1>w DEF Secrecy
  <2>2. Chain'
    BY <1>b, <1>s DEF Chain
  <2>3. KeysThere'
    BY <1>b, <1>s DEF KeysThere
  <2> QED
    BY <2>1, <2>2, <2>3
<1>1. ASSUME AttemptEnds PROVE Secrecy' /\ Chain' /\ KeysThere'
  <2>1. Ends
    BY <1>1, EndedEnds
  <2>2. /\ place \in Place \ {"idle"} /\ place' = "idle" /\ UNCHANGED <<planKeys, secrets, ran>> /\ gaps \subseteq gaps'
        /\ place \in {"dump", "clear secrets"} => "secrets" \in gaps'
        /\ place = "move" => "commit" \in gaps'
        /\ place = "done" => "advanced" \in gaps'
        /\ place = "dump" => "torn" \in gaps'
    BY <1>t, <2>1 DEF Ends
  <2>3. Secrecy'
    <3>1. place \in {"link", "prepare", "dump", "clear secrets"} \union Keyed
      BY <2>2 DEF Place, Fed, Prepared, Saved, Keyed
    <3> QED
      BY <1>b, <1>w, <2>2, <3>1 DEF Secrecy, SecretsWait, Keyed
  <2>4. Chain'
    BY <1>b, <2>2 DEF Chain, Place, Fed, Prepared, Saved
  <2>5. KeysThere'
    BY <1>b, <2>2 DEF KeysThere, Place, Fed, Prepared, Saved, Keyed
  <2> QED
    BY <2>3, <2>4, <2>5
<1>2. ASSUME NEW t \in Task, F!Register(t) PROVE Secrecy' /\ Chain' /\ KeysThere'
  BY <1>2, <1>s DEF F!Register
<1>3. ASSUME NEW t \in Task, F!Start(t) PROVE Secrecy' /\ Chain' /\ KeysThere'
  <2>1. place = "idle" /\ place' = "link" /\ UNCHANGED <<planKeys, secrets, ran, taskKeys, gaps>>
    BY <1>3 DEF F!Start
  <2> QED
    BY <1>b, <1>w, <2>1 DEF Secrecy, Chain, KeysThere, Keyed
\* What a step that goes on leaves alone.
<1>g. Goes => UNCHANGED <<task, gaps, ran>>
  BY DEF Goes
<1>4. ASSUME Goes, F!LinkAssets PROVE Secrecy' /\ Chain' /\ KeysThere'
  <2>1. place = "link" /\ place' = "prepare" /\ UNCHANGED <<planKeys, secrets, taskKeys>>
    BY <1>4 DEF F!LinkAssets, F!RaiseHere, F!Raise, Goes
  <2> QED
    BY <1>4, <1>b, <1>w, <1>g, <2>1 DEF Secrecy, Chain, KeysThere, Keyed
<1>5. ASSUME Goes, F!PrepareKeys PROVE Secrecy' /\ Chain' /\ KeysThere'
  <2>1. place = "prepare"
    BY <1>5 DEF F!PrepareKeys
  <2>2. CASE planKeys # {}
    <3>1. place' = "restore" /\ UNCHANGED <<planKeys, secrets, taskKeys>>
      BY <1>5, <2>2 DEF F!PrepareKeys
    <3> QED
      BY <1>5, <1>b, <1>g, <2>1, <2>2, <3>1 DEF Secrecy, Chain, KeysThere, Keyed, SecretsWait
  <2>3. CASE planKeys = {} /\ secrets = Secret
    <3>1. place' = "dump" /\ UNCHANGED <<secrets, taskKeys>> /\ planKeys' # {}
      BY <1>5, <2>3 DEF F!PrepareKeys
    <3> QED
      BY <1>5, <1>b, <1>g, <2>1, <2>3, <3>1 DEF Secrecy, Chain, KeysThere, Keyed, SecretsWait
  <2>4. CASE planKeys = {} /\ secrets # Secret
    BY <1>5, <2>4 DEF F!PrepareKeys, F!RaiseHere, F!Raise, Goes
  <2> QED
    BY <2>2, <2>3, <2>4
<1>6. ASSUME Goes, F!WriteKeys PROVE Secrecy' /\ Chain' /\ KeysThere'
  <2>1. place = "dump" /\ place' = "clear secrets" /\ planKeys' = {<<>>} /\ UNCHANGED <<secrets, taskKeys>>
    BY <1>6 DEF F!WriteKeys
  <2> QED
    BY <1>6, <1>b, <1>g, <2>1 DEF Secrecy, Chain, KeysThere, Keyed
<1>7. ASSUME Goes, NEW s \in Secret, F!ClearSecret(s) PROVE Secrecy' /\ Chain' /\ KeysThere'
  <2>1. /\ place = "clear secrets" /\ s \in secrets /\ secrets' = secrets \ {s}
        /\ place' = IF secrets = {s} THEN "restore" ELSE "clear secrets"
        /\ UNCHANGED <<planKeys, taskKeys>>
    BY <1>7 DEF F!ClearSecret
  <2>2. \/ place' = "restore" /\ secrets' = {}
        \/ place' = "clear secrets"
    BY <2>1
  <2>3. secrets' # Secret
    BY <2>1
  <2> QED
    BY <1>7, <1>b, <1>g, <2>1, <2>2, <2>3 DEF Secrecy, Chain, KeysThere, Keyed
<1>8. ASSUME Goes, F!RestoreKeys PROVE Secrecy' /\ Chain' /\ KeysThere'
  <2>1. place = "restore" /\ place' = "pod" /\ taskKeys' = planKeys /\ UNCHANGED <<planKeys, secrets>>
    BY <1>8 DEF F!RestoreKeys
  <2> QED
    BY <1>8, <1>b, <1>g, <2>1 DEF Secrecy, Chain, KeysThere, Keyed
<1>9. ASSUME Goes, F!FindOrCreatePod \/ F!WriteArgs PROVE Secrecy' /\ Chain' /\ KeysThere'
  <2>1. place \in {"pod", "args"} /\ place' \in {"args", "exec"} /\ UNCHANGED <<planKeys, secrets, taskKeys>>
    BY <1>9 DEF F!FindOrCreatePod, F!WriteArgs
  <2> QED
    BY <1>9, <1>b, <1>g, <2>1 DEF Secrecy, Chain, KeysThere, Keyed
<1>10. ASSUME Goes, F!RunSucceeds PROVE Secrecy' /\ Chain' /\ KeysThere'
  <2>1. /\ place = "exec" /\ place' = "perf" /\ UNCHANGED <<planKeys, secrets>>
        /\ taskKeys' = {Append(h, task) : h \in taskKeys}
    BY <1>10 DEF F!RunSucceeds, F!Advanced
  <2>2. taskKeys = {ran} => taskKeys' = {Append(ran, task)}
    BY <2>1
  <2>3. taskKeys # {} => taskKeys' # {}
    BY <2>1
  <2>4. Secrecy'
    BY <1>10, <1>b, <1>g, <2>1 DEF Secrecy, Keyed
  <2>5. Chain'
    BY <1>10, <1>b, <1>g, <2>1, <2>2 DEF Chain
  <2>6. KeysThere'
    BY <1>10, <1>b, <1>g, <2>1, <2>3 DEF KeysThere, Keyed
  <2> QED
    BY <2>4, <2>5, <2>6
<1>11. ASSUME Goes, F!SavePerformance \/ F!StoreModel \/ F!RegisterModels \/ F!PostModels
       PROVE  Secrecy' /\ Chain' /\ KeysThere'
  <2>1. /\ place \in {"perf", "store", "models", "post"}
        /\ place' \in {"perf", "store", "models", "post", "commit"}
        /\ UNCHANGED <<planKeys, secrets, taskKeys>>
    BY <1>11 DEF F!SavePerformance, F!StoreModel, F!RegisterModels, F!PostModels, F!AfterPerfs,
         F!AfterOutputs, F!RaiseHere, F!Raise, Goes
  <2> QED
    BY <1>11, <1>b, <1>g, <2>1 DEF Secrecy, Chain, KeysThere, Keyed
<1>12. ASSUME Goes, F!CommitRemove PROVE Secrecy' /\ Chain' /\ KeysThere'
  <2>1. place = "commit" /\ place' = "move" /\ planKeys' = {} /\ UNCHANGED <<secrets, taskKeys>>
    BY <1>12 DEF F!CommitRemove
  <2> QED
    BY <1>12, <1>b, <1>g, <2>1 DEF Secrecy, Chain, KeysThere, Keyed
<1>13. ASSUME Goes, F!CommitMove PROVE Secrecy' /\ Chain' /\ KeysThere'
  <2>1. place = "move" /\ place' = "done" /\ planKeys' = taskKeys /\ UNCHANGED secrets
    BY <1>13 DEF F!CommitMove
  <2> QED
    BY <1>13, <1>b, <1>g, <2>1 DEF Secrecy, Chain, KeysThere, Keyed
<1>14. ASSUME F!MarkAsDone PROVE Secrecy' /\ Chain' /\ KeysThere'
  <2>1. place = "done" /\ place' = "idle" /\ ran' = Append(ran, task) /\ UNCHANGED <<planKeys, secrets, gaps>>
    BY <1>14 DEF F!MarkAsDone
  <2>2. Secrecy'
    BY <1>b, <2>1 DEF Secrecy, SecretsWait, Keyed
  <2> QED
    BY <1>b, <2>1, <2>2 DEF Chain, KeysThere, Keyed
<1>15. ASSUME F!Teardown PROVE Secrecy' /\ Chain' /\ KeysThere'
  <2>1. /\ place = "idle" /\ UNCHANGED <<place, secrets, ran>> /\ planKeys' = {} /\ gaps \subseteq gaps'
        /\ planKeys = {} \/ "removed" \in gaps'
    BY <1>15 DEF F!Teardown
  <2>2. Secrecy'
    BY <1>b, <2>1 DEF Secrecy, SecretsWait, Keyed
  <2> QED
    BY <1>b, <2>1, <2>2 DEF Chain, KeysThere, Keyed
<1>16. ASSUME UNCHANGED F!vars PROVE Secrecy' /\ Chain' /\ KeysThere'
  BY <1>16, <1>s DEF F!vars
<1> QED
  BY <1>1, <1>2, <1>3, <1>4, <1>5, <1>6, <1>7, <1>8, <1>9, <1>10, <1>11, <1>12, <1>13, <1>14, <1>15, <1>16,
     FilesMoves

\* What a task writes is mounted, unless it shares a pod made for other outputs.
LEMMA PathsAreMounted ==
  ASSUME FilesTyped, task \in Task, MyPodIsMade
  PROVE  /\ \A path \in MyInputs : path[1] \in F!Mounted
         /\ ~F!SharesPod(task) => \A path \in MyPaths : path[1] \in F!Mounted
<1>1. PICK u \in Task : plan.image[u] = plan.image[task] /\ F!Mounted = F!Mounts(u)
  BY DEF MyPodIsMade, F!Mounted, F!PodOf
<1>2. \A path \in MyInputs : path[1] \in {"data_samples", "openers", "in_models"}
  BY DEF MyInputs, F!InputAssets
<1>3. ~F!SharesPod(task) =>
        {p[1] : p \in F!OutputResources(u)} = {p[1] : p \in F!OutputResources(task)}
  BY <1>1 DEF F!SharesPod, F!PodOf
<1>4. \A p \in F!OutputResources(u) : p[1] \in F!Mounts(u)
  BY DEF F!Mounts
<1>5. ASSUME ~F!SharesPod(task), NEW path \in MyPaths PROVE path[1] \in F!Mounts(u)
  <2>1. path[1] \in {p[1] : p \in F!OutputResources(task)}
    BY DEF MyPaths
  <2> QED
    BY <1>3, <1>4, <1>5, <2>1
<1> QED
  BY <1>1, <1>2, <1>5 DEF F!Mounts

LEMMA SurvivalStep ==
  ASSUME FilesTyped, FilesTyped', ArgsInv, OutputsInv, KeysInv, SurvivalInv, [F!Next]_(F!vars)
  PROVE  SurvivalInv'
<1> USE DEF F!Goto, F!keyVars, F!outVars, F!dirVars, F!taskVars, F!histVars
<1>c. UNCHANGED plan
  BY FilesMoves, EndedEnds DEF Ends, F!Register, F!Start, Goes, F!MarkAsDone, F!Teardown, F!vars
<1>m. gaps \subseteq gaps'
  BY FilesMoves, EndedEnds DEF Ends, F!Register, F!Start, Goes, F!MarkAsDone, F!Teardown, F!vars
<1>s. SUFFICES ASSUME gaps' \intersect Excuse = {} PROVE SurvivalInv'
  BY DEF SurvivalInv
<1>b. /\ \A r \in registered : status[r[1]] = "done" \/ (r[1] = task /\ r[3] = attempt[task])
      /\ \A t \in Task : ~F!SharesPod(t) =>
           /\ failures[t] + Debt <= filesFaults
           /\ status[t] = "failed" => failures[t] > MaxRetries
           /\ place \in {"perf", "store"} /\ task = t => F!OutputResources(t) \subseteq files
  BY <1>m, <1>s DEF SurvivalInv
<1>t. /\ attempt \in [Task -> Nat] /\ status \in [Task -> {"none", "todo", "doing", "done", "failed"}]
      /\ failures \in [Task -> Nat] /\ filesFaults \in Nat /\ MaxRetries \in Nat
      /\ \A r \in registered \union stored : r[1] \in Task /\ r[2] \in Output /\ r[3] \in Nat
                                             /\ r = <<r[1], r[2], r[3]>>
  BY FilesAssumption DEF FilesTyped
<1>x. place # "idle" => task \in Task /\ status[task] = "doing"
  BY DEF FilesTyped
<1>d. /\ Debt \in {0, 1} /\ Debt' \in {0, 1}
      /\ place' \notin {"idle", "link"} => Debt' = 0
      /\ files' = {} => Debt' = 0
      /\ place \in {"idle", "link"} /\ files' = files => Debt' = Debt \/ Debt' = 0
  BY DEF Debt
\* What a task already counted covers what it still owes.
<1>f. ASSUME UNCHANGED <<failures, filesFaults>>, Debt' = 0 \/ Debt' = Debt
      PROVE  \A t \in Task : ~F!SharesPod(t) => failures'[t] + Debt' <= filesFaults'
  <2> SUFFICES ASSUME NEW t \in Task, ~F!SharesPod(t) PROVE failures[t] + Debt' <= filesFaults
    BY <1>f
  <2>1. failures[t] \in Nat /\ failures[t] + Debt <= filesFaults
    BY <1>b, <1>t
  <2> QED
    BY <1>d, <1>f, <1>t, <2>1
<1>1. ASSUME AttemptEnds PROVE SurvivalInv'
  <2> SUFFICES /\ \A r \in registered' : status'[r[1]] = "done" \/ (r[1] = task' /\ r[3] = attempt'[task'])
               /\ \A t \in Task : ~F!SharesPod(t) =>
                    /\ failures'[t] + Debt' <= filesFaults'
                    /\ status'[t] = "failed" => failures'[t] > MaxRetries
                    /\ place' \in {"perf", "store"} /\ task' = t => F!OutputResources(t) \subseteq files'
    <3>1. \A t \in Task : F!OutputResources(t)' = F!OutputResources(t) /\ (F!SharesPod(t)' <=> F!SharesPod(t))
      BY <1>c, PlanKept
    <3> QED
      BY <3>1 DEF SurvivalInv
  <2>1. Ends
    BY <1>1, EndedEnds
  <2>2. /\ place # "idle" /\ place' = "idle" /\ task \in Task /\ UNCHANGED attempt
        /\ \A t \in Task \ {task} : status'[t] = status[t]
    BY <2>1 DEF Ends
  <2>3. ~F!RunFails /\ ~F!AnswerLost
    BY <1>s DEF F!RunFails, F!AnswerLost, Excuse
  <2>4. /\ registered' = registered
        /\ \A g \in F!LeftBehind : g # "orphan" => g \in gaps'
    <3>1. registered' = registered
      BY <1>1, <2>3 DEF AttemptEnds, Refused, ModelsRefused, F!StepFails, F!Kill
    <3>2. gaps' = gaps \union F!LeftBehind \/ gaps' = gaps \union (F!LeftBehind \ {"orphan"})
      BY <1>1, <2>3 DEF AttemptEnds, Refused, F!RaiseHere, ModelsRefused, F!StepFails, F!Kill
    <3> QED
      BY <3>1, <3>2
  <2>5. \A r \in registered : r[1] # task
    <3>1. "registered" \notin F!LeftBehind
      BY <1>s, <2>4 DEF Excuse
    <3> QED
      BY <3>1 DEF F!LeftBehind
  <2>6. \A r \in registered' : status'[r[1]] = "done"
    BY <1>b, <1>t, <2>2, <2>4, <2>5
  \* One more failure of the task is paid by a fault, or by what was owed.
  <2>r. ASSUME F!Raise, \/ filesFaults' = filesFaults + 1
                        \/ filesFaults' = filesFaults /\ (~F!SharesPod(task) => Debt = 1)
        PROVE  \A t \in Task : ~F!SharesPod(t) =>
                 /\ failures'[t] + Debt' <= filesFaults'
                 /\ status'[t] = "failed" => failures'[t] > MaxRetries
    <3>1. /\ files' = {} /\ failures' = [failures EXCEPT ![task] = failures[task] + 1]
          /\ status' = [status EXCEPT ![task] = IF failures[task] < MaxRetries THEN "doing" ELSE "failed"]
      BY <2>r DEF F!Raise
    <3>2. Debt' = 0
      BY <1>d, <3>1
    <3> SUFFICES ASSUME NEW t \in Task, ~F!SharesPod(t)
                 PROVE  /\ failures'[t] <= filesFaults'
                        /\ status'[t] = "failed" => failures'[t] > MaxRetries
      <4>1. \A t \in Task : failures'[t] \in Nat
        BY FilesAssumption DEF FilesTyped
      <4> QED
        BY <3>2, <4>1
    <3>3. failures[t] \in Nat /\ failures[t] + Debt <= filesFaults
      BY <1>b, <1>t
    <3>4. CASE t = task
      <4>1. failures'[t] = failures[t] + 1 /\ (status'[t] = "failed" => ~(failures[t] < MaxRetries))
        BY <1>t, <2>2, <3>1, <3>4
      <4> QED
        BY <1>d, <1>t, <2>r, <3>3, <3>4, <4>1
    <3>5. CASE t # task
      <4>1. failures'[t] = failures[t] /\ status'[t] = status[t]
        BY <1>t, <2>2, <3>1, <3>5
      <4> QED
        BY <1>b, <1>d, <1>t, <2>r, <3>3, <4>1
    <3> QED
      BY <3>4, <3>5
  <2>7. CASE F!StepFails
    <3>1. F!Raise /\ filesFaults' = filesFaults + 1
      BY <2>7 DEF F!StepFails, F!Fault
    <3> QED
      BY <2>2, <2>6, <2>r, <3>1
  <2>8. CASE F!Kill
    <3>1. filesFaults' = filesFaults + 1 /\ UNCHANGED <<failures, status>>
      BY <2>8 DEF F!Kill, F!Fault
    <3>2. ASSUME NEW t \in Task, ~F!SharesPod(t) PROVE failures[t] + Debt' <= filesFaults'
      <4>1. failures[t] \in Nat /\ failures[t] + Debt <= filesFaults
        BY <1>b, <1>t, <3>2
      <4> QED
        BY <1>d, <1>t, <3>1, <4>1
    <3> QED
      BY <1>b, <2>2, <2>6, <3>1, <3>2
  <2>9. CASE Refused
    <3>1. F!Raise /\ filesFaults' = filesFaults
      BY <2>9 DEF Refused, F!RaiseHere
    <3>2. ASSUME ~F!SharesPod(task) PROVE Debt = 1
      <4>1. CASE place = "link"
        <5>1. PICK path \in F!InputAssets(task) : F!Unlinkable(path)
          BY <2>9, <4>1 DEF Refused
        <5>2. PICK r \in registered : /\ path = <<"in_models", r>>
                                      /\ r[1] = plan.parent[task] /\ r[2] \in F!Models(plan.parent[task])
          BY <5>1 DEF F!InputAssets, F!Unlinkable
        <5>3. r \in stored
          BY <1>m, <1>s, <5>2 DEF OutputsInv, RegisteredAreStored, Excuse
        <5>4. path \in files /\ path[1] = "in_models"
          BY <5>1, <5>2, <5>3 DEF F!Unlinkable
        <5> QED
          BY <4>1, <5>4 DEF Debt
      <4>2. CASE place = "prepare"
        BY <1>m, <1>s, <2>9, <4>2 DEF Refused, KeysInv, KeysThere, FilesTyped, Prepared, Excuse
      <4>3. CASE place = "perf"
        <5>1. PICK o \in F!Perfs(task) :
                Mine(o) \notin registered /\ (F!PerfPath(o) \notin files \/ F!Known(o))
          BY <2>9, <4>3 DEF Refused
        <5>2. F!PerfPath(o) \in files
          BY <1>b, <2>2, <3>2, <4>3 DEF F!OutputResources
        <5>3. PICK r \in registered : r[1] = task /\ r[2] = o
          BY <5>1, <5>2 DEF F!Known
        <5> QED
          BY <2>5, <5>3
      <4>4. CASE place = "store"
        BY <1>b, <2>2, <2>9, <3>2, <4>4 DEF Refused, F!OutputResources
      <4> QED
        BY <2>9, <4>1, <4>2, <4>3, <4>4 DEF Refused
    <3> QED
      BY <2>2, <2>6, <2>r, <3>1, <3>2
  <2>10. CASE ModelsRefused
    BY <2>5, <2>10 DEF ModelsRefused, F!Known
  <2> QED
    BY <1>1, <2>3, <2>7, <2>8, <2>9, <2>10 DEF AttemptEnds
<1>2. ASSUME NEW t \in Task, F!Register(t) PROVE SurvivalInv'
  <2>1. /\ status' = [status EXCEPT ![t] = "todo"] /\ status[t] = "none"
        /\ UNCHANGED <<failures, attempt, task, place, files, registered, filesFaults>>
    BY <1>2 DEF F!Register
  <2>2. Debt' = Debt
    BY <2>1 DEF Debt
  <2>3. \A u \in Task \ {t} : status'[u] = status[u]
    BY <1>t, <2>1
  <2>4. status'[t] = "todo"
    BY <1>t, <2>1
  <2>5. \A r \in registered : status'[r[1]] = "done" \/ (r[1] = task /\ r[3] = attempt[task])
    BY <1>b, <1>t, <2>1, <2>3
  <2> QED
    BY <1>b, <1>c, <1>f, <2>1, <2>2, <2>3, <2>4, <2>5, PlanKept DEF SurvivalInv
<1>3. ASSUME NEW t \in Task, F!Start(t) PROVE SurvivalInv'
  <2>1. /\ place = "idle" /\ place' = "link" /\ status[t] \in {"todo", "doing"}
        /\ status' = [status EXCEPT ![t] = "doing"]
        /\ UNCHANGED <<failures, files, registered, filesFaults>>
    BY <1>3 DEF F!Start
  <2>2. Debt' = Debt \/ Debt' = 0
    BY <1>d, <2>1
  <2>3. \A u \in Task \ {t} : status'[u] = status[u]
    BY <1>t, <2>1
  <2>4. status'[t] = "doing"
    BY <1>t, <2>1
  <2>5. \A r \in registered : status'[r[1]] = "done"
    <3>1. task = NoTask
      BY <2>1 DEF FilesTyped
    <3> QED
      BY <1>b, <1>t, <2>1, <2>3, <3>1, FilesAssumption
  <2> QED
    BY <1>b, <1>c, <1>f, <2>1, <2>2, <2>3, <2>4, <2>5, PlanKept DEF SurvivalInv
\* The attempt goes on; what it registers is its own.
<1>g. ASSUME Goes, \A r \in registered' : r \in registered \/ (r[1] = task /\ r[3] = attempt[task]),
             place' = "link" => FALSE,
             ~F!SharesPod(task) /\ place' \in {"perf", "store"} => F!OutputResources(task) \subseteq files'
      PROVE  SurvivalInv'
  <2>1. UNCHANGED <<failures, attempt, task, status, filesFaults>> /\ place' # "idle"
    BY <1>g DEF Goes
  <2>2. Debt' = 0
    BY <1>d, <1>g, <2>1
  <2> QED
    BY <1>b, <1>c, <1>f, <1>g, <2>1, <2>2, PlanKept DEF SurvivalInv
<1>4. ASSUME Goes, \/ F!LinkAssets \/ F!PrepareKeys \/ F!WriteKeys \/ F!RestoreKeys
                   \/ \E s \in Secret : F!ClearSecret(s)
                   \/ F!FindOrCreatePod \/ F!WriteArgs \/ F!PostModels
                   \/ F!CommitRemove \/ F!CommitMove
      PROVE  SurvivalInv'
  <2>1. UNCHANGED registered /\ place' \notin {"link", "perf", "store"}
    <3>1. CASE F!LinkAssets
      BY <1>4, <3>1 DEF F!LinkAssets, F!RaiseHere, F!Raise, Goes
    <3>2. CASE F!PrepareKeys
      BY <1>4, <3>2 DEF F!PrepareKeys, F!RaiseHere, F!Raise, Goes
    <3>3. CASE ~F!LinkAssets /\ ~F!PrepareKeys
      BY <1>4, <3>3 DEF F!WriteKeys, F!RestoreKeys, F!ClearSecret, F!FindOrCreatePod, F!WriteArgs,
           F!PostModels, F!AfterOutputs, F!CommitRemove, F!CommitMove
    <3> QED
      BY <3>1, <3>2, <3>3
  <2> QED
    BY <1>4, <1>g, <2>1
<1>5. ASSUME Goes, F!RunSucceeds PROVE SurvivalInv'
  <2>1. /\ place = "exec" /\ place' = "perf" /\ UNCHANGED registered /\ task \in Task
        /\ files' = files \union {path \in args.paths \ MyInputs : path[1] \in F!Mounted}
    BY <1>5, <1>x DEF F!RunSucceeds, MyInputs
  <2>2. args.paths = MyInputs \union MyPaths /\ MyPodIsMade
    BY <2>1 DEF ArgsInv
  <2>3. MyPaths \intersect MyInputs = {}
    BY DEF MyPaths, MyInputs, F!InputAssets, F!OutputResources, F!ModelPath, F!PerfPath
  <2>4. ~F!SharesPod(task) => MyPaths \subseteq files'
    BY <2>1, <2>2, <2>3, PathsAreMounted
  <2> QED
    BY <1>5, <1>g, <2>1, <2>4 DEF MyPaths
<1>6. ASSUME Goes, F!SavePerformance PROVE SurvivalInv'
  <2>1. /\ place = "perf" /\ place' \in {"perf", "store", "commit", "done"} /\ UNCHANGED files
        /\ \A r \in registered' : r \in registered \/ (r[1] = task /\ r[3] = attempt[task])
    BY <1>6 DEF F!SavePerformance, F!RegisterOutputs, F!AfterPerfs, F!AfterOutputs, F!RaiseHere, F!Raise, Goes
  <2> QED
    BY <1>6, <1>b, <1>g, <1>x, <2>1
<1>7. ASSUME Goes, F!StoreModel PROVE SurvivalInv'
  <2>1. place = "store" /\ place' \in {"store", "models"} /\ UNCHANGED <<files, registered>>
    BY <1>7 DEF F!StoreModel, F!RaiseHere, F!Raise, Goes
  <2> QED
    BY <1>7, <1>b, <1>g, <1>x, <2>1
<1>8. ASSUME Goes, F!RegisterModels PROVE SurvivalInv'
  <2>1. /\ place = "models" /\ place' = "post"
        /\ \A r \in registered' : r \in registered \/ (r[1] = task /\ r[3] = attempt[task])
    BY <1>8 DEF F!RegisterModels, F!RegisterOutputs, F!Raise, Goes
  <2> QED
    BY <1>8, <1>g, <2>1
<1>9. ASSUME F!MarkAsDone PROVE SurvivalInv'
  <2>1. /\ place = "done" /\ place' = "idle" /\ task \in Task /\ status' = [status EXCEPT ![task] = "done"]
        /\ files' = {} /\ UNCHANGED <<failures, registered, filesFaults>>
    BY <1>9, <1>x DEF F!MarkAsDone
  <2>2. Debt' = 0
    BY <1>d, <2>1
  <2>3. status'[task] = "done" /\ \A u \in Task \ {task} : status'[u] = status[u]
    BY <1>t, <2>1
  <2>4. \A r \in registered : status'[r[1]] = "done"
    BY <1>b, <1>t, <2>3
  <2> QED
    BY <1>b, <1>c, <1>f, <2>1, <2>2, <2>3, <2>4, PlanKept DEF SurvivalInv
<1>10. ASSUME F!Teardown PROVE SurvivalInv'
  <2>1. /\ place = "idle" /\ files' = {}
        /\ UNCHANGED <<failures, status, attempt, task, place, registered, filesFaults>>
    BY <1>10 DEF F!Teardown
  <2>2. Debt' = 0
    BY <1>d, <2>1
  <2> QED
    BY <1>b, <1>c, <1>f, <2>1, <2>2, PlanKept DEF SurvivalInv
<1>11. ASSUME UNCHANGED F!vars PROVE SurvivalInv'
  <2>1. UNCHANGED <<failures, status, attempt, task, place, files, registered, filesFaults>>
    BY <1>11 DEF F!vars
  <2>2. Debt' = Debt
    BY <2>1 DEF Debt
  <2> QED
    BY <1>b, <1>c, <1>f, <2>1, <2>2, PlanKept DEF SurvivalInv
<1> QED
  BY <1>1, <1>2, <1>3, <1>4, <1>5, <1>6, <1>7, <1>8, <1>9, <1>10, <1>11, FilesMoves

LEMMA FilesStart == F!Init => FilesInv
<1> SUFFICES ASSUME F!Init PROVE FilesInv
  OBVIOUS
<1>1. /\ plan \in Plans /\ status = [t \in Task |-> "none"] /\ failures = [t \in Task |-> 0]
      /\ attempt = [t \in Task |-> 0] /\ task = NoTask /\ place = "idle" /\ files = {}
      /\ planKeys = {} /\ secrets = Secret /\ pods = [i \in Image |-> NoPod]
      /\ stored = {} /\ registered = {} /\ ran = <<>> /\ gaps = {} /\ filesFaults = 0
  BY DEF F!Init
<1>2. FilesTyped
  BY <1>1, FilesAssumption DEF FilesTyped, Place, Prepared
<1>3. ArgsInv
  <2>1. \A t \in Task : F!PodOf(t) \in Image
    BY <1>2, TheFunction DEF F!PodOf, F!SettingType
  <2> QED
    BY <1>1, <2>1 DEF ArgsInv, Fed, Prepared
<1>4. OutputsInv
  BY <1>1 DEF OutputsInv, OutputsNamed, AttemptIsFresh, SavedSoFar, DoneHasAll, RegisteredAreStored,
       StoredAreRegistered, Fed, Prepared, Saved
<1>5. KeysInv
  BY <1>1 DEF KeysInv, Secrecy, SecretsWait, Chain, KeysThere, Keyed
<1>6. SurvivalInv
  <2>1. Debt = 0
    BY <1>1 DEF Debt
  <2> QED
    BY <1>1, <2>1, FilesAssumption DEF SurvivalInv
<1> QED
  BY <1>2, <1>3, <1>4, <1>5, <1>6 DEF FilesInv

LEMMA FilesAreKept == F!Spec => []FilesInv
<1>1. FilesInv /\ [F!Next]_(F!vars) => FilesInv'
  BY FilesTypedStep, ArgsStep, OutputsStep, KeysStep, SurvivalStep DEF FilesInv
<1> QED
  BY <1>1, FilesStart, PTL DEF F!Spec

\* When a function starts, its arguments file is its own, the inputs it names are
\* linked and the paths it names are mounted, but in a pod made for other outputs.
THEOREM CommandsFindTheirFiles == F!Spec => []ArgumentsResolve
<1>1. FilesInv => ArgumentsResolve
  <2> SUFFICES ASSUME FilesInv, place = "exec"
               PROVE  /\ args.task = task /\ MyInputs \subseteq files \intersect args.paths
                      /\ \A path \in args.paths : path[1] \in F!Mounted \/ F!SharesPod(task)
    BY DEF ArgumentsResolve, F!ArgumentsResolve, MyInputs
  <2>1. /\ args = [task |-> task, paths |-> MyInputs \union MyPaths] /\ MyInputs \subseteq files
        /\ MyPodIsMade /\ task \in Task /\ FilesTyped
    BY DEF FilesInv, ArgsInv, FilesTyped, Fed
  <2> QED
    BY <2>1, PathsAreMounted
<1> QED
  BY <1>1, FilesAreKept, PTL

\* A task that is done has registered all its outputs, what is registered can be
\* downloaded, what is stored is registered, and the chainkeys a task starts from
\* are those of the tasks done before it, but for the gaps named.
THEOREM OutputsAreWhole == F!Spec => []OutputsHold
<1>1. FilesInv => F!OutputsWhole
  <2> SUFFICES ASSUME FilesInv PROVE F!OutputsWhole
    OBVIOUS
  <2>1. \A t \in Task : status[t] = "done" =>
          \A o \in F!Outputs(t) : \E r \in registered : r[1] = t /\ r[2] = o
    BY DEF FilesInv, OutputsInv, DoneHasAll
  <2>2. "lost" \notin gaps => \A r \in registered : r[2] \in F!Models(r[1]) => r \in stored
    BY DEF FilesInv, OutputsInv, RegisteredAreStored
  <2>3. place = "idle" /\ "orphan" \notin gaps => stored \subseteq registered
    BY DEF FilesInv, OutputsInv, StoredAreRegistered
  <2> QED
    BY <2>1, <2>2, <2>3 DEF F!OutputsWhole
<1>2. FilesInv => F!ChainkeysKept
  BY DEF FilesInv, KeysInv, Secrecy, SecretsWait, Chain, F!ChainkeysKept
<1> QED
  BY <1>1, <1>2, FilesAreKept, PTL DEF OutputsHold

\* A task is failed only by the user's code, by more faults than there are retries,
\* or by what an earlier attempt left half done.
THEOREM FailuresArePaidFor == F!Spec => []FaultsAreSurvived
<1>1. FilesInv => FaultsAreSurvived
  <2> SUFFICES ASSUME FilesInv, NEW t \in Task, status[t] = "failed",
                      gaps \intersect Excuse = {}, ~F!SharesPod(t)
               PROVE  filesFaults > MaxRetries
    BY DEF FaultsAreSurvived, F!FaultsAreSurvived, Excuse
  <2>1. failures[t] + Debt <= filesFaults /\ failures[t] > MaxRetries /\ failures[t] \in Nat /\ Debt \in {0, 1}
    BY DEF FilesInv, SurvivalInv, FilesTyped, Debt
  <2> QED
    BY <2>1, FilesAssumption DEF FilesInv, FilesTyped
<1> QED
  BY <1>1, FilesAreKept, PTL

-----------------------------------------------------------------------------
(* ImageTransfer: a tag names an image of its own; what it names is whole     *)
(* unless the tag was torn; and a task that no fault has hit in its attempt   *)
(* finds what it pushed.                                                      *)

ImagesTyped ==
  /\ deploy \in Deployments
  /\ tagged \in [I!Tag -> Seq(Blob)] /\ todo \in [Task -> Seq(Blob)]
  /\ pushed \in [Task -> BOOLEAN] /\ tried \in [Task -> Nat] /\ met \in [Task -> Nat]
  /\ at \in [Task -> {"ready", "fetch", "push", "look", "pod", "done", "failed"}]
  /\ DOMAIN created = Task

ImageOf(t) == deploy.image[deploy.runs[t]]
TagOfTask(t) == deploy.tag[deploy.runs[t]]

TagsAreOwn ==
  \A tag \in I!Tag : tagged[tag] # <<>> =>
    \E f \in Function : deploy.tag[f] = tag /\ tagged[tag] = deploy.image[f]

TagIsWhole(tag) ==
  tagged[tag] # <<>> =>
    /\ tagged[tag] \in put
    /\ tag \notin torn =>
         /\ I!BlobsOf(tagged[tag]) \subseteq blobs
         /\ marked # <<>> => I!BlobsOf(tagged[tag]) \subseteq marked[1]

PushCompletes(t) ==
  at[t] = "push" /\ t \notin hit =>
    I!BlobsOf(ImageOf(t)) \subseteq blobs \union I!BlobsOf(todo[t])

PushedIsThere(t) ==
  at[t] \in {"look", "pod"} /\ t \notin hit =>
    /\ at[t] = "pod" => tagged[TagOfTask(t)] # <<>>
    /\ pushed[t] \/ ~I!Owned(t) =>
         tagged[TagOfTask(t)] = ImageOf(t) /\ I!BlobsOf(ImageOf(t)) \subseteq blobs

AttemptsAreMet(t) ==
  /\ tried[t] <= MaxRetries
  /\ at[t] \notin {"done", "failed"} => met[t] = tried[t]
  /\ at[t] = "failed" => t \in refused \/ met[t] = MaxRetries + 1

ImagesInv ==
  /\ ImagesTyped /\ TagsAreOwn
  /\ \A tag \in I!Tag : TagIsWhole(tag)
  /\ \A t \in Task :
       /\ PushCompletes(t)
       /\ ~I!SharedTag(t) => PushedIsThere(t) /\ AttemptsAreMet(t)
  /\ I!PodRunsItsArchive

LEMMA DeploymentFacts ==
  ASSUME ImagesTyped
  PROVE  /\ \A f \in Function : /\ deploy.image[f] \in Seq(Blob) /\ deploy.image[f] # <<>>
                                /\ deploy.tag[f] \in I!Tag /\ I!TagOf(f) = deploy.tag[f]
         /\ \A t \in Task :
              /\ deploy.runs[t] \in Function /\ I!FunctionOf(t) = deploy.runs[t]
              /\ ImageOf(t) \in Seq(Blob) /\ ImageOf(t) # <<>>
              /\ TagOfTask(t) \in I!Tag /\ I!TagOf(I!FunctionOf(t)) = TagOfTask(t)
              /\ I!PushList(I!FunctionOf(t)) = ImageOf(t)
              /\ I!Config(ImageOf(t)) \in I!BlobsOf(ImageOf(t))
<1>1. /\ deploy.image \in [Function -> Seq(Blob) \ {<<>>}] /\ deploy.runs \in [Task -> Function]
  BY ImagesAssumption DEF ImagesTyped
<1>2. \A f \in Function : /\ deploy.image[f] \in Seq(Blob) /\ deploy.image[f] # <<>>
                          /\ deploy.tag[f] \in I!Tag /\ I!TagOf(f) = deploy.tag[f]
  BY <1>1 DEF I!Tag, I!TagOf
<1>3. ASSUME NEW m \in Seq(Blob), m # <<>> PROVE I!Config(m) \in I!BlobsOf(m)
  <2>1. Head(m) = m[1] /\ 1 \in DOMAIN m
    BY <1>3, HeadTailProperties, LenProperties, EmptySeq
  <2> QED
    BY <2>1 DEF I!Config, I!BlobsOf, I!ToSet
<1>4. \A t \in Task : deploy.runs[t] \in Function /\ I!FunctionOf(t) = deploy.runs[t]
  BY <1>1 DEF I!FunctionOf
<1>5. \A t \in Task : /\ ImageOf(t) \in Seq(Blob) /\ ImageOf(t) # <<>>
                      /\ TagOfTask(t) \in I!Tag /\ I!TagOf(I!FunctionOf(t)) = TagOfTask(t)
                      /\ I!PushList(I!FunctionOf(t)) = ImageOf(t)
  BY <1>2, <1>4 DEF ImageOf, TagOfTask, I!PushList
<1> QED
  BY <1>2, <1>3, <1>4, <1>5

\* The tag of a task whose image shares its tag with no other names that image.
LEMMA OwnTagNamesTheImage ==
  ASSUME ImagesTyped, TagsAreOwn, NEW t \in Task, ~I!SharedTag(t)
  PROVE  /\ tagged[TagOfTask(t)] # <<>> => tagged[TagOfTask(t)] = ImageOf(t)
         /\ \A f \in Function : deploy.tag[f] = TagOfTask(t) => deploy.image[f] = ImageOf(t)
<1>1. \A f \in Function : deploy.tag[f] = TagOfTask(t) => deploy.image[f] = ImageOf(t)
  BY DeploymentFacts DEF I!SharedTag, I!TagOf, I!FunctionOf, ImageOf, TagOfTask
<1> QED
  BY <1>1, DeploymentFacts DEF TagsAreOwn

LEMMA BlobsOfTail ==
  ASSUME NEW m \in Seq(Blob), m # <<>>
  PROVE  /\ I!BlobsOf(m) = {Head(m)} \union I!BlobsOf(Tail(m))
         /\ Tail(m) \in Seq(Blob)
<1>1. /\ Head(m) = m[1] /\ Tail(m) \in Seq(Blob) /\ Len(m) \in Nat \ {0}
      /\ Len(Tail(m)) = Len(m) - 1 /\ \A i \in 1..Len(Tail(m)) : Tail(m)[i] = m[i + 1]
  BY HeadTailProperties, EmptySeq, LenProperties
<1>2. DOMAIN m = 1..Len(m) /\ DOMAIN Tail(m) = 1..(Len(m) - 1)
  BY <1>1, LenProperties
<1>3. ASSUME NEW i \in 1..Len(m) PROVE m[i] \in {Head(m)} \union I!BlobsOf(Tail(m))
  <2>1. i = 1 \/ i - 1 \in 1..(Len(m) - 1)
    BY <1>1
  <2>2. i - 1 \in 1..(Len(m) - 1) => Tail(m)[i - 1] = m[i]
    BY <1>1
  <2> QED
    BY <1>1, <1>2, <2>1, <2>2 DEF I!BlobsOf, I!ToSet
<1>4. ASSUME NEW i \in 1..(Len(m) - 1) PROVE Tail(m)[i] \in I!BlobsOf(m)
  <2>1. i + 1 \in 1..Len(m) /\ Tail(m)[i] = m[i + 1]
    BY <1>1
  <2> QED
    BY <1>2, <2>1 DEF I!BlobsOf, I!ToSet
<1>5. Head(m) \in I!BlobsOf(m)
  BY <1>1, <1>2 DEF I!BlobsOf, I!ToSet
<1> QED
  BY <1>1, <1>2, <1>3, <1>4, <1>5 DEF I!BlobsOf, I!ToSet

\* What holds of a task stays so when others only add to the registry.
LEMMA TaskKept ==
  ASSUME ImagesTyped, UNCHANGED deploy, NEW t \in Task,
         at'[t] = at[t], todo'[t] = todo[t], pushed'[t] = pushed[t], tried'[t] = tried[t],
         met'[t] = met[t], t \in hit' <=> t \in hit, t \in refused => t \in refused',
         blobs \subseteq blobs',
         \/ tagged'[TagOfTask(t)] = tagged[TagOfTask(t)]
         \/ tagged'[TagOfTask(t)] = ImageOf(t)
  PROVE  /\ PushCompletes(t) => PushCompletes(t)'
         /\ PushedIsThere(t) => PushedIsThere(t)'
         /\ AttemptsAreMet(t) => AttemptsAreMet(t)'
<1>1. ImageOf(t)' = ImageOf(t) /\ TagOfTask(t)' = TagOfTask(t) /\ I!Owned(t)' = I!Owned(t)
  BY DEF ImageOf, TagOfTask, I!Owned, I!FunctionOf
<1>2. PushCompletes(t) => PushCompletes(t)'
  <2>1. I!BlobsOf(todo[t])' = I!BlobsOf(todo[t]) /\ I!BlobsOf(ImageOf(t))' = I!BlobsOf(ImageOf(t))
    BY <1>1 DEF I!BlobsOf, I!ToSet
  <2> QED
    BY <2>1 DEF PushCompletes
<1>3. PushedIsThere(t) => PushedIsThere(t)'
  <2>1. tagged'[TagOfTask(t)'] \in {tagged[TagOfTask(t)], ImageOf(t)}
    BY <1>1
  <2>2. I!BlobsOf(ImageOf(t))' = I!BlobsOf(ImageOf(t))
    BY <1>1 DEF I!BlobsOf, I!ToSet
  <2>3. ImageOf(t) # <<>>
    BY DeploymentFacts
  <2> QED
    BY <1>1, <2>1, <2>2, <2>3 DEF PushedIsThere
<1>4. AttemptsAreMet(t) => AttemptsAreMet(t)'
  BY DEF AttemptsAreMet
<1> QED
  BY <1>2, <1>3, <1>4

\* An attempt that ends after a fault is counted as one that met it.
LEMMA RetryIsMet ==
  ASSUME ImagesTyped, NEW t \in Task, NEW isHit, I!Retry(t, isHit)
  PROVE  /\ at'[t] \in {"ready", "failed"}
         /\ isHit /\ at[t] \notin {"done", "failed"} /\ AttemptsAreMet(t) => AttemptsAreMet(t)'
         /\ \A q \in Task \ {t} : /\ at'[q] = at[q] /\ tried'[q] = tried[q] /\ met'[q] = met[q]
                                  /\ q \in hit' <=> q \in hit
         /\ at' \in [Task -> {"ready", "fetch", "push", "look", "pod", "done", "failed"}]
         /\ tried' \in [Task -> Nat] /\ met' \in [Task -> Nat]
<1> USE ImagesAssumption DEF ImagesTyped, I!Retry, I!Goto
<1>1. /\ at'[t] \in {"ready", "failed"}
      /\ at' \in [Task -> {"ready", "fetch", "push", "look", "pod", "done", "failed"}]
  OBVIOUS
<1>2. \A q \in Task \ {t} : /\ at'[q] = at[q] /\ tried'[q] = tried[q] /\ met'[q] = met[q]
                            /\ q \in hit' <=> q \in hit
  OBVIOUS
<1>3. tried' \in [Task -> Nat]
  <2>1. tried[t] + 1 \in Nat
    OBVIOUS
  <2> QED
    BY <2>1
<1>4. met' \in [Task -> Nat]
  <2>1. met[t] + 1 \in Nat
    OBVIOUS
  <2> QED
    BY <2>1
<1>5. ASSUME isHit, at[t] \notin {"done", "failed"}, AttemptsAreMet(t)
      PROVE  AttemptsAreMet(t)'
  <2>1. met'[t] = met[t] + 1 /\ met[t] = tried[t] /\ tried[t] <= MaxRetries
    BY <1>5 DEF AttemptsAreMet
  <2>2. CASE tried[t] < MaxRetries
    BY <2>1, <2>2 DEF AttemptsAreMet
  <2>3. CASE ~(tried[t] < MaxRetries)
    BY <2>1, <2>3 DEF AttemptsAreMet
  <2> QED
    BY <2>2, <2>3
<1> QED
  BY <1>1, <1>2, <1>3, <1>4, <1>5

LEMMA ImagesInit == I!Init => ImagesInv
<1> SUFFICES ASSUME I!Init PROVE ImagesInv
  OBVIOUS
<1>0. /\ deploy \in Deployments /\ put = {deploy.image[f] : f \in deploy.owned}
      /\ blobs = UNION {I!BlobsOf(m) : m \in put}
      /\ marked = <<>> /\ at = [t \in Task |-> "ready"] /\ hit = {}
      /\ todo = [t \in Task |-> <<>>] /\ pushed = [t \in Task |-> FALSE]
      /\ tried = [t \in Task |-> 0] /\ met = [t \in Task |-> 0] /\ created = [t \in Task |-> <<>>]
  BY DEF I!Init, I!NoImage
<1>1. /\ deploy.image \in [Function -> Seq(Blob) \ {<<>>}] /\ deploy.owned \subseteq Function
  BY <1>0, ImagesAssumption
<1>2. ASSUME NEW tag \in I!Tag
      PROVE  \/ tagged[tag] = <<>>
             \/ \E f \in deploy.owned : deploy.tag[f] = tag /\ tagged[tag] = deploy.image[f]
  <2>1. tagged[tag] = IF \E f \in deploy.owned : I!TagOf(f) = tag
           THEN deploy.image[CHOOSE f \in deploy.owned : I!TagOf(f) = tag] ELSE <<>>
    BY DEF I!Init, I!NoImage
  <2> QED
    BY <2>1 DEF I!TagOf
<1>3. ImagesTyped
  <2>1. tagged \in [I!Tag -> Seq(Blob)]
    <3>1. \A tag \in I!Tag : tagged[tag] \in Seq(Blob)
      <4> TAKE tag \in I!Tag
      <4>1. \A f \in deploy.owned : deploy.image[f] \in Seq(Blob)
        BY <1>1
      <4>2. <<>> \in Seq(Blob)
        BY EmptySeq
      <4> QED
        BY <1>2, <4>1, <4>2
    <3>2. DOMAIN tagged = I!Tag /\ tagged = [tag \in I!Tag |-> tagged[tag]]
      BY DEF I!Init
    <3> QED
      BY <3>1, <3>2
  <2>2. todo \in [Task -> Seq(Blob)]
    BY <1>0, EmptySeq
  <2>3. pushed \in [Task -> BOOLEAN] /\ tried \in [Task -> Nat] /\ met \in [Task -> Nat]
    BY <1>0
  <2>4. /\ at \in [Task -> {"ready", "fetch", "push", "look", "pod", "done", "failed"}]
        /\ DOMAIN created = Task
    BY <1>0
  <2> QED
    BY <1>0, <2>1, <2>2, <2>3, <2>4 DEF ImagesTyped
<1>4. TagsAreOwn
  <2> SUFFICES ASSUME NEW tag \in I!Tag, tagged[tag] # <<>>
               PROVE  \E f \in Function : deploy.tag[f] = tag /\ tagged[tag] = deploy.image[f]
    BY DEF TagsAreOwn
  <2> QED
    BY <1>1, <1>2
<1>5. ASSUME NEW tag \in I!Tag PROVE TagIsWhole(tag)
  <2>1. tagged[tag] # <<>> => tagged[tag] \in put
    BY <1>0, <1>2
  <2> QED
    BY <1>0, <2>1 DEF TagIsWhole
<1>6. ASSUME NEW t \in Task PROVE PushCompletes(t) /\ PushedIsThere(t) /\ AttemptsAreMet(t)
  BY <1>0, ImagesAssumption DEF PushCompletes, PushedIsThere, AttemptsAreMet
<1>7. I!PodRunsItsArchive
  BY <1>0 DEF I!PodRunsItsArchive, I!NoImage
<1> QED
  BY <1>3, <1>4, <1>5, <1>6, <1>7 DEF ImagesInv

LEMMA ImagesStep == ImagesInv /\ [I!Next]_(I!vars) => ImagesInv'
<1> SUFFICES ASSUME ImagesInv, [I!Next]_(I!vars)
             PROVE  ImagesInv'
  OBVIOUS
<1> USE DEF I!registry, I!history, I!Keep
<1>t. ImagesTyped
  BY DEF ImagesInv
<1>o. TagsAreOwn
  BY DEF ImagesInv
<1>w. \A tag \in I!Tag : TagIsWhole(tag)
  BY DEF ImagesInv
<1>p. \A t \in Task : PushCompletes(t)
  BY DEF ImagesInv
<1>q. \A t \in Task : ~I!SharedTag(t) => PushedIsThere(t) /\ AttemptsAreMet(t)
  BY DEF ImagesInv
<1>r. I!PodRunsItsArchive
  BY DEF ImagesInv
<1>u. UNCHANGED deploy
  BY DEF I!Next, I!vars, I!Work, I!Receive, I!Fetch, I!PushBlob, I!PushManifest, I!LookEntrypoint,
         I!PushSaved, I!NotFound, I!CreatePod, I!PullFails, I!FetchFails, I!FetchRefused, I!Save,
         I!Scan, I!Mark, I!Sweep, I!LoseRegistry
<1>c. /\ I!Tag' = I!Tag
      /\ \A t \in Task : /\ ImageOf(t)' = ImageOf(t) /\ TagOfTask(t)' = TagOfTask(t)
                         /\ (I!SharedTag(t)' <=> I!SharedTag(t)) /\ (I!Owned(t)' <=> I!Owned(t))
  BY <1>u DEF I!Tag, ImageOf, TagOfTask, I!SharedTag, I!TagOf, I!FunctionOf, I!Owned
\* The registry, its marks and the pods stay as they are.
<1>k. ASSUME UNCHANGED <<tagged, torn, put, marked>>, blobs \subseteq blobs'
      PROVE  TagsAreOwn' /\ \A tag \in I!Tag' : TagIsWhole(tag)'
  <2>1. TagsAreOwn'
    BY <1>o, <1>u, <1>c, <1>k DEF TagsAreOwn
  <2>2. ASSUME NEW tag \in I!Tag PROVE TagIsWhole(tag)'
    <3>1. I!BlobsOf(tagged[tag])' = I!BlobsOf(tagged[tag])
      BY <1>k DEF I!BlobsOf, I!ToSet
    <3> QED
      BY <1>w, <1>k, <3>1 DEF TagIsWhole
  <2> QED
    BY <1>c, <2>1, <2>2
<1>l. ASSUME UNCHANGED created PROVE I!PodRunsItsArchive'
  BY <1>r, <1>u, <1>l DEF I!PodRunsItsArchive, I!FunctionOf, I!NoImage
\* One task moves and only adds to the registry.
<1>m. ASSUME NEW t \in Task, ImagesTyped', TagsAreOwn', \A tag \in I!Tag' : TagIsWhole(tag)',
             I!PodRunsItsArchive',
             blobs \subseteq blobs',
             \A q \in Task \ {t} :
               /\ at'[q] = at[q] /\ todo'[q] = todo[q] /\ pushed'[q] = pushed[q]
               /\ tried'[q] = tried[q] /\ met'[q] = met[q]
               /\ q \in hit' <=> q \in hit
               /\ q \in refused => q \in refused'
             , \A q \in Task \ {t} : ~I!SharedTag(q) =>
                 \/ tagged'[TagOfTask(q)] = tagged[TagOfTask(q)]
                 \/ tagged'[TagOfTask(q)] = ImageOf(q),
             PushCompletes(t)',
             ~I!SharedTag(t) => PushedIsThere(t)' /\ AttemptsAreMet(t)'
      PROVE  ImagesInv'
  <2> SUFFICES ASSUME NEW q \in Task \ {t}
               PROVE  PushCompletes(q)' /\ (~I!SharedTag(q) => PushedIsThere(q)' /\ AttemptsAreMet(q)')
    BY <1>m, <1>c DEF ImagesInv
  <2>1. ~I!SharedTag(q) => PushedIsThere(q)' /\ AttemptsAreMet(q)'
    BY <1>m, <1>t, <1>u, <1>q, TaskKept
  <2>2. PushCompletes(q)'
    <3>1. I!BlobsOf(todo[q])' = I!BlobsOf(todo[q]) /\ I!BlobsOf(ImageOf(q))' = I!BlobsOf(ImageOf(q))
      BY <1>m, <1>c DEF I!BlobsOf, I!ToSet
    <3> QED
      BY <1>m, <1>p, <3>1 DEF PushCompletes
  <2> QED
    BY <2>1, <2>2

\* The registry, its marks and the pods stay; one task moves.
<1>n. ASSUME NEW t \in Task, ImagesTyped', UNCHANGED <<tagged, torn, put, marked, created>>,
             blobs \subseteq blobs',
             \A q \in Task \ {t} :
               /\ at'[q] = at[q] /\ todo'[q] = todo[q] /\ pushed'[q] = pushed[q]
               /\ tried'[q] = tried[q] /\ met'[q] = met[q]
               /\ q \in hit' <=> q \in hit
               /\ q \in refused => q \in refused',
             PushCompletes(t)', ~I!SharedTag(t) => PushedIsThere(t)' /\ AttemptsAreMet(t)'
      PROVE  ImagesInv'
  <2>1. TagsAreOwn' /\ \A tag \in I!Tag' : TagIsWhole(tag)'
    BY <1>k, <1>n
  <2>2. I!PodRunsItsArchive'
    BY <1>l, <1>n
  <2>3. \A q \in Task \ {t} : ~I!SharedTag(q) => \/ tagged'[TagOfTask(q)] = tagged[TagOfTask(q)]
                                                 \/ tagged'[TagOfTask(q)] = ImageOf(q)
    BY <1>n
  <2> QED
    BY <1>m, <1>n, <2>1, <2>2, <2>3
\* A task goes on to the next step of its attempt.
<1>g. ASSUME NEW t \in Task, NEW step \in {"look", "fetch", "push", "pod"},
             at' = [at EXCEPT ![t] = step], at[t] \in {"ready", "look", "fetch", "push", "pod"},
             UNCHANGED <<tagged, torn, put, marked, created, tried, met, hit, refused>>,
             blobs \subseteq blobs',
             todo' \in [Task -> Seq(Blob)], pushed' \in [Task -> BOOLEAN],
             \A q \in Task \ {t} : todo'[q] = todo[q] /\ pushed'[q] = pushed[q],
             PushCompletes(t)', ~I!SharedTag(t) => PushedIsThere(t)'
      PROVE  ImagesInv'
  <2>1. at' \in [Task -> {"ready", "fetch", "push", "look", "pod", "done", "failed"}]
    BY <1>g, <1>t DEF ImagesTyped
  <2>2. ImagesTyped'
    BY <1>g, <1>t, <1>u, <1>c, <2>1 DEF ImagesTyped
  <2>3. \A q \in Task \ {t} : at'[q] = at[q]
    BY <1>g, <1>t DEF ImagesTyped
  <2>4. at'[t] = step
    BY <1>g, <1>t DEF ImagesTyped
  <2>5. AttemptsAreMet(t) => AttemptsAreMet(t)'
    BY <1>g, <2>4 DEF AttemptsAreMet
  <2> QED
    BY <1>g, <1>n, <1>q, <2>2, <2>3, <2>5
\* An attempt ends.
<1>e. ASSUME NEW t \in Task, NEW isHit, I!Retry(t, isHit), at[t] \in {"fetch", "push", "look", "pod"},
             ~I!SharedTag(t) => isHit,
             UNCHANGED <<tagged, torn, put, marked, created, blobs, todo, pushed, refused>>
      PROVE  ImagesInv'
  <2>1. /\ at'[t] \in {"ready", "failed"}
        /\ isHit /\ at[t] \notin {"done", "failed"} /\ AttemptsAreMet(t) => AttemptsAreMet(t)'
        /\ \A q \in Task \ {t} : /\ at'[q] = at[q] /\ tried'[q] = tried[q] /\ met'[q] = met[q]
                                 /\ q \in hit' <=> q \in hit
        /\ at' \in [Task -> {"ready", "fetch", "push", "look", "pod", "done", "failed"}]
        /\ tried' \in [Task -> Nat] /\ met' \in [Task -> Nat]
    BY <1>e, <1>t, RetryIsMet
  <2>2. ImagesTyped'
    BY <1>e, <1>t, <1>u, <1>c, <2>1 DEF ImagesTyped
  <2>3. PushCompletes(t)' /\ PushedIsThere(t)'
    BY <2>1 DEF PushCompletes, PushedIsThere
  <2>4. ~I!SharedTag(t) => AttemptsAreMet(t)'
    BY <1>e, <1>q, <2>1
  <2> QED
    BY <1>e, <1>n, <2>1, <2>2, <2>3, <2>4
<1>1. ASSUME NEW t \in Task, I!Receive(t) PROVE ImagesInv'
  <2>1. /\ at' = [at EXCEPT ![t] = IF I!Owned(t) THEN "look" ELSE "fetch"] /\ at[t] = "ready"
        /\ pushed' = [pushed EXCEPT ![t] = FALSE] /\ todo' = [todo EXCEPT ![t] = <<>>]
        /\ UNCHANGED <<tagged, torn, put, marked, created, tried, met, hit, refused, blobs>>
    BY <1>1 DEF I!Receive, I!Goto
  <2>2. PICK step \in {"look", "fetch"} : /\ at' = [at EXCEPT ![t] = step]
                                          /\ step = "look" => I!Owned(t)
    BY <2>1
  <2>3. at'[t] = step /\ pushed'[t] = FALSE
    BY <1>t, <2>1, <2>2 DEF ImagesTyped
  <2>4. /\ todo' \in [Task -> Seq(Blob)] /\ pushed' \in [Task -> BOOLEAN]
        /\ \A q \in Task \ {t} : todo'[q] = todo[q] /\ pushed'[q] = pushed[q]
    <3>1. <<>> \in Seq(Blob)
      BY EmptySeq
    <3> QED
      BY <1>t, <2>1, <3>1 DEF ImagesTyped
  <2>5. PushCompletes(t)' /\ PushedIsThere(t)'
    BY <1>c, <2>2, <2>3 DEF PushCompletes, PushedIsThere
  <2> QED
    BY <1>g, <2>1, <2>2, <2>4, <2>5
<1>2. ASSUME NEW t \in Task, I!Fetch(t) PROVE ImagesInv'
  <2>1. /\ at' = [at EXCEPT ![t] = "push"] /\ at[t] = "fetch"
        /\ todo' = [todo EXCEPT ![t] = ImageOf(t)]
        /\ UNCHANGED <<tagged, torn, put, marked, created, tried, met, hit, refused, blobs, pushed>>
    BY <1>t, <1>2, DeploymentFacts DEF I!Fetch, I!Goto
  <2>2. /\ at'[t] = "push" /\ todo'[t] = ImageOf(t)
        /\ \A q \in Task \ {t} : todo'[q] = todo[q]
    BY <1>t, <2>1 DEF ImagesTyped
  <2>3. todo' \in [Task -> Seq(Blob)] /\ pushed' \in [Task -> BOOLEAN]
    BY <1>t, <2>1, DeploymentFacts DEF ImagesTyped
  <2>4. PushCompletes(t)' /\ PushedIsThere(t)'
    <3>1. I!BlobsOf(todo[t])' = I!BlobsOf(ImageOf(t)) /\ I!BlobsOf(ImageOf(t))' = I!BlobsOf(ImageOf(t))
      BY <1>c, <2>2 DEF I!BlobsOf, I!ToSet
    <3> QED
      BY <2>2, <3>1 DEF PushCompletes, PushedIsThere
  <2> QED
    BY <1>g, <2>1, <2>2, <2>3, <2>4
<1>3. ASSUME NEW t \in Task, I!FetchFails(t) PROVE ImagesInv'
  <2>1. I!Retry(t, TRUE) /\ at[t] = "fetch"
        /\ UNCHANGED <<tagged, torn, put, marked, created, blobs, todo, pushed, refused>>
    BY <1>3 DEF I!FetchFails
  <2> QED
    BY <1>e, <2>1
<1>4. ASSUME NEW t \in Task, I!FetchRefused(t) PROVE ImagesInv'
  <2>1. /\ at' = [at EXCEPT ![t] = "failed"] /\ at[t] = "fetch" /\ refused' = refused \union {t}
        /\ UNCHANGED <<tagged, torn, put, marked, created, tried, met, hit, blobs, todo, pushed>>
    BY <1>4 DEF I!FetchRefused, I!Goto
  <2>2. /\ at' \in [Task -> {"ready", "fetch", "push", "look", "pod", "done", "failed"}]
        /\ at'[t] = "failed" /\ \A q \in Task \ {t} : at'[q] = at[q]
    BY <1>t, <2>1 DEF ImagesTyped
  <2>3. ImagesTyped'
    BY <1>t, <1>u, <1>c, <2>1, <2>2 DEF ImagesTyped
  <2>4. PushCompletes(t)' /\ PushedIsThere(t)' /\ (AttemptsAreMet(t) => AttemptsAreMet(t)')
    BY <2>1, <2>2 DEF PushCompletes, PushedIsThere, AttemptsAreMet
  <2> QED
    BY <1>n, <1>q, <2>1, <2>2, <2>3, <2>4
<1>5. ASSUME NEW t \in Task, I!PushBlob(t) PROVE ImagesInv'
  <2>1. /\ at[t] = "push" /\ todo[t] # <<>> /\ blobs' = blobs \union {Head(todo[t])}
        /\ todo' = [todo EXCEPT ![t] = Tail(todo[t])]
        /\ UNCHANGED <<tagged, torn, put, marked, created, tried, met, hit, refused, pushed, at>>
    BY <1>5 DEF I!PushBlob
  <2>2. at' = [at EXCEPT ![t] = "push"]
    BY <1>t, <2>1 DEF ImagesTyped
  <2>3. /\ todo'[t] = Tail(todo[t]) /\ \A q \in Task \ {t} : todo'[q] = todo[q]
        /\ todo[t] \in Seq(Blob)
    BY <1>t, <2>1 DEF ImagesTyped
  <2>4. Tail(todo[t]) \in Seq(Blob) /\ I!BlobsOf(todo[t]) = {Head(todo[t])} \union I!BlobsOf(Tail(todo[t]))
    BY <2>1, <2>3, BlobsOfTail
  <2>5. todo' \in [Task -> Seq(Blob)] /\ pushed' \in [Task -> BOOLEAN]
    BY <1>t, <2>1, <2>4 DEF ImagesTyped
  <2>6. PushCompletes(t)' /\ PushedIsThere(t)'
    <3>1. I!BlobsOf(todo[t])' = I!BlobsOf(Tail(todo[t])) /\ I!BlobsOf(ImageOf(t))' = I!BlobsOf(ImageOf(t))
      BY <1>c, <2>3 DEF I!BlobsOf, I!ToSet
    <3> QED
      BY <1>p, <2>1, <2>4, <3>1 DEF PushCompletes, PushedIsThere
  <2> QED
    BY <1>g, <2>1, <2>2, <2>3, <2>5, <2>6
<1>6. ASSUME NEW t \in Task, I!PushManifest(t) PROVE ImagesInv'
  <2>0. at[t] = "push" /\ todo[t] = <<>>
        /\ UNCHANGED <<blobs, marked, todo, pushed, refused, created>>
    BY <1>6 DEF I!PushManifest
  <2>1. CASE ~(I!BlobsOf(ImageOf(t)) \subseteq blobs)
    <3>1. I!Retry(t, t \in hit) /\ UNCHANGED <<tagged, put, torn>>
      BY <1>6, <2>1 DEF I!PushManifest, ImageOf, I!FunctionOf
    <3>2. t \in hit
      <4>1. I!BlobsOf(todo[t]) = {}
        BY <2>0 DEF I!BlobsOf, I!ToSet
      <4> QED
        BY <1>p, <2>0, <2>1, <4>1 DEF PushCompletes
    <3> QED
      BY <1>e, <2>0, <3>1, <3>2
  <2>2. CASE I!BlobsOf(ImageOf(t)) \subseteq blobs
    <3>1. /\ tagged' = [tagged EXCEPT ![TagOfTask(t)] = ImageOf(t)]
          /\ put' = put \union {ImageOf(t)}
          /\ torn' = IF marked # <<>> /\ ~ (I!BlobsOf(ImageOf(t)) \subseteq marked[1])
                         THEN torn \union {TagOfTask(t)} ELSE torn \ {TagOfTask(t)}
          /\ at' = [at EXCEPT ![t] = "look"] /\ UNCHANGED <<tried, met, hit>>
      BY <1>6, <2>2 DEF I!PushManifest, ImageOf, TagOfTask, I!TagOf, I!FunctionOf, I!Goto, I!Collecting
    <3>2. /\ TagOfTask(t) \in I!Tag /\ ImageOf(t) \in Seq(Blob) /\ ImageOf(t) # <<>>
          /\ deploy.runs[t] \in Function
      BY <1>t, DeploymentFacts
    <3>3. /\ at' \in [Task -> {"ready", "fetch", "push", "look", "pod", "done", "failed"}]
          /\ at'[t] = "look" /\ \A q \in Task \ {t} : at'[q] = at[q]
          /\ tagged' \in [I!Tag -> Seq(Blob)] /\ tagged'[TagOfTask(t)] = ImageOf(t)
          /\ \A tag \in I!Tag \ {TagOfTask(t)} : tagged'[tag] = tagged[tag]
      BY <1>t, <3>1, <3>2 DEF ImagesTyped
    <3>4. ImagesTyped'
      BY <1>t, <1>u, <1>c, <2>0, <3>1, <3>3 DEF ImagesTyped
    <3>5. TagsAreOwn'
      <4> SUFFICES ASSUME NEW tag \in I!Tag, tagged'[tag] # <<>>
                   PROVE  \E f \in Function : deploy.tag[f] = tag /\ tagged'[tag] = deploy.image[f]
        BY <1>c, <1>u DEF TagsAreOwn
      <4>1. CASE tag = TagOfTask(t)
        BY <3>2, <3>3, <4>1 DEF TagOfTask, ImageOf
      <4>2. CASE tag # TagOfTask(t)
        BY <1>o, <3>3, <4>2 DEF TagsAreOwn
      <4> QED
        BY <4>1, <4>2
    <3>6. ASSUME NEW tag \in I!Tag PROVE TagIsWhole(tag)'
      <4>1. CASE tag = TagOfTask(t)
        <5>1. I!BlobsOf(tagged[tag])' = I!BlobsOf(ImageOf(t))
          BY <3>3, <4>1 DEF I!BlobsOf, I!ToSet
        <5>2. tagged'[tag] \in put'
          BY <3>1, <3>3, <4>1
        <5>3. tag \notin torn' => (marked # <<>> => I!BlobsOf(ImageOf(t)) \subseteq marked[1])
          BY <3>1, <4>1
        <5> QED
          BY <2>0, <2>2, <5>1, <5>2, <5>3 DEF TagIsWhole
      <4>2. CASE tag # TagOfTask(t)
        <5>1. tagged'[tag] = tagged[tag] /\ (tag \in torn' <=> tag \in torn)
          BY <3>1, <3>3, <4>2
        <5>2. I!BlobsOf(tagged[tag])' = I!BlobsOf(tagged[tag])
          BY <5>1 DEF I!BlobsOf, I!ToSet
        <5>3. put \subseteq put'
          BY <3>1
        <5> QED
          BY <1>w, <2>0, <5>1, <5>2, <5>3 DEF TagIsWhole
      <4> QED
        BY <4>1, <4>2
    <3>7. I!PodRunsItsArchive'
      BY <1>l, <2>0
    <3>8. ASSUME NEW q \in Task \ {t}, ~I!SharedTag(q)
          PROVE  \/ tagged'[TagOfTask(q)] = tagged[TagOfTask(q)]
                 \/ tagged'[TagOfTask(q)] = ImageOf(q)
      <4>1. CASE TagOfTask(q) = TagOfTask(t)
        <5>1. deploy.image[deploy.runs[t]] = ImageOf(q)
          BY <1>t, <1>o, <3>2, <3>8, <4>1, OwnTagNamesTheImage DEF TagOfTask
        <5> QED
          BY <3>3, <4>1, <5>1 DEF ImageOf
      <4>2. CASE TagOfTask(q) # TagOfTask(t)
        BY <1>t, <3>3, <4>2, DeploymentFacts
      <4> QED
        BY <4>1, <4>2
    <3>9. PushCompletes(t)' /\ PushedIsThere(t)'
      <4>1. I!BlobsOf(ImageOf(t))' = I!BlobsOf(ImageOf(t)) /\ tagged'[TagOfTask(t)'] = ImageOf(t)'
        BY <1>c, <3>3 DEF I!BlobsOf, I!ToSet
      <4>2. ImageOf(t)' # <<>>
        BY <1>c, <3>2
      <4> QED
        BY <2>0, <2>2, <3>3, <4>1, <4>2 DEF PushCompletes, PushedIsThere
    <3>10. AttemptsAreMet(t) => AttemptsAreMet(t)'
      BY <2>0, <3>1, <3>3 DEF AttemptsAreMet
    <3> QED
      BY <1>c, <1>m, <1>q, <2>0, <3>1, <3>3, <3>4, <3>5, <3>6, <3>7, <3>8, <3>9, <3>10
  <2> QED
    BY <2>1, <2>2
<1>7. ASSUME NEW t \in Task, I!LookEntrypoint(t) PROVE ImagesInv'
  <2>1. /\ at' = [at EXCEPT ![t] = "pod"] /\ at[t] = "look" /\ I!HasEntrypoint(t)
        /\ UNCHANGED <<tagged, torn, put, marked, created, tried, met, hit, refused, blobs, todo, pushed>>
    BY <1>7 DEF I!LookEntrypoint, I!Goto
  <2>2. at'[t] = "pod" /\ tagged[TagOfTask(t)] # <<>>
    BY <1>t, <2>1 DEF ImagesTyped, I!HasEntrypoint, I!Serves, I!NoImage, TagOfTask, I!TagOf, I!FunctionOf
  <2>3. todo' \in [Task -> Seq(Blob)] /\ pushed' \in [Task -> BOOLEAN]
    BY <1>t, <2>1 DEF ImagesTyped
  <2>4. PushCompletes(t)'
    BY <2>2 DEF PushCompletes
  <2>5. PushedIsThere(t) => PushedIsThere(t)'
    <3>1. I!BlobsOf(ImageOf(t))' = I!BlobsOf(ImageOf(t)) /\ tagged'[TagOfTask(t)'] = tagged[TagOfTask(t)]
      BY <1>c, <2>1 DEF I!BlobsOf, I!ToSet
    <3> QED
      BY <1>c, <2>1, <2>2, <3>1 DEF PushedIsThere
  <2> QED
    BY <1>g, <1>q, <2>1, <2>3, <2>4, <2>5
<1>8. ASSUME NEW t \in Task, I!PushSaved(t) PROVE ImagesInv'
  <2>1. /\ at' = [at EXCEPT ![t] = "push"] /\ at[t] = "look"
        /\ todo' = [todo EXCEPT ![t] = ImageOf(t)] /\ pushed' = [pushed EXCEPT ![t] = TRUE]
        /\ UNCHANGED <<tagged, torn, put, marked, created, tried, met, hit, refused, blobs>>
    BY <1>t, <1>8, DeploymentFacts DEF I!PushSaved, I!Goto
  <2>2. /\ at'[t] = "push" /\ todo'[t] = ImageOf(t)
        /\ \A q \in Task \ {t} : todo'[q] = todo[q] /\ pushed'[q] = pushed[q]
    BY <1>t, <2>1 DEF ImagesTyped
  <2>3. todo' \in [Task -> Seq(Blob)] /\ pushed' \in [Task -> BOOLEAN]
    BY <1>t, <2>1, DeploymentFacts DEF ImagesTyped
  <2>4. PushCompletes(t)' /\ PushedIsThere(t)'
    <3>1. I!BlobsOf(todo[t])' = I!BlobsOf(ImageOf(t)) /\ I!BlobsOf(ImageOf(t))' = I!BlobsOf(ImageOf(t))
      BY <1>c, <2>2 DEF I!BlobsOf, I!ToSet
    <3> QED
      BY <2>2, <3>1 DEF PushCompletes, PushedIsThere
  <2> QED
    BY <1>g, <2>1, <2>2, <2>3, <2>4
<1>9. ASSUME NEW t \in Task, I!NotFound(t) PROVE ImagesInv'
  <2>1. /\ at[t] = "look" /\ ~I!HasEntrypoint(t) /\ (~I!Owned(t) \/ pushed[t])
        /\ I!Retry(t, t \in hit \/ I!Unscanned(TagOfTask(t)))
        /\ UNCHANGED <<tagged, torn, put, marked, created, blobs, todo, pushed, refused>>
    BY <1>t, <1>9, DeploymentFacts DEF I!NotFound
  <2>2. ASSUME ~I!SharedTag(t), t \notin hit PROVE I!Unscanned(TagOfTask(t))
    <3>1. tagged[TagOfTask(t)] = ImageOf(t) /\ I!BlobsOf(ImageOf(t)) \subseteq blobs
      BY <1>q, <2>1, <2>2 DEF PushedIsThere
    <3>2. I!Config(ImageOf(t)) \in blobs /\ ImageOf(t) # <<>>
      BY <1>t, <3>1, DeploymentFacts
    <3>3. ~I!Serves(TagOfTask(t))
      BY <1>t, <2>1, <3>1, <3>2, DeploymentFacts DEF I!HasEntrypoint
    <3> QED
      BY <3>1, <3>2, <3>3 DEF I!Unscanned, I!NoImage
  <2> QED
    BY <1>e, <2>1, <2>2
<1>10. ASSUME NEW t \in Task, I!CreatePod(t) PROVE ImagesInv'
  <2>1. /\ at[t] = "pod" /\ at' = [at EXCEPT ![t] = "done"]
        /\ created' = [created EXCEPT ![t] = tagged[TagOfTask(t)]] /\ tagged[TagOfTask(t)] # <<>>
        /\ UNCHANGED <<tagged, torn, put, marked, tried, met, hit, refused, blobs, todo, pushed>>
    BY <1>10 DEF I!CreatePod, I!Goto, I!NoImage, TagOfTask, I!TagOf, I!FunctionOf
  <2>2. /\ at' \in [Task -> {"ready", "fetch", "push", "look", "pod", "done", "failed"}]
        /\ at'[t] = "done" /\ \A q \in Task \ {t} : at'[q] = at[q]
        /\ created'[t] = tagged[TagOfTask(t)] /\ \A q \in Task \ {t} : created'[q] = created[q]
        /\ DOMAIN created' = Task
    BY <1>t, <2>1 DEF ImagesTyped
  <2>3. ImagesTyped'
    BY <1>t, <1>u, <1>c, <2>1, <2>2 DEF ImagesTyped
  <2>4. I!PodRunsItsArchive'
    <3>1. \E f \in Function : deploy.tag[f] = TagOfTask(t) /\ tagged[TagOfTask(t)] = deploy.image[f]
      BY <1>t, <1>o, <2>1, DeploymentFacts DEF TagsAreOwn
    <3> SUFFICES ASSUME NEW q \in Task, created'[q] # <<>>
                 PROVE  \E f \in Function : deploy.tag[f] = TagOfTask(q) /\ created'[q] = deploy.image[f]
      BY <1>u DEF I!PodRunsItsArchive, I!NoImage, I!FunctionOf, TagOfTask
    <3>2. CASE q = t
      BY <2>2, <3>1, <3>2
    <3>3. CASE q # t
      BY <1>r, <2>2, <3>3 DEF I!PodRunsItsArchive, I!NoImage, I!FunctionOf, TagOfTask
    <3> QED
      BY <3>2, <3>3
  <2>5. PushCompletes(t)' /\ PushedIsThere(t)' /\ (AttemptsAreMet(t) => AttemptsAreMet(t)')
    BY <2>1, <2>2 DEF PushCompletes, PushedIsThere, AttemptsAreMet
  <2>6. TagsAreOwn' /\ \A tag \in I!Tag' : TagIsWhole(tag)'
    BY <1>k, <2>1
  <2> QED
    BY <1>m, <1>q, <2>1, <2>2, <2>3, <2>4, <2>5, <2>6
<1>11. ASSUME NEW t \in Task, I!PullFails(t) PROVE ImagesInv'
  <2>1. /\ at[t] = "pod" /\ I!Retry(t, t \in hit \/ I!Stuck(t))
        /\ tagged[TagOfTask(t)] = <<>> \/ ~(I!BlobsOf(tagged[TagOfTask(t)]) \subseteq blobs)
        /\ UNCHANGED <<tagged, torn, put, marked, created, blobs, todo, pushed, refused>>
    BY <1>t, <1>11, DeploymentFacts DEF I!PullFails, I!NoImage
  <2>2. ASSUME ~I!SharedTag(t), t \notin hit PROVE I!Stuck(t)
    <3>1. PushedIsThere(t) /\ tagged[TagOfTask(t)] # <<>>
      BY <1>q, <2>1, <2>2 DEF PushedIsThere
    <3>2. I!Owned(t)
      BY <2>1, <2>2, <3>1 DEF PushedIsThere
    <3>3. TagOfTask(t) \in torn
      BY <1>t, <1>w, <2>1, <3>1, DeploymentFacts DEF TagIsWhole
    <3> QED
      BY <1>t, <3>2, <3>3, DeploymentFacts DEF I!Stuck
  <2> QED
    BY <1>e, <2>1, <2>2
\* Nothing that the invariant reads changes.
<1>s. ASSUME UNCHANGED <<deploy, blobs, tagged, put, marked, at, todo, pushed, tried, met, hit,
                         refused, torn, created>>
      PROVE  ImagesInv'
  <2>1. ImagesTyped'
    BY <1>t, <1>c, <1>s DEF ImagesTyped
  <2>2. ASSUME NEW q \in Task
        PROVE  PushCompletes(q)' /\ (~I!SharedTag(q) => PushedIsThere(q)' /\ AttemptsAreMet(q)')
    BY <1>s, <1>t, <1>p, <1>q, TaskKept
  <2> QED
    BY <1>c, <1>k, <1>l, <1>s, <2>1, <2>2 DEF ImagesInv
<1>12. ASSUME NEW f \in Function, I!Save(f) PROVE ImagesInv'
  BY <1>12, <1>s DEF I!Save
<1>13. ASSUME NEW tag \in I!Tag, I!Scan(tag) PROVE ImagesInv'
  BY <1>13, <1>s DEF I!Scan
<1>14. ASSUME I!Mark PROVE ImagesInv'
  <2>1. /\ marked = <<>> /\ marked' = <<UNION {I!BlobsOf(m) : m \in put}>>
        /\ UNCHANGED <<blobs, tagged, put, at, todo, pushed, tried, met, hit, refused, torn, created>>
    BY <1>14 DEF I!Mark, I!Collecting
  <2>2. ImagesTyped'
    BY <1>t, <1>u, <1>c, <2>1 DEF ImagesTyped
  <2>3. TagsAreOwn'
    BY <1>o, <1>u, <1>c, <2>1 DEF TagsAreOwn
  <2>4. ASSUME NEW tag \in I!Tag PROVE TagIsWhole(tag)'
    <3>1. I!BlobsOf(tagged[tag])' = I!BlobsOf(tagged[tag])
      BY <2>1 DEF I!BlobsOf, I!ToSet
    <3>2. tagged[tag] \in put => I!BlobsOf(tagged[tag]) \subseteq marked'[1]
      BY <2>1
    <3> QED
      BY <1>w, <2>1, <3>1, <3>2 DEF TagIsWhole
  <2>5. ASSUME NEW q \in Task
        PROVE  PushCompletes(q)' /\ (~I!SharedTag(q) => PushedIsThere(q)' /\ AttemptsAreMet(q)')
    BY <1>u, <2>1, <1>t, <1>p, <1>q, TaskKept
  <2> QED
    BY <1>c, <1>l, <2>1, <2>2, <2>3, <2>4, <2>5 DEF ImagesInv
<1>15. ASSUME I!Sweep PROVE ImagesInv'
  <2>1. /\ marked # <<>> /\ marked' = <<>> /\ blobs' = blobs \intersect marked[1]
        /\ UNCHANGED <<tagged, put, at, todo, pushed, tried, met, refused, torn, created>>
    BY <1>15 DEF I!Sweep, I!Collecting
  <2>2. /\ hit \subseteq hit'
        /\ \A q \in Task : at[q] \in {"push", "look", "pod"} /\ q \notin hit' =>
             I!BlobsOf(ImageOf(q)) \intersect (blobs \ marked[1]) = {}
    <3>1. hit' = hit \union {q \in I!InAttempt : I!BlobsOf(I!PushList(I!FunctionOf(q))) \intersect (blobs \ marked[1]) # {}}
      BY <1>15 DEF I!Sweep
    <3> QED
      BY <1>t, <3>1, DeploymentFacts DEF I!InAttempt
  <2>3. ImagesTyped'
    BY <1>t, <1>u, <1>c, <2>1 DEF ImagesTyped
  <2>4. TagsAreOwn'
    BY <1>o, <1>u, <1>c, <2>1 DEF TagsAreOwn
  <2>5. ASSUME NEW tag \in I!Tag PROVE TagIsWhole(tag)'
    <3>1. I!BlobsOf(tagged[tag])' = I!BlobsOf(tagged[tag])
      BY <2>1 DEF I!BlobsOf, I!ToSet
    <3> QED
      BY <1>w, <2>1, <3>1 DEF TagIsWhole
  <2>6. ASSUME NEW q \in Task
        PROVE  PushCompletes(q)' /\ (~I!SharedTag(q) => PushedIsThere(q)' /\ AttemptsAreMet(q)')
    <3>1. /\ I!BlobsOf(ImageOf(q))' = I!BlobsOf(ImageOf(q)) /\ I!BlobsOf(todo[q])' = I!BlobsOf(todo[q])
          /\ tagged'[TagOfTask(q)'] = tagged[TagOfTask(q)]
      BY <1>c, <2>1 DEF I!BlobsOf, I!ToSet
    <3>2. PushCompletes(q)'
      BY <1>p, <2>1, <2>2, <3>1 DEF PushCompletes
    <3>3. PushedIsThere(q) => PushedIsThere(q)'
      BY <1>c, <2>1, <2>2, <3>1 DEF PushedIsThere
    <3>4. AttemptsAreMet(q) => AttemptsAreMet(q)'
      BY <2>1 DEF AttemptsAreMet
    <3> QED
      BY <1>q, <3>2, <3>3, <3>4
  <2> QED
    BY <1>c, <1>l, <2>1, <2>3, <2>4, <2>5, <2>6 DEF ImagesInv
<1>16. ASSUME I!LoseRegistry PROVE ImagesInv'
  <2>1. /\ tagged' = [tag \in I!Tag |-> <<>>] /\ hit' = hit \union I!InAttempt
        /\ UNCHANGED <<at, todo, pushed, tried, met, refused, created>>
    BY <1>16 DEF I!LoseRegistry, I!NoImage
  <2>2. \A q \in Task : at'[q] \in {"push", "look", "pod"} => q \in hit'
    BY <2>1 DEF I!InAttempt
  <2>3. ImagesTyped'
    <3>1. tagged' \in [I!Tag -> Seq(Blob)]
      BY <2>1, EmptySeq
    <3> QED
      BY <1>t, <1>u, <1>c, <2>1, <3>1 DEF ImagesTyped
  <2>4. TagsAreOwn' /\ \A tag \in I!Tag : TagIsWhole(tag)'
    BY <1>c, <2>1 DEF TagsAreOwn, TagIsWhole
  <2>5. ASSUME NEW q \in Task
        PROVE  PushCompletes(q)' /\ (~I!SharedTag(q) => PushedIsThere(q)' /\ AttemptsAreMet(q)')
    BY <1>q, <2>1, <2>2 DEF PushCompletes, PushedIsThere, AttemptsAreMet
  <2> QED
    BY <1>c, <1>l, <2>1, <2>3, <2>4, <2>5 DEF ImagesInv
<1>17. CASE UNCHANGED I!vars
  BY <1>17, <1>s DEF I!vars
<1> QED
  BY <1>1, <1>2, <1>3, <1>4, <1>5, <1>6, <1>7, <1>8, <1>9, <1>10, <1>11, <1>12, <1>13, <1>14, <1>15,
     <1>16, <1>17 DEF I!Next, I!Work

\* A pod runs the image of its function's archive, and a task whose tag is its
\* image's own fails for its image only if the owner refused it or every one of its
\* attempts met a fault, whatever tasks push, loses and collections interleave.
THEOREM ImagesReachTheirPods == I!Spec => []ImagesArrive
<1>1. ImagesInv => ImagesArrive
  BY DEF ImagesInv, ImagesArrive, I!FailureIsReal, AttemptsAreMet
<1> QED
  BY <1>1, ImagesInit, ImagesStep, PTL DEF I!Spec

-----------------------------------------------------------------------------
(* TaskProfiling: as long as no call was given up, what the attempt has       *)
(* reported so far carries its own turn, and once the task has ended only the *)
(* start of the profile can be that of a later delivery, one at most.         *)

ProfileTyped ==
  /\ remote \in BOOLEAN /\ turn \in Nat /\ ended \in Nat /\ start \in Nat
  /\ steps \in [P!Step -> Nat] /\ sent \in BOOLEAN
  /\ call \in P!Call \union {"idle", "failed", "check", "mark_as_done"}
  /\ call # "idle" => turn # 0

\* The steps the attempt has reported when it is at a call.
Before(c) ==
  CASE c = "download_function" -> {"prepare_inputs"}
    [] c = "task_execution" -> {"prepare_inputs", "download_function"}
    [] c = "save_outputs" -> {"prepare_inputs", "download_function", "task_execution"}
    [] c = "mark_as_done" -> P!Step
    [] OTHER -> {}

Reported(s, t) == steps[s] = IF s = "download_function" /\ ~remote THEN 0 ELSE t

ProfileInv ==
  /\ ProfileTyped
  /\ call = "download_function" => remote
  /\ ended # 0 => call \in {"idle", "profile", "check", "failed"}
  /\ ended # 0 => turn = ended \/ ~sent
  /\ ~remote => steps["download_function"] = 0
  /\ givenUp = {} =>
       /\ call \in P!Step \union {"mark_as_done"} =>
            start = turn /\ \A s \in Before(call) : Reported(s, turn)
       /\ ended = 0 /\ call = "check" => start = turn
       /\ ended # 0 /\ call # "failed" =>
            start \in {ended, turn} /\ \A s \in P!Step : Reported(s, ended)

LEMMA ProfileInit == P!Init => ProfileInv
BY DEF P!Init, ProfileInv, ProfileTyped, P!Step, P!Call

LEMMA ProfileStep == ProfileInv /\ [P!Next]_(P!vars) => ProfileInv'
<1> SUFFICES ASSUME ProfileInv, [P!Next]_(P!vars)
             PROVE  ProfileInv'
  OBVIOUS
<1> USE DEF ProfileInv, ProfileTyped, P!Step, P!Call, P!task, Reported
<1>1. ASSUME P!InsertRow PROVE ProfileInv'
  BY <1>1 DEF P!InsertRow, Before
<1>2. ASSUME P!Receive PROVE ProfileInv'
  <2> USE <1>2 DEF P!Receive
  <2>1. turn' = turn + 1 /\ call' = "profile" /\ ~sent' /\ sent' \in BOOLEAN /\ (ended # 0 => turn = ended)
    BY Zenon
  <2>2. UNCHANGED <<remote, start, steps, ended, givenUp>>
    OBVIOUS
  <2>3. ProfileTyped'
    BY <2>1, <2>2
  <2> QED
    BY <2>1, <2>2, <2>3 DEF Before
<1>3. ASSUME P!CallWorks PROVE ProfileInv'
  BY <1>3 DEF P!CallWorks, P!Store, P!Advance, P!After, Before
<1>4. ASSUME P!CallRefused PROVE ProfileInv'
  BY <1>4 DEF P!CallRefused, P!TryAgain, P!Advance, P!After, Before
<1>5. ASSUME P!CallLost PROVE ProfileInv'
  <2>1. CASE UNCHANGED <<start, steps>>
    BY <1>5, <2>1 DEF P!CallLost, P!TryAgain, P!Advance, P!After, Before
  <2>2. CASE P!Store(call)
    BY <1>5, <2>2 DEF P!CallLost, P!Store, P!TryAgain, P!Advance, P!After, Before
  <2> QED
    BY <1>5, <2>1, <2>2 DEF P!CallLost
<1>6. ASSUME P!CheckTask PROVE ProfileInv'
  BY <1>6 DEF P!CheckTask, P!After, Before
<1>7. ASSUME P!WorkFails PROVE ProfileInv'
  BY <1>7 DEF P!WorkFails
<1>8. ASSUME P!MarkAsDone PROVE ProfileInv'
  BY <1>8 DEF P!MarkAsDone, Before
<1>9. CASE UNCHANGED P!vars
  BY <1>9 DEF P!vars, Before
<1> QED
  BY <1>1, <1>2, <1>3, <1>4, <1>5, <1>6, <1>7, <1>8, <1>9 DEF P!Next

\* The profile of a task that is done is that of the attempt that ended it, if
\* no call was given up (api/views/task_profiling.py, tasks_compute_task.py).
THEOREM ProfilesAreOfTheLastAttempt == P!Spec => []ProfileIsOfTheLastAttempt
<1>1. ProfileInv => ProfileIsOfTheLastAttempt
  BY DEF ProfileIsOfTheLastAttempt, P!ProfileIsOfTheLastAttempt, P!Done, ProfileInv, ProfileTyped,
         Reported, P!Step
<1> QED
  BY <1>1, ProfileInit, ProfileStep, PTL DEF P!Spec

-----------------------------------------------------------------------------
(* The specification that is checked is that of every part.                  *)

LEMMA PartsStep ==
  ASSUME [PartsNext]_<<part, routingVars, filesVars, imageVars, profileVars>>
  PROVE  [RoutingNext]_routingVars /\ [F!Next]_(F!vars) /\ [I!Next]_(I!vars) /\ [P!Next]_(P!vars)
<1>1. UNCHANGED routingVars \/ RoutingNext
  BY DEF PartsNext
<1>2. UNCHANGED filesVars \/ F!Next
  BY DEF PartsNext
<1>3. UNCHANGED imageVars \/ I!Next
  BY DEF PartsNext
<1>4. UNCHANGED profileVars \/ P!Next
  BY DEF PartsNext
<1>5. /\ UNCHANGED filesVars => UNCHANGED F!vars
      /\ UNCHANGED imageVars => UNCHANGED I!vars
      /\ UNCHANGED profileVars => UNCHANGED P!vars
  BY DEF filesVars, imageVars, profileVars, F!vars, F!taskVars, F!dirVars, F!keyVars, F!outVars, F!histVars,
         I!vars, P!vars
<1> QED
  BY <1>1, <1>2, <1>3, <1>4, <1>5

\* A behaviour that the run checks moves one part as the part's own specification
\* allows and leaves the others in one state: what is proved of the parts holds.
THEOREM PartsAreTheParts == PartsSpec => RoutingSpec /\ F!Spec /\ I!Spec /\ P!Spec
<1>1. PartsInit => RoutingInit /\ F!Init /\ I!Init /\ P!Init
  BY DEF PartsInit
<1>2. [PartsNext]_<<part, routingVars, filesVars, imageVars, profileVars>> =>
        [RoutingNext]_routingVars /\ [F!Next]_(F!vars) /\ [I!Next]_(I!vars) /\ [P!Next]_(P!vars)
  BY PartsStep
<1> QED
  BY <1>1, <1>2, PTL DEF PartsSpec, RoutingSpec, F!Spec, I!Spec, P!Spec
=============================================================================
