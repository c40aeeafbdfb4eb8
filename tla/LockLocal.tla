------------------------------ MODULE LockLocal ------------------------------
(***************************************************************************)
(* substrapp/lock_local.py: a lock on one resource made of two files of    *)
(* the worker's /tmp.  The lock file is created with O_CREAT|O_EXCL and    *)
(* holds the uuid of the call that created it.  Whoever removes it, the    *)
(* call itself when it leaves the "with" block or another one that finds   *)
(* it older than the ttl, does so while holding the secondary lock file.   *)
(*                                                                         *)
(* A caller is ONE call of lock_resource and stands for the uuid4 that     *)
(* call draws, so the content of a lock file is the caller that created    *)
(* it.  (The uuid is written just after the creation; a lock file that is  *)
(* still empty compares different from every uuid but its creator's, and   *)
(* the creator has written by the time it reads: the gap shows nothing.)   *)
(*                                                                         *)
(* Clocks are not modelled: a ttl may run out, and a wait may exceed its   *)
(* timeout, at any moment the faults of the behaviour allow.               *)
(***************************************************************************)
EXTENDS FiniteSets

CONSTANTS
  Caller,     \* the calls of lock_resource on this resource
  NoCaller,   \* "the file does not exist"
  HasTtl,     \* TRUE when the calls pass a ttl
  FaultSets   \* the sets of faults to consider, see FaultKind

\* "crash": a process dies (OOM kill, eviction) outside the secondary lock;
\* "crashSecondary": it dies while it holds the secondary lock file;
\* "slow": a wait for the secondary lock exceeds `timeout` although the
\* process that holds it is alive.
FaultKind == {"crash", "crashSecondary", "slow"}

ASSUME LockAssumption ==
  /\ NoCaller \notin Caller
  /\ HasTtl \in BOOLEAN
  /\ FaultSets \subseteq SUBSET FaultKind

VARIABLES
  faults,         \* what may go wrong in this behaviour, in FaultSets
  lockFile,       \* the call whose uuid the lock file holds, or NoCaller
  secondaryFile,  \* the call that created the secondary lock file, or NoCaller
  overdue,        \* the calls whose lock file grew older than the ttl
  pc              \* where each call is

vars == <<faults, lockFile, secondaryFile, overdue, pc>>

\* Before the lock file is created.
Waiting == {"idle", "try", "expWait", "expStat", "expRemove", "expExit", "retry"}
\* Between _acquire_secondary_lock and its "finally".
InSecondary ==
  {"expStat", "expRemove", "expExit", "relRead", "relRemove", "relExit"}
Ended == {"done", "failed", "crashed"}
Pc == Waiting \union InSecondary \union Ended
        \union {"hold", "relWait", "raising"}

Holders == {c \in Caller : pc[c] = "hold"}

Goto(c, where) == pc' = [pc EXCEPT ![c] = where]

-----------------------------------------------------------------------------
Init ==
  /\ faults \in FaultSets
  /\ lockFile = NoCaller
  /\ secondaryFile = NoCaller
  /\ overdue = {}
  /\ pc = [c \in Caller |-> "idle"]

Call(c) ==
  /\ pc[c] = "idle"
  /\ Goto(c, "try")
  /\ UNCHANGED <<faults, lockFile, secondaryFile, overdue>>

\* _try_acquire_lock: an exclusive create, then, when the file exists and
\* there is a ttl, a look at its age.
TryAcquireLock(c) ==
  /\ pc[c] = "try"
  /\ \/ /\ lockFile = NoCaller
        /\ lockFile' = c
        /\ Goto(c, "hold")
     \/ /\ lockFile # NoCaller
        /\ Goto(c, IF HasTtl THEN "expWait" ELSE "retry")
        /\ UNCHANGED lockFile
  /\ UNCHANGED <<faults, secondaryFile, overdue>>

\* lock_resource, the loop: not acquired, `timeout` not reached, sleep.
Retry(c) ==
  /\ pc[c] = "retry"
  /\ Goto(c, "try")
  /\ UNCHANGED <<faults, lockFile, secondaryFile, overdue>>

\* lock_resource, the loop: LockError after `timeout` seconds.
GiveUp(c) ==
  /\ pc[c] = "retry"
  /\ Goto(c, "failed")
  /\ UNCHANGED <<faults, lockFile, secondaryFile, overdue>>

\* The body of the "with" returns or raises: either way _release_lock is next.
EndBody(c) ==
  /\ pc[c] = "hold"
  /\ Goto(c, "relWait")
  /\ UNCHANGED <<faults, lockFile, secondaryFile, overdue>>

-----------------------------------------------------------------------------
(* The secondary lock *)

TryAcquireSecondaryLock(c) ==
  /\ pc[c] \in {"expWait", "relWait"}
  /\ secondaryFile = NoCaller
  /\ secondaryFile' = c
  /\ Goto(c, IF pc[c] = "expWait" THEN "expStat" ELSE "relRead")
  /\ UNCHANGED <<faults, lockFile, overdue>>

\* Faulty variant: the wait for the secondary lock has no timeout.
SecondaryTimeoutNever(c) == FALSE

\* The wait exceeds `timeout`.  The exception is raised inside the "try" whose
\* "finally" removes the secondary lock file, so the caller goes on to remove
\* a file it has not created.
SecondaryTimeout(c) ==
  /\ pc[c] \in {"expWait", "relWait"}
  /\ secondaryFile # NoCaller
  /\ "slow" \in faults \/ pc[secondaryFile] = "crashed"
  /\ Goto(c, "raising")
  /\ UNCHANGED <<faults, lockFile, secondaryFile, overdue>>

\* The "finally": os.remove(secondary_lock_file), whoever created it.  When the
\* file is gone os.remove raises and the call fails.
ReleaseSecondaryLock(c) ==
  /\ secondaryFile' = NoCaller
  /\ \/ pc[c] = "expExit" /\ secondaryFile # NoCaller /\ Goto(c, "retry")
     \/ pc[c] = "relExit" /\ secondaryFile # NoCaller /\ Goto(c, "done")
     \/ pc[c] \in {"expExit", "relExit"} /\ secondaryFile = NoCaller /\ Goto(c, "failed")
     \/ pc[c] = "raising" /\ Goto(c, "failed")
  /\ UNCHANGED <<faults, lockFile, overdue>>

-----------------------------------------------------------------------------
(* _release_lock_if_expired: stat, then remove *)

\* Faulty variant: a lock file is taken for expired whatever its age.
StatLockFileIgnoringAge(c) ==
  /\ pc[c] = "expStat"
  /\ Goto(c, IF lockFile # NoCaller THEN "expRemove" ELSE "expExit")
  /\ UNCHANGED <<faults, lockFile, secondaryFile, overdue>>

StatLockFile(c) ==
  /\ pc[c] = "expStat"
  /\ Goto(c, IF lockFile \in overdue THEN "expRemove" ELSE "expExit")
  /\ UNCHANGED <<faults, lockFile, secondaryFile, overdue>>

\* os.remove is in the "else" of the "try": FileNotFoundError is not caught.
RemoveExpired(c) ==
  /\ pc[c] = "expRemove"
  /\ lockFile' = NoCaller
  /\ Goto(c, IF lockFile = NoCaller THEN "raising" ELSE "expExit")
  /\ UNCHANGED <<faults, secondaryFile, overdue>>

(* _release_lock: read the uuid, then remove *)

\* Faulty variant: the uuid in the lock file is not compared.
ReadLockFileUnchecked(c) ==
  /\ pc[c] = "relRead"
  /\ Goto(c, "relRemove")
  /\ UNCHANGED <<faults, lockFile, secondaryFile, overdue>>

\* Faulty variant: the FileNotFoundError of a lock file that another call has
\* removed is not caught.
ReadLockFileUncaught(c) ==
  /\ pc[c] = "relRead"
  /\ Goto(c, IF lockFile = c THEN "relRemove" ELSE IF lockFile = NoCaller THEN "raising" ELSE "relExit")
  /\ UNCHANGED <<faults, lockFile, secondaryFile, overdue>>

ReadLockFile(c) ==
  /\ pc[c] = "relRead"
  /\ Goto(c, IF lockFile = c THEN "relRemove" ELSE "relExit")
  /\ UNCHANGED <<faults, lockFile, secondaryFile, overdue>>

RemoveLockFile(c) ==
  /\ pc[c] = "relRemove"
  /\ lockFile' = NoCaller
  /\ Goto(c, "relExit")
  /\ UNCHANGED <<faults, secondaryFile, overdue>>

-----------------------------------------------------------------------------
(* The environment *)

\* The lock file becomes older than the ttl.
TtlElapses(c) ==
  /\ HasTtl
  /\ lockFile = c
  /\ c \notin overdue
  /\ overdue' = overdue \union {c}
  /\ UNCHANGED <<faults, lockFile, secondaryFile, pc>>

\* The process of the call is killed: no "finally" runs, the files stay.
Crash(c) ==
  /\ pc[c] \notin Ended \union {"idle"}
  /\ \/ pc[c] \in InSecondary /\ "crashSecondary" \in faults
     \/ pc[c] \notin InSecondary /\ "crash" \in faults
  /\ Goto(c, "crashed")
  /\ UNCHANGED <<faults, lockFile, secondaryFile, overdue>>

\* The steps of the code itself, for one call that has started.
Step(c) ==
  \/ TryAcquireLock(c) \/ Retry(c) \/ GiveUp(c) \/ EndBody(c)
  \/ TryAcquireSecondaryLock(c) \/ SecondaryTimeout(c) \/ ReleaseSecondaryLock(c)
  \/ StatLockFile(c) \/ RemoveExpired(c) \/ ReadLockFile(c) \/ RemoveLockFile(c)

\* Every call has ended.
AllEnded ==
  /\ \A c \in Caller : pc[c] \in Ended
  /\ UNCHANGED vars

Next ==
  \/ \E c \in Caller : Call(c) \/ Step(c) \/ TtlElapses(c) \/ Crash(c)
  \/ AllEnded

Spec == Init /\ [][Next]_vars

\* A process keeps running, and its clock with it: the retry loop cannot go
\* round for ever without seeing `timeout`.
Fairness ==
  \A c \in Caller : WF_vars(Step(c)) /\ SF_vars(GiveUp(c))

FairSpec == Spec /\ Fairness

-----------------------------------------------------------------------------
TypeOK ==
  /\ faults \in FaultSets
  /\ lockFile \in Caller \union {NoCaller}
  /\ secondaryFile \in Caller \union {NoCaller}
  /\ overdue \subseteq Caller
  /\ pc \in [Caller -> Pc]

\* No wait for the secondary lock can time out.
SecondaryIsSafe == faults \intersect {"crashSecondary", "slow"} = {}

\* What the lock file promises depends on the secondary lock only when calls
\* look for expired lock files.
FileIsSafe == SecondaryIsSafe \/ ~HasTtl

\* Of two callers inside the "with" block at once, one has held its lock for
\* longer than the ttl (lock_local.py:31-32 "kept for AT MOST ttl seconds").
LeaseExclusion ==
  FileIsSafe => \A c, d \in Holders : c # d => c \in overdue \/ d \in overdue

\* "It ensures that only 1 process at a time can access/remove the lock file"
\* (lock_local.py:139): no two calls are between the secondary lock's
\* acquisition and its release, when no wait for it times out.
SecondaryExclusion ==
  SecondaryIsSafe =>
    \A c, d \in Caller : pc[c] \in InSecondary /\ pc[d] \in InSecondary => c = d

\* "Ensure we only remove the file _we_ created, not a file created by another
\* caller" (lock_local.py:119): a lock file disappears only because its ttl ran
\* out or because its own creator is at the removal.
RemovedByOwnerOrExpired ==
  [][FileIsSafe => \A c \in Caller :
       lockFile = c /\ lockFile' # c => c \in overdue \/ pc[c] = "relRemove"]_vars

\* A call that went well never ends with an exception of the locking code:
\* the only failure a caller sees is LockError, before it held the lock.
NoFailureAfterHolding ==
  [][SecondaryIsSafe => \A c \in Caller :
       pc'[c] = "failed" /\ pc[c] # "failed" => pc[c] = "retry"]_vars

\* Every call ends, even after a process died with both files in place.
Termination == \A c \in Caller : pc[c] = "try" ~> pc[c] \in Ended

\* lock_resource implements the lease, as long as FileIsSafe.
LeaseRefinement ==
  INSTANCE Lease WITH held <- IF FileIsSafe THEN Holders ELSE {}, lapsed <- overdue
ImplementsLease == LeaseRefinement!Spec

\* The inductive invariant behind the safety properties, see WorkerProofs.
SecondaryOwned ==
  \A c \in Caller : pc[c] \in InSecondary <=> secondaryFile = c
NotRaising == \A c \in Caller : pc[c] # "raising"
FreshBeforeHold ==
  \A c \in Caller : pc[c] \in Waiting => lockFile # c /\ c \notin overdue
KeptUntilOverdue ==
  \A c \in Caller :
    pc[c] \in {"hold", "relWait", "relRead", "relRemove"} /\ c \notin overdue
      => lockFile = c
OwnAtRemoval == \A c \in Caller : pc[c] = "relRemove" => lockFile = c
OverdueAtRemoval == \A c \in Caller : pc[c] = "expRemove" => lockFile \in overdue
LockInv ==
  /\ SecondaryOwned /\ NotRaising /\ FreshBeforeHold
  /\ KeptUntilOverdue /\ OwnAtRemoval /\ OverdueAtRemoval
=============================================================================
