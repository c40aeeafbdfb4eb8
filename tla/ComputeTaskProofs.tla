-------------------------- MODULE ComputeTaskProofs --------------------------
(***************************************************************************)
(* Proofs about ComputeTask, for any tasks, Celery processes, retries and  *)
(* faults.                                                                 *)
(*                                                                         *)
(* TypeOK comes first.  LockInv says who holds the compute plan lock and   *)
(* what its holder knows of the pod; it holds whatever is killed,          *)
(* duplicated or redelivered, and says that the lock keeps the teardown    *)
(* away from the directories of a task that runs.  CleanInv speaks of what *)
(* is in the task directory, which the lock does not protect from other    *)
(* tasks: it needs one process per worker, which is not killed.            *)
(***************************************************************************)
EXTENDS ComputeTask, TLAPS

\* A slot that follows _run leaves it with an outcome and at a known place.
LEMMA LeaveType ==
  ASSUME TypeOK, NEW s \in Slot, NEW how \in Outcome, Leave(s, how)
  PROVE  outcome' \in [Slot -> Outcome] /\ pc' \in [Slot -> Pc]
BY DEF TypeOK, Leave, Goto, Pc

\* The broker counts the messages published to it.
LEMMA PublishType ==
  ASSUME TypeOK, NEW m \in Message, Publish(m)
  PROVE  messages' \in [Message -> Nat]
BY DEF TypeOK, Publish

\* A change of status is one of the orchestrator's statuses, and its event one
\* the reactor handles.
LEMMA SetStatusType ==
  ASSUME TypeOK, NEW t \in Task, NEW st \in Status \ {"none"}, SetStatus(t, st)
  PROVE  status' \in [Task -> Status] /\ events' \in Seq(Event)
<1>1. status' \in [Task -> Status]
  BY DEF TypeOK, SetStatus
<1>2. CASE st = "executing"
  BY <1>1, <1>2 DEF TypeOK, SetStatus
<1>3. CASE st # "executing"
  <2>1. [task |-> t, status |-> st] \in Event
    BY <1>3 DEF Event, Status, Final
  <2> QED
    BY <1>1, <1>3, <2>1 DEF TypeOK, SetStatus
<1> QED
  BY <1>2, <1>3

\* The orchestrator, its users, the reactor and the failure reports keep the
\* types.
LEMMA OutsideType ==
  ASSUME TypeOK,
         \/ \E t \in Task : RegisterTask(t) \/ ReportFailure(t)
         \/ CancelPlan \/ HandleEvent \/ OrphanExpires
  PROVE  TypeOK'
<1> USE DEF brokerVars, reportVars, dirVars, slotVars, orcVars
<1>1. ASSUME NEW t \in Task, RegisterTask(t) PROVE TypeOK'
  BY <1>1, SetStatusType DEF TypeOK, RegisterTask, Status
<1>2. ASSUME NEW t \in Task, ReportFailure(t) PROVE TypeOK'
  <2>1. status' \in [Task -> Status] /\ events' \in Seq(Event)
    BY <1>2, SetStatusType DEF TypeOK, ReportFailure, Status
  <2> QED
    BY <1>2, <2>1 DEF TypeOK, ReportFailure
<1>3. CASE CancelPlan
  BY <1>3 DEF TypeOK, CancelPlan
<1>4. CASE HandleEvent
  <2>1. Head(events) \in Event /\ Tail(events) \in Seq(Event)
    BY <1>4 DEF TypeOK, HandleEvent
  <2>2. [task |-> Head(events).task, retries |-> 0] \in Message
    BY <2>1, ComputeTaskAssumption DEF Message, Event
  <2>3. messages' \in [Message -> Nat]
    <3>1. Publish([task |-> Head(events).task, retries |-> 0]) \/ messages' = messages
      BY <1>4 DEF HandleEvent
    <3> QED
      BY <2>2, <3>1, PublishType DEF TypeOK
  <2>5. teardowns' \in Nat
    BY <1>4 DEF TypeOK, HandleEvent
  <2>6. mapped' \in BOOLEAN
    BY <1>4 DEF TypeOK, HandleEvent
  <2>4. events' \in Seq(Event) /\ faults' \in Nat
    <3>1. \/ events' = Tail(events) /\ faults' = faults
          \/ events' = events /\ faults' = faults + 1
      BY <1>4 DEF HandleEvent
    <3>2. events \in Seq(Event) /\ faults \in Nat
      BY DEF TypeOK
    <3>3. CASE events' = Tail(events) /\ faults' = faults
      BY <2>1, <3>2, <3>3
    <3>4. CASE events' = events /\ faults' = faults + 1
      BY <3>2, <3>4
    <3> QED
      BY <3>1, <3>3, <3>4
  <2> QED
    BY <1>4, <2>3, <2>4, <2>5, <2>6 DEF TypeOK, HandleEvent
<1>5. CASE OrphanExpires
  BY <1>5 DEF TypeOK, OrphanExpires
<1> QED
  BY <1>1, <1>2, <1>3, <1>4, <1>5

\* So do the steps of a slot that runs compute_task, up to the execution.
LEMMA TaskStepType ==
  ASSUME TypeOK, NEW s \in Slot,
         \/ Check(s) \/ CancelTask(s) \/ Begin(s) \/ Setup(s) \/ AcquireLock(s)
         \/ Fetch(s) \/ LookForPod(s) \/ CreatePod(s) \/ WaitForPod(s) \/ StartRun(s)
         \/ Raise(s) \/ RaiseInContext(s)
  PROVE  TypeOK'
<1> USE DEF brokerVars, reportVars, dirVars, slotVars, orcVars
<1>0. /\ TaskOf(s) \in Task
      /\ \A how \in Outcome :
           Leave(s, how) => outcome' \in [Slot -> Outcome] /\ pc' \in [Slot -> Pc]
      /\ \A where \in Pc : Goto(s, where) => pc' \in [Slot -> Pc]
  BY LeaveType DEF TypeOK, TaskOf, Goto, Message
<1>1. CASE Check(s)
  <2>1. \/ Leave(s, "ignore")
        \/ outcome' = outcome /\ \E where \in Pc : Goto(s, where)
    <3> DEFINE next == CASE pc[s] = "recheck" -> "fetch"
                         [] pc[s] = "podCheck" -> "create"
                         [] pc[s] = "check" /\ status[TaskOf(s)] = "slot" -> "begin"
                         [] pc[s] = "check" /\ status[TaskOf(s)] # "slot" -> "setup"
    <3>1. pc[s] \in {"check", "recheck", "podCheck"} => next \in Pc
      BY DEF Pc, InLock, Prepared
    <3>2. "cancel" \in Pc
      BY DEF Pc
    <3> HIDE DEF next
    <3>3. /\ pc[s] \in {"check", "recheck", "podCheck"}
          /\ \/ Leave(s, "ignore")
             \/ outcome' = outcome /\ (Goto(s, "cancel") \/ Goto(s, next))
      BY <1>1 DEF Check, next
    <3> QED
      BY <3>1, <3>2, <3>3
  <2> QED
    BY <1>0, <1>1, <2>1 DEF TypeOK, Check, Outcome
<1>2. CASE CancelTask(s)
  <2>1. status' \in [Task -> Status] /\ events' \in Seq(Event)
    BY <1>0, <1>2, SetStatusType DEF TypeOK, CancelTask, Status
  <2> QED
    BY <1>0, <1>2, <2>1 DEF TypeOK, CancelTask, Outcome
<1>3. CASE Begin(s)
  <2>1. status' \in [Task -> Status] /\ events' \in Seq(Event)
    BY <1>0, <1>3, SetStatusType DEF TypeOK, Begin, Status
  <2>2. \/ Leave(s, "retry")
        \/ outcome' = outcome /\ \E where \in Pc : Goto(s, where)
    BY <1>3 DEF Begin, Pc
  <2> QED
    BY <1>0, <1>3, <2>1, <2>2 DEF TypeOK, Begin, Outcome
<1>4. CASE Setup(s) \/ AcquireLock(s) \/ LookForPod(s) \/ CreatePod(s)
  BY <1>4 DEF TypeOK, Setup, AcquireLock, LookForPod, CreatePod, Goto, Pc, InLock, Prepared, InTeardown
<1>5. CASE Fetch(s)
  BY <1>0, <1>5 DEF TypeOK, Fetch, Outcome, Pc, InLock, Prepared
<1>6. CASE WaitForPod(s)
  BY <1>0, <1>6 DEF TypeOK, WaitForPod, Outcome, Pc, InLock, Prepared
<1>7. CASE StartRun(s)
  BY <1>0, <1>7 DEF TypeOK, StartRun, Outcome, Pc, InLock, Prepared
<1>8. CASE Raise(s)
  BY <1>0, <1>8 DEF TypeOK, Raise, Outcome
<1>9. CASE RaiseInContext(s)
  BY <1>9 DEF TypeOK, RaiseInContext, Outcome, Goto, Pc
<1> QED
  BY <1>1, <1>2, <1>3, <1>4, <1>5, <1>6, <1>7, <1>8, <1>9

\* ... the steps from the execution to the end of the Celery task ...
LEMMA EndStepType ==
  ASSUME TypeOK, NEW s \in Slot,
         \/ RunSucceeds(s) \/ RunFails(s) \/ SaveOutputs(s) \/ MarkAsDone(s)
         \/ ReleaseLock(s) \/ ClearTaskDir(s) \/ Report(s) \/ OnRetry(s)
  PROVE  TypeOK'
<1> USE DEF brokerVars, reportVars, dirVars, slotVars, orcVars
<1>0. /\ TaskOf(s) \in Task
      /\ \A how \in Outcome :
           Leave(s, how) => outcome' \in [Slot -> Outcome] /\ pc' \in [Slot -> Pc]
  BY LeaveType DEF TypeOK, TaskOf, Message
<1>1. CASE RunSucceeds(s)
  BY <1>0, <1>1 DEF TypeOK, RunSucceeds, Goto, Pc, InLock, Prepared
<1>2. CASE RunFails(s)
  <2>1. \E how \in Outcome : Leave(s, how)
    BY <1>2 DEF RunFails, Outcome
  <2> QED
    BY <1>0, <1>2, <2>1 DEF TypeOK, RunFails
<1>3. CASE SaveOutputs(s)
  <2>1. registered' \in [Task -> Task \union {NoTask}]
    BY <1>0, <1>3 DEF TypeOK, SaveOutputs
  <2>2. outcome' \in [Slot -> Outcome] /\ pc' \in [Slot -> Pc]
    BY <1>0, <1>3 DEF TypeOK, SaveOutputs, Outcome, Goto, Pc, InLock, Prepared
  <2> QED
    BY <1>3, <2>1, <2>2 DEF TypeOK, SaveOutputs
<1>4. CASE MarkAsDone(s)
  <2>1. status' \in [Task -> Status] /\ events' \in Seq(Event)
    <3>1. CASE SetStatus(TaskOf(s), "done")
      BY <1>0, <3>1, SetStatusType DEF Status
    <3>2. CASE UNCHANGED <<status, events>>
      BY <3>2 DEF TypeOK
    <3> QED
      BY <1>4, <3>1, <3>2 DEF MarkAsDone
  <2>2. \E how \in Outcome : Leave(s, how)
    <3>1. \/ \E how \in {"ok", "retry"} : Leave(s, how)
          \/ Leave(s, IF status[TaskOf(s)] = "done" THEN "ok" ELSE "retry")
      BY <1>4 DEF MarkAsDone
    <3> QED
      BY <3>1 DEF Outcome
  <2> QED
    BY <1>0, <1>4, <2>1, <2>2 DEF TypeOK, MarkAsDone
<1>5. CASE ReleaseLock(s)
  BY <1>5 DEF TypeOK, ReleaseLock, Goto, Pc
<1>6. CASE ClearTaskDir(s)
  BY <1>6 DEF TypeOK, ClearTaskDir, Goto, Pc
<1>7. CASE Report(s)
  <2>1. job[s] \in Message
    BY DEF TypeOK
  <2>2. messages' \in [Message -> Nat]
    <3>1. CASE job[s].retries < MaxRetries /\ Publish([job[s] EXCEPT !.retries = @ + 1])
      <4>1. [job[s] EXCEPT !.retries = @ + 1] \in Message
        BY <2>1, <3>1, ComputeTaskAssumption DEF Message
      <4> QED
        BY <3>1, <4>1, PublishType
    <3>2. CASE messages' = messages
      BY <3>2 DEF TypeOK
    <3> QED
      BY <1>7, <3>1, <3>2 DEF Report
  <2>3. reports' \subseteq Task
    BY <1>0, <1>7 DEF TypeOK, Report
  <2>4. pc' \in [Slot -> Pc]
    <3>1. Goto(s, "onRetry") \/ Goto(s, "idle")
      BY <1>7 DEF Report
    <3> QED
      BY <3>1 DEF TypeOK, Goto, Pc
  <2> QED
    BY <1>7, <2>2, <2>3, <2>4 DEF TypeOK, Report
<1>8. CASE OnRetry(s)
  BY <1>8 DEF TypeOK, OnRetry, Goto, Pc
<1> QED
  BY <1>1, <1>2, <1>3, <1>4, <1>5, <1>6, <1>7, <1>8

\* ... the teardown, the delivery of a message and the faults.
LEMMA OtherStepType ==
  ASSUME TypeOK, NEW s \in Slot,
         \/ TeardownCheck(s) \/ ReleaseWorker(s) \/ TeardownPods(s) \/ TeardownDirs(s)
         \/ ReceiveTeardown(s) \/ \E m \in Message : Receive(s, m)
         \/ Crash(s) \/ Duplicate(s) \/ RaiseInTeardown(s)
  PROVE  TypeOK'
<1> USE DEF brokerVars, reportVars, dirVars, slotVars, orcVars
<1>1. CASE TeardownCheck(s) \/ ReleaseWorker(s) \/ TeardownPods(s) \/ TeardownDirs(s)
  BY <1>1 DEF TypeOK, TeardownCheck, ReleaseWorker, TeardownPods, TeardownDirs, Goto, Pc, InTeardown
<1>2. CASE ReceiveTeardown(s)
  BY <1>2 DEF TypeOK, ReceiveTeardown, Goto, Pc, InTeardown
<1>3. ASSUME NEW m \in Message, Receive(s, m) PROVE TypeOK'
  <2>1. messages' \in [Message -> Nat]
    BY <1>3 DEF TypeOK, Receive
  <2>2. job' \in [Slot -> Message] /\ pc' \in [Slot -> Pc]
    BY <1>3 DEF TypeOK, Receive, Goto, Pc
  <2> QED
    BY <1>3, <2>1, <2>2 DEF TypeOK, Receive
<1>4. CASE Crash(s)
  <2>1. messages' \in [Message -> Nat]
    <3>1. job[s] \in Message
      BY DEF TypeOK
    <3>2. Publish(job[s]) \/ messages' = messages
      BY <1>4 DEF Crash
    <3> QED
      BY <3>1, <3>2, PublishType DEF TypeOK
  <2>2. lock' \in Slot \union {Free, Orphan}
    BY <1>4 DEF TypeOK, Crash
  <2>3. pc' \in [Slot -> Pc] /\ faults' \in Nat
    BY <1>4 DEF TypeOK, Crash, Goto, Pc
  <2> QED
    BY <1>4, <2>1, <2>2, <2>3 DEF TypeOK, Crash
<1>5. CASE Duplicate(s)
  <2>1. messages' \in [Message -> Nat]
    BY <1>5, PublishType DEF TypeOK, Duplicate
  <2> QED
    BY <1>5, <2>1 DEF TypeOK, Duplicate
<1>6. CASE RaiseInTeardown(s)
  BY <1>6 DEF TypeOK, RaiseInTeardown, Goto, Pc, InTeardown
<1> QED
  BY <1>1, <1>2, <1>3, <1>4, <1>5, <1>6

\* The state of the worker, of its queues and of the orchestrator keeps its types.
THEOREM TypeCorrect == Spec => []TypeOK
<1>1. Init => TypeOK
  <2> SUFFICES ASSUME Init PROVE TypeOK
    OBVIOUS
  <2>1. job \in [Slot -> Message]
    <3>1. PICK t \in Task : job = [s \in Slot |-> [task |-> t, retries |-> 0]]
      BY DEF Init
    <3>2. [task |-> t, retries |-> 0] \in Message
      BY ComputeTaskAssumption DEF Message
    <3> QED
      BY <3>1, <3>2
  <2>2. events \in Seq(Event) /\ messages \in [Message -> Nat]
    BY DEF Init
  <2>3. outcome \in [Slot -> Outcome] /\ pc \in [Slot -> Pc] /\ status \in [Task -> Status]
    BY DEF Init, Outcome, Pc, Status
  <2>4. registered \in [Task -> Task \union {NoTask}] /\ lock \in Slot \union {Free, Orphan}
    BY DEF Init
  <2> QED
    BY <2>1, <2>2, <2>3, <2>4 DEF Init, TypeOK
<1>2. TypeOK /\ [Next]_vars => TypeOK'
  <2> SUFFICES ASSUME TypeOK, [Next]_vars PROVE TypeOK'
    OBVIOUS
  <2>1. CASE UNCHANGED vars
    BY <2>1 DEF TypeOK, vars, orcVars, brokerVars, reportVars, dirVars, slotVars
  <2> QED
    BY <2>1, OutsideType, TaskStepType, EndStepType, OtherStepType
       DEF Next, SlotStep, SlotFault, Quiet
<1> QED
  BY <1>1, <1>2, PTL DEF Spec

-----------------------------------------------------------------------------
(* The compute plan lock, with any number of slots *)

\* From the check that follows acquire_compute_plan_lock to the release, and in
\* a teardown, the slot holds the lock.
HoldsLock ==
  \A s \in Slot :
    pc[s] \in InLock \union {"unlock"} \union (InTeardown \ {"tdLock"}) => lock = s

\* Between the search for the pod and create_pod there is no pod: only on_retry
\* and a teardown delete it outside the lock's holder, and nobody creates one.
NoPodYet == \A s \in Slot : pc[s] \in {"podCheck", "create"} => pod = "none"

\* A task about to be marked as done has its output registered.
MarkRegistered == \A s \in Slot : pc[s] = "mark" => registered[TaskOf(s)] # NoTask

LockInv == HoldsLock /\ NoPodYet /\ MarkRegistered /\ DoneHasOutput

\* One step of _run, of a teardown or of the environment preserves LockInv.
LEMMA LockInvStep ==
  ASSUME TypeOK, LockInv, [Next]_vars
  PROVE  LockInv'
<1> USE ComputeTaskAssumption
    DEF TypeOK, LockInv, HoldsLock, NoPodYet, MarkRegistered, DoneHasOutput, Goto, Leave,
        TaskOf, InLock, Prepared, InTeardown, SetStatus, orcVars, brokerVars, reportVars, dirVars, slotVars
<1>1. ASSUME NEW t \in Task, RegisterTask(t) PROVE LockInv'
  BY <1>1 DEF RegisterTask
<1>2. ASSUME NEW t \in Task, ReportFailure(t) PROVE LockInv'
  BY <1>2 DEF ReportFailure
<1>3. ASSUME CancelPlan \/ OrphanExpires PROVE LockInv'
  BY <1>3 DEF CancelPlan, OrphanExpires
<1>4. ASSUME HandleEvent PROVE LockInv'
  BY <1>4 DEF HandleEvent
<1>5. ASSUME NEW s \in Slot, NEW m \in Message, Receive(s, m) PROVE LockInv'
  BY <1>5 DEF Receive
<1>6. ASSUME NEW s \in Slot, Check(s) PROVE LockInv'
  <2>1. UNCHANGED <<status, registered, lock, pod, job>> /\ (\A r \in Slot \ {s} : pc'[r] = pc[r])
    BY <1>6 DEF Check
  <2>2. pc'[s] \in {"fetch", "create", "unlock"} => pc[s] \in {"recheck", "podCheck"} \/ lock = s
    BY <1>6 DEF Check
  <2>3. pc'[s] = "create" => pc[s] = "podCheck"
    BY <1>6 DEF Check
  <2>4. pc'[s] \in {"fetch", "create", "unlock", "clear", "report", "cancel", "begin", "setup"}
    BY <1>6 DEF Check
  <2> QED
    BY <2>1, <2>2, <2>3, <2>4
<1>7. ASSUME NEW s \in Slot, CancelTask(s) PROVE LockInv'
  BY <1>7 DEF CancelTask
<1>8. ASSUME NEW s \in Slot, Begin(s) PROVE LockInv'
  BY <1>8 DEF Begin
<1>9. ASSUME NEW s \in Slot, MarkAsDone(s) PROVE LockInv'
  BY <1>9 DEF MarkAsDone
<1>10. ASSUME NEW s \in Slot, Setup(s) PROVE LockInv'
  BY <1>10 DEF Setup
<1>11. ASSUME NEW s \in Slot, AcquireLock(s) PROVE LockInv'
  BY <1>11 DEF AcquireLock
<1>12. ASSUME NEW s \in Slot, Fetch(s) PROVE LockInv'
  BY <1>12 DEF Fetch
<1>13. ASSUME NEW s \in Slot, LookForPod(s) PROVE LockInv'
  BY <1>13 DEF LookForPod
<1>14. ASSUME NEW s \in Slot, CreatePod(s) PROVE LockInv'
  BY <1>14 DEF CreatePod
<1>15. ASSUME NEW s \in Slot, WaitForPod(s) PROVE LockInv'
  BY <1>15 DEF WaitForPod
<1>16. ASSUME NEW s \in Slot, StartRun(s) PROVE LockInv'
  BY <1>16 DEF StartRun
<1>17. ASSUME NEW s \in Slot, RunSucceeds(s) PROVE LockInv'
  BY <1>17 DEF RunSucceeds
<1>18. ASSUME NEW s \in Slot, RunFails(s) PROVE LockInv'
  BY <1>18 DEF RunFails
<1>19. ASSUME NEW s \in Slot, SaveOutputs(s) PROVE LockInv'
  <2>1. UNCHANGED <<status, lock, pod, job>> /\ (\A r \in Slot \ {s} : pc'[r] = pc[r])
    BY <1>19 DEF SaveOutputs
  <2>2. \A t \in Task : registered[t] # NoTask => registered'[t] # NoTask
    BY <1>19 DEF SaveOutputs
  <2>3. pc[s] = "save" /\ (pc'[s] \in {"unlock", "clear"} \/ (pc'[s] = "mark" /\ registered'[TaskOf(s)] # NoTask))
    BY <1>19 DEF SaveOutputs, Message
  <2>4. pc'[s] = "unlock" => lock = s
    BY <1>19 DEF SaveOutputs
  <2>5. \A r \in Slot : TaskOf(r) \in Task
    BY DEF Message
  <2> QED
    BY <2>1, <2>2, <2>3, <2>4, <2>5
<1>20. ASSUME NEW s \in Slot, ReleaseLock(s) PROVE LockInv'
  BY <1>20 DEF ReleaseLock
<1>21. ASSUME NEW s \in Slot, ClearTaskDir(s) PROVE LockInv'
  BY <1>21 DEF ClearTaskDir
<1>22. ASSUME NEW s \in Slot, Report(s) PROVE LockInv'
  BY <1>22 DEF Report
<1>23. ASSUME NEW s \in Slot, OnRetry(s) PROVE LockInv'
  BY <1>23 DEF OnRetry
<1>24. ASSUME NEW s \in Slot, TeardownCheck(s) PROVE LockInv'
  BY <1>24 DEF TeardownCheck
<1>25. ASSUME NEW s \in Slot, ReleaseWorker(s) PROVE LockInv'
  BY <1>25 DEF ReleaseWorker
<1>26. ASSUME NEW s \in Slot, TeardownPods(s) PROVE LockInv'
  BY <1>26 DEF TeardownPods
<1>27. ASSUME NEW s \in Slot, TeardownDirs(s) PROVE LockInv'
  BY <1>27 DEF TeardownDirs
<1>28. ASSUME NEW s \in Slot, ReceiveTeardown(s) PROVE LockInv'
  BY <1>28 DEF ReceiveTeardown
<1>29. ASSUME NEW s \in Slot, Raise(s) PROVE LockInv'
  BY <1>29 DEF Raise
<1>30. ASSUME NEW s \in Slot, RaiseInContext(s) PROVE LockInv'
  BY <1>30 DEF RaiseInContext
<1>31. ASSUME NEW s \in Slot, Crash(s) PROVE LockInv'
  BY <1>31 DEF Crash
<1>32. ASSUME NEW s \in Slot, Duplicate(s) PROVE LockInv'
  BY <1>32 DEF Duplicate
<1>33. CASE UNCHANGED vars
  BY <1>33 DEF vars
<1>34. ASSUME NEW s \in Slot, RaiseInTeardown(s) PROVE LockInv'
  BY <1>34 DEF RaiseInTeardown
<1> QED
  BY <1>1, <1>2, <1>3, <1>4, <1>5, <1>6, <1>7, <1>8, <1>9, <1>10, <1>11, <1>12, <1>13, <1>14, <1>15, <1>16, <1>17, <1>18, <1>19, <1>20, <1>21, <1>22, <1>23, <1>24, <1>25, <1>26, <1>27, <1>28, <1>29, <1>30, <1>31, <1>32, <1>33, <1>34
     DEF Next, SlotStep, SlotFault, Quiet

\* LockInv holds whatever is killed, delivered twice, canceled or fails.
THEOREM LockInvariant == Spec => []LockInv
<1>1. Init => LockInv
  BY DEF Init, LockInv, HoldsLock, NoPodYet, MarkRegistered, DoneHasOutput, InLock, Prepared,
         InTeardown
<1>2. TypeOK /\ LockInv /\ [Next]_vars => LockInv'
  BY LockInvStep
<1> QED
  BY <1>1, <1>2, TypeCorrect, PTL DEF Spec

\* acquire_compute_plan_lock keeps one slot at a time in the part of _run it guards.
THEOREM OneTask == Spec => []OneTaskAtATime
<1>1. LockInv => OneTaskAtATime
  BY DEF LockInv, HoldsLock, OneTaskAtATime
<1> QED
  BY <1>1, LockInvariant, PTL

\* mark_as_done comes after save_outputs in every attempt, so a task that is DONE has
\* its output registered, whichever attempt has marked it.
THEOREM DoneIsRegistered == Spec => []DoneHasOutput
<1>1. LockInv => DoneHasOutput
  BY DEF LockInv
<1> QED
  BY <1>1, LockInvariant, PTL

\* A step creates the pod only where there is none.
THEOREM PodsCreatedOnce == Spec => OnePodCreation
<1>1. TypeOK /\ LockInv /\ [Next]_vars
        => [pod' = "starting" /\ pod # "starting" => pod = "none"]_vars
  <2> SUFFICES ASSUME LockInv, Next, pod' = "starting", pod # "starting" PROVE pod = "none"
    BY DEF vars
  <2>1. pod' # pod
    OBVIOUS
  <2>2. ASSUME NEW s \in Slot, SlotStep(s) PROVE CreatePod(s)
    BY <2>1, <2>2
       DEF SlotStep, Check, CancelTask, Begin, Setup, AcquireLock, Fetch, LookForPod, WaitForPod,
           StartRun, RunSucceeds, RunFails, SaveOutputs, MarkAsDone, ReleaseLock, ClearTaskDir,
           Report, OnRetry, TeardownCheck, ReleaseWorker, TeardownPods, TeardownDirs
  <2>3. \E s \in Slot : CreatePod(s)
    BY <2>1, <2>2
       DEF Next, RegisterTask, ReportFailure, CancelPlan, HandleEvent, OrphanExpires, SlotFault,
           Raise, RaiseInContext, RaiseInTeardown, Crash, Duplicate, ReceiveTeardown, Receive, Quiet, vars
  <2> QED
    BY <2>3 DEF CreatePod, LockInv, NoPodYet
<1> QED
  BY <1>1, TypeCorrect, LockInvariant, PTL DEF Spec, OnePodCreation

OneSlot == \A s, r \in Slot : s = r
NoCrash == \A e \in Envs : "crash" \notin e

\* Without a retry no slot is in on_retry.
LEMMA NoRetry ==
  ASSUME MaxRetries = 0
  PROVE  Spec => [](\A s \in Slot : pc[s] # "onRetry")
<1> DEFINE Inv == \A s \in Slot : pc[s] # "onRetry"
<1>1. Init => Inv
  BY DEF Init
<1>2. TypeOK /\ Inv /\ [Next]_vars => Inv'
  <2> SUFFICES ASSUME TypeOK, Inv, [Next]_vars PROVE Inv'
    OBVIOUS
  <2> USE DEF TypeOK, Goto, Leave
  <2>1. ASSUME NEW s \in Slot, Report(s) PROVE Inv'
    <3>0. job[s].retries \in 0..MaxRetries
      BY DEF Message
    <3>1. ~(job[s].retries < MaxRetries)
      BY <3>0
    <3>2. pc' = [pc EXCEPT ![s] = "idle"]
      BY <2>1, <3>1 DEF Report
    <3> QED
      BY <3>2
  <2>2. ASSUME NEW s \in Slot, SlotStep(s) \/ SlotFault(s) \/ ReceiveTeardown(s) PROVE Inv'
    <3>1. CASE Check(s)
      BY <3>1 DEF Check
    <3>2. CASE \/ CancelTask(s) \/ Begin(s) \/ Setup(s) \/ AcquireLock(s) \/ Fetch(s)
               \/ LookForPod(s) \/ CreatePod(s) \/ WaitForPod(s) \/ StartRun(s)
      BY <3>2
         DEF CancelTask, Begin, Setup, AcquireLock, Fetch, LookForPod, CreatePod, WaitForPod,
             StartRun
    <3>3. CASE \/ RunSucceeds(s) \/ RunFails(s) \/ SaveOutputs(s) \/ MarkAsDone(s)
               \/ ReleaseLock(s) \/ ClearTaskDir(s) \/ OnRetry(s)
      BY <3>3 DEF RunSucceeds, RunFails, SaveOutputs, MarkAsDone, ReleaseLock, ClearTaskDir, OnRetry
    <3>4. CASE \/ TeardownCheck(s) \/ ReleaseWorker(s) \/ TeardownPods(s) \/ TeardownDirs(s)
               \/ ReceiveTeardown(s) \/ SlotFault(s)
      BY <3>4
         DEF TeardownCheck, ReleaseWorker, TeardownPods, TeardownDirs, ReceiveTeardown, SlotFault,
             Raise, RaiseInContext, RaiseInTeardown, Crash, Duplicate, slotVars
    <3> QED
      BY <2>1, <2>2, <3>1, <3>2, <3>3, <3>4 DEF SlotStep
  <2>3. ASSUME NEW s \in Slot, NEW m \in Message, Receive(s, m) PROVE Inv'
    BY <2>3 DEF Receive
  <2>4. CASE UNCHANGED pc
    BY <2>4
  <2> QED
    BY <2>2, <2>3, <2>4
       DEF Next, RegisterTask, ReportFailure, CancelPlan, HandleEvent, OrphanExpires, Quiet, vars,
           slotVars
<1> QED
  BY <1>1, <1>2, TypeCorrect, PTL DEF Spec

\* "the compute plan resources (pods, directories) should not be deleted until the compute
\* task is completed" (lock.py:32-33): so it is when tasks are not retried, or with one
\* process per worker; on_retry is what the lock does not stop.
THEOREM PodIsKept == MaxRetries = 0 \/ OneSlot => (Spec => PodKeptWhileRunning)
<1> DEFINE NoOther == \A s, r \in Slot : pc[s] = "running" => pc[r] # "onRetry"
<1>1. MaxRetries = 0 \/ OneSlot => (Spec => []NoOther)
  <2>1. CASE MaxRetries = 0
    <3>1. (\A s \in Slot : pc[s] # "onRetry") => NoOther
      OBVIOUS
    <3> QED
      BY <2>1, <3>1, NoRetry, PTL
  <2>2. CASE OneSlot
    <3>1. NoOther
      BY <2>2 DEF OneSlot
    <3> QED
      BY <3>1, PTL
  <2> QED
    BY <2>1, <2>2
<1>2. LockInv /\ NoOther /\ [Next]_vars =>
        [\A s \in Slot : pc[s] = "running" /\ pc'[s] = "running" => pod' = pod]_vars
  <2> SUFFICES ASSUME LockInv, NoOther, Next, NEW s \in Slot, pc[s] = "running",
                      pc'[s] = "running", pod' # pod
               PROVE  FALSE
    BY DEF vars
  <2>1. PICK r \in Slot : SlotStep(r)
    BY DEF Next, RegisterTask, ReportFailure, CancelPlan, HandleEvent, OrphanExpires, SlotFault,
           Raise, RaiseInContext, RaiseInTeardown, Crash, Duplicate, ReceiveTeardown, Receive, Quiet, vars
  <2>2. pc[r] \in {"create", "wait", "exec", "tdPods", "onRetry"}
    BY <2>1
       DEF SlotStep, Check, CancelTask, Begin, Setup, AcquireLock, Fetch, LookForPod, CreatePod,
           WaitForPod, StartRun, RunSucceeds, RunFails, SaveOutputs, MarkAsDone, ReleaseLock,
           ClearTaskDir, Report, OnRetry, TeardownCheck, ReleaseWorker, TeardownPods, TeardownDirs
  <2>3. pc[r] # "onRetry" /\ r # s
    BY <2>2
  <2>4. lock = r /\ lock = s
    BY <2>2, <2>3 DEF LockInv, HoldsLock, InLock, Prepared, InTeardown
  <2> QED
    BY <2>3, <2>4
<1> SUFFICES ASSUME MaxRetries = 0 \/ OneSlot PROVE Spec => PodKeptWhileRunning
  OBVIOUS
<1>3. Spec => []NoOther
  BY <1>1
<1> QED
  BY <1>2, <1>3, LockInvariant, PTL DEF Spec, PodKeptWhileRunning

-----------------------------------------------------------------------------
(* The directories, with any number of slots *)

\* Only the end of _run and a teardown empty the task directory, and only a
\* teardown removes the compute plan's.
LEMMA EmptiedBy ==
  ASSUME TypeOK, Next,
         \/ planDir /\ ~planDir'
         \/ ~(inputs \subseteq inputs')
         \/ output # NoTask /\ output' = NoTask
  PROVE  \E r \in Slot :
           \/ pc[r] = "tdDirs"
           \/ pc[r] = "clear" /\ planDir' = planDir
<1>1. PICK r \in Slot : SlotStep(r)
  BY DEF Next, RegisterTask, ReportFailure, CancelPlan, HandleEvent, OrphanExpires, SlotFault,
         Raise, RaiseInContext, RaiseInTeardown, Crash, Duplicate, ReceiveTeardown, Receive,
         Quiet, vars, dirVars
<1>2. ClearTaskDir(r) \/ TeardownDirs(r) \/ RunSucceeds(r)
  BY <1>1
     DEF SlotStep, Check, CancelTask, Begin, Setup, AcquireLock, Fetch, LookForPod, CreatePod,
         WaitForPod, StartRun, RunFails, SaveOutputs, MarkAsDone, ReleaseLock, Report, OnRetry,
         TeardownCheck, ReleaseWorker, TeardownPods, dirVars
<1>3. ~RunSucceeds(r)
  BY ComputeTaskAssumption DEF TypeOK, RunSucceeds, TaskOf, Message
<1> QED
  BY <1>2, <1>3 DEF ClearTaskDir, TeardownDirs

\* "Prevent the deletion compute plan resources while the compute plan is running"
\* (lock.py:25): the directories of a slot inside the lock are never a teardown's to
\* delete, whatever is killed, raised or delivered twice, by any number of slots; what
\* is left to empty the task directory is the "finally" of another attempt's _run.
THEOREM DirsAreKept == Spec => DirsKeptUnderLock
<1>1. TypeOK /\ LockInv /\ [Next]_vars =>
        [\A s \in Slot : pc[s] \in InLock =>
           /\ planDir => planDir'
           /\ \/ inputs \subseteq inputs' /\ (output = NoTask \/ output' # NoTask)
              \/ \E r \in Slot \ {s} : pc[r] = "clear"]_vars
  <2> SUFFICES ASSUME TypeOK, LockInv, Next, NEW s \in Slot, pc[s] \in InLock
               PROVE  /\ planDir => planDir'
                      /\ \/ inputs \subseteq inputs' /\ (output = NoTask \/ output' # NoTask)
                         \/ \E r \in Slot \ {s} : pc[r] = "clear"
    BY DEF vars
  <2>1. \A r \in Slot : pc[r] # "tdDirs"
    BY DEF LockInv, HoldsLock, InLock, Prepared, InTeardown
  <2>2. pc[s] # "clear"
    BY DEF InLock, Prepared
  <2> QED
    BY <2>1, <2>2, EmptiedBy
<1> QED
  BY <1>1, TypeCorrect, LockInvariant, PTL DEF Spec, DirsKeptUnderLock

-----------------------------------------------------------------------------
(* The task directory, with one slot: the chart's CELERY_WORKER_CONCURRENCY *)

\* Where a slot has put nothing into the task directory, or has emptied it.
Outside ==
  {"idle", "check", "begin", "setup", "lock", "recheck", "fetch", "report", "onRetry"}
    \union InTeardown
Empty == inputs = {} /\ output = NoTask

\* The task directory holds only what the task that runs has put there, and
\* nothing when none runs.
CleanInv ==
  /\ \A s \in Slot :
       /\ inputs \subseteq {TaskOf(s)} /\ output \in {TaskOf(s), NoTask}
       /\ pc[s] \in Outside \/ (pc[s] = "cancel" /\ lock # s) => Empty
  /\ OwnOutput

\* One step preserves CleanInv: the "finally" of _run follows every way out of it.
LEMMA CleanInvStep ==
  ASSUME OneSlot, NoCrash, TypeOK, LockInv, CleanInv, [Next]_vars
  PROVE  CleanInv'
<1> USE ComputeTaskAssumption
    DEF OneSlot, TypeOK, LockInv, HoldsLock, CleanInv, Outside, Empty, OwnOutput, Goto, Leave,
        TaskOf, InLock, Prepared, InTeardown, orcVars, brokerVars, reportVars, dirVars, slotVars
<1>1. ASSUME NEW t \in Task, RegisterTask(t) PROVE CleanInv'
  BY <1>1 DEF RegisterTask
<1>2. ASSUME NEW t \in Task, ReportFailure(t) PROVE CleanInv'
  BY <1>2 DEF ReportFailure
<1>3. ASSUME CancelPlan \/ OrphanExpires PROVE CleanInv'
  BY <1>3 DEF CancelPlan, OrphanExpires
<1>4. ASSUME HandleEvent PROVE CleanInv'
  BY <1>4 DEF HandleEvent
<1>5. ASSUME NEW s \in Slot, NEW m \in Message, Receive(s, m) PROVE CleanInv'
  BY <1>5 DEF Receive
<1>6. ASSUME NEW s \in Slot, Check(s) PROVE CleanInv'
  BY <1>6 DEF Check
<1>7. ASSUME NEW s \in Slot, CancelTask(s) PROVE CleanInv'
  BY <1>7 DEF CancelTask
<1>8. ASSUME NEW s \in Slot, Begin(s) PROVE CleanInv'
  BY <1>8 DEF Begin
<1>9. ASSUME NEW s \in Slot, MarkAsDone(s) PROVE CleanInv'
  BY <1>9 DEF MarkAsDone
<1>10. ASSUME NEW s \in Slot, Crash(s) PROVE CleanInv'
  BY <1>10 DEF Crash, NoCrash
<1>11. ASSUME NEW s \in Slot, Setup(s) PROVE CleanInv'
  BY <1>11 DEF Setup
<1>12. ASSUME NEW s \in Slot, AcquireLock(s) PROVE CleanInv'
  BY <1>12 DEF AcquireLock
<1>13. ASSUME NEW s \in Slot, Fetch(s) PROVE CleanInv'
  BY <1>13 DEF Fetch
<1>14. ASSUME NEW s \in Slot, LookForPod(s) PROVE CleanInv'
  BY <1>14 DEF LookForPod
<1>15. ASSUME NEW s \in Slot, CreatePod(s) PROVE CleanInv'
  BY <1>15 DEF CreatePod
<1>16. ASSUME NEW s \in Slot, WaitForPod(s) PROVE CleanInv'
  BY <1>16 DEF WaitForPod
<1>17. ASSUME NEW s \in Slot, StartRun(s) PROVE CleanInv'
  BY <1>17 DEF StartRun
<1>18. ASSUME NEW s \in Slot, RunSucceeds(s) PROVE CleanInv'
  BY <1>18 DEF RunSucceeds
<1>19. ASSUME NEW s \in Slot, RunFails(s) PROVE CleanInv'
  BY <1>19 DEF RunFails
<1>20. ASSUME NEW s \in Slot, SaveOutputs(s) PROVE CleanInv'
  BY <1>20 DEF SaveOutputs
<1>21. ASSUME NEW s \in Slot, ReleaseLock(s) PROVE CleanInv'
  BY <1>21 DEF ReleaseLock
<1>22. ASSUME NEW s \in Slot, ClearTaskDir(s) PROVE CleanInv'
  BY <1>22 DEF ClearTaskDir
<1>23. ASSUME NEW s \in Slot, Report(s) PROVE CleanInv'
  BY <1>23 DEF Report
<1>24. ASSUME NEW s \in Slot, OnRetry(s) PROVE CleanInv'
  BY <1>24 DEF OnRetry
<1>25. ASSUME NEW s \in Slot, TeardownCheck(s) PROVE CleanInv'
  BY <1>25 DEF TeardownCheck
<1>26. ASSUME NEW s \in Slot, ReleaseWorker(s) PROVE CleanInv'
  BY <1>26 DEF ReleaseWorker
<1>27. ASSUME NEW s \in Slot, TeardownPods(s) PROVE CleanInv'
  BY <1>27 DEF TeardownPods
<1>28. ASSUME NEW s \in Slot, TeardownDirs(s) PROVE CleanInv'
  BY <1>28 DEF TeardownDirs
<1>29. ASSUME NEW s \in Slot, ReceiveTeardown(s) PROVE CleanInv'
  BY <1>29 DEF ReceiveTeardown
<1>30. ASSUME NEW s \in Slot, Raise(s) PROVE CleanInv'
  BY <1>30 DEF Raise
<1>31. ASSUME NEW s \in Slot, RaiseInContext(s) PROVE CleanInv'
  BY <1>31 DEF RaiseInContext
<1>32. ASSUME NEW s \in Slot, Duplicate(s) PROVE CleanInv'
  BY <1>32 DEF Duplicate
<1>33. CASE UNCHANGED vars
  BY <1>33 DEF vars
<1>34. ASSUME NEW s \in Slot, RaiseInTeardown(s) PROVE CleanInv'
  BY <1>34 DEF RaiseInTeardown
<1> QED
  BY <1>1, <1>2, <1>3, <1>4, <1>5, <1>6, <1>7, <1>8, <1>9, <1>10, <1>11, <1>12, <1>13, <1>14, <1>15, <1>16, <1>17, <1>18, <1>19, <1>20, <1>21, <1>22, <1>23, <1>24, <1>25, <1>26, <1>27, <1>28, <1>29, <1>30, <1>31, <1>32, <1>33, <1>34
     DEF Next, SlotStep, SlotFault, Quiet

\* With one process per worker that is not killed, CleanInv always holds.
THEOREM CleanInvariant == OneSlot /\ NoCrash => (Spec => []CleanInv)
<1> SUFFICES ASSUME OneSlot, NoCrash PROVE Spec => []CleanInv
  OBVIOUS
<1>1. Init => CleanInv
  BY DEF Init, CleanInv, Empty, OwnOutput, TaskOf
<1>2. TypeOK /\ LockInv /\ CleanInv /\ [Next]_vars => CleanInv'
  BY CleanInvStep
<1> QED
  BY <1>1, <1>2, TypeCorrect, LockInvariant, PTL DEF Spec

\* "the next task starts with an empty environment, and cannot access the previous
\* task's assets" (asset_buffer.py:49-50).
THEOREM TasksAreIsolated == OneSlot /\ NoCrash => (Spec => []Isolation)
<1>1. CleanInv => Isolation
  BY DEF CleanInv, Isolation
<1> QED
  BY <1>1, CleanInvariant, PTL

\* save_outputs registers as the output of a task what that task has written, also when
\* its function wrote nothing.
THEOREM OutputsAreOwn == OneSlot /\ NoCrash => (Spec => []OwnOutput)
<1>1. CleanInv => OwnOutput
  BY DEF CleanInv
<1> QED
  BY <1>1, CleanInvariant, PTL
=============================================================================
