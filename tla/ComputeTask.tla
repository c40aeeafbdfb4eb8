----------------------------- MODULE ComputeTask -----------------------------
(***************************************************************************)
(* How one worker runs the compute tasks of one compute plan:              *)
(* substrapp/tasks/tasks_compute_task.py (_run), tasks/task.py (retry and  *)
(* failure callbacks), compute_tasks/{compute_task,execute,outputs,        *)
(* directories,lock}.py and tasks/tasks_compute_plan.py (teardown).        *)
(*                                                                         *)
(* The deployment has one worker; ComputePlanRouting has several.  A slot  *)
(* is one of its Celery processes (CELERY_WORKER_CONCURRENCY of them).     *)
(* Slots share the compute plan's directory, its single task directory and *)
(* its compute pod, under the compute plan lock of LockLocal, used here    *)
(* through what it promises (Lease; no task outlives the lock's 24 hour    *)
(* ttl).  The orchestrator, which owns the statuses, is external and       *)
(* modelled from the calls made to it.                                     *)
(***************************************************************************)
EXTENDS Naturals, Sequences

CONSTANTS
  Task,        \* the tasks of the compute plan that run on this worker
  NoTask,      \* no task
  Slot,        \* the Celery processes of the worker
  Free,        \* the compute plan lock is not held
  Orphan,      \* it is held by a process that died
  MaxRetries,  \* CELERY_TASK_MAX_RETRIES
  Envs,        \* what the environment may do, see EnvKind: the sets to consider
  MaxFaults    \* bound on crashes, duplicates and redeliveries together

\* "cancel": a user cancels the compute plan; "transient": any step may raise
\* (network, storage, Kubernetes); "userCode": the function may fail; "crash":
\* a slot is killed; "duplicate": the broker delivers an unacknowledged message
\* again (acks_late); "redeliver": the event reactor dies after it handled an
\* event and before it saved the event's id; "down": the orchestrator does not
\* answer the worker that reports a failure.
EnvKind == {"cancel", "transient", "userCode", "crash", "duplicate", "redeliver", "down"}

ASSUME ComputeTaskAssumption ==
  /\ NoTask \notin Task
  /\ Free \notin Slot /\ Orphan \notin Slot /\ Free # Orphan
  /\ MaxRetries \in Nat /\ MaxFaults \in Nat
  /\ Envs \subseteq SUBSET EnvKind

VARIABLES
  env,         \* what the environment may do in this behaviour, in Envs
  status,      \* the orchestrator's status of each task
  canceled,    \* the compute plan has a cancelation date
  registered,  \* whose output is registered as the output of each task
  events,      \* the orchestrator's events the reactor has not handled yet
  messages,    \* the broker: how many copies of each compute_task message
  teardowns,   \* the broker: how many delete_cp_pod_and_dirs messages
  reports,     \* the broker: tasks with a store_asset_failure_report message
  unreported,  \* history: tasks such a message of which failed and is gone
  mapped,      \* the compute plan is mapped to the worker
  lock,        \* who holds the compute plan lock
  planDir,     \* the compute plan's directory exists
  inputs,      \* the tasks whose assets are in the task directory
  output,      \* the task whose output files are in the task directory
  pod,         \* the compute pod
  job,         \* the message each slot works on
  outcome,     \* how each slot's run of _run ended
  pc,          \* where each slot is
  faults       \* number of faults so far

orcVars == <<status, canceled, registered, events>>
reportVars == <<reports, unreported>>
brokerVars == <<messages, teardowns, reportVars, mapped>>
dirVars == <<planDir, inputs, output>>
slotVars == <<job, outcome, pc>>
vars == <<env, orcVars, brokerVars, dirVars, lock, pod, slotVars, faults>>

Status == {"none", "slot", "executing", "done", "failed", "canceled"}
Active == {"slot", "executing"}
Final == {"done", "failed", "canceled"}
Message == [task : Task, retries : 0..MaxRetries]
Outcome == {"ok", "ignore", "retry", "noretry"}

\* Places in _run inside the lock, once the inputs are in the task directory.
Prepared == {"pod", "podCheck", "create", "wait", "exec", "running", "save", "mark"}
InLock == Prepared \union {"recheck", "fetch"}
InTeardown == {"tdLock", "tdCheck", "tdRelease", "tdPods", "tdDirs", "tdUnlock"}
Pc == InLock \union InTeardown \union
        {"idle", "check", "cancel", "begin", "setup", "lock", "unlock",
         "clear", "report", "onRetry"}

PlanRunnable == ~canceled /\ \A t \in Task : status[t] # "failed"
PlanRunning == PlanRunnable /\ \E t \in Task : status[t] \in Active

TaskOf(s) == job[s].task
Goto(s, where) == pc' = [pc EXCEPT ![s] = where]
Publish(m) == messages' = [messages EXCEPT ![m] = @ + 1]
\* Faulty variant: EXECUTING reaches the reactor's handlers too.
SetStatusAlwaysEvent(t, st) ==
  /\ status' = [status EXCEPT ![t] = st]
  /\ events' = Append(events, [task |-> t, status |-> st])

SetStatus(t, st) ==
  /\ status' = [status EXCEPT ![t] = st]
  /\ events' = IF st = "executing" THEN events ELSE Append(events, [task |-> t, status |-> st])

\* _run is left by a return or an exception: through the lock's release and the
\* "finally" that clears the task directory, according to how far it got.
Leave(s, how) ==
  /\ outcome' = [outcome EXCEPT ![s] = how]
  /\ Goto(s, IF lock = s THEN "unlock"
             ELSE IF pc[s] \in {"check", "cancel", "begin"} THEN "report" ELSE "clear")

-----------------------------------------------------------------------------
Init ==
  /\ env \in Envs
  /\ status = [t \in Task |-> "none"]
  /\ canceled = FALSE
  /\ registered = [t \in Task |-> NoTask]
  /\ events = <<>>
  /\ messages = [m \in Message |-> 0]
  /\ teardowns = 0
  /\ reports = {} /\ unreported = {}
  /\ mapped = FALSE
  /\ lock = Free
  /\ planDir = FALSE
  /\ inputs = {}
  /\ output = NoTask
  /\ pod = "none"
  /\ \E t \in Task : job = [s \in Slot |-> [task |-> t, retries |-> 0]]  \* not read when idle
  /\ outcome = [s \in Slot |-> "ok"]
  /\ pc = [s \in Slot |-> "idle"]
  /\ faults = 0

(* The orchestrator's users *)

RegisterTask(t) ==
  /\ status[t] = "none" /\ PlanRunnable
  /\ SetStatus(t, "slot")
  /\ UNCHANGED <<env, canceled, registered, brokerVars, dirVars, lock, pod, slotVars, faults>>

CancelPlan ==
  /\ "cancel" \in env /\ ~canceled
  /\ canceled' = TRUE
  /\ UNCHANGED <<env, status, registered, events, brokerVars, dirVars, lock, pod, slotVars, faults>>

(* The event reactor: on_computetask_event, queue_compute_task and           *)
(* queue_delete_cp_pod_and_dirs_and_optionally_images.  AsyncResult(task.key)*)
(* is always PENDING, since apply_async is called without task_id: the test  *)
(* for an existing Celery task never stops anything.                         *)
HandleEvent ==
  /\ events # <<>>
  /\ LET e == Head(events)
         m == [task |-> e.task, retries |-> 0]
     IN \/ /\ e.status = "slot" /\ status[e.task] = "slot" /\ PlanRunnable
           /\ Publish(m) /\ mapped' = TRUE
           /\ UNCHANGED teardowns
        \/ /\ e.status = "slot" /\ ~(status[e.task] = "slot" /\ PlanRunnable)
           /\ UNCHANGED <<messages, teardowns, mapped>>
        \/ /\ e.status \in Final
           /\ teardowns' = IF mapped /\ ~PlanRunning THEN teardowns + 1 ELSE teardowns
           /\ UNCHANGED <<messages, mapped>>
  /\ \/ events' = Tail(events) /\ UNCHANGED faults
     \/ /\ "redeliver" \in env /\ faults < MaxFaults
        /\ faults' = faults + 1
        /\ UNCHANGED events
  /\ UNCHANGED <<env, status, canceled, registered, reportVars, dirVars, lock, pod, slotVars>>

\* store_asset_failure_report, run by any worker: a kill has it delivered again,
\* an exception does not (max_retries is 0), and the message is gone.
ReportFailure(t) ==
  /\ t \in reports
  /\ reports' = reports \ {t}
  /\ \/ status[t] \in Active /\ SetStatus(t, "failed") /\ UNCHANGED unreported
     \/ status[t] \notin Active /\ UNCHANGED <<status, events, unreported>>
     \/ /\ "down" \in env
        /\ unreported' = unreported \union {t}
        /\ UNCHANGED <<status, events>>
  /\ UNCHANGED <<env, canceled, registered, messages, teardowns, mapped, dirVars, lock, pod, slotVars, faults>>

-----------------------------------------------------------------------------
(* compute_task on one slot *)

Receive(s, m) ==
  /\ pc[s] = "idle" /\ messages[m] > 0
  /\ messages' = [messages EXCEPT ![m] = @ - 1]
  /\ job' = [job EXCEPT ![s] = m]
  /\ Goto(s, "check")
  /\ UNCHANGED <<env, orcVars, teardowns, reportVars, mapped, dirVars, lock, pod, outcome, faults>>

\* abort_task_if_not_runnable(allow_executing=True), called when the run
\* starts, again once the lock is held, and before the pod is created.
Check(s) ==
  /\ pc[s] \in {"check", "recheck", "podCheck"}
  /\ \/ /\ status[TaskOf(s)] \notin Active
        /\ Leave(s, "ignore")
     \/ /\ status[TaskOf(s)] \in Active /\ ~PlanRunnable
        /\ Goto(s, "cancel")
        /\ UNCHANGED outcome
     \/ /\ status[TaskOf(s)] \in Active /\ PlanRunnable
        /\ Goto(s, CASE pc[s] = "recheck" -> "fetch"
                     [] pc[s] = "podCheck" -> "create"
                     [] pc[s] = "check" /\ status[TaskOf(s)] = "slot" -> "begin"
                     [] pc[s] = "check" /\ status[TaskOf(s)] # "slot" -> "setup")
        /\ UNCHANGED outcome
  /\ UNCHANGED <<env, orcVars, brokerVars, dirVars, lock, pod, job, faults>>

\* The plan is not runnable: cancel the task, then stop; the orchestrator
\* refuses when the task has reached a final status meanwhile.
CancelTask(s) ==
  /\ pc[s] = "cancel"
  /\ \/ status[TaskOf(s)] \in Active /\ SetStatus(TaskOf(s), "canceled") /\ Leave(s, "ignore")
     \/ status[TaskOf(s)] \notin Active /\ Leave(s, "retry") /\ UNCHANGED <<status, events>>
  /\ UNCHANGED <<env, canceled, registered, brokerVars, dirVars, lock, pod, job, faults>>

\* start_task_if_not_started
Begin(s) ==
  /\ pc[s] = "begin"
  /\ \/ /\ status[TaskOf(s)] = "slot"
        /\ SetStatus(TaskOf(s), "executing")
        /\ Goto(s, "setup")
        /\ UNCHANGED outcome
     \/ /\ status[TaskOf(s)] # "slot"
        /\ Leave(s, "retry")
        /\ UNCHANGED <<status, events>>
  /\ UNCHANGED <<env, canceled, registered, brokerVars, dirVars, lock, pod, job, faults>>

\* init_compute_plan_dirs and init_task_dirs, before the lock is taken; they
\* create what is missing and empty nothing.
Setup(s) ==
  /\ pc[s] = "setup"
  /\ planDir' = TRUE
  /\ Goto(s, "lock")
  /\ UNCHANGED <<env, orcVars, brokerVars, inputs, output, lock, pod, job, outcome, faults>>

\* Faulty variant: the lock file is not created exclusively.
AcquireLockShared(s) ==
  /\ pc[s] \in {"lock", "tdLock"}
  /\ lock' = s
  /\ Goto(s, IF pc[s] = "lock" THEN "recheck" ELSE "tdCheck")
  /\ UNCHANGED <<env, orcVars, brokerVars, dirVars, pod, job, outcome, faults>>

AcquireLock(s) ==
  /\ pc[s] \in {"lock", "tdLock"}
  /\ lock = Free
  /\ lock' = s
  /\ Goto(s, IF pc[s] = "lock" THEN "recheck" ELSE "tdCheck")
  /\ UNCHANGED <<env, orcVars, brokerVars, dirVars, pod, job, outcome, faults>>

\* add_task_assets_to_buffer, add_assets_to_taskdir, download_function.  The
\* links need the directories; a model left there by an earlier run makes
\* shutil.rmtree raise, a data sample is replaced.
Fetch(s) ==
  /\ pc[s] = "fetch"
  /\ \/ /\ planDir
        /\ inputs' = inputs \union {TaskOf(s)}
        /\ Goto(s, "pod")
        /\ UNCHANGED outcome
     \/ /\ ~planDir \/ TaskOf(s) \in inputs
        /\ Leave(s, "retry")
        /\ UNCHANGED inputs
  /\ UNCHANGED <<env, orcVars, brokerVars, planDir, output, lock, pod, job, faults>>

LookForPod(s) ==
  /\ pc[s] = "pod"
  /\ Goto(s, IF pod = "none" THEN "podCheck" ELSE "exec")
  /\ UNCHANGED <<env, orcVars, brokerVars, dirVars, lock, pod, job, outcome, faults>>

\* create_namespaced_pod; OnePodCreation says that the name is never in use.
CreatePod(s) ==
  /\ pc[s] = "create"
  /\ pod' = "starting"
  /\ Goto(s, "wait")
  /\ UNCHANGED <<env, orcVars, brokerVars, dirVars, lock, job, outcome, faults>>

\* wait_for_pod_readiness; on a timeout the pod is deleted.
WaitForPod(s) ==
  /\ pc[s] = "wait"
  /\ \/ pod # "none" /\ pod' = "ready" /\ Goto(s, "exec") /\ UNCHANGED outcome
     \/ pod # "none" /\ "transient" \in env /\ pod' = "none" /\ Leave(s, "retry")
     \/ pod = "none" /\ Leave(s, "retry") /\ UNCHANGED pod
  /\ UNCHANGED <<env, orcVars, brokerVars, dirVars, lock, job, faults>>

\* The command is started in the pod.  A pod that was found, and not waited
\* for, may still be starting ...
StartRun(s) ==
  /\ pc[s] = "exec"
  /\ \/ pod # "none" /\ pod' = "ready" /\ Goto(s, "running") /\ UNCHANGED outcome
     \/ pod # "ready" /\ Leave(s, "retry") /\ UNCHANGED pod
  /\ UNCHANGED <<env, orcVars, brokerVars, dirVars, lock, job, faults>>

\* ... and exits 0, having written its outputs or not.
RunSucceeds(s) ==
  /\ pc[s] = "running"
  /\ pod = "ready" /\ TaskOf(s) \in inputs
  /\ output' \in IF "userCode" \in env THEN {TaskOf(s), output} ELSE {TaskOf(s)}
  /\ Goto(s, "save")
  /\ UNCHANGED <<env, orcVars, brokerVars, planDir, inputs, lock, pod, job, outcome, faults>>

\* ... or does not: the function raised, or its pod or its inputs are gone.
\* A return code other than 0 is an ExecutionError, which is not retried; the
\* stream of a pod that was deleted gives one or raises.
RunFails(s) ==
  /\ pc[s] = "running"
  /\ \/ "userCode" \in env /\ Leave(s, "noretry")
     \/ TaskOf(s) \notin inputs /\ Leave(s, "noretry")
     \/ pod = "none" /\ \E how \in {"noretry", "retry"} : Leave(s, how)
  /\ UNCHANGED <<env, orcVars, brokerVars, dirVars, lock, pod, job, faults>>

\* OutputSaver.save_outputs: whatever is in the task directory is registered
\* in the orchestrator, which may refuse a second registration.
SaveOutputs(s) ==
  /\ pc[s] = "save"
  /\ \/ /\ output # NoTask /\ registered[TaskOf(s)] = NoTask
        /\ registered' = [registered EXCEPT ![TaskOf(s)] = output]
        /\ Goto(s, "mark")
        /\ UNCHANGED outcome
     \/ /\ output # NoTask /\ registered[TaskOf(s)] # NoTask
        /\ Goto(s, "mark")
        /\ UNCHANGED <<registered, outcome>>
     \/ /\ output = NoTask \/ registered[TaskOf(s)] # NoTask
        /\ Leave(s, "retry")
        /\ UNCHANGED registered
  /\ UNCHANGED <<env, status, canceled, events, brokerVars, dirVars, lock, pod, job, faults>>

\* mark_as_done tolerates a task that is already DONE and nothing else.  The
\* update may be applied and its answer lost.
MarkAsDone(s) ==
  /\ pc[s] = "mark"
  /\ \/ /\ status[TaskOf(s)] = "executing"
        /\ SetStatus(TaskOf(s), "done")
        /\ \E how \in (IF "transient" \in env THEN {"ok", "retry"} ELSE {"ok"}) : Leave(s, how)
     \/ /\ status[TaskOf(s)] # "executing"
        /\ Leave(s, IF status[TaskOf(s)] = "done" THEN "ok" ELSE "retry")
        /\ UNCHANGED <<status, events>>
  /\ UNCHANGED <<env, canceled, registered, brokerVars, dirVars, lock, pod, job, faults>>

\* Any other exception: CeleryRetryError.  Before Context.from_task has
\* returned there are no directories to clear.
Raise(s) ==
  /\ "transient" \in env
  /\ pc[s] \in InLock \union {"check", "cancel", "begin", "setup", "lock"}
  /\ Leave(s, "retry")
  /\ UNCHANGED <<env, orcVars, brokerVars, dirVars, lock, pod, job, faults>>

RaiseInContext(s) ==
  /\ "transient" \in env /\ pc[s] = "setup"
  /\ outcome' = [outcome EXCEPT ![s] = "retry"]
  /\ Goto(s, "report")
  /\ UNCHANGED <<env, orcVars, brokerVars, dirVars, lock, pod, job, faults>>

ReleaseLock(s) ==
  /\ pc[s] \in {"unlock", "tdUnlock"}
  /\ lock' = Free
  /\ Goto(s, IF pc[s] = "unlock" THEN "clear" ELSE "idle")
  /\ UNCHANGED <<env, orcVars, brokerVars, dirVars, pod, job, outcome, faults>>

\* Faulty variant: the folders of the outputs are not cleared.
ClearInputs(s) ==
  /\ pc[s] = "clear"
  /\ inputs' = {}
  /\ Goto(s, "report")
  /\ UNCHANGED <<env, orcVars, brokerVars, planDir, output, lock, pod, job, outcome, faults>>

\* teardown_task_dirs, in the "finally" of _run: after the lock was released.
ClearTaskDir(s) ==
  /\ pc[s] = "clear"
  /\ inputs' = {} /\ output' = NoTask
  /\ Goto(s, "report")
  /\ UNCHANGED <<env, orcVars, brokerVars, planDir, lock, pod, job, outcome, faults>>

\* Faulty variant: a task whose last retry failed is not reported.
ReportOnlyUserErrors(s) ==
  /\ pc[s] = "report"
  /\ LET retry == outcome[s] = "retry" /\ job[s].retries < MaxRetries
     IN /\ IF retry THEN Publish([job[s] EXCEPT !.retries = @ + 1]) ELSE UNCHANGED messages
        /\ reports' = IF outcome[s] = "noretry" THEN reports \union {TaskOf(s)} ELSE reports
        /\ Goto(s, IF retry THEN "onRetry" ELSE "idle")
  /\ UNCHANGED <<env, orcVars, teardowns, unreported, mapped, dirVars, lock, pod, job, outcome, faults>>

\* The end of the Celery task: acknowledged, retried, or on_failure.
Report(s) ==
  /\ pc[s] = "report"
  /\ LET retry == outcome[s] = "retry" /\ job[s].retries < MaxRetries
         fail == outcome[s] \in {"retry", "noretry"} /\ ~retry
     IN /\ IF retry THEN Publish([job[s] EXCEPT !.retries = @ + 1]) ELSE UNCHANGED messages
        /\ reports' = IF fail THEN reports \union {TaskOf(s)} ELSE reports
        /\ Goto(s, IF retry THEN "onRetry" ELSE "idle")
  /\ UNCHANGED <<env, orcVars, teardowns, unreported, mapped, dirVars, lock, pod, job, outcome, faults>>

\* ComputeTask.on_retry: delete the compute plan's pods, without the lock.
OnRetry(s) ==
  /\ pc[s] = "onRetry"
  /\ pod' = "none"
  /\ Goto(s, "idle")
  /\ UNCHANGED <<env, orcVars, brokerVars, dirVars, lock, job, outcome, faults>>

-----------------------------------------------------------------------------
(* delete_cp_pod_and_dirs on one slot; acknowledged when it is received *)

\* Faulty variant: the teardown does not take the compute plan lock.
ReceiveTeardownWithoutLock(s) ==
  /\ pc[s] = "idle" /\ teardowns > 0
  /\ teardowns' = teardowns - 1
  /\ Goto(s, "tdCheck")
  /\ UNCHANGED <<env, orcVars, messages, reportVars, mapped, dirVars, lock, pod, job, outcome, faults>>

ReceiveTeardown(s) ==
  /\ pc[s] = "idle" /\ teardowns > 0
  /\ teardowns' = teardowns - 1
  /\ Goto(s, "tdLock")
  /\ UNCHANGED <<env, orcVars, messages, reportVars, mapped, dirVars, lock, pod, job, outcome, faults>>

TeardownCheck(s) ==
  /\ pc[s] = "tdCheck"
  /\ Goto(s, IF PlanRunning THEN "tdUnlock" ELSE "tdRelease")
  /\ UNCHANGED <<env, orcVars, brokerVars, dirVars, lock, pod, job, outcome, faults>>

\* _teardown_pods_and_dirs: release_worker, then the pods, then the directory.
ReleaseWorker(s) ==
  /\ pc[s] = "tdRelease"
  /\ mapped' = FALSE
  /\ Goto(s, "tdPods")
  /\ UNCHANGED <<env, orcVars, messages, teardowns, reportVars, dirVars, lock, pod, job, outcome, faults>>

TeardownPods(s) ==
  /\ pc[s] = "tdPods"
  /\ pod' = "none"
  /\ Goto(s, "tdDirs")
  /\ UNCHANGED <<env, orcVars, brokerVars, dirVars, lock, job, outcome, faults>>

TeardownDirs(s) ==
  /\ pc[s] = "tdDirs"
  /\ planDir' = FALSE /\ inputs' = {} /\ output' = NoTask
  /\ Goto(s, "tdUnlock")
  /\ UNCHANGED <<env, orcVars, brokerVars, lock, pod, job, outcome, faults>>

\* The orchestrator, the lock, the database or Kubernetes raises: the lock is
\* released, the message is gone and nothing redoes what was left.
RaiseInTeardown(s) ==
  /\ "transient" \in env
  /\ pc[s] \in InTeardown \ {"tdUnlock"}
  /\ Goto(s, IF lock = s THEN "tdUnlock" ELSE "idle")
  /\ UNCHANGED <<env, orcVars, brokerVars, dirVars, lock, pod, job, outcome, faults>>

-----------------------------------------------------------------------------
(* Faults *)

\* A slot is killed.  An unfinished compute_task is delivered again, a teardown
\* is lost.  The lock file stays until its ttl when only the process died, and
\* goes with /tmp when the container did; the directories are on a volume.
Crash(s) ==
  /\ "crash" \in env /\ faults < MaxFaults
  /\ pc[s] # "idle"
  /\ faults' = faults + 1
  /\ IF pc[s] \in InTeardown THEN UNCHANGED messages ELSE Publish(job[s])
  /\ lock' \in IF lock = s THEN {Free, Orphan} ELSE {lock}
  /\ Goto(s, "idle")
  /\ UNCHANGED <<env, orcVars, teardowns, reportVars, mapped, dirVars, pod, job, outcome>>

OrphanExpires ==
  /\ lock = Orphan
  /\ lock' = Free
  /\ UNCHANGED <<env, orcVars, brokerVars, dirVars, pod, slotVars, faults>>

\* The broker delivers again a message that is still being worked on.
Duplicate(s) ==
  /\ "duplicate" \in env /\ faults < MaxFaults
  /\ pc[s] \notin InTeardown \union {"idle"}
  /\ faults' = faults + 1
  /\ Publish(job[s])
  /\ UNCHANGED <<env, orcVars, teardowns, reportVars, mapped, dirVars, lock, pod, slotVars>>

-----------------------------------------------------------------------------
SlotStep(s) ==
  \/ Check(s) \/ CancelTask(s) \/ Begin(s) \/ Setup(s) \/ AcquireLock(s)
  \/ Fetch(s) \/ LookForPod(s) \/ CreatePod(s) \/ WaitForPod(s) \/ StartRun(s)
  \/ RunSucceeds(s) \/ RunFails(s) \/ SaveOutputs(s) \/ MarkAsDone(s)
  \/ ReleaseLock(s) \/ ClearTaskDir(s) \/ Report(s) \/ OnRetry(s)
  \/ TeardownCheck(s) \/ ReleaseWorker(s) \/ TeardownPods(s) \/ TeardownDirs(s)

SlotFault(s) ==
  Raise(s) \/ RaiseInContext(s) \/ RaiseInTeardown(s) \/ Crash(s) \/ Duplicate(s)

\* Nothing is left to do: the worker waits for work.
Quiet ==
  /\ events = <<>> /\ reports = {} /\ teardowns = 0
  /\ \A m \in Message : messages[m] = 0
  /\ \A s \in Slot : pc[s] = "idle"
  /\ UNCHANGED vars

Next ==
  \/ \E t \in Task : RegisterTask(t) \/ ReportFailure(t)
  \/ CancelPlan \/ HandleEvent \/ OrphanExpires
  \/ \E s \in Slot : SlotStep(s) \/ SlotFault(s) \/ ReceiveTeardown(s)
  \/ \E s \in Slot, m \in Message : Receive(s, m)
  \/ Quiet

Spec == Init /\ [][Next]_vars

\* The reactor and the slots keep running and the broker delivers every
\* message: a slot that is free again and again takes each of them some time.
Fairness ==
  /\ WF_vars(HandleEvent) /\ WF_vars(OrphanExpires)
  /\ \A t \in Task : WF_vars(ReportFailure(t))
  /\ \A s \in Slot : WF_vars(SlotStep(s)) /\ SF_vars(AcquireLock(s))
  /\ SF_vars(\E s \in Slot : ReceiveTeardown(s))
  /\ \A m \in Message : SF_vars(\E s \in Slot : Receive(s, m))

FairSpec == Spec /\ Fairness

-----------------------------------------------------------------------------
Event == [task : Task, status : {"slot"} \union Final]

TypeOK ==
  /\ env \in Envs
  /\ status \in [Task -> Status]
  /\ canceled \in BOOLEAN
  /\ registered \in [Task -> Task \union {NoTask}]
  /\ events \in Seq(Event)
  /\ messages \in [Message -> Nat]
  /\ teardowns \in Nat
  /\ reports \subseteq Task /\ unreported \subseteq Task
  /\ mapped \in BOOLEAN
  /\ lock \in Slot \union {Free, Orphan}
  /\ planDir \in BOOLEAN
  /\ inputs \subseteq Task
  /\ output \in Task \union {NoTask}
  /\ pod \in {"none", "starting", "ready"}
  /\ job \in [Slot -> Message]
  /\ outcome \in [Slot -> Outcome]
  /\ pc \in [Slot -> Pc]
  /\ faults \in Nat

\* lock.py: the task directory "is designed to be used by a single consumer":
\* from the moment a slot has put a task's inputs there until it leaves the
\* lock, they stay there.  With several slots they do not.
InputsStay ==
  \A s \in Slot : pc[s] \in Prepared => TaskOf(s) \in inputs

\* lock.py: the directories "should not be deleted until the compute task is
\* completed".  While a slot is inside the lock the compute plan's directory
\* stays, and what is in the task directory is lost only to another attempt that
\* has left the lock and clears it: never to a teardown.
DirsKeptUnderLock ==
  [][\A s \in Slot : pc[s] \in InLock =>
       /\ planDir => planDir'
       /\ \/ inputs \subseteq inputs' /\ (output = NoTask \/ output' # NoTask)
          \/ \E r \in Slot \ {s} : pc[r] = "clear"]_vars

\* asset_buffer.py: the next task "cannot access the previous task's assets":
\* the function of a task runs with its own inputs only.  Only the attempt that
\* filled the task directory clears it, so a killed one leaves it as it was.
Isolation ==
  \A s \in Slot : pc[s] = "running" => inputs \subseteq {TaskOf(s)}

\* lock.py: the compute plan's pod is not deleted while a task runs in it.
PodKeptWhileRunning ==
  [][\A s \in Slot : pc[s] = "running" /\ pc'[s] = "running" => pod' = pod]_vars

\* lock.py: "Ensure concurrent compute tasks don't try to create the same pod at
\* the same time".
OnePodCreation == [][pod' = "starting" /\ pod # "starting" => pod = "none"]_vars

\* lock.py: "Ensure concurrent compute tasks don't try to ...": one slot at a time
\* is between the check that follows the lock and the lock's release.
OneTaskAtATime ==
  \A s, r \in Slot : pc[s] \in InLock /\ pc[r] \in InLock => s = r

\* What is registered as the output of a task was produced by that task.
OwnOutput == \A t \in Task : registered[t] \in {t, NoTask}

\* A task is DONE only once its outputs are registered, whatever was retried,
\* redelivered or killed on the way.
DoneHasOutput == \A t \in Task : status[t] = "done" => registered[t] # NoTask

\* Every task that reached the executor ends, unless its plan was stopped before
\* a worker took it (nobody cancels such a task), or it failed and the one
\* message that was to say so met an orchestrator that did not answer.
EveryTaskEnds ==
  \A t \in Task :
    status[t] \in Active ~>
      \/ status[t] \in Final
      \/ status[t] = "slot" /\ ~PlanRunnable
      \/ t \in unreported
=============================================================================
