-------------------------- MODULE ComputePlanRouting --------------------------
(***************************************************************************)
(* One compute plan on several workers: how the event reactor routes its   *)
(* tasks and its teardown (events/reactor.py, tasks/tasks_compute_task.py, *)
(* tasks/tasks_compute_plan.py, task_routing.py) while the workers create, *)
(* use and delete its compute pod (compute_tasks/execute.py).              *)
(*                                                                         *)
(* A worker has its own Celery queue, its own /tmp, so its own compute     *)
(* plan lock, and its own volume, so its own plan directory; the pod, the  *)
(* mapping table and the orchestrator are shared.  A worker here has one   *)
(* slot (ComputeTask has several), which makes its lock a formality.  The  *)
(* other compute plans appear only in the choice of the least loaded       *)
(* worker, which may be any (TaskRouting has the choice).                  *)
(***************************************************************************)
EXTENDS Naturals, Sequences

CONSTANTS
  Worker,       \* the workers of the replica set
  NoWorker,     \* no mapping, no pod
  Task,         \* the tasks this organization runs
  NoTask,
  Plans,        \* the compute plans to consider, see PlanType
  MaxRetries    \* bound on the retries of a task, CELERY_TASK_MAX_RETRIES

\* Its tasks; whether some may be added after they have all ended, and whether it
\* may be canceled and its functions fail.
PlanType == [tasks : SUBSET Task, grows : BOOLEAN, stops : BOOLEAN]

ASSUME RoutingAssumption ==
  /\ NoWorker \notin Worker /\ NoTask \notin Task
  /\ Plans \subseteq PlanType
  /\ MaxRetries \in Nat

VARIABLES
  plan,       \* the compute plan, in Plans
  status,     \* the orchestrator's status of each task
  stopped,    \* the compute plan has a cancelation or a failure date
  events,     \* the orchestrator's events the reactor has not read yet
  mapping,    \* the row of ComputePlanWorkerMapping with no release date
  reactor,    \* where the reactor is in the handling of an event, see Idle
  tasks,      \* the compute_task messages in each worker's queue
  teardowns,  \* the number of teardown messages in each worker's queue
  reports,    \* tasks with a store_asset_failure_report message, for any worker
  unreported, \* history: tasks such a message of which failed and is gone
  cut,        \* history: the workers whose last teardown did not reach its end
  pod,        \* the worker whose volume the compute pod mounts, or NoWorker
  dirs,       \* the workers that have a directory of the compute plan
  job,        \* the task each worker runs, or NoTask
  retries,    \* the retries of each task
  pc          \* where each worker is

orcVars == <<plan, status, stopped, events>>
queueVars == <<tasks, teardowns, reports>>
lossVars == <<unreported, cut>>
workerVars == <<job, retries, pc>>
vars == <<orcVars, mapping, reactor, queueVars, lossVars, pod, dirs, workerVars>>

Active == {"todo", "doing"}
Final == {"done", "failed", "canceled"}

PlanRunning == ~stopped /\ \E t \in Task : status[t] \in {"waiting"} \union Active
Runnable(t) == ~stopped /\ status[t] \in Active

Idle == [at |-> "idle", task |-> NoTask, worker |-> NoWorker]

InTask == {"check", "recheck", "pod", "shares", "running", "end"}
InTeardown == {"tdCheck", "tdRelease", "tdPods", "tdDirs"}
Pc == {"idle", "onRetry"} \union InTask \union InTeardown

Goto(w, where) == pc' = [pc EXCEPT ![w] = where]

\* Faulty variant: the reactor handles the start of a task, too.
SetStatusAlwaysEvent(t, st) ==
  /\ status' = [status EXCEPT ![t] = st]
  /\ events' = Append(events, [task |-> t, status |-> st])

\* The orchestrator emits an event for each change the reactor acts on.
SetStatus(t, st) ==
  /\ status' = [status EXCEPT ![t] = st]
  /\ events' = IF st = "doing" THEN events ELSE Append(events, [task |-> t, status |-> st])

Init ==
  /\ plan \in Plans
  /\ status = [t \in Task |-> "none"]
  /\ stopped = FALSE
  /\ events = <<>>
  /\ mapping = NoWorker
  /\ reactor = Idle
  /\ tasks = [w \in Worker |-> {}]
  /\ teardowns = [w \in Worker |-> 0]
  /\ reports = {} /\ unreported = {} /\ cut = {}
  /\ pod = NoWorker
  /\ dirs = {}
  /\ job = [w \in Worker |-> NoTask]
  /\ retries = [t \in Task |-> 0]
  /\ pc = [w \in Worker |-> "idle"]

-----------------------------------------------------------------------------
(* The orchestrator and its users.  A plan is registered with all its tasks, *)
(* or grows later, possibly after it looked finished.                        *)

RegisterPlan ==
  /\ \A t \in Task : status[t] = "none"
  /\ \E batch \in SUBSET plan.tasks :
       /\ batch # {} /\ (plan.grows \/ batch = plan.tasks)
       /\ status' = [t \in Task |-> IF t \in batch THEN "waiting" ELSE "none"]
  /\ UNCHANGED <<plan, stopped, events, mapping, reactor, queueVars, lossVars, pod, dirs, workerVars>>

AddTask(t) ==
  /\ plan.grows /\ t \in plan.tasks /\ ~stopped
  /\ status[t] = "none" /\ \E u \in Task : status[u] # "none"
  /\ status' = [status EXCEPT ![t] = "waiting"]
  /\ UNCHANGED <<plan, stopped, events, mapping, reactor, queueVars, lossVars, pod, dirs, workerVars>>

\* The function is built and the parent tasks are done.
TaskReady(t) ==
  /\ status[t] = "waiting" /\ ~stopped
  /\ SetStatus(t, "todo")
  /\ UNCHANGED <<plan, stopped, mapping, reactor, queueVars, lossVars, pod, dirs, workerVars>>

CancelPlan ==
  /\ plan.stops /\ ~stopped /\ \E t \in Task : status[t] # "none"
  /\ stopped' = TRUE
  /\ UNCHANGED <<plan, status, events, mapping, reactor, queueVars, lossVars, pod, dirs, workerVars>>

-----------------------------------------------------------------------------
(* The event reactor: on_computetask_event, one event at a time *)

ReadEvent ==
  /\ reactor = Idle /\ events # <<>>
  /\ events' = Tail(events)
  /\ LET e == Head(events)
         next == IF e.status = "todo"
                 THEN IF Runnable(e.task) /\ status[e.task] = "todo" THEN "route" ELSE "idle"
                 ELSE IF PlanRunning THEN "idle" ELSE "lookup"
     IN reactor' = IF next = "idle" THEN Idle
                   ELSE [at |-> next, task |-> e.task, worker |-> NoWorker]
  /\ UNCHANGED <<plan, status, stopped, mapping, queueVars, lossVars, pod, dirs, workerVars>>

\* get_worker_queue: the worker of the mapping, or a new mapping.
GetWorkerQueue ==
  /\ reactor.at = "route"
  /\ \E w \in Worker :
       /\ mapping \in {w, NoWorker}
       /\ mapping' = w
       /\ reactor' = [reactor EXCEPT !.at = "send", !.worker = w]
  /\ UNCHANGED <<orcVars, queueVars, lossVars, pod, dirs, workerVars>>

\* queue_delete_cp_pod_and_dirs_and_optionally_images: get_existing_worker_queue.
GetExistingWorkerQueue ==
  /\ reactor.at = "lookup"
  /\ reactor' = IF mapping = NoWorker THEN Idle
                ELSE [reactor EXCEPT !.at = "sendTeardown", !.worker = mapping]
  /\ UNCHANGED <<orcVars, mapping, queueVars, lossVars, pod, dirs, workerVars>>

\* Faulty variant: compute_task goes to the queue all workers listen to.
SendToAnyWorker ==
  /\ \/ /\ reactor.at = "send"
        /\ \E w \in Worker : tasks' = [tasks EXCEPT ![w] = @ \union {reactor.task}]
        /\ UNCHANGED teardowns
     \/ /\ reactor.at = "sendTeardown"
        /\ teardowns' = [teardowns EXCEPT ![reactor.worker] = @ + 1]
        /\ UNCHANGED tasks
  /\ reactor' = Idle
  /\ UNCHANGED <<orcVars, mapping, reports, lossVars, pod, dirs, workerVars>>

\* apply_async, of compute_task or of delete_cp_pod_and_dirs.
Send ==
  /\ \/ /\ reactor.at = "send"
        /\ tasks' = [tasks EXCEPT ![reactor.worker] = @ \union {reactor.task}]
        /\ UNCHANGED teardowns
     \/ /\ reactor.at = "sendTeardown"
        /\ teardowns' = [teardowns EXCEPT ![reactor.worker] = @ + 1]
        /\ UNCHANGED tasks
  /\ reactor' = Idle
  /\ UNCHANGED <<orcVars, mapping, reports, lossVars, pod, dirs, workerVars>>

-----------------------------------------------------------------------------
(* compute_task on a worker *)

Receive(w, t) ==
  /\ pc[w] = "idle" /\ t \in tasks[w]
  /\ tasks' = [tasks EXCEPT ![w] = @ \ {t}]
  /\ job' = [job EXCEPT ![w] = t]
  /\ Goto(w, "check")
  /\ UNCHANGED <<orcVars, mapping, reactor, teardowns, reports, lossVars, pod, dirs, retries>>

\* abort_task_if_not_runnable: drop the task, after canceling it when its plan
\* was stopped; else start it (first check) or go on (second check).
Check(w) ==
  /\ pc[w] \in {"check", "recheck"}
  /\ LET t == job[w] IN
     \/ /\ status[t] \notin Active
        /\ Goto(w, "idle")
        /\ UNCHANGED <<plan, status, events, dirs>>
     \/ /\ status[t] \in Active /\ stopped
        /\ SetStatus(t, "canceled")
        /\ Goto(w, "idle")
        /\ UNCHANGED dirs
     \/ /\ Runnable(t) /\ pc[w] = "check"
        /\ SetStatus(t, "doing")
        /\ dirs' = dirs \union {w}
        /\ Goto(w, "recheck")
     \/ /\ Runnable(t) /\ pc[w] = "recheck"
        /\ Goto(w, "pod")
        /\ UNCHANGED <<plan, status, events, dirs>>
  /\ UNCHANGED <<plan, stopped, mapping, reactor, queueVars, lossVars, pod, job, retries>>

\* execute_compute_task: reuse the plan's pod, or create it with this worker's
\* volume.
FindOrCreatePod(w) ==
  /\ pc[w] = "pod"
  /\ pod' = IF pod = NoWorker THEN w ELSE pod
  /\ Goto(w, "shares")
  /\ UNCHANGED <<orcVars, mapping, reactor, queueVars, lossVars, dirs, job, retries>>

\* Faulty variant: a task whose pod is on another worker is given up silently.
GiveUpSilently(w) ==
  /\ Goto(w, "onRetry")
  /\ UNCHANGED <<retries, tasks, reports>>

\* An attempt ended with an exception that is retried: the message goes back to
\* the worker's queue and on_retry deletes the plan's pods; or the retries are
\* used up and on_failure queues a report.
RetryOrFail(w) ==
  IF retries[job[w]] < MaxRetries
  THEN /\ retries' = [retries EXCEPT ![job[w]] = @ + 1]
       /\ tasks' = [tasks EXCEPT ![w] = @ \union {job[w]}]
       /\ Goto(w, "onRetry")
       /\ UNCHANGED reports
  ELSE /\ reports' = reports \union {job[w]}
       /\ Goto(w, "idle")
       /\ UNCHANGED <<retries, tasks>>

\* _check_compute_pod_and_worker_share_same_subtuple, then the execution.
CheckPodVolume(w) ==
  /\ pc[w] = "shares"
  /\ \/ /\ pod = w
        /\ Goto(w, "running")
        /\ UNCHANGED <<tasks, reports, retries>>
     \/ pod # w /\ RetryOrFail(w)
  /\ UNCHANGED <<orcVars, mapping, reactor, teardowns, lossVars, pod, dirs, job>>

\* The function returns and the task is marked as done, unless it has ended
\* meanwhile; or it fails, or its pod was deleted under it, and on_failure queues
\* a report.
Run(w) ==
  /\ pc[w] = "running"
  /\ \/ /\ pod = w /\ status[job[w]] \in Active
        /\ SetStatus(job[w], "done")
        /\ UNCHANGED <<plan, stopped, reports>>
     \/ pod = w /\ status[job[w]] \notin Active /\ UNCHANGED <<orcVars, reports>>
     \/ /\ pod # w \/ plan.stops
        /\ reports' = reports \union {job[w]}
        /\ UNCHANGED orcVars
  /\ Goto(w, "idle")
  /\ UNCHANGED <<mapping, reactor, tasks, teardowns, lossVars, pod, dirs, job, retries>>

\* store_asset_failure_report: the plan fails with the task.  When the call raises
\* it is not retried, and the message is gone.
ReportFailure(t) ==
  /\ t \in reports
  /\ reports' = reports \ {t}
  /\ \/ /\ status[t] \in Active
        /\ SetStatus(t, "failed") /\ stopped' = TRUE
        /\ UNCHANGED <<plan, unreported>>
     \/ status[t] \notin Active /\ UNCHANGED <<orcVars, unreported>>
     \/ unreported' = unreported \union {t} /\ UNCHANGED orcVars
  /\ UNCHANGED <<mapping, reactor, tasks, teardowns, cut, pod, dirs, workerVars>>

OnRetry(w) ==
  /\ pc[w] = "onRetry"
  /\ pod' = NoWorker
  /\ Goto(w, "idle")
  /\ UNCHANGED <<orcVars, mapping, reactor, queueVars, lossVars, dirs, job, retries>>

-----------------------------------------------------------------------------
(* delete_cp_pod_and_dirs on a worker; acknowledged when it is received *)

ReceiveTeardown(w) ==
  /\ pc[w] = "idle" /\ teardowns[w] > 0
  /\ teardowns' = [teardowns EXCEPT ![w] = @ - 1]
  /\ Goto(w, "tdCheck")
  /\ UNCHANGED <<orcVars, mapping, reactor, tasks, reports, lossVars, pod, dirs, job, retries>>

TeardownCheck(w) ==
  /\ pc[w] = "tdCheck"
  /\ Goto(w, IF PlanRunning THEN "idle" ELSE "tdRelease")
  /\ UNCHANGED <<orcVars, mapping, reactor, queueVars, lossVars, pod, dirs, job, retries>>

ReleaseWorker(w) ==
  /\ pc[w] = "tdRelease"
  /\ mapping' = NoWorker
  /\ Goto(w, "tdPods")
  /\ UNCHANGED <<orcVars, reactor, queueVars, lossVars, pod, dirs, job, retries>>

\* Faulty variant: the pod is left to whoever comes next.
DeleteNoPod(w) ==
  /\ pc[w] = "tdPods"
  /\ Goto(w, "tdDirs")
  /\ UNCHANGED <<orcVars, mapping, reactor, queueVars, lossVars, pod, dirs, job, retries>>

DeletePods(w) ==
  /\ pc[w] = "tdPods"
  /\ pod' = NoWorker
  /\ Goto(w, "tdDirs")
  /\ UNCHANGED <<orcVars, mapping, reactor, queueVars, lossVars, dirs, job, retries>>

DeleteDirs(w) ==
  /\ pc[w] = "tdDirs"
  /\ dirs' = dirs \ {w} /\ cut' = cut \ {w}
  /\ Goto(w, "idle")
  /\ UNCHANGED <<orcVars, mapping, reactor, queueVars, unreported, pod, job, retries>>

\* The orchestrator, the database or Kubernetes raises, or the process is killed:
\* the message is gone, and what was left to do is not done.
CutTeardown(w) ==
  /\ pc[w] \in InTeardown
  /\ cut' = cut \union {w}
  /\ Goto(w, "idle")
  /\ UNCHANGED <<orcVars, mapping, reactor, queueVars, unreported, pod, dirs, job, retries>>

-----------------------------------------------------------------------------
WorkerStep(w) ==
  \/ Check(w) \/ FindOrCreatePod(w) \/ CheckPodVolume(w) \/ Run(w) \/ OnRetry(w)
  \/ TeardownCheck(w) \/ ReleaseWorker(w) \/ DeletePods(w) \/ DeleteDirs(w)

ReactorStep == ReadEvent \/ GetWorkerQueue \/ GetExistingWorkerQueue \/ Send

\* Nothing is left to do: everybody waits for work.
Quiet ==
  /\ reactor = Idle /\ events = <<>> /\ reports = {}
  /\ \A w \in Worker : pc[w] = "idle" /\ tasks[w] = {} /\ teardowns[w] = 0
  /\ UNCHANGED vars

Next ==
  \/ RegisterPlan \/ CancelPlan \/ \E t \in Task : AddTask(t) \/ TaskReady(t)
  \/ ReactorStep \/ \E t \in Task : ReportFailure(t)
  \/ \E w \in Worker : WorkerStep(w) \/ ReceiveTeardown(w) \/ CutTeardown(w)
  \/ \E w \in Worker, t \in Task : Receive(w, t)
  \/ Quiet

Spec == Init /\ [][Next]_vars

\* The reactor and every worker keep running; a worker that is free again and
\* again takes each message of its queue some time.
Fairness ==
  /\ WF_vars(ReactorStep)
  /\ \A t \in Task : WF_vars(TaskReady(t)) /\ WF_vars(ReportFailure(t))
  /\ \A w \in Worker :
       /\ WF_vars(WorkerStep(w))
       /\ SF_vars(ReceiveTeardown(w))
       /\ \A t \in Task : SF_vars(Receive(w, t))

FairSpec == Spec /\ Fairness

-----------------------------------------------------------------------------
TypeOK ==
  /\ plan \in Plans
  /\ status \in [Task -> {"none", "waiting"} \union Active \union Final]
  /\ stopped \in BOOLEAN
  /\ events \in Seq([task : Task, status : {"todo"} \union Final])
  /\ mapping \in Worker \union {NoWorker}
  /\ reactor \in [at : {"idle", "route", "send", "lookup", "sendTeardown"},
                  task : Task \union {NoTask}, worker : Worker \union {NoWorker}]
  /\ tasks \in [Worker -> SUBSET Task]
  /\ teardowns \in [Worker -> Nat]
  /\ reports \subseteq Task /\ unreported \subseteq Task /\ cut \subseteq Worker
  /\ pod \in Worker \union {NoWorker}
  /\ dirs \subseteq Worker
  /\ job \in [Worker -> Task \union {NoTask}]
  /\ retries \in [Task -> 0..MaxRetries]
  /\ pc \in [Worker -> Pc]

\* celery_queuing.md: "tasks belonging to one compute plan are always scheduled
\* on the worker on which a compute pod for this compute plan is running": while
\* there is a pod, messages of the plan wait only in its worker's queue.  A task
\* added while a finished plan is being removed may go elsewhere.
ScheduledOnPodsWorker ==
  ~plan.grows => \A w \in Worker : \A t \in tasks[w] : Runnable(t) => pod \in {w, NoWorker}

\* The pod of a plan that does not grow is always reachable by a later teardown:
\* the plan is still mapped, its worker is about to delete the pod, or a teardown
\* was cut short there, after which nothing looks for the pod.
PodIsAccountedFor ==
  ~plan.grows /\ pod # NoWorker => mapping # NoWorker \/ pc[pod] = "tdPods" \/ pod \in cut

Freed == pod = NoWorker /\ dirs = {} /\ mapping = NoWorker

\* A teardown was cut short and there is none left to do what it did not.
TeardownLost ==
  /\ cut # {}
  /\ reactor.at \notin {"lookup", "sendTeardown"}
  /\ \A w \in Worker : teardowns[w] = 0 /\ pc[w] \notin InTeardown

\* celery_queuing.md: "When a compute plan is finished, the compute pod is removed
\* and a release date is added": once a task failed or all have ended, the pod,
\* the directories and the mapping are gone some time, unless the plan may grow;
\* of the teardowns that raise or die, the ones that another one follows do no
\* harm.  (A plan canceled while no task is at a worker keeps everything.)
ResourcesFreed ==
  (/\ ~plan.grows
   /\ (\E t \in Task : status[t] = "failed") \/ (\A t \in plan.tasks : status[t] \in Final))
    ~> PlanRunning \/ Freed \/ TeardownLost

\* Every task a worker could run ends, unless its plan is stopped, or it failed and
\* the one message that says so was lost.
EveryTaskEnds ==
  \A t \in Task : status[t] = "todo" ~> status[t] \in Final \/ stopped \/ t \in unreported
=============================================================================
