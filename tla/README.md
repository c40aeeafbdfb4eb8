# Verification of substra-backend

TLA+ models of the backend of an organization in a Substra network, the TLC
configurations that check them on small instances, and TLAPS proofs. The
reference is the code of this repository; paths below are relative to `src/backend`
unless they say otherwise, and `PROJECT.json` maps each definition to the lines it
stands for.

## 1. The system

Organizations share datasets and functions and run *compute plans* on them: a
compute plan is a graph of compute tasks, each of which runs in one
organization, with inputs that other tasks produce. The *orchestrator*, a service
of another repository, owns the status of every task, plan and function and
emits one ordered stream of events per channel. Each organization runs, from this
repository:

| Process | Code | What it does |
|---|---|---|
| API server | `api/views`, `serializers`, `models`, `users`, `organization` | registers assets in the orchestrator, keeps a copy in its database, serves it to users and to other organizations |
| API event consumer | `api/events` | applies the orchestrator's events to that database |
| Worker event reactor (`worker-events`) | `substrapp/events`, `substrapp/task_routing.py` | queues a Celery task for each event that concerns this organization |
| Workers (a stateful set of Celery servers) | `substrapp/tasks`, `substrapp/compute_tasks`, `image_transfer` | run compute tasks in Kubernetes pods, save images, tear plans down |
| Builder | `builder` | builds the container image of each function |
| Scheduler worker, Redis broker, PostgreSQL, object storage, container registry | `backend`, `src/charts` | failure reports, queues, tables, files, images |

### Inventory

For each component: state, operations, what is hard, and what makes it correct.
`PROJECT.json` lists which module has which component, and the hazards of the code
at their lines.

**Local locks** (`substrapp/lock_local.py`). *State*: a lock file and a secondary
lock file in the worker's `/tmp` for each resource. *Operations*: acquire (an
exclusive create, retried), release (only if the file holds this call's uuid),
removal of a file older than the ttl. *Hard*: removal is a read and then a
remove; a process may die between any two system calls; the wait for the
secondary lock has a timeout of its own. *Correct*: a lease, nobody removes
another call's lock before it expires, every call ends.

**Compute task execution** (`substrapp/tasks/tasks_compute_task.py`, `task.py`,
`compute_tasks/{compute_task,execute,outputs,directories,lock}.py`). *State*: the
task's status in the orchestrator; the plan's directory and its one task
directory on the worker's volume; the compute pod; the Celery message and its
retry count. *Operations*: check, start, take the lock, put the assets in place,
find or create the pod, execute, register the outputs, mark as done, clear; retry
and failure callbacks. *Hard*: several Celery processes share the directory, the pod
and the lock; retries of attempts that half succeeded, late acknowledgement, a
killed process, a cancellation at any point. *Correct*: a task runs with its own
inputs, what is registered as its output is its output, the pod is not deleted under
a task, every task ends.

**Task routing** (`substrapp/task_routing.py`) and **event reactor and teardown**
(`substrapp/events/reactor.py`, `tasks/tasks_compute_plan.py`). *State*: a table
from running plans to workers; the id of the last event handled; the queues.
*Operations*: get or create the mapping, send the task to that worker's queue; when
the plan has ended, delete its pods and directories and release it. *Hard*: choice
and insertion are two statements; release is concurrent with sending to the queue
that was looked up; the plan's state is read when the teardown is queued and again
when it runs. *Correct*: one worker per plan, the one with the pod; a balanced
load; no pod or directory outlives its plan.

**Asset buffer** (`compute_tasks/asset_buffer.py`,
`tasks_remove_intermediary_models.py`). *State*: a directory of data samples, openers
and models shared by all plans of a worker. *Operations*: add what is missing, link
into the task directory, remove models that are disabled, clear when the volume is
full. *Hard*: two lock names guard filling and clearing, neither with a ttl;
linking is outside the lock; what exists is taken to be complete. *Correct*: a
function runs on complete copies, a task fails for lack of space only when there is
none, disabled models leave.

**The files of a task** (`compute_tasks/{context,directories,command,volumes,chainkeys,outputs}.py`).
*State*: the task directory, the arguments file, the mounts of the pod, the
chainkeys of secure aggregation, the stored outputs. *Hard*: retries meet what an
earlier attempt left at every step. *Correct*: every path in the arguments exists
and is mounted, what is registered can be downloaded, chainkeys go from one task to
the next.

**Function build, image storage and transfer** (`builder/`,
`tasks/tasks_save_image.py`, `image_transfer/`, `docker_registry.py`). *State*: the
function's status, the Kaniko pod, the saved image, the blobs and manifests of the
registry. *Operations*: build with retries, cancel when no plan waits for the
function, save the image, push it at another organization or again at the owner.
*Hard*: two builders of one archive share a pod; the save marks the function as
ready in callbacks that nobody retries; the registry collects garbage between blobs
and manifest. *Correct*: a READY function has its image everywhere it is asked for,
every function ends, a pod runs the image of its function.

**Profiling** (`api/views/task_profiling.py`). Durations of the steps of a task, sent
in calls that may be lost or repeated. *Correct*: the profile is that of the attempt
that ended the task.

**Failure reports** (`tasks_asset_failure_report.py`, `utils/errors.py`,
`api/views/failed_asset_logs.py`). *State*: the stored logs, the registered report,
the rows of the failed tasks. *Hard*: the report is not retried, may be made twice,
and its event may come before or after the tasks it concerns. *Correct*: rows tell why
a task failed; logs go to whoever may see them.

**API event consumer, compute plans and tasks** (`api/events/*.py`,
`api/views/computetask.py`, `api/models/computeplan.py`). *State*: the rows of tasks,
inputs, outputs and plans; the id of the last event. *Operations*: one handler per
event; `task_bulk_create`; the recomputation of a plan's status and end date.
*Hard*: the view writes what the consumer writes, each in its own transaction, from
values read earlier; an event may be handled twice. *Correct*: once the events are
handled the rows say what the orchestrator says.

**Registration of assets** (`api/views/{function,datamanager,datasample,model,computeplan}.py`,
`orchestrator/client.py`). *State*: files, objects in the storage, the orchestrator's
assets, rows. *Operations*: save the files, register with up to five attempts, write
the row, remove the files of what was refused. *Hard*: an answer that is lost, a row
that fails after the registration, the consumer writing the same rows. *Correct*: what
is registered has its files, a refused request leaves nothing behind.

**Reads and lists** (`api/views/{compute_plan_graph,performance,newsfeed,filters_utils,utils}.py`,
`libs/pagination.py`). Answers made of several queries, and pages, while rows change.
*Correct*: an answer holds together, a walk over the pages misses nothing.

**Downloads and organizations** (`api/views/utils.py`, `substrapp/clients/organization.py`,
`organization/`). *State*: permissions, the secrets both ends have for each other.
*Correct*: content goes only where the permissions say; after a change of secrets both
ends agree.

**Users and sessions** (`users/`). *State*: the rows of an account, reset and refresh
tokens, the blacklist. *Hard*: every view saves whole rows it read before. *Correct*: the
last change of an account stays in force; a spent token is not accepted again, two requests
spend one only when they overlap, and a logout ends the sessions of its browser.

## 2. Modules

```
Lease  <--refines--  LockLocal   (Lease is the promise that is used)  <-- WorkerProofs
ComputeTask          one worker, several processes, one plan    <-- ComputeTaskProofs
ComputePlanRouting   several workers, one plan, the reactor     <-- ComputePlanRoutingProofs
TaskRouting          the mapping table alone, many plans
AssetBuffer          one worker, several plans, the buffer      <-- AssetBufferProofs
TaskFiles            one process: files, mounts, chainkeys, outputs
FunctionBuild        builders, savers and the function's status <-- FunctionBuildProofs
ImageTransfer        owner, workers and the registry
TaskProfiling        the profile of one task
ApiSync              the API server's copy of one plan          <-- ApiSyncProofs
AssetRegistration    files, orchestrator and rows of assets
FailureReports       two organizations, one failure
Accounts, Sessions   users, logins, tokens
Reads, Lists (with Pagination), Downloads   what readers are given
MC<module>           definitions for TLC: settings, symmetry
WorkerParts          TaskRouting, TaskFiles, ImageTransfer, TaskProfiling  <-- WorkerProofs
ApiParts             AssetRegistration, Accounts, Sessions, Reads, Lists,
                     Downloads, FailureReports              <-- ApiProofs, UserProofs
```

`WorkerParts` and `ApiParts` instantiate modules that share no state, with variables of
their own, and state the properties the runs `Worker` and `Api` check; section 3 says how.

Conventions. A constant `Settings`, `Scenarios`, `Envs` or `FaultSets` is the set of
initial situations: which requests are made, which faults may happen, how large a
volume is. One run checks them all, each with its own initial state, and the proofs
hold for any such set. A variable `gaps` records that a behaviour went through one of
the windows the code is known to leave open (an answer of the orchestrator that was
lost, two requests that overlapped); the property then says what holds in all other
behaviours, so that the list of gaps is itself checked to be complete. Definitions
commented "Faulty" are variants of the one that follows, used to show that a
property depends on it.

**LockLocal and Lease.** `Lease` is what a caller of `lock_resource` is promised:
whoever enters the `with` block finds there only callers whose ttl has run out.
`LockLocal` is the code, one action per system call. A *caller* is one call, and
stands for the uuid it draws; `lockFile` and `secondaryFile` hold the caller that
created the file. `pc[c]` is the place in the code: `try` (`_try_acquire_lock`),
`exp*` (`_release_lock_if_expired`), `rel*` (`_release_lock`), `raising` (the
`finally` of `_acquire_secondary_lock` after its own timeout). There are no clocks:
`TtlElapses` may happen to any lock file at any time and `SecondaryTimeout` when
`faults` lets it.

**ComputeTask.** One worker and one plan. `status`, `canceled`, `registered` and
`events` are the orchestrator's; `messages`, `teardowns` and `reports` the broker's;
`planDir`, `inputs` and `output` say what is on the volume (the task directory is one
directory per plan, so `inputs` is a set of tasks: whose assets are in it); `pod` is
the compute pod and `lock` the compute plan lock. A slot is one Celery process
(`CELERY_WORKER_CONCURRENCY`, 1 by default in the chart, 3 in
`src/examples/values/backend-org-1.yaml`); `pc[s]` follows `_run` from `check` to
`report`, and `tdLock`..`tdUnlock` are `delete_cp_pod_and_dirs`. A report that is queued
(`reports`) is either registered or, with an orchestrator that is down, gone (`unreported`):
`store_asset_failure_report` is not retried. A teardown may raise or die at each step and
is not delivered again. `Leave` is what the
context manager and the `finally` do with every return and exception. `env` says what
may go wrong. The plan has one function image, so one pod; deleting it is one step.
The lock is used through what `LockLocal` is proved to implement, with a ttl (a day)
that no task outlives; a killed process leaves it orphaned until the ttl, unless the
whole container, and so `/tmp`, is gone.

**ComputePlanRouting and TaskRouting.** In the first, one plan and several workers with
one slot each: `reactor` is where the event reactor is between reading an event,
looking up or creating the `mapping`, and sending the message; `tasks[w]` and
`teardowns[w]` are the worker's queue; `pod` is the worker whose volume the pod mounts.
The least loaded worker may be any worker there. A failed task waits for its report (`reports`),
which may be lost (`unreported`), and a teardown may be cut short at each step (`cut`: by an exception or
a kill, after which its message is gone). `TaskRouting` has the choice: a
reactor counts `rows` in one step and inserts in another.

**AssetBuffer.** `buffer` and `links` say of each asset whether the copy in the buffer,
or the one linked into a task's directory, is absent, partial or whole; `locks` are the
two lock files, `Dead` when the process that made one was killed. `fetch`, `purge`
(a wrong checksum or a failed download removes what the process has put there),
`link`, `run`, `clear` and `teardown` are the places of a process. The removal of a disabled model is a
message to every process (`removals`), which acknowledges it on receipt (`removing`) and unlinks the file
later: a kill in between loses it (`missed`). Every task belongs to a
plan of its own, so the compute plan lock is never contended.

**TaskFiles.** One plan on one worker with one process: `files` and `args` are the task
directory and the arguments file, `pods` what each pod mounts, `taskKeys` and `planKeys`
the chainkeys before and after the commit, `secrets` the Kubernetes secrets they come
from, `stored` and `registered` the outputs.

**FunctionBuild and ImageTransfer.** The first follows functions of one archive from
their creation to READY or FAILED, with the broker's `builds` and `saves`, the
one Kaniko pod of the archive, the orchestrator's `status` and the API server's `row`,
which three writers change. The second has the registry's `blobs` and `tagged`
manifests, the garbage collector's two passes, and tasks that fetch, push and look up
images.

**TaskProfiling, FailureReports.** As their code; the turn of a delivery stands for the
dates and durations measured in it.

**ApiSync.** One plan, tasks with at most one input that another task produces. `log` is
the stream of events after `api_lastevent`. The consumer takes three steps per event:
it reads what the handler reads first (`ReadInputs`), commits (`ApplyEvent`) and saves
the event's id (`SaveLastEvent`). The view takes one step per read and write that another
commit may come between; one request creates one task.

**AssetRegistration.** A request (`What` says its kind and assets) goes from `files`
through `register` to `rows`; `Unreachable` and `AnswerLost` are the two ways an attempt of
`grpc_retry` fails, and `Rejected` removes the files. The consumer writes the same rows.
Keys are drawn by the server (`KeysAreDrawn`), so two requests never create one asset.

**Accounts, Sessions.** Requests, logins and the job of the chart read the rows of an account
(`user`, `channel`, `oidc`) in one step and save whole rows in another. The
job that inserts an account which is there already updates it instead (`UpdateInstead`). A session is one
browser with several tabs and one cookie; a token is the number of its issue; a request reads the
blacklist in one step and writes it in another, and `shared`, `overlapped` and `relogged` record what the
tabs did at the same time.

**Reads, Lists, Downloads.** One action per query, with the writers in between. `setting`
is the request and what never changes in the rows. `Lists` has every list view through the
tables it joins, its default order and its filters; `Downloads` has two organizations, a
user's request that is proxied and a worker's that is not, and the jobs that rotate
secrets.

## 3. What is checked

Each passing run has, for each of its properties, a faulty variant of a definition that
breaks it (`PROJECT.json`, "mutants").

| Run | Shows | States |
|---|---|---|
| `LockLocal` | three calls, a ttl, processes that die anywhere: removals are legitimate, no failure after holding, the refinement of `Lease`, every call ends | 34 thousand |
| `ComputeTask_one` | one process per worker, two tasks, a retry each: outputs are the task's own, and every task ends but those whose failure report was lost, whatever is canceled, raised, killed or delivered twice | 108 thousand |
| `ComputeTask_slots` | two processes, no retry: one task at a time in the locked part, no teardown deletes the pod or the directories under a task | 1196 thousand |
| `ComputePlanRouting` | two workers, three tasks or two of a plan that is canceled or grows, reports and teardowns that are lost: tasks wait where the pod is, a pod is reachable by a teardown unless one was cut short, a plan that ends leaves only what its last teardown was cut short of, every task ends but those whose failure report was lost | 16 thousand |
| `ApiSync` | tasks of another organization and a consumer that crashes, or tasks created here: rows, plan and inputs end up as in the orchestrator, no event blocks the consumer | 554 thousand |
| `FunctionBuild` | two builders, two functions of one archive: READY has its image, failures have a reason, the rows follow, every function ends | 471 thousand |
| `AssetBuffer` | three tasks that share assets: complete copies, a lack of space is real, disabled models leave unless a process died with their removal in hand, every task ends | 217 thousand |
| `Worker` | routing; files of a task; image transfer; profiling | 306 thousand |
| `Api` | registrations; accounts and external users; sessions; reads; lists; downloads; failure reports | 1318 thousand |

`WorkerParts` and `ApiParts` put modules that share no state into one specification: `part`
says which one a behaviour moves, the others stay in one initial state. Interleaving them
would show nothing new, because no action of one reads a variable of another. The theorems
about a part are stated for the part's own specification, and `PartsAreTheParts` proves
that a behaviour of the composition is one of each part's specification.

### Where the code and its documentation disagree

Three runs are expected to fail; the findings in `PROJECT.json` quote the lines.

* `ComputeTask_shared`: with two processes per worker, a task that ends clears the
  task directory after it released the lock, under the next task.
* `ApiSync_resolved`: a view that saves a task and the consumer that saves the asset
  of its input each look for the other's row before it is committed; the input never
  gets its asset.
* `ApiSync_redelivery`: a consumer that dies between the transaction of an output
  asset's event and the saving of the event's id fails on a unique constraint at every
  restart.

### Where the properties end

A property states the condition it needs, and the comment above it says what
happens otherwise:

* `LockLocal`: `FileIsSafe`. A wait for the secondary lock that times out (after a death
  inside it) ends in a `finally` that removes the secondary file of whoever holds it;
  then two callers may hold the lock.
* `ComputeTask`: `PodKeptWhileRunning` is checked without retries, because with several processes
  `on_retry` deletes the plan's pod without the lock, under another task. `Isolation` is proved
  without kills: nothing clears the task directory after one, and the next task runs with
  what it finds there. `DirsKeptUnderLock` lets
  another attempt, which has left the lock, clear the task directory: that is
  `ComputeTask_shared`. `EveryTaskEnds`, here and in `ComputePlanRouting`, is not about a task whose failure
  report was lost, which stays EXECUTING for good. When a killed attempt
  is followed by a function that exits without writing its output, the next task
  registers the output it finds, so the two faults are in separate environments of
  `ComputeTask_one`.
* `ComputePlanRouting`: in a plan that gets new tasks while it is torn down, tasks meet
  the old pod, run beside an old task, or leave a pod no teardown reaches, since the
  mapping is released first; the tasks themselves end, by their retries. `ResourcesFreed` and
  `PodIsAccountedFor` leave out what a teardown that was cut short had still to do, and that only as
  long as no later teardown finds it. A plan canceled
  between two tasks keeps its pod, because only the final event of a task queues a
  teardown.
* `ApiSync`: `PlanSynced` is about tasks of other organizations. `task_bulk_create`
  writes back every field of the plan it read before it called the orchestrator.
* `AssetBuffer`: `RunsOnWhole` excludes kills (a partial copy that a killed process left
  is trusted for ever) and, for `LinkedWhole`, two processes of which one purges or clears
  the buffer while the other links. `NoSpaceIsReal` excludes the two places where
  ENOSPC is hidden from `_run`. `DisabledLeave` is not about the models in `missed`, whose removal
  a process had received when it died, or that was sent while a worker was restarted.
* `FunctionBuild`: "canceled" (a canceled build sets the row only, and the orchestrator
  never hears of it), "lost" (a call that would end the function raised), "stale" (the row
  was saved as it was before an event), "early" (a build starts before the consumer has
  written the row). `RowFollows` excludes the first and the third.
* `AssetRegistration`: "lost" (the orchestrator applied the call of the last attempt, or refused the
  repetition of one it had applied: the files are deleted), "row" (the row failed after the
  registration), "batch" (a later file of a batch cannot be read), "crash", "stale".
* `Accounts`: "password", "channel" and "deleted" (two requests overlapped), "lost" and
  "revoked" (refresh tokens of the provider), "twice" (first logins overlapped).
* `Sessions`: two tabs that are under way with one token may both spend it (`shared`), and a logout
  misses the token of a refresh under way, of a lost answer or of a session that another login replaced
  (`loose`).
* `Downloads`: `overwritten` (the check of a request renewed the hash of the old password over the
  new one) and `crossed` (a rotation came between the two ends of a request). `FailureReports`: when several
  runs of a task stored logs, the ones served may be any of theirs, and no report is made when the
  orchestrator is down.
* `ImageTransfer`: `Stuck`, an image whose layers, but not its config blob, a garbage
  collection removed. `TaskProfiling`: the message of a task that is done resets the start
  of its profile. `Lists`: two default orders have ties.

So of the overlaps themselves, where the code is known to be wrong or to give no guarantee, the properties
say only that nothing else is affected; the notes of the hazards in `PROJECT.json` say of each which part
is covered.

One hazard has no property: a plan that is mapped to a worker which a scale-down removed
waits in a queue nobody listens to. The code makes no difference between such workers and others.

### Bounds, and why they are enough

* Three callers of the lock: a holder, one at the removal, one that arrives. The safety
  properties are proved for any number.
* Two tasks and up to two slots: the directory, the pod and the lock are contended
  by pairs. One retry: a first attempt and one that meets its remains. One fault: a kill
  or a redelivery puts a message back as a retry does, and the second finds what the
  first found.
* Two workers, three tasks or two of a plan that grows: one task that ends the plan, one
  routed before, one after the teardown; two workers are the old and the new one.
* `AssetBuffer`: three tasks, assets of every kind (two samples, one of which may be in the
  servermedias, an opener, a model that one task makes and another reads), a
  volume for two of them or for all, one or two processes, two faults. Two tasks whose samples do
  not fit are enough for one process to clear the buffer while another fills it again.
* `FunctionBuild`: two functions of one archive, two builders, two savers; two retries, because
  the two bounds of the build loop differ by one.
* `ApiSync`: three tasks (a producer and two consumers of its output) or two. `lag` bounds the
  events the consumer is behind, 5 and 4: the handlers read only the rows and the oldest event.
* `TaskFiles`: two tasks, one of which reads the other's output or has the same image,
  one retry, two faults, two secrets. `ImageTransfer`: two tasks, two functions with a
  base layer in common, three faults, one retry (the deployment has seven; each meets what
  the last one left). `TaskProfiling`: two tries of a call (the code has five), three
  deliveries, three lost messages. `TaskRouting`: five plans, two reactors, three workers.
* `AssetRegistration`: four pairs or triples of requests that touch the same assets, two
  attempts (the code has five), two faults. `Accounts`: thirteen groups of two to four
  requests, three starts of the job. `Sessions`: two tabs, three tokens, one lost answer,
  one flush. `Reads` and `Lists`: three rows, pages of one, four and two changes.
  `Downloads`: two organizations, two requests, one rotation. `FailureReports`: two organizations,
  two tasks, two failing messages.

### Fairness, and why the code justifies it

* `LockLocal`: each call keeps running (weak fairness of its steps); the retry loop
  tests the clock in every round, so giving up is strongly fair.
* `ComputeTask`, `ComputePlanRouting`: the reactor and the processes are restarted
  by Kubernetes when they stop; the broker keeps a message until it is delivered,
  and a free process takes the messages of its queue in order: strong fairness of
  receiving each message. The lock is polled with a timeout of a day, longer than
  any wait for it here: strong fairness of acquiring. Nothing is assumed of the
  users: no plan has to be registered or canceled.
* `AssetBuffer`, `FunctionBuild`: every process, the broker, the Kaniko pod (which ends or
  times out) and the consumer go on: weak fairness of each. `AssetBuffer` needs no
  strong fairness of the lock: tasks and attempts are finitely many, so that a process that waits
  for the lock finds it free for good, or held by a process that was killed, and then gives up
  after a day.
* `ApiSync`: the consumer and a request that was started go on.

Deadlock is checked except in `Worker` and `Api`, whose parts make a finite number of
requests, tasks and faults and then stop. The other specifications have an explicit
stuttering step for the states in which everybody waits for work.

## 4. What is proved

For every value of the constants that satisfies the named assumptions:

| Module | Theorem | States | Under |
|---|---|---|---|
| `ComputeTaskProofs` | `TypeCorrect`, `LockInvariant`, `OneTask`, `DoneIsRegistered`, `PodsCreatedOnce` | `TypeOK`, `LockInv`, `OneTaskAtATime`, `DoneHasOutput`, `OnePodCreation` | |
| | `PodIsKept` | `PodKeptWhileRunning` | no retries, or one slot |
| | `DirsAreKept` | `DirsKeptUnderLock` | |
| | `TasksAreIsolated`, `OutputsAreOwn` | `Isolation`, `OwnOutput` | one slot that is not killed |
| `ComputePlanRoutingProofs` | `TypeCorrect`, `TasksWaitAtThePod`, `PodIsReachable` | `TypeOK`, `ScheduledOnPodsWorker`, `PodIsAccountedFor` | a plan that does not grow |
| `AssetBufferProofs` | `TypeCorrect`, `CopiesAreWhole` | `TypeOK`, `RunsOnWhole` | |
| | `FailuresHaveReasons` | `FailuresAreReal` | a retry at least |
| `FunctionBuildProofs` | `ImageOfReady`, `RowsFollow` | `ReadyHasImage`, `RowFollows` | |
| | `FunctionsFailForAReason` | `FailureIsReal` | three retries at least |
| `ApiSyncProofs` | `EventsResolveInputs`, `RowsFollowTasks`, `PlanFollows` | `InputsResolvedByEvents`, `RowsSynced`, `PlanSynced` | |
| `WorkerProofs` | `TypeCorrect` | `TypeOK` | |
| | `LockInvariant`, `SecondaryExclusive` | `LockInv`, `SecondaryExclusion` | no wait for the secondary lock times out |
| | `NoLateFailure` | `NoFailureAfterHolding` | (the property states it) |
| | `Exclusion`, `RemovalIsLegitimate`, `Refinement` | `LeaseExclusion`, `RemovedByOwnerOrExpired`, `LockLocal` implements `Lease` | the same, or no ttl |
| | `PlansAreRouted` | `RoutingHolds` | |
| | `CommandsFindTheirFiles`, `OutputsAreWhole` | `ArgumentsResolve`, `OutputsHold` | (the property names the gaps) |
| | `FailuresArePaidFor` | `FaultsAreSurvived` | (the same) |
| | `ImagesReachTheirPods` | `ImagesArrive` | (the same) |
| | `ProfilesAreOfTheLastAttempt` | `ProfileIsOfTheLastAttempt` | no call was given up |
| | `PartsAreTheParts` | `PartsSpec` implies every part's `Spec` | |
| `ApiProofs` | `RowsFollowTheOrchestrator` | `RegistrationsHold` | (the property names the gaps) |
| | `RegisteredKeepFiles` | `RegisteredHasFiles` | (the same) |
| | `AssetsGoWhereTheyMay` | `DownloadsAreRight` | |
| | `FailuresAreReported` | `FailuresAreTold` | |
| | `PartsAreTheParts` | `PartsSpec` implies every part's `Spec` | |
| `UserProofs` | `SessionsAreEnded` | `SessionsEnd` | |
| | `AccountsAreKept`, `ExternalUsersAreKept` | `AccountsHold`, `ExternalUsersKept` | (the properties name the gaps) |
| | `AnswersHoldTogether` | `ReadsCohere` | |
| | `ListsAreFollowed` | `ListsAreWalked` | (the property names the exceptions) |

The named assumptions say of which form the settings are (`TaskRoutingAssumption`,
`FilesAssumption`, `DownloadsAssumption` and the like), and these few things about the code:
the server draws the keys of what it creates, and the serializers allow managers only for
data samples (`KeysAreDrawn`, `RegistrationAssumption`); a task puts each output at one
identifier, as a model or as a performance (`FilesAssumption`); an image has layers
(`ImagesAssumption`); a build fails for all the tasks of its function, an execution for the task that
ran (`FailuresAssumption`); the plans and the usernames are finitely many and a page has rows
(`ReadsAssumption`, `AccountsAssumption`); the key of an asset is its own, as are the identifier
and the position of an input asset in its task (`unique_together` in `models/computetask.py`), and
the filters that join are those of six lists (`ListsAssumption`). TLC evaluates each of them in the run of its module.

Beside the types, hardly any of these properties is inductive. The strengthenings:

* **LockLocal**. That a holder's file is in place depends on nobody being about to remove
  it. `LockInv` adds what each call knows at each place: who is between the secondary
  lock's acquisition and release owns its file (`SecondaryOwned`); a call that has not
  acquired owns nothing (`FreshBeforeHold`); from the create to the remove a lock that is
  not overdue is in place (`KeptUntilOverdue`); at either removal the file is still the one
  that was looked at (`OwnAtRemoval`, `OverdueAtRemoval`). Without a ttl the only removal is
  the creator's: `UntimedInv` is `LockInv` without its secondary part.
* **ComputeTask**. `LockInv`: a slot between `acquire_compute_plan_lock` and the release
  holds the lock; one that has looked for the pod and not found it can rely on that when
  it creates it, since `on_retry` and a teardown only ever delete pods; one about to
  mark its task as done has registered its output. `DirsAreKept` follows from it, for
  any number of processes: what empties a directory is a teardown, which holds the lock, or the clearing
  at the end of an attempt, which does not (`EmptiedBy`). What a function finds in the task directory needs
  one process per worker: `CleanInv` says that the directory holds what the task that runs has put
  there and is empty whenever none runs, which a kill breaks.
* **ComputePlanRouting**. In a plan that does not grow, everything (pod, directories,
  queues, the worker at work, the message about to be sent) is at the mapping's worker
  until that worker releases the mapping (`AllHome`); from then on no task of the plan runs
  and the pod is about to be deleted there, unless the teardown was cut short (`Over`). `Dead` says that a plan that is over
  stays over, which is why the release is final.
* **TaskRouting**. `Balanced`: plans at a worker and those about to be inserted there are
  never more than those at any other worker by more than the number of reactors. The
  step that chooses a worker needs a worker with the fewest plans, so that a
  finite set of counts has a minimum.
* **AssetBuffer**. `Owning`: a process that fills or purges holds the global lock, and its
  task's producers are done; `Removers`: a process with a removal in hand works on no task, so what it
  unlinks no task of its own needs; `Keeping`: a model is disabled only when its consumers are done, and the
  outputs of tasks that are done are stored or disabled; `CalmStays`: without faults and with a roomy
  volume nothing that was fetched leaves before the task is done; `LinkedSoFar`: what has
  been linked is whole. The cardinality of the buffer against the capacity is the only
  arithmetic. `SpaceInv`: where a task's inputs fit and one process is at work, a task that met a
  lack of space has cleared the buffer and is tried again, with nothing but its own
  inputs there (`Clearing`, `TriedAgain`, `GetsSpace`). `KillInv` is an account of kills, as
  long as none left the lock behind: each failed attempt of a task is paid for by one, and so is
  the next if it still has to fail for the links that a killed attempt left (`Owed`, `Paid`).
* **FunctionBuild**. `Saved`: what each saver knows at each place; a message to save exists
  only once the image is in the registry, `stored` comes before the update, and nothing
  removes either. `RowsFollow` needs to count what is still to come: a function that has ended
  is shown, canceled or stale, and no event about it is left; or the last event about it in
  the log has its status (`RowInv`). `FailureInv` says of the time before the first fault that a
  function is in one place of the chain (`OnePlace`), where it comes once (`ChainInv`), and that the pod
  is deleted only when the image is in the registry (`PodInv`): who loses the race for the
  pod twice finds the image at the third attempt, and no fourth is needed.
* **TaskFiles**. `FilesInv` says of each place in `_run` what is there. `ArgsInv`: the pod found
  or made mounts what its image's tasks have in common, and the inputs are linked before the
  command is written. `OutputsInv`: the identifiers an attempt stores and registers carry
  its number, so an attempt starts with none of its own (`AttemptIsFresh`) and what
  it has saved grows with its place (`SavedSoFar`); a DONE task has all of them. `KeysInv`: the
  chainkeys are in the secrets, in the plan's directory, then in the task's directory advanced by
  one task, and each gap breaks one of these links (`Secrecy`, `Chain`, `KeysThere`).
  `SurvivalInv` is an account: each failed attempt of a task has been paid for with a
  fault, but for the links a killed attempt left (`Debt`), for which the next one fails.
* **ImageTransfer**. `TagIsWhole`: a tag that no fault tore has all its blobs in the registry, also
  among those that the collector has marked, so that its sweep takes none of them;
  `PushCompletes`: what a push has sent and what it has still to send are the whole image;
  `PushedIsThere`, `AttemptsAreMet`: of a task that no fault has hit in this attempt.
* **TaskProfiling**. `ProfileInv`: while no call was given up, the steps reported so far carry the
  turn of the delivery that is at work, in the order of `Before`.
* **AssetRegistration**. `Sound(r)`: a request about to register has the files of all its
  assets; one about to remove them has been refused, so the orchestrator does not have
  them, or the answer was lost. It needs that two requests never create one asset
  (`KeysAreDrawn`). For the rows, `EventsInv`: the last pending event of each kind brings
  what the orchestrator has (`LastIsCurrent`), an asset without a row is still to be created by an
  event (`RowToCome`), a row has what no event is to bring (`RowIsCurrent`), and whoever may manage a
  sample has a row before any event says so (`ManagersHaveRows`). `RequestInv(r)` says what a
  request knows at its step, and `InstancesInv` that an instance without a registration
  is one that some request has still to register or to remove.
* **Sessions**. Every token that was issued is gone, in the cookie, on its way to the browser, or
  loose (`SessionsInv`); a request that was served carries a token that is gone (`RequestsCarry`).
  Two requests that carry one token, or one that carries a token another has spent, were under way
  together (`UsedTogether`). As long as no two requests overlap, the one under way carries the cookie,
  and what is loose is gone unless an answer was lost or a login came over a valid session (`OneByOne`):
  the logout then ends all there is.
* **Accounts**. As long as no account was deleted while a request held it (`Settled`), what is held
  is of the row that is there (`HeldInv`), and a password, role or channel that a request is going to
  write back is the last one asked for, or the change that overlapped it is a gap (`PasswordInv`, `ChannelInv`).
  Ids are drawn once (`NumbersInv`), which tells an account from a later one of the same username.
  `EnteringInv` is about first logins: while one is under way, no settled account has its subject,
  and no second one is under way without the gap. `RefreshInv` puts each refresh token in one place,
  a row or the request that renews it. As most actions do the same to what is read and held,
  `AccountsEffect` first brings each of them to one of seventeen effects, and the conjuncts of the invariant are
  proved for these.
* **Reads**. What is inserted between two queries of an answer is late (`AnswerInv`); a plan's dates
  come in order and do not change, so a list that has its end gets its start (`FeedInv`). For
  the pages of the news feed `NewsInv` speaks of the list that a page will be cut from if nothing more
  is written, `NewsToCome`: it only grows, so no item's place in it falls, and every item that
  was there at the beginning and was not shown is below the end of the last page.
* **Lists**. The database may return ties in any order, another one for every page. Where the
  order has no ties, the rows of an asset are right behind those of the assets it comes after, in
  whatever order `Sorted` chooses (`SortedPlaces`, by bijections between rows and places); so a page shows of
  an asset what is `Among` the rows up to its end and not before (`SliceShows`). `WatchedInv`: what was there
  when the walk began is shown, or has at least as many rows ahead of it as the pages so far had;
  rows that are written add to these and take none away. `ShownInv`: as long as the list is
  what it was, the pages so far are its first rows.
* **Downloads**. Where a request is says which check it passed (`CheckIsPassed`); outside a rotation
  each table has the configured secret, and a request whose credentials never changed was
  sent with the one that is expected (`SecretsFollow`).
* **FailureReports**. The log has the tasks before the report and a `failed` event
  for each (`LogIsOrdered`); the rows of an organization are a function of how much of it
  it has handled (`RowsTell`); a report with logs is stored before it is registered
  (`ReportsAreStored`).
* **ApiSync**. `EventsResolveInputs`: a task is created before it is updated (`Ordered`), what
  the handler has read still holds when it commits, because no one else writes rows
  (`Reading`), and so every row whose parent has an output has its input (`Resolved`).
  `RowsFollowTasks` holds with views and crashes: a row says what the orchestrator says, or
  the last event about the task, which is still to come, has its status; and before its
  creation is handled only a view may have written it, with the status it is created with
  (`RowsInv`). `PlanFollows`: the plan's row is at every moment the one of the tasks' rows
  (`UpToDate`), which needs that an end date is only kept while a task has ended or the plan is
  canceled, and so that a plan never leaves its cancellation (`CanceledForGood`).

Looking for these invariants changed the models: a request of `Downloads` whose organization
rotated its secret between the sending and the check counts as crossed, which the run had missed
with one rotation order only; a failed transfer in `ImageTransfer` is excused when two
images have one tag, which the orchestrator does not exclude.

In `Accounts` it found a wrong property. A view that has read a row before the account is deleted
brings the row back when it saves it: between its two writes, when the account was created
anew in the meantime, a role or a channel may be older than the last one asked for, and when
an external user logged in again before, two accounts have one subject. The properties
named the gap for the row itself only, and no scenario had a deletion, a new account of the username and a
third request together. Now they do (`Settled`), and the run has that scenario.

They also showed what two properties need of `CELERY_TASK_MAX_RETRIES`, 7 by default and 0 in
the development settings. A lack of space is mended by clearing the buffer and trying again,
so without a retry a task fails though its inputs would fit: `FailuresAreReal` needs one.
A builder that finds no pod and creates it second loses an attempt, and may lose another to a third
builder that comes when the first has deleted the pod; with two attempts its function fails
although nothing went wrong. `FailureIsReal` needs three for any number of builders; the run has
two builders, for whom two are enough.

Only model-checked: every liveness property (fairness and ENABLED are out of the prover's
reach); `FailureIsReal` and `FailuresAreReal` with fewer retries than their theorems have;
`OwnOutput` with kills.

## 5. Not modelled

* Settings, migrations, the chart, `generate_fixtures`: configuration and generated code.
  The numbers in it are the constants of the models.
* Data: the Dockerfile and the specifications of the pods, environment variables, the zip
  format of images, the conversion of the orchestrator's messages, serializers as far as
  they only name fields, the wording of answers, the parsing of filters, metrics, logs.
* The orchestrator, Celery and Redis, Kubernetes, the registry and PostgreSQL are external
  and modelled from the calls this repository makes; priorities and the back-off of
  Celery are left out (a delay is any delay).
* Kubernetes API errors other than a pod that does not become ready are one failing step.
* Bearer tokens, throttling, the validation of passwords; the health check of the consumers;
  the `ISOLATED` mode; several channels at once, which share nothing but processes.
* The wait for the pods' deletion; the locks of single assets, which are only taken inside
  the global one.

What a further iteration would add: a refinement of an abstract *task life* by
`ComputeTask` with one slot; several inputs per task in `ApiSync`.
