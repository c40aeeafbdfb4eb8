------------------------------ MODULE AssetBuffer ------------------------------
(***************************************************************************)
(* The asset buffer of a worker (substrapp/compute_tasks/asset_buffer.py)  *)
(* and the tasks that fill it, link from it, save models into it and       *)
(* clear it (substrapp/tasks/tasks_compute_task.py), with the removal of   *)
(* transient models (substrapp/events/handler_compute_engine.py).          *)
(*                                                                         *)
(* Every task belongs to a plan of its own, so the plan lock is never      *)
(* contended and every task has its own task directory.  The lock files    *)
(* are in /tmp of the container, the buffer and the task directories are   *)
(* on a volume.  The locks of single assets are always taken inside the    *)
(* global one and never contended: they are left out.  LockLocal models    *)
(* the locks, ComputeTask what happens to a task before and after this.    *)
(***************************************************************************)
EXTENDS Naturals, FiniteSets

CONSTANTS
  Task,
  Process,     \* the Celery processes a worker may have
  Free, Dead,  \* no process holds a lock; a process that was killed does
  Sample,      \* the data samples
  Opener,
  Model,
  Inputs,      \* the assets each task needs
  Outputs,     \* the models each task produces
  MaxRetries,  \* CELERY_TASK_MAX_RETRIES
  Settings,    \* the workers to consider, see SettingType
  MaxFaults    \* bound on the faults of each

\* "fetch": a copy or a download fails; "checksum": a data sample does not have
\* its checksum; "kill": a process is killed; "restart": the container is.
EnvKind == {"fetch", "checksum", "kill", "restart"}
\* The processes of the worker (CELERY_WORKER_CONCURRENCY), how many assets fit
\* on its volume, the data samples that are in the servermedias and not in the
\* object storage, what may go wrong.
SettingType == [processes : SUBSET Process, capacity : Nat, served : SUBSET Sample,
                env : SUBSET EnvKind]
Asset == Sample \union Opener \union Model

\* The orchestrator registers no task with a model that no task produces.
ASSUME AssetBufferAssumption ==
  /\ MaxRetries \in Nat /\ MaxFaults \in Nat
  /\ IsFiniteSet(Process) /\ IsFiniteSet(Asset)
  /\ Sample \intersect (Opener \union Model) = {} /\ Opener \intersect Model = {}
  /\ Settings \subseteq SettingType
  /\ (Process \union Task) \intersect {Free, Dead} = {} /\ Free # Dead
  /\ Inputs \in [Task -> SUBSET Asset]
  /\ Outputs \in [Task -> SUBSET Model]
  /\ \A t \in Task : Inputs[t] \intersect Model \subseteq UNION {Outputs[u] : u \in Task}

VARIABLES
  setting,    \* the worker, chosen at the start
  buffer,     \* the copy of each asset in the buffer
  folder,     \* the folder of the data samples exists
  links,      \* the links of each task directory
  locks,      \* the holder of "asset-buffer_global" and of "asset-buffer_"
  pc,         \* where each process is
  job,        \* its task, see Job
  tstate,     \* the state of each task
  failures,   \* the attempts of each task that failed
  noSpace,    \* history: a task all of whose attempts met a lack of space, and no
              \* other task started in between
  stored,     \* models the object storage has
  disabled,   \* models the orchestrator has disabled
  attempts,   \* the broker: remove_transient_outputs_from_orc, by model
  removals,   \* the broadcast queue of this worker
  removing,   \* the model whose removal each process has taken from that queue
  missed,     \* history: models whose removal was lost
  dbRemovals, \* the broker: remove_intermediary_model_from_db
  handled,    \* finished tasks whose event the reactor has handled
  faults

diskVars == <<buffer, folder, links>>
taskVars == <<tstate, failures, noSpace>>
removalVars == <<removals, removing, missed>>
modelVars == <<stored, disabled, attempts, removalVars, dbRemovals, handled>>
envVars == <<setting, faults>>
vars == <<diskVars, locks, pc, job, taskVars, modelVars, envVars>>

Copy == {"absent", "partial", "whole"}
Place == {"idle", "wait", "fetch", "purge", "link", "run", "clearWait", "clear", "teardown"}
NoCopies == [a \in Asset |-> "absent"]
Present == {a \in Asset : buffer[a] # "absent"}

\* What a process works on: its task, the assets its current loop has not
\* reached, the copies it is writing, whether a subprocess failed, and the
\* exception that ended the attempt.
NoJob == [task |-> Free, todo |-> {}, busy |-> {}, bad |-> FALSE, error |-> "none"]
Job == [task : Task \union {Free}, todo : SUBSET Asset, busy : SUBSET Asset,
        bad : BOOLEAN, error : {"none", "error", "space"}]

Fault(kind) == kind \in setting.env /\ faults < MaxFaults /\ faults' = faults + 1
Goto(p, place) == pc' = [pc EXCEPT ![p] = place]
SetJob(p, j) == job' = [job EXCEPT ![p] = j]
Hold(name, holder) == locks' = [locks EXCEPT ![name] = holder]
Remove(assets) == buffer' = [a \in Asset |-> IF a \in assets THEN "absent" ELSE buffer[a]]
Write(a, copy) == buffer' = [buffer EXCEPT ![a] = copy]

Init ==
  /\ setting \in Settings
  /\ buffer = NoCopies
  /\ folder = FALSE
  /\ links = [t \in Task |-> NoCopies]
  /\ locks = [name \in {"global", "clear"} |-> Free]
  /\ pc = [p \in Process |-> "idle"]
  /\ job = [p \in Process |-> NoJob]
  /\ tstate = [t \in Task |-> "todo"]
  /\ failures = [t \in Task |-> 0]
  /\ noSpace = {}
  /\ stored = {}
  /\ disabled = {}
  /\ attempts = {}
  /\ removals = {}
  /\ removing = [p \in Process |-> {}]
  /\ missed = {}
  /\ dbRemovals = {}
  /\ handled = {}
  /\ faults = 0

-----------------------------------------------------------------------------
(* A task starts and fills the buffer, under the global lock *)

Producers(t) == {u \in Task : Outputs[u] \intersect Inputs[t] # {}}

\* _run up to the lock: init_asset_buffer makes the folders.
Receive(p, t) ==
  /\ p \in setting.processes /\ pc[p] = "idle" /\ removing[p] = {}
  /\ tstate[t] = "todo" /\ \A u \in Producers(t) : tstate[u] = "done"
  /\ tstate' = [tstate EXCEPT ![t] = "doing"]
  /\ folder' = TRUE
  /\ SetJob(p, [NoJob EXCEPT !.task = t])
  /\ noSpace' = noSpace \intersect {t}
  /\ Goto(p, "wait")
  /\ UNCHANGED <<buffer, links, locks, failures, modelVars, envVars>>

LockBuffer(p) ==
  /\ pc[p] = "wait" /\ locks["global"] = Free
  /\ Hold("global", p)
  /\ SetJob(p, [job[p] EXCEPT !.todo = Inputs[job[p].task]])
  /\ Goto(p, "fetch")
  /\ UNCHANGED <<diskVars, taskVars, modelVars, envVars>>

\* The lock has no ttl: MAX_TASK_DURATION passes, lock_resource raises.
WaitTimeout(p) ==
  /\ pc[p] = "wait" /\ locks["global"] = Dead
  /\ SetJob(p, [job[p] EXCEPT !.error = "error"])
  /\ Goto(p, "teardown")
  /\ UNCHANGED <<diskVars, locks, taskVars, modelVars, envVars>>

\* Data samples one by one, then the opener, then the models, each in a process.
Stage(a) == CASE a \in Sample -> 1 [] a \in Opener -> 2 [] OTHER -> 3
Reached(p, a) ==
  /\ pc[p] = "fetch" /\ a \in job[p].todo
  /\ \A b \in job[p].todo \union job[p].busy : Stage(a) <= Stage(b)
  /\ job[p].busy = {} \/ a \in Model

\* What is on the volume: a removed asset stays while a link to it does.
Used == {a \in Asset : buffer[a] # "absent" \/ \E t \in Task : links[t][a] # "absent"}
Fits == Cardinality(Used) < setting.capacity

\* add_to_buffer_safe: an asset that exists is not fetched again.
Exists(p, a) ==
  /\ Reached(p, a) /\ buffer[a] # "absent"
  /\ SetJob(p, [job[p] EXCEPT !.todo = @ \ {a}])
  /\ UNCHANGED <<diskVars, locks, pc, taskVars, modelVars, envVars>>

StartFetch(p, a) ==
  /\ Reached(p, a) /\ buffer[a] = "absent" /\ Fits
  /\ Write(a, "partial")
  /\ folder' = (folder \/ a \in Sample)
  /\ SetJob(p, [job[p] EXCEPT !.todo = @ \ {a}, !.busy = @ \union {a}])
  /\ UNCHANGED <<links, locks, pc, taskVars, modelVars, envVars>>

\* A download goes on when its file is unlinked, and leaves nothing; a data
\* sample that was removed meanwhile does not have its checksum, see BadChecksum.
\* A model that is fetched is stored: no consumer is left when it is disabled.
EndFetch(p, a) ==
  /\ pc[p] = "fetch" /\ a \in job[p].busy
  /\ a \in Model => a \in stored
  /\ a \in Sample => buffer[a] = "partial"
  /\ IF buffer[a] = "partial" THEN Write(a, "whole") ELSE UNCHANGED buffer
  /\ SetJob(p, [job[p] EXCEPT !.busy = @ \ {a}])
  /\ UNCHANGED <<folder, links, locks, pc, taskVars, modelVars, envVars>>

\* An exception in the fetch of a model ends its process, any other the attempt:
\* the lock is released and the attempt ends with the exception.
Raise(p, a, error) ==
  IF a \in Model
  THEN SetJob(p, [job[p] EXCEPT !.todo = @ \ {a}, !.busy = @ \ {a}, !.bad = TRUE])
       /\ UNCHANGED <<locks, pc>>
  ELSE SetJob(p, [job[p] EXCEPT !.todo = {}, !.busy = {}, !.error = error])
       /\ Hold("global", Free)
       /\ Goto(p, IF error = "space" THEN "clearWait" ELSE "teardown")

\* The copy that was begun is removed, by add_to_buffer_safe or by download.
FetchFails(p, a) ==
  /\ pc[p] = "fetch" /\ a \in job[p].busy
  /\ Fault("fetch")
  /\ Remove({a})
  /\ Raise(p, a, "error")
  /\ UNCHANGED <<folder, links, taskVars, modelVars, setting>>

\* ENOSPC, which reaches _run only from the parent process, and not from
\* copytree: shutil.Error is an OSError without an errno.
NoSpace(p, a) ==
  /\ Reached(p, a) /\ buffer[a] = "absent" /\ ~Fits
  /\ Raise(p, a, IF a \in setting.served THEN "error" ELSE "space")
  /\ noSpace' = noSpace \union {t \in {job[p].task} : failures[t] = 0}
  /\ UNCHANGED <<diskVars, tstate, failures, modelVars, envVars>>

\* A data sample without its checksum removes the folder of all of them.
BadChecksum(p, a) ==
  /\ pc[p] = "fetch" /\ a \in job[p].busy \intersect Sample
  /\ IF buffer[a] = "partial" THEN Fault("checksum") ELSE UNCHANGED faults
  /\ SetJob(p, [job[p] EXCEPT !.todo = Present \intersect Sample, !.busy = {}, !.error = "error"])
  /\ Goto(p, "purge")
  /\ UNCHANGED <<diskVars, locks, taskVars, modelVars, setting>>

EndPurge(p) ==
  /\ pc[p] = "purge" /\ job[p].todo = {}
  /\ folder' = FALSE
  /\ Hold("global", Free)
  /\ Goto(p, "teardown")
  /\ UNCHANGED <<buffer, links, job, taskVars, modelVars, envVars>>

\* Faulty: the processes are started and not joined.
StartedAll(p) == pc[p] = "fetch" /\ job[p].todo = {}

\* The processes are joined: when one failed, all models of the task are removed.
FetchedAll(p) == pc[p] = "fetch" /\ job[p].todo = {} /\ job[p].busy = {}
JoinFailed(p) ==
  /\ FetchedAll(p) /\ job[p].bad
  /\ Remove(Inputs[job[p].task] \intersect Model)
  /\ SetJob(p, [job[p] EXCEPT !.bad = FALSE, !.error = "error"])
  /\ Hold("global", Free)
  /\ Goto(p, "teardown")
  /\ UNCHANGED <<folder, links, taskVars, modelVars, envVars>>

UnlockBuffer(p) ==
  /\ FetchedAll(p) /\ ~job[p].bad
  /\ SetJob(p, [job[p] EXCEPT !.todo = Inputs[job[p].task]])
  /\ Hold("global", Free)
  /\ Goto(p, "link")
  /\ UNCHANGED <<diskVars, taskVars, modelVars, envVars>>

-----------------------------------------------------------------------------
(* The links, the execution, the outputs: no lock on the buffer is held *)

\* A data sample that is being removed while it is linked gives a partial copy.
Torn(a) == \E q \in Process : pc[q] \in {"purge", "clear"} /\ a \in job[q].todo

LinkAsset(p, a) ==
  /\ pc[p] = "link" /\ a \in job[p].todo /\ buffer[a] # "absent"
  /\ a \in Model => links[job[p].task][a] = "absent"
  /\ \E copy \in {buffer[a]} \union {"partial" : b \in {b \in {a} \intersect Sample : Torn(b)}} :
        links' = [links EXCEPT ![job[p].task][a] = copy]
  /\ SetJob(p, [job[p] EXCEPT !.todo = @ \ {a}])
  /\ UNCHANGED <<buffer, folder, locks, pc, taskVars, modelVars, envVars>>

\* The asset is gone; or a killed attempt left the link of a model, which
\* rmtree does not remove because it is no directory.
LinkFails(p, a) ==
  /\ pc[p] = "link" /\ a \in job[p].todo
  /\ buffer[a] = "absent" \/ (a \in Model /\ links[job[p].task][a] # "absent")
  /\ SetJob(p, [job[p] EXCEPT !.todo = {}, !.error = "error"])
  /\ Goto(p, "teardown")
  /\ UNCHANGED <<diskVars, locks, taskVars, modelVars, envVars>>

StartExecution(p) ==
  /\ pc[p] = "link" /\ job[p].todo = {}
  /\ Goto(p, "run")
  /\ UNCHANGED <<diskVars, locks, job, taskVars, modelVars, envVars>>

\* save_outputs: to the object storage, then renamed into the buffer; then
\* the task is DONE.
SaveOutputs(p) ==
  /\ pc[p] = "run"
  /\ LET t == job[p].task IN
       /\ stored' = stored \union Outputs[t]
       /\ buffer' = [a \in Asset |-> IF a \in Outputs[t] THEN "whole" ELSE buffer[a]]
       /\ tstate' = [tstate EXCEPT ![t] = "done"]
  /\ Goto(p, "teardown")
  /\ UNCHANGED <<folder, links, locks, job, failures, noSpace, disabled, attempts,
                 removalVars, dbRemovals, handled, envVars>>

-----------------------------------------------------------------------------
(* The end of an attempt *)

\* Faulty: the retry is left to the next attempt, the buffer as it is.
LockNothing(p) ==
  /\ pc[p] = "clearWait"
  /\ Goto(p, "teardown")
  /\ UNCHANGED <<diskVars, locks, job, taskVars, modelVars, envVars>>

\* The lock "asset-buffer_" is not the one that protects the filling.
LockClear(p) ==
  /\ pc[p] = "clearWait" /\ locks["clear"] = Free
  /\ IF folder
     THEN /\ Hold("clear", p)
          /\ SetJob(p, [job[p] EXCEPT !.todo = Present])
          /\ Goto(p, "clear")
     ELSE Goto(p, "teardown") /\ UNCHANGED <<locks, job>>
  /\ UNCHANGED <<diskVars, taskVars, modelVars, envVars>>

ClearTimeout(p) ==
  /\ pc[p] = "clearWait" /\ locks["clear"] = Dead
  /\ Goto(p, "teardown")
  /\ UNCHANGED <<diskVars, locks, job, taskVars, modelVars, envVars>>

RemoveAsset(p, a) ==
  /\ pc[p] \in {"purge", "clear"} /\ a \in job[p].todo
  /\ Remove({a})
  /\ SetJob(p, [job[p] EXCEPT !.todo = @ \ {a}])
  /\ UNCHANGED <<folder, links, locks, pc, taskVars, modelVars, envVars>>

EndClear(p) ==
  /\ pc[p] = "clear" /\ job[p].todo = {}
  /\ Hold("clear", Free)
  /\ Goto(p, "teardown")
  /\ UNCHANGED <<diskVars, job, taskVars, modelVars, envVars>>

\* Faulty: the attempts are not counted.
TeardownUncounted(p) ==
  /\ pc[p] = "teardown"
  /\ LET t == job[p].task IN
       /\ links' = [links EXCEPT ![t] = NoCopies]
       /\ tstate' = [tstate EXCEPT ![t] = IF job[p].error = "none" THEN "done" ELSE "todo"]
  /\ SetJob(p, NoJob)
  /\ Goto(p, "idle")
  /\ UNCHANGED <<buffer, folder, locks, failures, noSpace, modelVars, envVars>>

\* teardown_task_dirs, then Celery retries a task that raised.
Teardown(p) ==
  /\ pc[p] = "teardown"
  /\ LET t == job[p].task
         again == failures[t] < MaxRetries IN
       /\ links' = [links EXCEPT ![t] = NoCopies]
       /\ IF job[p].error = "none" THEN UNCHANGED taskVars
          ELSE /\ tstate' = [tstate EXCEPT ![t] = IF again THEN "todo" ELSE "failed"]
               /\ failures' = [failures EXCEPT ![t] = IF again THEN @ + 1 ELSE @]
               /\ UNCHANGED noSpace
  /\ SetJob(p, NoJob)
  /\ Goto(p, "idle")
  /\ UNCHANGED <<buffer, folder, locks, modelVars, envVars>>

\* The killed process's task is delivered again unless it was done.  Its locks
\* stay, and so does what it had on the volume.
Orphaned(ps) ==
  /\ pc' = [p \in Process |-> IF p \in ps THEN "idle" ELSE pc[p]]
  /\ job' = [p \in Process |-> IF p \in ps THEN NoJob ELSE job[p]]
  /\ tstate' = [t \in Task |-> IF tstate[t] = "doing" /\ \E p \in ps : job[p].task = t
                               THEN "todo" ELSE tstate[t]]

Kill(p) ==
  /\ Fault("kill") /\ (pc[p] # "idle" \/ removing[p] # {})
  /\ Orphaned({p})
  /\ locks' = [name \in DOMAIN locks |-> IF locks[name] = p THEN Dead ELSE locks[name]]
  /\ removing' = [removing EXCEPT ![p] = {}]
  /\ missed' = missed \union removing[p]
  /\ UNCHANGED <<diskVars, failures, noSpace, stored, disabled, attempts, removals, dbRemovals,
                 handled, setting>>

\* The container restarts: /tmp goes with it, and so does the broadcast queue.
Restart ==
  /\ Fault("restart")
  /\ removals # {} \/ \E p \in Process : pc[p] # "idle" \/ removing[p] # {}
  /\ Orphaned(Process)
  /\ locks' = [name \in DOMAIN locks |-> Free]
  /\ removals' = {}
  /\ removing' = [p \in Process |-> {}]
  /\ missed' = missed \union removals \union UNION {removing[p] : p \in Process}
  /\ UNCHANGED <<diskVars, failures, noSpace, stored, disabled, attempts, dbRemovals, handled,
                 setting>>

-----------------------------------------------------------------------------
(* Transient models: every output is one *)

Consumers(m) == {t \in Task : m \in Inputs[t]}

\* The reactor handles the event of a finished task: handle_finished_tasks.
FinishedTask(t) ==
  /\ tstate[t] = "done" /\ t \notin handled
  /\ handled' = handled \union {t}
  /\ attempts' = attempts \union (Inputs[t] \intersect Model)
  /\ UNCHANGED <<diskVars, locks, pc, job, taskVars, stored, disabled, removalVars,
                 dbRemovals, envVars>>

\* The orchestrator refuses while a consumer is not done; its event makes the
\* reactor queue both removals.
DisableOutput(m) ==
  /\ m \in attempts
  /\ attempts' = attempts \ {m}
  /\ IF m \notin disabled /\ \A t \in Consumers(m) : tstate[t] = "done"
     THEN /\ disabled' = disabled \union {m}
          /\ removals' = removals \union {m}
          /\ dbRemovals' = dbRemovals \union {m}
     ELSE UNCHANGED <<disabled, removals, dbRemovals>>
  /\ UNCHANGED <<diskVars, locks, pc, job, taskVars, stored, removing, missed, handled, envVars>>

\* remove_intermediary_models_from_buffer is acknowledged on receipt: when its
\* process dies before the file is removed, nothing sends the message again.
ReceiveRemoval(p, m) ==
  /\ p \in setting.processes /\ pc[p] = "idle" /\ removing[p] = {}
  /\ m \in removals
  /\ removals' = removals \ {m}
  /\ removing' = [removing EXCEPT ![p] = {m}]
  /\ UNCHANGED <<diskVars, locks, pc, job, taskVars, stored, disabled, attempts, missed, dbRemovals,
                 handled, envVars>>

\* Faulty: a model that is linked is not removed.
RemoveUnlinked(p, m) ==
  /\ m \in removing[p]
  /\ IF \E t \in Task : links[t][m] # "absent" THEN UNCHANGED buffer ELSE Remove({m})
  /\ removing' = [removing EXCEPT ![p] = {}]
  /\ UNCHANGED <<folder, links, locks, pc, job, taskVars, stored, disabled, attempts, removals,
                 missed, dbRemovals, handled, envVars>>

RemoveFromBuffer(p, m) ==
  /\ m \in removing[p]
  /\ Remove({m})
  /\ removing' = [removing EXCEPT ![p] = {}]
  /\ UNCHANGED <<folder, links, locks, pc, job, taskVars, stored, disabled, attempts, removals,
                 missed, dbRemovals, handled, envVars>>

RemoveFromDb(m) ==
  /\ m \in dbRemovals
  /\ stored' = stored \ {m}
  /\ dbRemovals' = dbRemovals \ {m}
  /\ UNCHANGED <<diskVars, locks, pc, job, taskVars, disabled, attempts, removalVars, handled,
                 envVars>>

-----------------------------------------------------------------------------

AssetStep(p, a) ==
  \/ Exists(p, a) \/ StartFetch(p, a) \/ EndFetch(p, a) \/ NoSpace(p, a)
  \/ LinkAsset(p, a) \/ LinkFails(p, a) \/ RemoveAsset(p, a)
  \/ buffer[a] = "absent" /\ BadChecksum(p, a)

AssetFault(p, a) ==
  \/ FetchFails(p, a)
  \/ buffer[a] # "absent" /\ BadChecksum(p, a)

ProcessStep(p) ==
  \/ LockBuffer(p) \/ WaitTimeout(p) \/ EndPurge(p) \/ JoinFailed(p) \/ UnlockBuffer(p)
  \/ StartExecution(p) \/ SaveOutputs(p)
  \/ LockClear(p) \/ ClearTimeout(p) \/ EndClear(p) \/ Teardown(p)

ModelStep(m) ==
  \/ DisableOutput(m) \/ RemoveFromDb(m)
  \/ \E p \in Process : ReceiveRemoval(p, m) \/ RemoveFromBuffer(p, m)

\* Every task is done, or waits for one that failed.
Quiet ==
  /\ attempts = {} /\ removals = {} /\ dbRemovals = {}
  /\ \A p \in Process : pc[p] = "idle" /\ removing[p] = {}
  /\ \A t \in Task : tstate[t] = "done" => t \in handled
  /\ \A t \in Task : tstate[t] = "todo" => \E u \in Producers(t) : tstate[u] # "done"
  /\ UNCHANGED vars

Next ==
  \/ \E p \in Process, t \in Task : Receive(p, t)
  \/ \E p \in Process : ProcessStep(p) \/ Kill(p)
  \/ \E p \in Process, a \in Asset : AssetStep(p, a) \/ AssetFault(p, a)
  \/ \E t \in Task : FinishedTask(t)
  \/ \E m \in Model : ModelStep(m)
  \/ Restart \/ Quiet

Spec == Init /\ [][Next]_vars

\* Processes, the reactor and the broker go on; faults are never owed.
Fairness ==
  /\ \A p \in Process : WF_vars(ProcessStep(p))
  /\ \A p \in Process, t \in Task : WF_vars(Receive(p, t))
  /\ \A p \in Process, a \in Asset : WF_vars(AssetStep(p, a))
  /\ \A t \in Task : WF_vars(FinishedTask(t))
  /\ \A m \in Model : WF_vars(ModelStep(m))

FairSpec == Spec /\ Fairness

-----------------------------------------------------------------------------
(* Properties *)

TypeOK ==
  /\ setting \in Settings
  /\ buffer \in [Asset -> Copy] /\ folder \in BOOLEAN
  /\ links \in [Task -> [Asset -> Copy]]
  /\ locks \in [{"global", "clear"} -> Process \union {Free, Dead}]
  /\ pc \in [Process -> Place] /\ job \in [Process -> Job]
  /\ tstate \in [Task -> {"todo", "doing", "done", "failed"}]
  /\ failures \in [Task -> 0..MaxRetries]
  /\ noSpace \subseteq Task /\ handled \subseteq Task
  /\ stored \subseteq Model /\ disabled \subseteq Model /\ attempts \subseteq Model
  /\ removals \subseteq Model /\ dbRemovals \subseteq Model
  /\ removing \in [Process -> SUBSET Model] /\ missed \subseteq Model
  /\ faults \in 0..MaxFaults

Survivors == setting.env \intersect {"kill", "restart"} = {}
Alone == Cardinality(setting.processes) = 1
Roomy == setting.capacity >= Cardinality(Asset)

\* A partial copy is only in the buffer while a process that will complete or
\* remove it is at work: what is found there later can be trusted without a
\* check, as add_to_buffer_safe does, unless a process or the container dies.
BufferTrusted ==
  Survivors => \A a \in Asset : buffer[a] = "partial" =>
    \E p \in Process : a \in job[p].busy \/ (pc[p] = "purge" /\ a \in job[p].todo)

\* The user's code runs on complete copies of all its inputs although they are
\* linked after the lock was released: with one process, or with several as
\* long as nothing fails and the volume is large enough.
LinkedWhole ==
  Survivors /\ (Alone \/ (setting.env = {} /\ Roomy)) =>
    \A p \in Process : pc[p] = "run" =>
      \A a \in Inputs[job[p].task] : links[job[p].task][a] = "whole"

\* What the code relies on when it trusts the buffer, and what the user relies on.
RunsOnWhole == BufferTrusted /\ LinkedWhole

\* "Clear asset buffer and retry the task": a task that is alone fails for lack
\* of space only if its inputs do not fit, or if the lack of space showed in a
\* place that hides ENOSPC from _run: the process that downloads a model, the
\* copytree of a data sample of the servermedias.
NoSpaceIsReal ==
  setting.env = {} /\ Alone =>
    \A t \in noSpace : tstate[t] = "failed" =>
      \/ Cardinality(Inputs[t]) > setting.capacity
      \/ Inputs[t] \intersect (setting.served \union Model) # {}

\* A task whose process was killed, not more often than there are retries, gets
\* through whatever was left in its directory, unless a lock file without ttl
\* was left as well.
KillIsSurvived ==
  setting.env = {"kill"} /\ Alone /\ Roomy /\ faults <= MaxRetries =>
    \A t \in Task : tstate[t] = "failed" => locks["global"] = Dead

\* A task fails only for a reason that a clear buffer or a retry does not mend.
FailuresAreReal == NoSpaceIsReal /\ KillIsSurvived

\* A disabled model leaves the buffer for good, whatever tasks link to it, fail,
\* are killed or clear the buffer meanwhile, unless the broadcast was lost: the
\* container restarted with it in its queue, or the process that had taken it died.
DisabledLeave ==
  \A m \in Model : <>[](m \in disabled \ missed => buffer[m] = "absent")

\* Every task ends or waits for one that failed, whatever fails: no process
\* keeps a lock, and those that were killed with one are waited for no longer
\* than MAX_TASK_DURATION.
EveryTaskEnds ==
  \A t \in Task : <>(\/ tstate[t] \in {"done", "failed"}
                     \/ \E u \in Producers(t) : tstate[u] = "failed")
=============================================================================
