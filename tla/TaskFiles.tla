------------------------------- MODULE TaskFiles -------------------------------
(***************************************************************************)
(* The files of a compute task: its context, the task directory, the       *)
(* arguments file, the mounts of the pod, the chainkeys of secure          *)
(* aggregation and the saving of outputs (context.py, directories.py,      *)
(* command.py, volumes.py, chainkeys.py and outputs.py of                  *)
(* substrapp/compute_tasks).                                               *)
(*                                                                         *)
(* One plan on one worker with one Celery process, so the tasks run one    *)
(* after the other.  ComputeTask models several processes and the statuses *)
(* in full, AssetBuffer how the inputs come into the buffer.  An asset is  *)
(* a pair of the folder it is linked into and its key.                     *)
(***************************************************************************)
EXTENDS Naturals, Sequences, FiniteSets

CONSTANTS
  Task,
  NoTask, NoPod,
  Image,        \* checksums of function archives: they name the image and the pod
  Output,       \* identifiers of outputs
  Secret,       \* Kubernetes secrets that hold the chainkeys of the plan
  MaxRetries,   \* CELERY_TASK_MAX_RETRIES
  MaxFaults,    \* bound on faults
  Settings      \* the plans to consider, see SettingType

\* Folders of a task directory (TaskDirName.All).
Folder == {"cli-args", "data_samples", "export", "in_models", "openers",
           "chainkeys", "out_models", "perf"}
\* "fail": a call raises; "lost": the orchestrator registers and its answer is
\* lost; "user": the user's code fails; "kill": the process is killed.
EnvKind == {"fail", "lost", "user", "kill"}

\* What a plan is made of: the image of each task's function, the task's parent,
\* its outputs of kind model and of kind performance, a plan with a tag whose
\* organization has chainkeys, and what may go wrong.
SettingType ==
  [image : [Task -> Image], parent : [Task -> Task \union {NoTask}],
   models : [Task -> SUBSET Output], perfs : [Task -> SUBSET Output],
   keyed : BOOLEAN, env : SUBSET EnvKind]

VARIABLES
  setting,
  status,      \* the orchestrator: status of each task
  failures,    \* attempts of each task that raised
  attempt,     \* deliveries of each task
  task, pc,    \* what the process works on, and where it is
  files,       \* the task directory: pairs of a folder and a file
  args,        \* arguments.txt: the task it was written for and the paths in it
  taskKeys,    \* content of the task's chainkeys folder, see History
  planKeys,    \* content of the plan's chainkeys folder
  secrets,     \* secrets that still hold data
  pods,        \* the folders mounted in the pod of each image
  stored,      \* models in the local storage: task, output, attempt
  registered,  \* outputs the orchestrator knows: task, output, attempt
  ran,         \* history: the tasks marked as done, in order
  gaps,        \* history: what was half done when an attempt ended
  faults

dirVars == <<files, args, taskKeys>>
keyVars == <<planKeys, secrets>>
outVars == <<stored, registered>>
taskVars == <<status, failures, attempt>>
histVars == <<ran, gaps>>
vars == <<setting, taskVars, task, pc, dirVars, keyVars, pods, outVars, histVars, faults>>

\* A chainkeys folder is empty or has one file, known by the tasks that advanced
\* it; Torn is a file that was opened and not written.
History == {<<>>} \union UNION {[1..n -> Task] : n \in 1..(Cardinality(Task) + MaxFaults)}
Torn == <<NoTask>>

\* ComputePod: the plan and the archive of the function name the pod.
PodOf(t) == setting.image[t]
Models(t) == setting.models[t]
Perfs(t) == setting.perfs[t]
Outputs(t) == Models(t) \union Perfs(t)
ModelPath(o) == <<"out_models", o>>
PerfPath(o) == <<"perf", o>>

\* Context.input_assets: a data sample, an opener and the models of the parent.
InputAssets(t) ==
  {<<"data_samples", "sample">>, <<"openers", "opener">>}
    \union {<<"in_models", r>> : r \in {m \in registered :
              m[1] = setting.parent[t] /\ m[2] \in Models(setting.parent[t])}}
\* Context._get_output_resources.
OutputResources(t) == {ModelPath(o) : o \in Models(t)} \union {PerfPath(o) : o \in Perfs(t)}
\* Faulty: "elif" between the kinds of outputs.
MountsOneKind(t) ==
  {"cli-args", "data_samples", "export", "in_models", "openers", "chainkeys"}
    \union (IF Perfs(t) # {} THEN {"perf"} ELSE {"out_models"})
\* get_volumes, for the task that creates the pod.
Mounts(t) ==
  {"cli-args", "data_samples", "export", "in_models", "openers"}
    \union (IF setting.keyed THEN {"chainkeys"} ELSE {})
    \union {path[1] : path \in OutputResources(t)}

Running == \E t \in Task : status[t] \in {"todo", "doing"}
Failed == \E t \in Task : status[t] = "failed"
NoArgs == [task |-> NoTask, paths |-> {}]

Init ==
  /\ setting \in Settings
  /\ status = [t \in Task |-> "none"]
  /\ failures = [t \in Task |-> 0]
  /\ attempt = [t \in Task |-> 0]
  /\ task = NoTask /\ pc = "idle"
  /\ files = {} /\ args = NoArgs /\ taskKeys = {}
  /\ planKeys = {} /\ secrets = Secret
  /\ pods = [i \in Image |-> NoPod]
  /\ stored = {} /\ registered = {}
  /\ ran = <<>> /\ gaps = {} /\ faults = 0

-----------------------------------------------------------------------------
(* How an attempt ends before it is done *)

\* What an attempt leaves half done when it ends at this place.
HalfDone ==
  CASE pc \in {"dump", "clear secrets"} -> {"secrets"}
    [] pc = "move" -> {"commit"}
    [] pc = "done" /\ setting.keyed -> {"advanced"}
    [] OTHER -> {}
MyModels == {m \in stored : m[1] = task /\ m[3] = attempt[task]}
LeftBehind ==
  HalfDone
    \union (IF pc \in {"store", "models"} /\ MyModels # {} THEN {"orphan"} ELSE {})
    \union (IF \E r \in registered : r[1] = task THEN {"registered"} ELSE {})
    \union (IF pc = "dump" THEN {"torn"} ELSE {})

\* Faulty: the task's folders are not emptied.
RaiseKeepingFiles ==
  /\ pc' = "idle" /\ task' = NoTask
  /\ failures' = [failures EXCEPT ![task] = @ + 1]
  /\ status' = [status EXCEPT ![task] = IF failures[task] < MaxRetries THEN "doing" ELSE "failed"]
  /\ UNCHANGED <<setting, attempt, pods, ran, dirVars>>

\* The exception reaches the "finally" of _run, which empties the task's folders.
\* Then Celery retries the task or, the last time, on_failure fails it.
Raise ==
  /\ files' = {} /\ args' = NoArgs /\ taskKeys' = {}
  /\ pc' = "idle" /\ task' = NoTask
  /\ failures' = [failures EXCEPT ![task] = @ + 1]
  /\ status' = [status EXCEPT ![task] = IF failures[task] < MaxRetries THEN "doing" ELSE "failed"]
  /\ UNCHANGED <<setting, attempt, pods, ran>>
RaiseHere == Raise /\ gaps' = gaps \union LeftBehind

Fault(kind) == kind \in setting.env /\ faults < MaxFaults /\ faults' = faults + 1

\* A call of the current step raises.  Models stored in this attempt are removed
\* when it is their registration that fails.
StepFails ==
  /\ pc # "idle" /\ Fault("fail")
  /\ Raise
  /\ gaps' = gaps \union (IF pc = "models" THEN LeftBehind \ {"orphan"} ELSE LeftBehind)
  /\ stored' = IF pc = "models" THEN stored \ MyModels ELSE stored
  /\ UNCHANGED <<keyVars, registered>>

\* The process is killed: the task directory stays as it is, the message is
\* delivered again.
Kill ==
  /\ pc # "idle" /\ Fault("kill")
  /\ pc' = "idle" /\ task' = NoTask
  /\ gaps' = gaps \union LeftBehind
  /\ UNCHANGED <<setting, taskVars, dirVars, keyVars, pods, outVars, ran>>

Goto(place) ==
  /\ pc' = place
  /\ UNCHANGED <<setting, status, failures, attempt, task, ran, gaps, faults>>

-----------------------------------------------------------------------------
(* Inputs *)

\* orchestrator: a task is registered, also when the plan looked finished.
Register(t) ==
  /\ status[t] = "none" /\ ~Failed
  /\ \/ setting.parent[t] = NoTask
     \/ setting.parent[t] # NoTask /\ status[setting.parent[t]] # "none"
  /\ status' = [status EXCEPT ![t] = "todo"]
  /\ UNCHANGED <<setting, failures, attempt, task, pc, dirVars, keyVars, pods, outVars, histVars, faults>>

\* _run up to the plan lock: the checks, the context, the folders.
Start(t) ==
  /\ pc = "idle" /\ status[t] \in {"todo", "doing"} /\ ~Failed
  /\ setting.parent[t] # NoTask => status[setting.parent[t]] = "done"
  /\ task' = t /\ pc' = "link"
  /\ status' = [status EXCEPT ![t] = "doing"]
  /\ attempt' = [attempt EXCEPT ![t] = @ + 1]
  /\ UNCHANGED <<setting, failures, dirVars, keyVars, pods, outVars, histVars, faults>>

\* add_task_assets_to_buffer and add_assets_to_taskdir.  A model that is no
\* longer stored cannot be downloaded; a model's link that a killed attempt left
\* is a file, which rmtree refuses.
Unlinkable(path) ==
  /\ path[1] = "in_models"
  /\ path \in files \/ path[2] \notin stored
LinkAssets ==
  /\ pc = "link"
  /\ IF \E path \in InputAssets(task) : Unlinkable(path)
     THEN RaiseHere /\ UNCHANGED faults
     ELSE /\ files' = files \union InputAssets(task)
          /\ UNCHANGED <<args, taskKeys, pods>>
          /\ Goto(IF setting.keyed THEN "prepare" ELSE "pod")
  /\ UNCHANGED <<keyVars, outVars>>

-----------------------------------------------------------------------------
(* Chainkeys *)

\* prepare_chainkeys_dir: a folder with a file is taken to be complete.
PrepareKeys ==
  /\ pc = "prepare"
  /\ CASE planKeys # {} -> Goto("restore") /\ UNCHANGED <<dirVars, keyVars, pods, outVars>>
       [] planKeys = {} /\ secrets = Secret ->
            planKeys' = {Torn} /\ Goto("dump") /\ UNCHANGED <<dirVars, secrets, pods, outVars>>
       [] OTHER -> RaiseHere /\ UNCHANGED <<keyVars, outVars, faults>>

\* _write_chainkeys: the file has been opened, its content is written.
WriteKeys ==
  /\ pc = "dump"
  /\ planKeys' = {<<>>}
  /\ Goto("clear secrets")
  /\ UNCHANGED <<dirVars, secrets, pods, outVars>>

\* _clear_secrets replaces the data of one secret after the other.
ClearSecret(s) ==
  /\ pc = "clear secrets" /\ s \in secrets
  /\ secrets' = secrets \ {s}
  /\ Goto(IF secrets = {s} THEN "restore" ELSE "clear secrets")
  /\ UNCHANGED <<dirVars, planKeys, pods, outVars>>

\* restore_dir empties the task's folder and copies the plan's.
RestoreKeys ==
  /\ pc = "restore"
  /\ taskKeys' = planKeys
  /\ Goto("pod")
  /\ UNCHANGED <<files, args, keyVars, pods, outVars>>

\* commit_dir: the plan's folder is removed and made again...
CommitRemove ==
  /\ pc = "commit"
  /\ planKeys' = {}
  /\ Goto("move")
  /\ UNCHANGED <<dirVars, secrets, pods, outVars>>

\* ... and the content of the task's folder moved to it.
CommitMove ==
  /\ pc = "move"
  /\ planKeys' = taskKeys /\ taskKeys' = {}
  /\ Goto("done")
  /\ UNCHANGED <<files, args, secrets, pods, outVars>>

-----------------------------------------------------------------------------
(* The function *)

\* execute_compute_task: the pod of the plan and the image is reused, or made
\* with the mounts of this task.
FindOrCreatePod ==
  /\ pc = "pod"
  /\ pods' = [pods EXCEPT ![PodOf(task)] = IF @ = NoPod THEN Mounts(task) ELSE @]
  /\ Goto("args")
  /\ UNCHANGED <<dirVars, keyVars, outVars>>

\* get_exec_command_args and write_command_args_file.
WriteArgs ==
  /\ pc = "args"
  /\ args' = [task |-> task, paths |-> InputAssets(task) \union OutputResources(task)]
  /\ Goto("exec")
  /\ UNCHANGED <<files, taskKeys, keyVars, pods, outVars>>

Mounted == pods[PodOf(task)]
Advanced == {Append(h, task) : h \in taskKeys}

\* The function reads its arguments, uses the chainkeys and writes its outputs;
\* what it writes outside of a mount stays in the container.
RunSucceeds ==
  /\ pc = "exec" /\ Torn \notin taskKeys
  /\ files' = files \union {path \in args.paths \ InputAssets(task) : path[1] \in Mounted}
  /\ taskKeys' = Advanced
  /\ Goto("perf")
  /\ UNCHANGED <<args, keyVars, pods, outVars>>

\* The user's code fails, as it does when the chainkeys cannot be read:
\* ExecutionError is not retried.
RunFails ==
  /\ pc = "exec"
  /\ \/ Fault("user")
     \/ Torn \in taskKeys /\ UNCHANGED faults
  /\ files' = {} /\ args' = NoArgs /\ taskKeys' = {}
  /\ pc' = "idle" /\ task' = NoTask
  /\ status' = [status EXCEPT ![task] = "failed"]
  /\ UNCHANGED <<setting, failures, attempt, keyVars, pods, outVars, ran>>
  /\ gaps' = gaps \union {"user"}

-----------------------------------------------------------------------------
(* Outputs *)

Known(o) == \E r \in registered : r[1] = task /\ r[2] = o
RegisterOutputs(outputs) == registered' = registered \union {<<task, o, attempt[task]>> : o \in outputs}
AfterOutputs == IF setting.keyed THEN "commit" ELSE "done"
AfterPerfs == IF Models(task) # {} THEN "store" ELSE AfterOutputs

\* _save_performance, for each performance in turn: the file must be there and
\* the orchestrator refuses a second value.
NextPerf == CHOOSE o \in Perfs(task) : <<task, o, attempt[task]>> \notin registered
SavePerformance ==
  /\ pc = "perf"
  /\ IF \A o \in Perfs(task) : <<task, o, attempt[task]>> \in registered
     THEN Goto(AfterPerfs) /\ UNCHANGED <<dirVars, keyVars, pods, outVars>>
     ELSE IF PerfPath(NextPerf) \in files /\ ~Known(NextPerf)
     THEN RegisterOutputs({NextPerf}) /\ Goto("perf") /\ UNCHANGED <<dirVars, keyVars, pods, stored>>
     ELSE RaiseHere /\ UNCHANGED <<keyVars, outVars, faults>>

\* _save_model_to_local_storage, for each model in turn.
StoreModel ==
  /\ pc = "store"
  /\ \E o \in Models(task) :
       /\ <<task, o, attempt[task]>> \notin stored
       /\ IF ModelPath(o) \in files
          THEN /\ stored' = stored \union {<<task, o, attempt[task]>>}
               /\ Goto(IF Cardinality(MyModels) + 1 = Cardinality(Models(task)) THEN "models" ELSE "store")
               /\ UNCHANGED <<dirVars, keyVars, pods, registered>>
          ELSE RaiseHere /\ UNCHANGED <<keyVars, outVars, faults>>

\* Faulty: no removal when the registration is refused.
RegisterModelsKeepingFiles ==
  /\ pc = "models"
  /\ IF \E o \in Models(task) : Known(o)
     THEN Raise /\ gaps' = gaps \union (LeftBehind \ {"orphan"})
                /\ UNCHANGED <<stored, keyVars, registered, faults>>
     ELSE RegisterOutputs(Models(task)) /\ Goto("post") /\ UNCHANGED <<dirVars, keyVars, pods, stored>>

\* register_models; the models are removed from the storage when it raises.
RegisterModels ==
  /\ pc = "models"
  /\ IF \E o \in Models(task) : Known(o)
     THEN Raise /\ gaps' = gaps \union (LeftBehind \ {"orphan"})
                /\ stored' = stored \ MyModels /\ UNCHANGED <<keyVars, registered, faults>>
     ELSE RegisterOutputs(Models(task)) /\ Goto("post") /\ UNCHANGED <<dirVars, keyVars, pods, stored>>

\* The orchestrator registers the models and its answer is lost.
AnswerLost ==
  /\ pc = "models" /\ Fault("lost")
  /\ \A o \in Models(task) : ~Known(o)
  /\ RegisterOutputs(Models(task))
  /\ stored' = stored \ MyModels
  /\ Raise /\ gaps' = gaps \union {"lost", "registered"}
  /\ UNCHANGED keyVars

\* _register_models_in_api, then the files are moved into the asset buffer.
PostModels ==
  /\ pc = "post"
  /\ files' = files \ {ModelPath(o) : o \in Models(task)}
  /\ Goto(AfterOutputs)
  /\ UNCHANGED <<args, taskKeys, keyVars, pods, outVars>>

\* mark_as_done, then the "finally" of _run.
MarkAsDone ==
  /\ pc = "done"
  /\ status' = [status EXCEPT ![task] = "done"]
  /\ ran' = Append(ran, task)
  /\ pc' = "idle" /\ task' = NoTask
  /\ files' = {} /\ args' = NoArgs /\ taskKeys' = {}
  /\ UNCHANGED <<setting, failures, attempt, keyVars, pods, outVars, gaps, faults>>

\* _teardown_compute_plan_resources of a plan that has failed or all of whose
\* tasks are done, which more tasks may still be added to.
Teardown ==
  /\ pc = "idle" /\ (Failed \/ ~Running)
  /\ \E i \in Image : pods[i] # NoPod
  /\ pods' = [i \in Image |-> NoPod]
  /\ files' = {} /\ args' = NoArgs /\ taskKeys' = {}
  /\ planKeys' = {}
  /\ gaps' = gaps \union (IF planKeys # {} THEN {"removed"} ELSE {})
  /\ UNCHANGED <<setting, taskVars, task, pc, secrets, outVars, ran, faults>>

Next ==
  \/ \E t \in Task : Register(t) \/ Start(t)
  \/ LinkAssets \/ PrepareKeys \/ WriteKeys \/ RestoreKeys
  \/ \E s \in Secret : ClearSecret(s)
  \/ FindOrCreatePod \/ WriteArgs \/ RunSucceeds \/ RunFails
  \/ SavePerformance \/ StoreModel \/ RegisterModels \/ AnswerLost \/ PostModels
  \/ CommitRemove \/ CommitMove \/ MarkAsDone
  \/ StepFails \/ Kill \/ Teardown

Spec == Init /\ [][Next]_vars

-----------------------------------------------------------------------------
(* Properties *)

TypeOK ==
  /\ setting \in Settings
  /\ status \in [Task -> {"none", "todo", "doing", "done", "failed"}]
  /\ failures \in [Task -> 0..(MaxRetries + 1)] /\ attempt \in [Task -> Nat]
  /\ task \in Task \union {NoTask}
  /\ args.task \in Task \union {NoTask}
  /\ taskKeys \subseteq History \union {Torn} /\ planKeys \subseteq History \union {Torn}
  /\ secrets \subseteq Secret
  /\ \A i \in Image : pods[i] = NoPod \/ pods[i] \subseteq Folder
  /\ registered \subseteq Task \X Output \X Nat /\ stored \subseteq Task \X Output \X Nat

\* When the function starts, the arguments file is the task's own, every input
\* it names is a file of the task directory, and every path it names is in a
\* folder that is mounted.  A function with other kinds of outputs but the same
\* archive shares the pod, so its outputs' folders may not be mounted.
SharesPod(t) == \E u \in Task \ {t} :
  /\ PodOf(u) = PodOf(t)
  /\ {p[1] : p \in OutputResources(u)} # {p[1] : p \in OutputResources(t)}
ArgumentsResolve ==
  pc = "exec" =>
    /\ args.task = task
    /\ InputAssets(task) \subseteq files \intersect args.paths
    /\ \A path \in args.paths : path[1] \in Mounted \/ SharesPod(task)

\* The chainkeys a task starts from are those the tasks marked as done have left,
\* in their order, whatever failed attempts did to their copy (comment at
\* directories.py:117-128).  It holds unless an attempt ended after it had
\* committed, in the middle of the commit, with the file half written, or a
\* finished plan's folder was removed; and between attempts no chainkeys wait in
\* a secret for a second use, unless an attempt ended before it had cleared them.
ChainkeysKept ==
  setting.keyed =>
    /\ pc = "exec" /\ gaps \intersect {"advanced", "commit", "torn", "removed"} = {} => taskKeys = {ran}
    /\ pc = "idle" /\ "secrets" \notin gaps =>
         IF secrets = Secret THEN planKeys = {} /\ ran = <<>> ELSE secrets = {}

\* What is registered can be downloaded and what is stored is registered, except
\* for models whose attempt ended between the two or whose registration was
\* applied without an answer; a task that is done has all its outputs.
OutputsWhole ==
  /\ \A t \in Task : status[t] = "done" =>
       \A o \in Outputs(t) : \E r \in registered : r[1] = t /\ r[2] = o
  /\ "lost" \notin gaps => \A r \in registered : r[2] \in Models(r[1]) => r \in stored
  /\ pc = "idle" /\ "orphan" \notin gaps => stored \subseteq registered

\* A task is only failed by the user's code, by more faults than there are
\* retries, or by what an earlier attempt left: outputs that cannot be registered
\* twice, chainkeys that are gone, a pod without the mounts.
FaultsAreSurvived ==
  \A t \in Task : status[t] = "failed" =>
    \/ "user" \in gaps \/ faults > MaxRetries
    \/ gaps \intersect {"registered", "lost", "commit", "secrets", "removed"} # {}
    \/ SharesPod(t)
=============================================================================
