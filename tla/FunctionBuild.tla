---------------------------- MODULE FunctionBuild ----------------------------
(***************************************************************************)
(* From the registration of functions to their images: the reactor's chain *)
(* build_image | save_image_task (substrapp/events/reactor.py), the build  *)
(* (builder/tasks, builder/image_builder, builder/kubernetes.py), the      *)
(* saving of the image (substrapp/tasks/tasks_save_image.py), the failure  *)
(* report, and the API server's row of each function.                      *)
(*                                                                         *)
(* The functions have the same archive, so one image tag, one Kaniko pod   *)
(* name and one image between them.  A builder is a replica with one       *)
(* Celery process (builder.concurrency is 1 in the chart): the image-build *)
(* lock is local to a replica and never contended.  The orchestrator is    *)
(* external: it refuses an action on a function that is READY or FAILED,   *)
(* and may accept or refuse to start a build that has started.             *)
(***************************************************************************)
EXTENDS Naturals, Sequences

CONSTANTS
  Function,    \* functions with the same archive
  NoFunction,  \* no function
  Builder,     \* the replicas of the builder
  Saver,       \* the workers' processes that save images
  MaxRetries,  \* CELERY_TASK_MAX_RETRIES
  Settings     \* the settings checked

\* "stop": the compute plans of a function are canceled or fail (nothing depends on
\* them otherwise); "code": the
\* image cannot be built; "reset": Kaniko loses a connection; "slow": a pod
\* does not complete in time; "raise": a call raises; "scan": the registry has
\* not scanned the image; "crash": a process is killed; "redeliver": the
\* reactor dies between handling an event and saving its id.
EnvKind == {"stop", "code", "reset", "slow", "raise", "scan", "crash", "redeliver"}

\* The functions registered, what the environment may do and the bound on its
\* faults, all but "stop".
SettingType == [functions : SUBSET Function, env : SUBSET EnvKind, faults : Nat]

ASSUME FunctionBuildAssumption ==
  /\ MaxRetries \in Nat
  /\ Settings \subseteq SettingType
  /\ NoFunction \notin Function

VARIABLES
  setting,
  status,     \* the orchestrator's status of each function
  image,      \* the functions whose image the orchestrator knows
  log,        \* the function events the API server has not applied yet
  row,        \* the API server's row of each function
  plans,      \* the statuses of the compute plans with a task of the function
  toBuild,    \* functions whose creation the reactor has not handled
  builds,     \* the broker: copies of each build_image message
  saves,      \* the broker: copies of each save_image_task message
  reports,    \* the broker: functions with a failure report to store
  registry,   \* the image is in the container registry
  kaniko,     \* the Kaniko pod
  stored,     \* functions that have a FunctionImage
  bpc,        \* where each builder is
  job,        \* what it builds, see Job
  spc,        \* where each saver is
  save,       \* what it saves, see Saving
  gaps,       \* what went wrong for a function beside the faults, see Gap
  faults

orcVars == <<status, image, log>>
apiVars == <<row, plans>>
brokerVars == <<toBuild, builds, saves, reports>>
imageVars == <<registry, kaniko, stored>>
builderVars == <<bpc, job>>
saverVars == <<spc, save>>
historyVars == <<gaps, faults>>
vars == <<setting, orcVars, apiVars, brokerVars, imageVars, builderVars, saverVars, historyVars>>

Final == {"ready", "failed"}
Status == {"none", "waiting", "building"} \union Final
RowStatus == {"absent", "waiting", "building", "canceled"} \union Final
\* Where the Kaniko pod is, as watch_pod sees it; "reset": failed for a
\* connection that was lost.
PodState == {"none", "running", "completed", "failed", "reset"}
SaveMessage == [function : Function, retries : 0..MaxRetries]
\* "canceled": a build stopped and changed only the row; "lost": the call that
\* would have ended the function raised; "stale": the row was overwritten with
\* a status read before an event; "early": its image came before its row.
Gap == {"canceled", "lost", "stale", "early"}
Event == [function : Function, status : Status, image : BOOLEAN]

\* The local variables of a build: the function, "attempt" of build_image,
\* "create_pod" of _build_container_image and the exception of watch_pod.
NoBuild == [function |-> NoFunction, tries |-> 0, mine |-> FALSE, why |-> "error"]
\* Those of a save: the message, and the status in the row that was read.
NoSave == [function |-> NoFunction, retries |-> 0, seen |-> "absent"]

Fault(kind) == kind \in setting.env /\ faults < setting.faults /\ faults' = faults + 1
GotoB(b, where) == bpc' = [bpc EXCEPT ![b] = where]
GotoS(s, where) == spc' = [spc EXCEPT ![s] = where]
EndJob(b) == GotoB(b, "idle") /\ job' = [job EXCEPT ![b] = NoBuild]
EndSave(s) == GotoS(s, "idle") /\ save' = [save EXCEPT ![s] = NoSave]
Emit(f, st, img) == log' = Append(log, [function |-> f, status |-> st, image |-> img])
AddGap(f, gap) == gaps' = gaps \union {<<f, gap>>}
AddSave(m) == saves' = [saves EXCEPT ![m] = @ + 1]

SetStatus(f, st) ==
  /\ status' = [status EXCEPT ![f] = st]
  /\ Emit(f, st, f \in image)
  /\ UNCHANGED image

Init ==
  /\ setting \in Settings
  /\ status = [f \in Function |-> "none"]
  /\ image = {}
  /\ log = <<>>
  /\ row = [f \in Function |-> [status |-> "absent", image |-> FALSE]]
  /\ plans = [f \in Function |-> "none"]
  /\ toBuild = {}
  /\ builds = [f \in Function |-> 0]
  /\ saves = [m \in SaveMessage |-> 0]
  /\ reports = {}
  /\ registry = FALSE
  /\ kaniko = "none"
  /\ stored = {}
  /\ bpc = [b \in Builder |-> "idle"]
  /\ job = [b \in Builder |-> NoBuild]
  /\ spc = [s \in Saver |-> "idle"]
  /\ save = [s \in Saver |-> NoSave]
  /\ gaps = {}
  /\ faults = 0

-----------------------------------------------------------------------------
(* Users, the reactor and the API server *)

RegisterFunction(f) ==
  /\ f \in setting.functions
  /\ status[f] = "none"
  /\ SetStatus(f, "waiting")
  /\ toBuild' = toBuild \union {f}
  /\ UNCHANGED <<setting, apiVars, builds, saves, reports, imageVars, builderVars, saverVars, historyVars>>

\* The view saves the row from the answer of the orchestrator.
SaveRow(f) ==
  /\ status[f] # "none" /\ row[f].status = "absent"
  /\ row' = [row EXCEPT ![f].status = "waiting"]
  /\ UNCHANGED <<setting, orcVars, plans, brokerVars, imageVars, builderVars, saverVars, historyVars>>

\* The plans that use the function, as the API server's database shows them:
\* "live" when one of them is neither canceled nor failed.
UsePlan(f) ==
  /\ "stop" \in setting.env /\ plans[f] # "live" /\ row[f].status # "absent" /\ status[f] # "failed"
  /\ plans' = [plans EXCEPT ![f] = "live"]
  /\ UNCHANGED <<setting, orcVars, row, brokerVars, imageVars, builderVars, saverVars, historyVars>>

StopPlans(f) ==
  /\ "stop" \in setting.env /\ plans[f] = "live"
  /\ plans' = [plans EXCEPT ![f] = "stopped"]
  /\ UNCHANGED <<setting, orcVars, row, brokerVars, imageVars, builderVars, saverVars, historyVars>>

QueueBuild(f) ==
  /\ f \in toBuild
  /\ builds' = [builds EXCEPT ![f] = @ + 1]
  /\ \/ toBuild' = toBuild \ {f} /\ UNCHANGED faults
     \/ Fault("redeliver") /\ UNCHANGED toBuild
  /\ UNCHANGED <<setting, orcVars, apiVars, saves, reports, imageVars, builderVars, saverVars, gaps>>

\* Faulty: the status of the event is applied only to a row that was waiting.
ConsumeEventOnce ==
  /\ log # <<>>
  /\ LET e == Head(log) IN
       row' = IF row[e.function].status \in {"absent", "waiting"}
              THEN [row EXCEPT ![e.function] = [status |-> e.status, image |-> e.image]]
              ELSE row
  /\ log' = Tail(log)
  /\ UNCHANGED <<setting, status, image, plans, brokerVars, imageVars, builderVars, saverVars, historyVars>>

\* A creation inserts the row unless it is there; an update overwrites the
\* status, and the image when the event has one.
ConsumeEvent ==
  /\ log # <<>>
  /\ LET e == Head(log) IN
       row' = IF e.status = "waiting" /\ row[e.function].status # "absent" THEN row
              ELSE [row EXCEPT ![e.function] = [status |-> e.status, image |-> e.image \/ @.image]]
  /\ log' = Tail(log)
  /\ UNCHANGED <<setting, status, image, plans, brokerVars, imageVars, builderVars, saverVars, historyVars>>

\* store_asset_failure_report is not retried: when it raises the report is lost.
StoreFailureReport(f) ==
  /\ f \in reports
  /\ reports' = reports \ {f}
  /\ \/ /\ IF status[f] \in Final THEN UNCHANGED orcVars ELSE SetStatus(f, "failed")
        /\ UNCHANGED historyVars
     \/ Fault("raise") /\ AddGap(f, "lost") /\ UNCHANGED orcVars
  /\ UNCHANGED <<setting, apiVars, toBuild, builds, saves, imageVars, builderVars, saverVars>>

-----------------------------------------------------------------------------
(* build_image *)

\* BuildTask.before_start, then the loop of build_image.  before_start is not
\* covered by autoretry: when it raises the build fails.
ReceiveBuild(b, f) ==
  /\ bpc[b] = "idle" /\ builds[f] > 0
  /\ builds' = [builds EXCEPT ![f] = @ - 1]
  /\ \/ /\ \/ status[f] = "waiting" /\ SetStatus(f, "building")
           \/ status[f] = "building" /\ UNCHANGED orcVars
        /\ job' = [job EXCEPT ![b].function = f]
        /\ GotoB(b, "check")
        /\ UNCHANGED <<reports, faults>>
     \/ /\ \/ status[f] # "waiting" /\ UNCHANGED faults
           \/ Fault("raise")
        /\ reports' = reports \union {f}
        /\ UNCHANGED <<orcVars, builderVars>>
  /\ UNCHANGED <<setting, apiVars, toBuild, saves, imageVars, saverVars, gaps>>

BuildFails(b) == EndJob(b) /\ reports' = reports \union {job[b].function}

NextAttempt(b) ==
  /\ job' = [job EXCEPT ![b] = [NoBuild EXCEPT !.function = job[b].function,
                                              !.tries = job[b].tries + 1]]
  /\ GotoB(b, "check")
  /\ UNCHANGED reports

\* "except BuildRetryError" of build_image: attempt >= max_retries ends it one
\* attempt before attempt <= max_retries, the bound of the loop, would.
RetryBuild(b) ==
  IF job[b].tries + 1 >= MaxRetries THEN BuildFails(b) ELSE NextAttempt(b)

\* check_function_is_runnable: a canceled build changes the row of this
\* organization's database and tells the orchestrator nothing.
CheckRunnable(b) ==
  /\ bpc[b] = "check"
  /\ LET f == job[b].function IN
       IF plans[f] = "stopped"
       THEN /\ row' = [row EXCEPT ![f].status = "canceled"]
            /\ AddGap(f, "canceled")
            /\ EndJob(b)
       ELSE GotoB(b, "exists") /\ UNCHANGED <<row, gaps, job>>
  /\ UNCHANGED <<setting, orcVars, plans, brokerVars, imageVars, saverVars, faults>>

\* build_image_if_missing: the registry is asked first; a timeout is retried.
ImageExists(b) ==
  /\ bpc[b] = "exists"
  /\ \/ /\ GotoB(b, IF registry THEN "profile" ELSE "look")
        /\ UNCHANGED <<job, reports, faults>>
     \/ Fault("slow") /\ RetryBuild(b)
  /\ UNCHANGED <<setting, orcVars, apiVars, toBuild, builds, saves, imageVars, saverVars, gaps>>

\* The source is downloaded and has a Dockerfile, then the pod is looked for.
LookForPod(b) ==
  /\ bpc[b] = "look"
  /\ \/ /\ job' = [job EXCEPT ![b].mine = kaniko = "none"]
        /\ GotoB(b, IF kaniko = "none" THEN "create" ELSE "watch")
        /\ UNCHANGED <<reports, faults>>
     \/ (Fault("raise") \/ Fault("code")) /\ BuildFails(b)
  /\ UNCHANGED <<setting, orcVars, apiVars, toBuild, builds, saves, imageVars, saverVars, gaps>>

\* Kubernetes refuses a second pod of the same name: ApiException, retried.
CreatePod(b) ==
  /\ bpc[b] = "create"
  /\ \/ /\ kaniko = "none" /\ kaniko' = "running"
        /\ GotoB(b, "watch")
        /\ UNCHANGED <<job, reports, faults>>
     \/ /\ \/ kaniko # "none" /\ UNCHANGED faults
           \/ Fault("raise")
        /\ RetryBuild(b)
        /\ UNCHANGED kaniko
  /\ UNCHANGED <<setting, orcVars, apiVars, toBuild, builds, saves, registry, stored, saverVars, gaps>>

\* The pod builds the image and pushes it, or fails; it stays until it is deleted.
KanikoEnds ==
  /\ kaniko = "running"
  /\ \/ kaniko' = "completed" /\ registry' = TRUE /\ UNCHANGED faults
     \/ Fault("code") /\ kaniko' = "failed" /\ UNCHANGED registry
     \/ Fault("reset") /\ kaniko' = "reset" /\ UNCHANGED registry
  /\ UNCHANGED <<setting, orcVars, apiVars, brokerVars, stored, builderVars, saverVars, gaps>>

\* watch_pod.  A pod that somebody else has deleted cannot be read until the
\* attempts are used up, which raises the same exception as a pod that is slow.
WatchPod(b) ==
  /\ bpc[b] = "watch"
  /\ \/ kaniko = "completed" /\ GotoB(b, "delete") /\ UNCHANGED <<job, faults>>
     \/ kaniko \in {"failed", "reset"} /\ GotoB(b, "recheck") /\ UNCHANGED <<job, faults>>
     \/ /\ \/ kaniko = "none" /\ UNCHANGED faults
           \/ kaniko = "running" /\ Fault("slow")
        /\ job' = [job EXCEPT ![b].why = "timeout"]
        /\ GotoB(b, "recheck")
  /\ UNCHANGED <<setting, orcVars, apiVars, brokerVars, imageVars, saverVars, gaps>>

\* Faulty: the registry is not asked again when the build raises.
FailWithoutRecheck(b) ==
  /\ bpc[b] = "recheck"
  /\ kaniko' = IF job[b].mine THEN "none" ELSE kaniko
  /\ BuildFails(b)
  /\ UNCHANGED <<setting, orcVars, apiVars, toBuild, builds, saves, registry, stored, saverVars, historyVars>>

\* After an exception: the image may be there through another build; if not,
\* the creator of the pod reads its logs and deletes it.  Without logs an
\* error is not recognised as a lost connection and is not retried.
Recheck(b) ==
  /\ bpc[b] = "recheck"
  /\ IF registry THEN GotoB(b, "profile") /\ UNCHANGED <<kaniko, job, reports>>
     ELSE /\ kaniko' = IF job[b].mine THEN "none" ELSE kaniko
          /\ IF job[b].why = "timeout" \/ (job[b].mine /\ kaniko = "reset")
             THEN RetryBuild(b) ELSE BuildFails(b)
  /\ UNCHANGED <<setting, orcVars, apiVars, toBuild, builds, saves, registry, stored, saverVars, historyVars>>

DeletePod(b) ==
  /\ bpc[b] = "delete"
  /\ kaniko' = IF job[b].mine THEN "none" ELSE kaniko
  /\ GotoB(b, "profile")
  /\ UNCHANGED <<setting, orcVars, apiVars, brokerVars, registry, stored, job, saverVars, historyVars>>

\* register_profiling_step, whose failure fails the build; then the next task
\* of the chain is sent and the message acknowledged.
EndBuild(b) ==
  /\ bpc[b] = "profile"
  /\ \/ /\ AddSave([function |-> job[b].function, retries |-> 0])
        /\ EndJob(b) /\ UNCHANGED <<reports, faults>>
     \/ Fault("raise") /\ BuildFails(b) /\ UNCHANGED saves
  /\ UNCHANGED <<setting, orcVars, apiVars, toBuild, builds, imageVars, saverVars, gaps>>

\* Faulty: the message was acknowledged when it was received.
CrashBuilderAfterAck(b) ==
  /\ bpc[b] # "idle" /\ Fault("crash")
  /\ EndJob(b)
  /\ UNCHANGED <<setting, orcVars, apiVars, brokerVars, imageVars, saverVars, gaps>>

\* acks_late and reject_on_worker_lost: the message of a killed process is
\* delivered again.
CrashBuilder(b) ==
  /\ bpc[b] # "idle" /\ Fault("crash")
  /\ builds' = [builds EXCEPT ![job[b].function] = @ + 1]
  /\ EndJob(b)
  /\ UNCHANGED <<setting, orcVars, apiVars, toBuild, saves, reports, imageVars, saverVars, gaps>>

-----------------------------------------------------------------------------
(* save_image_task *)

MessageOf(s) == [function |-> save[s].function, retries |-> save[s].retries]

ReceiveSave(s, m) ==
  /\ spc[s] = "idle" /\ saves[m] > 0
  /\ saves' = [saves EXCEPT ![m] = @ - 1]
  /\ save' = [save EXCEPT ![s] = [function |-> m.function, retries |-> m.retries, seen |-> "absent"]]
  /\ GotoS(s, "payload")
  /\ UNCHANGED <<setting, orcVars, apiVars, toBuild, builds, reports, imageVars, builderVars, historyVars>>

SaveFails(s) == EndSave(s) /\ reports' = reports \union {save[s].function}

\* make_payload.  A 412 of the registry is a BuildRetryError, the only
\* exception save_image_task lets Celery retry.
MakePayload(s) ==
  /\ spc[s] = "payload"
  /\ \/ registry /\ GotoS(s, "store") /\ UNCHANGED <<save, saves, reports, faults>>
     \/ ((~registry /\ UNCHANGED faults) \/ Fault("raise")) /\ SaveFails(s) /\ UNCHANGED saves
     \/ /\ registry /\ Fault("scan")
        /\ IF save[s].retries < MaxRetries
           THEN /\ AddSave([MessageOf(s) EXCEPT !.retries = @ + 1])
                /\ EndSave(s) /\ UNCHANGED reports
           ELSE SaveFails(s) /\ UNCHANGED saves
  /\ UNCHANGED <<setting, orcVars, apiVars, toBuild, builds, imageVars, builderVars, gaps>>

\* Faulty: the image is not kept in the FunctionImage table.
StoreNoImage(s) ==
  /\ spc[s] = "store"
  /\ GotoS(s, "read")
  /\ UNCHANGED <<setting, orcVars, apiVars, brokerVars, imageVars, builderVars, save, historyVars>>

\* FunctionImage.objects.create: one image for each function of the API.
StoreImage(s) ==
  /\ spc[s] = "store"
  /\ LET f == save[s].function IN
       IF f \notin stored /\ row[f].status # "absent"
       THEN stored' = stored \union {f} /\ GotoS(s, "read") /\ UNCHANGED <<save, reports>>
       ELSE SaveFails(s) /\ UNCHANGED stored
  /\ LET f == save[s].function IN
       IF row[f].status = "absent" THEN AddGap(f, "early") ELSE UNCHANGED gaps
  /\ UNCHANGED <<setting, orcVars, apiVars, toBuild, builds, saves, registry, kaniko, builderVars, faults>>

\* ApiFunction.objects.get and api_function.save, which writes every field.
ReadRow(s) ==
  /\ spc[s] = "read"
  /\ save' = [save EXCEPT ![s].seen = row[save[s].function].status]
  /\ GotoS(s, "write")
  /\ UNCHANGED <<setting, orcVars, apiVars, brokerVars, imageVars, builderVars, historyVars>>

WriteRow(s) ==
  /\ spc[s] = "write"
  /\ \/ /\ row' = [row EXCEPT ![save[s].function] = [status |-> save[s].seen, image |-> TRUE]]
        /\ IF row[save[s].function].status = save[s].seen THEN UNCHANGED gaps
           ELSE AddGap(save[s].function, "stale")
        /\ GotoS(s, "update") /\ UNCHANGED <<save, reports, faults>>
     \/ Fault("raise") /\ SaveFails(s) /\ UNCHANGED <<row, gaps>>
  /\ UNCHANGED <<setting, orcVars, plans, toBuild, builds, saves, imageVars, builderVars>>

\* on_success: an exception in it is logged by Celery and nothing else follows.
LoseUpdate(s) ==
  /\ AddGap(save[s].function, "lost")
  /\ GotoS(s, "ack")
  /\ UNCHANGED orcVars

UpdateFunction(s) ==
  /\ spc[s] = "update"
  /\ LET f == save[s].function IN
       \/ /\ status[f] \notin Final
          /\ image' = image \union {f}
          /\ Emit(f, status[f], TRUE)
          /\ GotoS(s, "ready") /\ UNCHANGED <<status, historyVars>>
       \/ /\ (status[f] \in Final /\ UNCHANGED faults) \/ Fault("raise")
          /\ LoseUpdate(s)
  /\ UNCHANGED <<setting, apiVars, brokerVars, imageVars, builderVars, save>>

MarkReady(s) ==
  /\ spc[s] = "ready"
  /\ LET f == save[s].function IN
       \/ /\ status[f] = "building"
          /\ SetStatus(f, "ready")
          /\ GotoS(s, "ack") /\ UNCHANGED historyVars
       \/ /\ (status[f] # "building" /\ UNCHANGED faults) \/ Fault("raise")
          /\ LoseUpdate(s)
  /\ UNCHANGED <<setting, apiVars, brokerVars, imageVars, builderVars, save>>

Acknowledge(s) ==
  /\ spc[s] = "ack"
  /\ EndSave(s)
  /\ UNCHANGED <<setting, orcVars, apiVars, brokerVars, imageVars, builderVars, historyVars>>

CrashSaver(s) ==
  /\ spc[s] # "idle" /\ Fault("crash")
  /\ AddSave(MessageOf(s))
  /\ EndSave(s)
  /\ UNCHANGED <<setting, orcVars, apiVars, toBuild, builds, reports, imageVars, builderVars, gaps>>

-----------------------------------------------------------------------------
BuilderStep(b) ==
  CheckRunnable(b) \/ ImageExists(b) \/ LookForPod(b) \/ CreatePod(b)
    \/ WatchPod(b) \/ Recheck(b) \/ DeletePod(b) \/ EndBuild(b)

SaverStep(s) ==
  MakePayload(s) \/ StoreImage(s) \/ ReadRow(s) \/ WriteRow(s)
    \/ UpdateFunction(s) \/ MarkReady(s) \/ Acknowledge(s)

Waiting ==
  /\ \A b \in Builder : bpc[b] = "idle"
  /\ \A s \in Saver : spc[s] = "idle"
  /\ UNCHANGED vars

Next ==
  \/ \E f \in Function :
       \/ RegisterFunction(f) \/ SaveRow(f) \/ UsePlan(f) \/ StopPlans(f)
       \/ QueueBuild(f) \/ StoreFailureReport(f)
       \/ \E b \in Builder : ReceiveBuild(b, f)
  \/ \E b \in Builder : BuilderStep(b) \/ CrashBuilder(b)
  \/ \E s \in Saver : SaverStep(s) \/ CrashSaver(s) \/ \E m \in SaveMessage : ReceiveSave(s, m)
  \/ KanikoEnds
  \/ ConsumeEvent
  \/ Waiting

Spec == Init /\ [][Next]_vars

\* The broker keeps its messages and a free process takes one of them; a process
\* goes on with what it started; the API server, its consumer and the pods go on.
Fairness ==
  /\ WF_vars(\E f \in Function : SaveRow(f) \/ QueueBuild(f) \/ StoreFailureReport(f))
  /\ WF_vars(\E f \in Function, b \in Builder : ReceiveBuild(b, f))
  /\ \A b \in Builder : WF_vars(BuilderStep(b))
  /\ WF_vars(\E m \in SaveMessage, s \in Saver : ReceiveSave(s, m))
  /\ \A s \in Saver : WF_vars(SaverStep(s))
  /\ WF_vars(KanikoEnds) /\ WF_vars(ConsumeEvent)

FairSpec == Spec /\ Fairness

-----------------------------------------------------------------------------
(* Properties *)

\* The types; among them, that a message has no more than MaxRetries attempts.
TypeOK ==
  /\ status \in [Function -> Status] /\ image \subseteq Function
  /\ log \in Seq(Event)
  /\ row \in [Function -> [status : RowStatus, image : BOOLEAN]]
  /\ plans \in [Function -> {"none", "live", "stopped"}]
  /\ toBuild \subseteq Function /\ builds \in [Function -> Nat]
  /\ saves \in [SaveMessage -> Nat] /\ reports \subseteq Function
  /\ registry \in BOOLEAN /\ stored \subseteq Function
  /\ kaniko \in PodState
  /\ bpc \in [Builder -> {"idle", "check", "exists", "look", "create", "watch", "recheck", "delete", "profile"}]
  /\ job \in [Builder -> [function : Function \union {NoFunction}, tries : 0..MaxRetries,
                         mine : BOOLEAN, why : {"error", "timeout"}]]
  /\ \A b \in Builder : job[b].tries > 0 => job[b].tries < MaxRetries
  /\ spc \in [Saver -> {"idle", "payload", "store", "read", "write", "update", "ready", "ack"}]
  /\ save \in [Saver -> [function : Function \union {NoFunction}, retries : 0..MaxRetries,
                         seen : RowStatus]]
  /\ gaps \subseteq Function \X Gap /\ faults \in 0..setting.faults

\* A function is READY only when its image is stored, known to the orchestrator
\* and in the registry: other organizations ask for it from then on
\* (load_remote_function_image).
ReadyHasImage ==
  \A f \in Function : status[f] = "ready" => f \in stored /\ f \in image /\ registry

\* A function fails only after a fault, or when its image comes before its row:
\* two builds of one archive, one of which finds the other's pod, gone or
\* pushing the image it needs, do not make each other's function fail.
FailureIsReal ==
  \A f \in Function : status[f] = "failed" => faults > 0 \/ <<f, "early">> \in gaps

\* Once its events are applied, a function that is READY or FAILED is shown as
\* such, or as canceled if a build was: whatever the order of its events and of
\* the two other writers of the row, only a canceled build and a status that a
\* saver wrote late set them apart.
RowFollows ==
  \A f \in Function :
    log = <<>> /\ status[f] \in Final
    => \/ row[f].status = status[f]
       \/ <<f, "canceled">> \in gaps /\ row[f].status = "canceled"
       \/ <<f, "stale">> \in gaps

\* Every function that is registered becomes READY or FAILED, unless a build of
\* it was canceled or the one call that would have said so raised.
EveryFunctionEnds ==
  \A f \in Function :
    status[f] = "waiting" ~> \/ status[f] \in Final
                            \/ {<<f, "canceled">>, <<f, "lost">>} \intersect gaps # {}
=============================================================================
