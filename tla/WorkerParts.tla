------------------------------ MODULE WorkerParts ------------------------------
(***************************************************************************)
(* The parts of a worker that share no state, in one specification: the    *)
(* routing of plans (TaskRouting), the files of a task (TaskFiles), the    *)
(* transfer of its image (ImageTransfer) and its profile (TaskProfiling).  *)
(* No action of one reads a variable of another, so interleaving them      *)
(* shows nothing new and a behaviour moves one of them.                    *)
(***************************************************************************)
EXTENDS TaskRouting, Sequences

CONSTANTS
  \* TaskFiles and ImageTransfer
  Task, MaxRetries,
  \* TaskFiles
  NoTask, NoPod, Image, Output, Secret, Plans, FilesFaults,
  \* ImageTransfer
  Function, Blob, Deployments, ImageFaults,
  \* TaskProfiling
  Tries, MaxTurns, MaxLost

VARIABLES
  part,   \* the part that moves
  \* TaskFiles
  plan, status, failures, attempt, task, place, files, args, taskKeys, planKeys, secrets,
  pods, stored, registered, ran, gaps, filesFaults,
  \* ImageTransfer
  deploy, blobs, tagged, put, scanned, marked, saved, at, todo, pushed, tried, met, hit,
  refused, torn, created, imageFaults,
  \* TaskProfiling
  remote, row, start, steps, ended, call, turn, try, sent, givenUp, lost

filesVars ==
  <<plan, status, failures, attempt, task, place, files, args, taskKeys, planKeys, secrets,
    pods, stored, registered, ran, gaps, filesFaults>>
imageVars ==
  <<deploy, blobs, tagged, put, scanned, marked, saved, at, todo, pushed, tried, met, hit,
    refused, torn, created, imageFaults>>
profileVars == <<remote, row, start, steps, ended, call, turn, try, sent, givenUp, lost>>

-----------------------------------------------------------------------------
F == INSTANCE TaskFiles WITH setting <- plan, pc <- place, faults <- filesFaults,
       Settings <- Plans, MaxFaults <- FilesFaults
I == INSTANCE ImageTransfer WITH setting <- deploy, pc <- at, attempt <- tried, ran <- created,
       faults <- imageFaults, Settings <- Deployments, MaxFaults <- ImageFaults
P == INSTANCE TaskProfiling WITH created <- start, pc <- call

\* A task puts each output at one identifier, as a model or as a performance.
ASSUME FilesAssumption ==
  /\ MaxRetries \in Nat /\ FilesFaults \in Nat /\ NoTask \notin Task
  /\ Plans \subseteq F!SettingType
  /\ \A s \in Plans : \A t \in Task : s.models[t] \intersect s.perfs[t] = {} /\ IsFiniteSet(s.models[t])

\* An image has layers.
ASSUME ImagesAssumption ==
  /\ MaxRetries \in Nat
  /\ \A s \in Deployments :
       /\ s.image \in [Function -> Seq(Blob) \ {<<>>}] /\ s.owned \subseteq Function
       /\ s.runs \in [Task -> Function]

Part == {"routing", "files", "image", "profile"}

\* The parts that do not move stay in one of their initial states.
PartsInit ==
  /\ part \in Part
  /\ RoutingInit /\ (part # "routing" => scale = 1)
  /\ F!Init /\ (part # "files" => plan = CHOOSE s \in Plans : TRUE)
  /\ I!Init /\ (part # "image" => deploy = CHOOSE s \in Deployments : TRUE)
  /\ P!Init /\ (part # "profile" => remote /\ row)

PartsNext ==
  \/ part = "routing" /\ RoutingNext /\ UNCHANGED <<part, filesVars, imageVars, profileVars>>
  \/ part = "files" /\ F!Next /\ UNCHANGED <<part, routingVars, imageVars, profileVars>>
  \/ part = "image" /\ I!Next /\ UNCHANGED <<part, routingVars, filesVars, profileVars>>
  \/ part = "profile" /\ P!Next /\ UNCHANGED <<part, routingVars, filesVars, imageVars>>

PartsSpec == PartsInit /\ [][PartsNext]_<<part, routingVars, filesVars, imageVars, profileVars>>

-----------------------------------------------------------------------------
(* The properties are those of the parts; see there what each one says and the *)
(* exceptions.                                                                 *)

\* The arguments of a command name files that are there and are the task's own
\* (command.py, context.py, directories.py).
ArgumentsResolve == F!ArgumentsResolve

\* What a task registers is whole, and the chainkeys of a plan go from task to
\* task (outputs.py, chainkeys.py).
OutputsHold == F!OutputsWhole /\ F!ChainkeysKept

\* A task that a fault stopped can be run again (tasks_compute_task.py).
FaultsAreSurvived == F!FaultsAreSurvived

\* A pod runs the image of its function's archive, and a transfer that fails has
\* a reason (image_transfer, substrapp/docker_registry.py).
ImagesArrive == I!PodRunsItsArchive /\ I!FailureIsReal

\* The profile of a task is that of its last attempt (api/views/task_profiling.py,
\* substrapp/compute_tasks/execute.py).
ProfileIsOfTheLastAttempt == P!ProfileIsOfTheLastAttempt
=============================================================================
