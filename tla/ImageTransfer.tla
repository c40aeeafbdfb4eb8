---------------------------- MODULE ImageTransfer ----------------------------
(***************************************************************************)
(* How the image of a function reaches the pods of one organization.       *)
(*                                                                         *)
(* The organization that owns a function saves its image as one archive:   *)
(* the manifest and every blob it lists (image_transfer/encoder.py).  A    *)
(* worker of another organization downloads that archive and pushes the    *)
(* blobs, then the manifest, to the registry of its own organization       *)
(* (image_transfer/decoder.py), before every pod it creates; a worker of   *)
(* the owner does so only when the registry has lost the image.  Every 30  *)
(* minutes the registry is garbage collected, in two passes: what the      *)
(* manifests list is marked, then what is not marked is removed            *)
(* (substrapp/docker_registry.py), while workers may be pushing.           *)
(*                                                                         *)
(* The registry and the scanner in front of it are external; "tag" is the  *)
(* prefix of the checksum of the function's archive, which two functions   *)
(* may share.                                                              *)
(***************************************************************************)
EXTENDS Naturals, FiniteSets, Sequences, SequencesExt

CONSTANTS
  Task, Function, Blob,
  MaxRetries,      \* Celery retries of a task (CELERY_TASK_MAX_RETRIES)
  MaxFaults,       \* bound: losses, refusals and collections in a run
  Settings         \* the deployments explored, see TypeOK

VARIABLES
  setting,         \* images, tags, owned functions, tasks and faults: fixed
  blobs,           \* blobs in the registry of the organization
  tagged,          \* tag |-> the manifest it names, a sequence of blobs
  put,             \* every manifest in the registry, tagged or not
  scanned,         \* tags the scanner has accepted
  marked,          \* <<the marks of the collection in progress>>, or <<>>
  saved,           \* owned functions whose image is saved as an archive
  pc, todo, pushed,\* per task: its step, the blobs left to push, whether it
                   \* has already pushed the saved image in this attempt
  attempt, met,    \* attempts made, attempts that met a fault
  hit,             \* tasks whose present attempt has met a fault
  refused,         \* tasks refused by the owner of the function
  torn,            \* tags set while a collection was between its passes
  ran,             \* the manifest the task's pod was created from
  faults

vars == <<setting, blobs, tagged, put, scanned, marked, saved, pc, todo, pushed,
          attempt, met, hit, refused, torn, ran, faults>>
registry == <<blobs, tagged, put, scanned>>
history == <<setting, saved, torn>>

Tag == {setting.tag[f] : f \in Function}
FunctionOf(t) == setting.runs[t]
\* Faulty: one tag for all the images of the repository.
TagOfAll(f) == CHOOSE tag \in Tag : TRUE
TagOf(f) == setting.tag[f]
Owned(t) == FunctionOf(t) \in setting.owned
Collecting == marked # <<>>
NoImage == <<>>   \* the registry does not know the tag

\* Manifest.get_list_of_blobs: the config, then every layer; a digest may
\* appear more than once.
BlobsOf(manifest) == ToSet(manifest)
Config(manifest) == Head(manifest)

\* add_blobs_to_zip: a digest met again is not pulled again, so the archive
\* holds one file per digest and the manifest.
ArchivedBlobs(manifest) ==
  FoldLeft(LAMBDA seen, b : IF b \in ToSet(seen) THEN seen ELSE Append(seen, b), <<>>, manifest)

\* The registry serves a manifest unless the tag is unknown (404) or the
\* image is not scanned yet (412).
Serves(tag) == /\ tagged[tag] # NoImage
               /\ "scan" \in setting.env => tag \in scanned

Unscanned(tag) == tagged[tag] # NoImage /\ ~ Serves(tag)

TypeOK ==
  /\ setting \in Settings
  /\ blobs \subseteq Blob
  /\ tagged \in [Tag -> Seq(Blob)]
  /\ scanned \subseteq Tag /\ torn \subseteq Tag
  /\ saved \subseteq setting.owned
  /\ pc \in [Task -> {"ready", "fetch", "push", "look", "pod", "done", "failed"}]
  /\ attempt \in [Task -> 0..MaxRetries]
  /\ met \in [Task -> 0..MaxRetries + 1]
  /\ hit \subseteq Task /\ refused \subseteq Task
  /\ faults \in 0..MaxFaults

\* The images of the owned functions have been built into the registry.
Init ==
  /\ setting \in Settings
  /\ put = {setting.image[f] : f \in setting.owned}
  /\ blobs = UNION {BlobsOf(m) : m \in put}
  /\ tagged = [tag \in Tag |->
        IF \E f \in setting.owned : TagOf(f) = tag
        THEN setting.image[CHOOSE f \in setting.owned : TagOf(f) = tag] ELSE NoImage]
  /\ scanned = {} /\ marked = <<>> /\ saved = {} /\ torn = {}
  /\ pc = [t \in Task |-> "ready"]
  /\ todo = [t \in Task |-> <<>>]
  /\ pushed = [t \in Task |-> FALSE]
  /\ attempt = [t \in Task |-> 0] /\ met = [t \in Task |-> 0]
  /\ hit = {} /\ refused = {}
  /\ ran = [t \in Task |-> NoImage]
  /\ faults = 0

Goto(t, step) == pc' = [pc EXCEPT ![t] = step]

\* A fault of the environment, within the bound.
Fault(kind) == kind \in setting.env /\ faults < MaxFaults /\ faults' = faults + 1

\* The attempt ends with a CeleryRetryError: autoretry, or the task fails.
Retry(t, isHit) ==
  /\ met' = [met EXCEPT ![t] = IF isHit THEN @ + 1 ELSE @]
  /\ hit' = hit \ {t}
  /\ IF attempt[t] < MaxRetries
       THEN Goto(t, "ready") /\ attempt' = [attempt EXCEPT ![t] = @ + 1]
       ELSE Goto(t, "failed") /\ UNCHANGED attempt

Keep == UNCHANGED <<attempt, met, hit>>

-----------------------------------------------------------------------------
(* The owner saves the image: save_image, make_payload.                    *)

\* Every blob the manifest lists is pulled; 412 is a BuildRetryError, and the
\* task comes back until the image is scanned.
Save(f) ==
  /\ f \in setting.owned \ saved
  /\ Serves(TagOf(f))
  /\ ToSet(ArchivedBlobs(tagged[TagOf(f)])) \subseteq blobs
  /\ saved' = saved \union {f}
  /\ UNCHANGED <<setting, registry, marked, pc, todo, pushed, attempt, met, hit, refused, torn, ran, faults>>

-----------------------------------------------------------------------------
(* The worker.                                                             *)

\* A task is sent when its function is ready; download_function is called
\* only for the functions of other organizations.
Receive(t) ==
  /\ pc[t] = "ready"
  /\ Owned(t) => FunctionOf(t) \in saved
  /\ Goto(t, IF Owned(t) THEN "look" ELSE "fetch")
  /\ pushed' = [pushed EXCEPT ![t] = FALSE]
  /\ todo' = [todo EXCEPT ![t] = <<>>]
  /\ Keep
  /\ UNCHANGED <<history, registry, marked, refused, ran, faults>>

\* What push_payload goes through: every blob the manifest lists, in order.
PushList(f) == setting.image[f]

\* load_remote_function_image: organization_client.get checks the checksum.
Fetch(t) ==
  /\ pc[t] = "fetch"
  /\ Goto(t, "push")
  /\ todo' = [todo EXCEPT ![t] = PushList(FunctionOf(t))]
  /\ Keep
  /\ UNCHANGED <<history, registry, marked, pushed, refused, ran, faults>>

\* The owner cannot be reached, or the content does not have the checksum.
FetchFails(t) ==
  /\ pc[t] = "fetch"
  /\ Fault("network")
  /\ Retry(t, TRUE)
  /\ UNCHANGED <<history, registry, marked, todo, pushed, refused, ran>>

\* An error status of the owner is a CeleryNoRetryError.
FetchRefused(t) ==
  /\ pc[t] = "fetch"
  /\ Fault("refuse")
  /\ Goto(t, "failed")
  /\ refused' = refused \union {t}
  /\ Keep
  /\ UNCHANGED <<history, registry, marked, todo, pushed, ran>>

\* push_all_blobs_from_manifest: a blob the registry already has is skipped.
PushBlob(t) ==
  /\ pc[t] = "push" /\ todo[t] # <<>>
  /\ blobs' = blobs \union {Head(todo[t])}
  /\ todo' = [todo EXCEPT ![t] = Tail(@)]
  /\ Keep
  /\ UNCHANGED <<history, tagged, put, scanned, marked, pc, pushed, refused, ran, faults>>

\* load_single_image_from_zip_in_registry: the manifest comes last, and the
\* registry refuses one whose blobs it does not have.
PushManifest(t) ==
  LET f == FunctionOf(t)
      manifest == setting.image[f]
  IN
  /\ pc[t] = "push" /\ todo[t] = <<>>
  /\ IF BlobsOf(manifest) \subseteq blobs
       THEN /\ tagged' = [tagged EXCEPT ![TagOf(f)] = manifest]
            /\ put' = put \union {manifest}
            /\ torn' = IF Collecting /\ ~ (BlobsOf(manifest) \subseteq marked[1])
                         THEN torn \union {TagOf(f)} ELSE torn \ {TagOf(f)}
            /\ Goto(t, "look") /\ Keep
       ELSE /\ Retry(t, t \in hit)
            /\ UNCHANGED <<tagged, put, torn>>
  /\ UNCHANGED <<setting, saved, blobs, scanned, marked, todo, pushed, refused, ran, faults>>

\* execute_compute_task, get_entrypoint: the manifest, then the config blob.
\* Every refusal, a 412 too, is an ImageNotFoundError.
HasEntrypoint(t) ==
  LET tag == TagOf(FunctionOf(t)) IN Serves(tag) /\ Config(tagged[tag]) \in blobs

LookEntrypoint(t) ==
  /\ pc[t] = "look" /\ HasEntrypoint(t)
  /\ Goto(t, "pod")
  /\ Keep
  /\ UNCHANGED <<history, registry, marked, todo, pushed, refused, ran, faults>>

\* The saved image is pushed, once; a worker that is not the owner has none.
PushSaved(t) ==
  /\ pc[t] = "look" /\ ~ HasEntrypoint(t)
  /\ Owned(t) /\ ~ pushed[t]
  /\ Goto(t, "push")
  /\ todo' = [todo EXCEPT ![t] = PushList(FunctionOf(t))]
  /\ pushed' = [pushed EXCEPT ![t] = TRUE]
  /\ Keep
  /\ UNCHANGED <<history, registry, marked, refused, ran, faults>>

NotFound(t) ==
  /\ pc[t] = "look" /\ ~ HasEntrypoint(t)
  /\ ~ Owned(t) \/ pushed[t]
  /\ Retry(t, t \in hit \/ Unscanned(TagOf(FunctionOf(t))))
  /\ UNCHANGED <<history, registry, marked, todo, pushed, refused, ran, faults>>

\* create_pod and wait_for_pod_readiness: the node pulls the image.
CreatePod(t) ==
  LET manifest == tagged[TagOf(FunctionOf(t))] IN
  /\ pc[t] = "pod"
  /\ manifest # NoImage /\ BlobsOf(manifest) \subseteq blobs
  /\ Goto(t, "done")
  /\ ran' = [ran EXCEPT ![t] = manifest]
  /\ Keep
  /\ UNCHANGED <<history, registry, marked, todo, pushed, refused, faults>>

Stuck(t) == Owned(t) /\ TagOf(FunctionOf(t)) \in torn

\* PodReadinessTimeoutError: the pod is deleted and the task retried.  The
\* owner of a torn image, whose config blob is there, never pushes it again.
PullFails(t) ==
  LET manifest == tagged[TagOf(FunctionOf(t))] IN
  /\ pc[t] = "pod"
  /\ manifest = NoImage \/ ~ (BlobsOf(manifest) \subseteq blobs)
  /\ Retry(t, t \in hit \/ Stuck(t))
  /\ UNCHANGED <<history, registry, marked, todo, pushed, refused, ran, faults>>

-----------------------------------------------------------------------------
(* The registry.                                                           *)

InAttempt == {t \in Task : pc[t] \in {"push", "look", "pod"}}

\* run_garbage_collector, first pass: what any manifest lists is marked.
Mark ==
  /\ ~ Collecting
  /\ Fault("collect")
  /\ marked' = <<UNION {BlobsOf(m) : m \in put}>>
  /\ UNCHANGED <<setting, registry, saved, pc, todo, pushed, attempt, met, hit, refused, torn, ran>>

\* Second pass: the other blobs are removed, those just pushed included.
Sweep ==
  /\ Collecting
  /\ blobs' = blobs \intersect marked[1]
  /\ marked' = <<>>
  /\ hit' = hit \union {t \in InAttempt : BlobsOf(PushList(FunctionOf(t))) \intersect (blobs \ marked[1]) # {}}
  /\ UNCHANGED <<setting, tagged, put, scanned, saved, pc, todo, pushed, attempt, met, refused, torn, ran, faults>>

\* The storage of the registry is lost, or its images are removed.
LoseRegistry ==
  /\ ~ Collecting
  /\ Fault("lose")
  /\ blobs' = {} /\ put' = {} /\ torn' = {}
  /\ tagged' = [tag \in Tag |-> NoImage]
  /\ hit' = hit \union InAttempt
  /\ UNCHANGED <<setting, scanned, marked, saved, pc, todo, pushed, attempt, met, refused, ran>>

\* The scanner accepts an image.
Scan(tag) ==
  /\ "scan" \in setting.env
  /\ tagged[tag] # NoImage
  /\ tag \notin scanned
  /\ scanned' = scanned \union {tag}
  /\ UNCHANGED <<history, blobs, tagged, put, marked, pc, todo, pushed, attempt, met, hit, refused, ran, faults>>

Work(t) ==
  \/ Receive(t) \/ Fetch(t) \/ PushBlob(t) \/ PushManifest(t)
  \/ LookEntrypoint(t) \/ PushSaved(t) \/ NotFound(t) \/ CreatePod(t) \/ PullFails(t)

Next ==
  \/ \E t \in Task : Work(t) \/ FetchFails(t) \/ FetchRefused(t)
  \/ \E f \in Function : Save(f)
  \/ \E tag \in Tag : Scan(tag)
  \/ Mark \/ Sweep \/ LoseRegistry

Spec == Init /\ [][Next]_vars

-----------------------------------------------------------------------------
\* A pod is created from an image built from the archive of its function: the
\* tag a worker pushes, looks up and gives to the pod is never that of another
\* archive, however many tasks push to the registry at the same time.
PodRunsItsArchive ==
  \A t \in Task : ran[t] # NoImage =>
    \E f \in Function : setting.tag[f] = setting.tag[FunctionOf(t)] /\ ran[t] = setting.image[f]

\* A task fails for its image only if the owner refused it, or if every one of
\* its attempts met a fault of its own: the owner out of reach, an image that
\* is not scanned, the registry collected or lost while the attempt used it.
\* What an earlier attempt, another task or an earlier loss left in the
\* registry is repaired by pushing again, with one exception: the image of an
\* owned function set between the two passes of a collection may lose layers
\* but not its config blob, and the worker, which asks for the config blob
\* only, never pushes it again (Stuck).  Nothing is said of a function whose tag
\* is that of another image too: pushing one replaces the other, and a collection
\* then removes it under the tasks that pushed the first.
SharedTag(t) ==
  \E f \in Function :
    TagOf(f) = TagOf(FunctionOf(t)) /\ setting.image[f] # setting.image[FunctionOf(t)]
FailureIsReal ==
  \A t \in Task :
    pc[t] = "failed" /\ ~ SharedTag(t) => t \in refused \/ met[t] = MaxRetries + 1

=============================================================================
