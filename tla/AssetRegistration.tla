--------------------------- MODULE AssetRegistration ---------------------------
(***************************************************************************)
(* How an organization registers its assets: their files are saved, then   *)
(* the orchestrator is asked, then the API server's rows are written       *)
(* (api/views/function.py, datamanager.py, datasample.py, and for models   *)
(* compute_tasks/outputs.py and api/views/model.py), while the consumer of *)
(* the orchestrator's events writes the same rows (api/events/sync.py).    *)
(* Compute plans (api/views/computeplan.py) have no file, but a creator.   *)
(* There is no transaction around a view: every step commits.              *)
(*                                                                         *)
(* Each request is made once.  The keys are chosen by the server, so two   *)
(* requests never create the same asset.  The orchestrator is external: it *)
(* registers all assets of a call or none, and refuses those it has.       *)
(***************************************************************************)
EXTENDS Naturals, Sequences, FiniteSets

CONSTANTS
  Request,     \* the calls of users and workers
  Single,      \* functions and data managers
  Sample,
  Model,
  ComputePlan, \* compute plans
  Known,       \* data managers that are registered at the start, see Init
  Scenarios,   \* the sets of requests to consider
  What,        \* what each request asks for, see RequestType
  MaxAttempts, \* how often grpc_retry and the POST of models try: 5
  Env,         \* what the environment may do, see EnvKind
  MaxFaults    \* bound on the faults

\* "refuse": the orchestrator refuses a call; "down": it cannot be reached;
\* "lost": it applies a call and its answer is lost; "input": a file of a
\* request cannot be read; "db": a write to the database raises; "crash": the
\* process of a request is killed; "redeliver": the consumer is killed between
\* handling an event and saving its id.
EnvKind == {"refuse", "down", "lost", "input", "db", "crash", "redeliver"}

WithFiles == Single \union Sample \union Model
Asset == WithFiles \union ComputePlan
\* "single": create one function or data manager; "samples": create data samples
\* of data managers; "models": register the outputs of a task; "plan": create a
\* compute plan; "link": add data managers to data samples; "rename": a function,
\* data manager or plan.
RequestType ==
  [kind : {"single", "samples", "models", "plan", "link", "rename"}, assets : SUBSET Asset,
   managers : SUBSET Single]

SavesFiles(r) == What[r].kind \in {"single", "samples", "models"}
Creates(r) == SavesFiles(r) \/ What[r].kind = "plan"

ASSUME AssetRegistrationAssumption ==
  /\ Scenarios \subseteq SUBSET Request
  /\ What \in [Request -> RequestType]
  /\ MaxAttempts \in Nat \ {0} /\ MaxFaults \in Nat
  /\ Env \subseteq EnvKind /\ Known \subseteq Single
  /\ WithFiles \intersect ComputePlan = {}

\* The server draws the key of what it creates, a UUID, and checks its kind.
ASSUME KeysAreDrawn ==
  \A r \in Request :
    /\ What[r].kind = "plan" => What[r].assets \subseteq ComputePlan
    /\ SavesFiles(r) =>
         /\ What[r].assets \subseteq WithFiles
         /\ \A q \in Request \ {r} :
              SavesFiles(q) => What[r].assets \intersect What[q].assets = {}

\* What the serializers of the requests take.
ASSUME RegistrationAssumption ==
  \A r \in Request :
    /\ IsFiniteSet(What[r].assets)
    /\ What[r].kind \in {"plan", "rename"} => What[r].managers = {}
    /\ What[r].kind = "link" => What[r].assets \subseteq Sample

VARIABLES
  files,    \* assets with an instance in the tables of substrapp
  blobs,    \* assets with an object in the storage
  orc,      \* what the orchestrator knows of each asset
  disabled, \* the models it has disabled
  log,      \* the events the consumer has not applied
  row,      \* the API server's row of each asset
  created,  \* plans whose row names the user who created them, not "external"
  readRow,  \* per request, the row it has read and will save
  asked,    \* the requests that are made, in Scenarios
  pc,       \* where each request is
  todo,     \* the assets its current loop has not reached
  tries,    \* the attempts of the call it makes
  answered, \* requests that were answered with success
  gaps,     \* what was left behind, see Gap
  faults

fileVars == <<files, blobs>>
orcVars == <<orc, disabled, log>>
rowVars == <<row, created>>
requestVars == <<asked, pc, todo, tries, answered, readRow>>
vars == <<fileVars, orcVars, rowVars, requestVars, gaps, faults>>

\* The data managers of a sample; how often an asset was renamed; whether a
\* model has its address.
None == [there |-> FALSE, managers |-> {}, name |-> 0, address |-> FALSE]
Row == [there : BOOLEAN, managers : SUBSET Single, name : 0..Cardinality(Request), address : BOOLEAN]
New(a, managers) == [there |-> TRUE, managers |-> managers, name |-> 0, address |-> a \in Model]
Event == [kind : {"create", "managers", "name", "disable"}, asset : Asset, data : Row]

\* "lost": the instance was deleted although the orchestrator had registered
\* the asset, its answer being lost; "row": although only the row failed;
\* "batch": a later file of the request failed; "crash": the process died;
\* "stale": a plan's row was saved as it was read before an event.
Gap == Asset \X {"lost", "row", "batch", "crash", "stale"}

Registered(a) == orc[a].there

Fault(kind) == kind \in Env /\ faults < MaxFaults /\ faults' = faults + 1
Goto(r, place) == pc' = [pc EXCEPT ![r] = place]
Start(r, place, assets) ==
  /\ Goto(r, place)
  /\ todo' = [todo EXCEPT ![r] = assets]
  /\ tries' = [tries EXCEPT ![r] = 0]
Done(r, a) == todo' = [todo EXCEPT ![r] = @ \ {a}]
AddGaps(assets, gap) == gaps' = gaps \union (assets \X {gap})

Init ==
  /\ files = Known
  /\ blobs = Known
  /\ orc = [a \in Asset |-> IF a \in Known THEN New(a, {}) ELSE None]
  /\ disabled = {}
  /\ log = <<>>
  /\ row = orc
  /\ created = {}
  /\ readRow = [r \in Request |-> None]
  /\ asked \in Scenarios
  /\ pc = [r \in Request |-> "new"]
  /\ todo = [r \in Request |-> {}]
  /\ tries = [r \in Request |-> 0]
  /\ answered = {}
  /\ gaps = {}
  /\ faults = 0

-----------------------------------------------------------------------------
(* Step 1: the files *)

\* check_datamanagers looks for the instances of the data managers; a user has
\* their keys, and those of the samples to link, from the API server's rows.
KeysKnown(r) ==
  /\ \A a \in What[r].managers : row[a].there /\ a \in files
  /\ ~Creates(r) => \A a \in What[r].assets : row[a].there

Receive(r) ==
  /\ pc[r] = "new" /\ r \in asked /\ KeysKnown(r)
  /\ IF SavesFiles(r) THEN Start(r, "files", What[r].assets) ELSE Start(r, "register", {})
  /\ UNCHANGED <<fileVars, orcVars, rowVars, asked, readRow, answered, gaps, faults>>

SaveFile(r, a) ==
  /\ pc[r] = "files" /\ a \in todo[r]
  /\ files' = files \union {a}
  /\ blobs' = blobs \union {a}
  /\ Done(r, a)
  /\ UNCHANGED <<orcVars, rowVars, asked, readRow, pc, tries, answered, gaps, faults>>

\* A file that cannot be read or hashed, or a failure between the object and the
\* instance: the files that were saved before stay, no handler removes them.
SaveFileFails(r, a) ==
  /\ pc[r] = "files" /\ a \in todo[r]
  /\ \/ Fault("input") /\ UNCHANGED fileVars
     \/ Fault("db") /\ IF a \in Model THEN files' = files \union {a} /\ UNCHANGED blobs
                       ELSE blobs' = blobs \union {a} /\ UNCHANGED files
  /\ AddGaps(What[r].assets, "batch")
  /\ Goto(r, "failed")
  /\ UNCHANGED <<orcVars, rowVars, asked, readRow, todo, tries, answered>>

FilesSaved(r) ==
  /\ pc[r] = "files" /\ todo[r] = {}
  /\ Start(r, "register", {})
  /\ UNCHANGED <<fileVars, orcVars, rowVars, asked, readRow, answered, gaps, faults>>

-----------------------------------------------------------------------------
(* Step 2: the orchestrator, through grpc_retry *)

Emit(kind, assets, changed) ==
  \E order \in [1..Cardinality(assets) -> assets] :
    /\ \A a \in assets : \E i \in DOMAIN order : order[i] = a
    /\ log' = log \o [i \in DOMAIN order |-> [kind |-> kind, asset |-> order[i],
                                              data |-> changed[order[i]]]]

\* What the call of the request does at the orchestrator.
Apply(r) ==
  LET w == What[r]
      changed == [a \in Asset |->
        IF a \notin w.assets THEN orc[a]
        ELSE CASE w.kind = "link" -> [orc[a] EXCEPT !.managers = @ \union w.managers]
               [] w.kind = "rename" -> [orc[a] EXCEPT !.name = @ + 1]
               [] OTHER -> New(a, w.managers)]
      kind == CASE w.kind = "link" -> "managers" [] w.kind = "rename" -> "name" [] OTHER -> "create"
  IN /\ orc' = changed
     /\ Emit(kind, w.assets, changed)
     /\ UNCHANGED disabled

\* A key that is registered is refused: it is so for a call that is sent again.
Conflict(r) == Creates(r) /\ \E a \in What[r].assets : Registered(a)

\* Faulty: the clean-up of a creation runs for links and renames too.
RejectedAny(r) == Start(r, "clean", What[r].assets)

\* An exception: the instances are deleted, of all assets of the request.
Rejected(r) == IF SavesFiles(r) THEN Start(r, "clean", What[r].assets) ELSE Start(r, "failed", {})

Register(r) ==
  /\ pc[r] = "register" /\ ~Conflict(r)
  /\ Apply(r)
  /\ Start(r, IF What[r].kind = "rename" THEN "answer" ELSE "rows", What[r].assets)
  /\ UNCHANGED <<fileVars, rowVars, asked, readRow, answered, gaps, faults>>

Refused(r) ==
  /\ pc[r] = "register"
  /\ IF Conflict(r) THEN AddGaps(What[r].assets, "lost") /\ UNCHANGED faults
                    ELSE UNCHANGED gaps /\ Fault("refuse")
  /\ Rejected(r)
  /\ UNCHANGED <<fileVars, orcVars, rowVars, asked, readRow, answered>>

\* UNAVAILABLE or UNKNOWN: the call is sent again, whether it was applied or not.
LastTry(r) == tries[r] + 1 = MaxAttempts
TryAgain(r) ==
  IF LastTry(r) THEN Rejected(r)
  ELSE tries' = [tries EXCEPT ![r] = @ + 1] /\ UNCHANGED <<pc, todo>>

Unreachable(r) ==
  /\ pc[r] = "register" /\ Fault("down")
  /\ TryAgain(r)
  /\ IF LastTry(r) /\ Conflict(r) THEN AddGaps(What[r].assets, "lost")
                                  ELSE UNCHANGED gaps
  /\ UNCHANGED <<fileVars, orcVars, rowVars, asked, readRow, answered>>

AnswerLost(r) ==
  /\ pc[r] = "register" /\ ~Conflict(r) /\ Fault("lost")
  /\ Apply(r)
  /\ TryAgain(r)
  /\ IF LastTry(r) /\ Creates(r) THEN AddGaps(What[r].assets, "lost")
                                 ELSE UNCHANGED gaps
  /\ UNCHANGED <<fileVars, rowVars, asked, readRow, answered>>

-----------------------------------------------------------------------------
(* Step 3: the rows, one at a time; and the end of a request *)

\* The consumer has written the row of the plan, with the external user.
ReadsBack(r, a) == What[r].kind = "plan" /\ row[a].there

\* Faulty: bulk_update sets the data managers it was given.
SetRow(r, a) ==
  /\ pc[r] = "rows" /\ a \in todo[r]
  /\ row' = [row EXCEPT ![a] =
       IF What[r].kind = "link" THEN [@ EXCEPT !.managers = What[r].managers]
       ELSE IF @.there THEN @ ELSE New(a, What[r].managers)]
  /\ Done(r, a)
  /\ UNCHANGED <<fileVars, orcVars, created, asked, readRow, pc, tries, answered, gaps, faults>>

\* save_if_not_exists for what was created: a row that the consumer has written
\* is left as it is.  bulk_update adds the data managers that have a row.
SaveRow(r, a) ==
  /\ pc[r] = "rows" /\ a \in todo[r]
  /\ ~ReadsBack(r, a)
  /\ row' = [row EXCEPT ![a] =
       IF What[r].kind = "link"
       THEN [@ EXCEPT !.managers = row[a].managers \union {m \in What[r].managers : row[m].there}]
       ELSE IF @.there THEN @ ELSE New(a, What[r].managers)]
  /\ created' = created \union ({a} \intersect ComputePlan)
  /\ Done(r, a)
  /\ UNCHANGED <<fileVars, orcVars, asked, readRow, pc, tries, answered, gaps, faults>>

\* A write raises.  For models it is a POST to the API server that fails, which
\* is tried again; nothing is deleted for them, nor for links.
SaveRowFails(r, a) ==
  /\ pc[r] \in {"rows", "creator"} /\ a \in todo[r] /\ Fault("db")
  /\ CASE What[r].kind = "models" ->
            IF LastTry(r) THEN Start(r, "failed", {}) /\ UNCHANGED gaps
            ELSE /\ tries' = [tries EXCEPT ![r] = @ + 1]
                 /\ todo' = [todo EXCEPT ![r] = What[r].assets] /\ UNCHANGED <<pc, gaps>>
       [] What[r].kind = "link" -> Start(r, "failed", {}) /\ UNCHANGED gaps
       [] OTHER -> Rejected(r) /\ AddGaps(What[r].assets, "row")
  /\ UNCHANGED <<fileVars, orcVars, rowVars, asked, readRow, answered>>

ReadPlan(r, a) ==
  /\ pc[r] = "rows" /\ a \in todo[r] /\ ReadsBack(r, a)
  /\ readRow' = [readRow EXCEPT ![r] = row[a]]
  /\ Goto(r, "creator")
  /\ UNCHANGED <<fileVars, orcVars, rowVars, asked, todo, tries, answered, gaps, faults>>

\* Only the creator is given to the serializer, but save() writes every field.
SaveCreator(r, a) ==
  /\ pc[r] = "creator" /\ a \in todo[r]
  /\ row' = [row EXCEPT ![a] = readRow[r]]
  /\ created' = created \union {a}
  /\ IF row[a] = readRow[r] THEN UNCHANGED gaps ELSE AddGaps({a}, "stale")
  /\ Done(r, a)
  /\ Goto(r, "rows")
  /\ readRow' = [readRow EXCEPT ![r] = None]
  /\ UNCHANGED <<fileVars, orcVars, asked, tries, answered, faults>>

RowsSaved(r) ==
  /\ pc[r] = "rows" /\ todo[r] = {}
  /\ Start(r, "answer", {})
  /\ UNCHANGED <<fileVars, orcVars, rowVars, asked, readRow, answered, gaps, faults>>

Answer(r) ==
  /\ pc[r] = "answer"
  /\ answered' = answered \union {r}
  /\ Goto(r, "done")
  /\ UNCHANGED <<fileVars, orcVars, rowVars, asked, readRow, todo, tries, gaps, faults>>

\* instance.delete(): the signal that removes the objects is not connected for
\* data samples.
DeleteInstance(r, a) ==
  /\ pc[r] = "clean" /\ a \in todo[r]
  /\ files' = files \ {a}
  /\ blobs' = IF a \in Sample THEN blobs ELSE blobs \ {a}
  /\ Done(r, a)
  /\ UNCHANGED <<orcVars, rowVars, asked, readRow, pc, tries, answered, gaps, faults>>

Cleaned(r) ==
  /\ pc[r] = "clean" /\ todo[r] = {}
  /\ Goto(r, "failed")
  /\ UNCHANGED <<fileVars, orcVars, rowVars, asked, readRow, todo, tries, answered, gaps, faults>>

Crash(r) ==
  /\ pc[r] \notin {"new", "failed", "done"} /\ Fault("crash")
  /\ IF Creates(r) THEN AddGaps(What[r].assets, "crash") ELSE UNCHANGED gaps
  /\ Goto(r, "failed")
  /\ UNCHANGED <<fileVars, orcVars, rowVars, asked, readRow, todo, tries, answered>>

-----------------------------------------------------------------------------
(* The consumer of the events, and the removal of a model *)

\* What an event does to the row of its asset, in one transaction.
Applied(e) ==
  LET old == row[e.asset] IN
  CASE e.kind = "create" -> IF old.there THEN old ELSE e.data
    [] e.kind = "managers" -> [old EXCEPT !.managers = {m \in e.data.managers : row[m].there}]
    [] e.kind = "name" -> [old EXCEPT !.name = e.data.name]
    [] e.kind = "disable" -> [old EXCEPT !.address = FALSE]

ConsumeEvent ==
  /\ log # <<>>
  /\ row' = [row EXCEPT ![Head(log).asset] = Applied(Head(log))]
  /\ \/ log' = Tail(log) /\ UNCHANGED faults
     \/ Fault("redeliver") /\ UNCHANGED log
  /\ UNCHANGED <<fileVars, orc, disabled, created, requestVars, gaps>>

\* A transient model that is no longer needed: its producer is done.
DisableModel(a) ==
  /\ Registered(a) /\ a \notin disabled
  /\ \E r \in answered : a \in What[r].assets
  /\ disabled' = disabled \union {a}
  /\ orc' = [orc EXCEPT ![a].address = FALSE]
  /\ log' = Append(log, [kind |-> "disable", asset |-> a, data |-> orc'[a]])
  /\ UNCHANGED <<fileVars, rowVars, requestVars, gaps, faults>>

\* The worker's remove_intermediary_model_from_db, after the same event.
RemoveModel(a) ==
  /\ a \in disabled \intersect files
  /\ files' = files \ {a}
  /\ blobs' = blobs \ {a}
  /\ UNCHANGED <<orcVars, rowVars, requestVars, gaps, faults>>

-----------------------------------------------------------------------------

RequestStep(r) ==
  \/ FilesSaved(r) \/ Register(r) \/ (Conflict(r) /\ Refused(r))
  \/ RowsSaved(r) \/ Answer(r) \/ Cleaned(r)
  \/ \E a \in Asset : SaveFile(r, a) \/ SaveRow(r, a) \/ ReadPlan(r, a)
                     \/ SaveCreator(r, a) \/ DeleteInstance(r, a)

RequestFault(r) ==
  \/ (~Conflict(r) /\ Refused(r))
  \/ Unreachable(r) \/ AnswerLost(r) \/ Crash(r)
  \/ \E a \in Asset : SaveFileFails(r, a) \/ SaveRowFails(r, a)

\* Every request has ended, or asks for assets that are not there.
Idle(r) == pc[r] \in {"done", "failed"} \/ (pc[r] = "new" /\ (r \notin asked \/ ~KeysKnown(r)))
Quiet == log = <<>> /\ \A r \in Request : Idle(r)
Rest == Quiet /\ disabled \intersect files = {} /\ UNCHANGED vars

Next ==
  \/ \E r \in Request : Receive(r) \/ RequestStep(r) \/ RequestFault(r)
  \/ ConsumeEvent
  \/ \E a \in Model : DisableModel(a) \/ RemoveModel(a)
  \/ Rest

Spec == Init /\ [][Next]_vars

-----------------------------------------------------------------------------
(* Properties *)

TypeOK ==
  /\ files \subseteq Asset /\ blobs \subseteq Asset
  /\ orc \in [Asset -> Row] /\ row \in [Asset -> Row] /\ created \subseteq ComputePlan
  /\ readRow \in [Request -> Row] /\ disabled \subseteq Model
  /\ log \in Seq(Event)
  /\ pc \in [Request -> {"new", "files", "register", "rows", "creator", "clean", "answer", "done", "failed"}]
  /\ todo \in [Request -> SUBSET Asset]
  /\ tries \in [Request -> 0..MaxAttempts - 1]
  /\ asked \in Scenarios /\ answered \subseteq Request
  /\ gaps \subseteq Gap /\ faults \in 0..MaxFaults

\* What the orchestrator announces to the other organizations can be fetched
\* from this one: an asset keeps its files from its registration to its
\* removal, unless an answer of the orchestrator was lost or its row failed.
RegisteredHasFiles ==
  \A a \in WithFiles \ disabled : Registered(a) =>
    (a \in files /\ a \in blobs) \/ <<a, "lost">> \in gaps \/ <<a, "row">> \in gaps

\* A request that failed leaves no instance of an asset that is not registered,
\* unless a later file of it failed or its process died.
NothingLeftBehind ==
  Quiet => \A a \in files : Registered(a) \/ <<a, "batch">> \in gaps \/ <<a, "crash">> \in gaps

\* The answer to a request holds: the assets it named are registered and their
\* rows show at least what was asked for, and who created a plan, whatever other
\* requests, the consumer and events that are handled again do.
AnswersHold ==
  \A r \in answered : \A a \in What[r].assets :
    /\ Registered(a)
    /\ row[a].there
    /\ What[r].kind = "plan" => a \in created
    /\ Quiet => What[r].managers \subseteq row[a].managers

\* Once the events are handled and the requests have ended, the rows are what
\* the orchestrator has, although views and consumer write them in any order
\* and a request failed or died at any step; except for a plan whose row was
\* saved as it was before an event.
RowsFollow == Quiet => \A a \in Asset : row[a] = orc[a] \/ <<a, "stale">> \in gaps
=============================================================================
