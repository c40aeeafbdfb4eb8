----------------------------- MODULE FailureReports -----------------------------
(***************************************************************************)
(* Why a function or a task failed, as the organizations are told: the     *)
(* report the worker stores and registers                                  *)
(* (substrapp/tasks/tasks_asset_failure_report.py, substrapp/utils/        *)
(* errors.py), its event at each organization (api/events/sync.py) and the *)
(* two views that serve its logs (api/views/computetask.py,                *)
(* api/views/failed_asset_logs.py).                                        *)
(*                                                                         *)
(* One function or one task fails at the organization Owner.  The worker   *)
(* and the API of an organization share the table of reports; the API      *)
(* consumer of each organization reads the events at its own pace.         *)
(***************************************************************************)
EXTENDS Naturals, Sequences, FiniteSets

CONSTANTS
  Org, Owner,
  Task, NoTask,
  Run, NoRun,  \* the Celery messages that fail for the asset
  NoOrg,
  Settings     \* the failures to consider, see SettingType

ErrorType == {"build", "execution", "internal"}
\* What was raised: an exception with logs or without, and its error_type.
Exception == [logs : BOOLEAN, type : ErrorType \union {"none"}]

\* What failed, with which tasks of a function, in how many messages (two when
\* one was delivered twice), and who may see the logs.  "down": registering may
\* fail for good; "crash": the worker may die in the task that reports.
SettingType ==
  [failed : Task \union {NoTask}, tasks : SUBSET Task, raised : Exception,
   runs : SUBSET Run, allowed : SUBSET Org, env : SUBSET {"down", "crash"}]

VARIABLES
  setting,
  job,         \* where the task that reports each run is
  reports,     \* AssetFailureReport at each organization: whose logs the row has
  registered,  \* the orchestrator: the run whose report was registered
  log,         \* the events of the orchestrator
  handled,     \* events handled by each organization
  rows,        \* the tasks at each organization
  proxied,     \* the request for logs that was passed on to the owner
  answer       \* the last answer to a request for logs

reportVars == <<job, reports, registered>>
syncVars == <<log, handled, rows>>
askVars == <<proxied, answer>>
vars == <<setting, reportVars, syncVars, askVars>>

-----------------------------------------------------------------------------
(* The error and its report *)

\* get_error_type: only an exception with logs has a type to advertise.
ErrorOf(e) == IF ~e.logs \/ e.type = "none" THEN "internal" ELSE e.type
Error == ErrorOf(setting.raised)

\* store_failure keeps the logs of the errors of users.
HasLogs(error) == error \in {"build", "execution"}

OfFunction == setting.failed = NoTask
NoReport == [there |-> FALSE, run |-> NoRun]
NoRow == [there |-> FALSE, failed |-> FALSE, error |-> "none", url |-> FALSE, owner |-> NoOrg]
NoAnswer == [result |-> "none", run |-> NoRun, org |-> NoOrg, early |-> FALSE]
NoRequest == [org |-> NoOrg, task |-> NoTask]

Init ==
  /\ setting \in Settings
  /\ job = [r \in Run |-> IF r \in setting.runs THEN "store" ELSE "done"]
  /\ reports = [o \in Org |-> NoReport]
  /\ registered = NoRun
  /\ log = <<>>
  /\ handled = [o \in Org |-> 0]
  /\ rows = [o \in Org |-> [t \in Task |-> NoRow]]
  /\ proxied = NoRequest /\ answer = NoAnswer

Event(kind, t) == [kind |-> kind, task |-> t]
Created == {t \in Task : \E i \in DOMAIN log : log[i] = Event("created", t)}

\* orchestrator: tasks use a function until it has failed.
RegisterTask(t) ==
  /\ t \in setting.tasks \ Created /\ registered = NoRun
  /\ log' = Append(log, Event("created", t))
  /\ UNCHANGED <<setting, reportVars, handled, rows, askVars>>

\* store_asset_failure_report up to store_failure: the row is written with the
\* logs of this run, over the row of an earlier one.
StoreFailure(r) ==
  /\ job[r] = "store"
  /\ OfFunction \/ setting.failed \in Created
  /\ reports' = IF HasLogs(Error) THEN [reports EXCEPT ![Owner] = [there |-> TRUE, run |-> r]]
                                  ELSE reports
  /\ job' = [job EXCEPT ![r] = "register"]
  /\ UNCHANGED <<setting, registered, syncVars, askVars>>

\* orchestrator: a report fails its asset and the tasks of a function, with one
\* event each.
Failing == IF OfFunction THEN Created ELSE {setting.failed}
EventsOfFailure == {Event("report", setting.failed)} \union {Event("failed", t) : t \in Failing}

\* register_failure_report.  orchestrator: one report per asset, and its events
\* come in some order.
RegisterReport(r) ==
  /\ job[r] = "register"
  /\ job' = [job EXCEPT ![r] = "done"]
  /\ IF registered # NoRun THEN UNCHANGED <<registered, log>>
     ELSE /\ registered' = r
          /\ \E order \in [1..Cardinality(EventsOfFailure) -> EventsOfFailure] :
               /\ \A e \in EventsOfFailure : \E i \in DOMAIN order : order[i] = e
               /\ log' = log \o order
  /\ UNCHANGED <<setting, reports, handled, rows, askVars>>

\* The call fails after its retries; the task that reports has none.
RegisterFails(r) ==
  /\ "down" \in setting.env /\ job[r] = "register"
  /\ job' = [job EXCEPT ![r] = "done"]
  /\ UNCHANGED <<setting, reports, registered, syncVars, askVars>>

\* acks_late and reject_on_worker_lost: the message is delivered again.
Crash(r) ==
  /\ "crash" \in setting.env /\ job[r] = "register"
  /\ job' = [job EXCEPT ![r] = "store"]
  /\ UNCHANGED <<setting, reports, registered, syncVars, askVars>>

-----------------------------------------------------------------------------
(* The consumer of an organization *)

\* Faulty: the row of the event replaces the one the worker stored.
OverwriteReport(o) == [reports EXCEPT ![o] = [there |-> TRUE, run |-> NoRun]]

\* _create_failure_report: a row without logs, unless the worker stored one.
CreateReport(o) ==
  IF reports[o].there THEN reports ELSE [reports EXCEPT ![o] = [there |-> TRUE, run |-> NoRun]]

\* The tasks the report is about, of those the organization knows.
TasksOf(o) == IF OfFunction THEN {t \in Task : rows[o][t].there} ELSE {setting.failed}

\* _update_computetask with a failure report.
WithReport(row) == [row EXCEPT !.error = Error, !.url = HasLogs(Error), !.owner = Owner]

\* One event, in one transaction.
HandleEvent(o) ==
  /\ handled[o] < Len(log)
  /\ LET e == log[handled[o] + 1] IN
       /\ rows' = [rows EXCEPT ![o] = [t \in Task |->
            CASE e = Event("created", t) -> [@[t] EXCEPT !.there = TRUE]
              [] e = Event("failed", t) -> [@[t] EXCEPT !.failed = TRUE]
              [] e.kind = "report" /\ t \in TasksOf(o) -> WithReport(@[t])
              [] OTHER -> @[t]]]
       /\ reports' = IF e.kind = "report" /\ HasLogs(Error) THEN CreateReport(o) ELSE reports
  /\ handled' = [handled EXCEPT ![o] = @ + 1]
  /\ UNCHANGED <<setting, job, registered, log, askVars>>

-----------------------------------------------------------------------------
(* A request for the logs of a task *)

\* The owner's consumer is behind the report that the request goes by.
OwnerBehind == \A i \in 1..handled[Owner] : log[i].kind # "report"

Answer(result, run, o) ==
  /\ answer' = [result |-> result, run |-> run, org |-> o, early |-> OwnerBehind]
  /\ proxied' = NoRequest

\* get_file_response at the owner of the logs.
LocalLogs(o) ==
  CASE ~reports[Owner].there -> Answer("not found", NoRun, o)
    [] reports[Owner].there /\ reports[Owner].run = NoRun -> Answer("no file", NoRun, o)
    [] OTHER -> Answer("logs", reports[Owner].run, o)

\* ComputeTaskPermissionViewSet.logs: the failed asset is the function when its
\* build failed; its owner serves the logs.
AskLogs(o, t) ==
  /\ proxied = NoRequest /\ rows[o][t].there
  /\ LET row == rows[o][t]
         owner == IF row.error = "build" THEN Owner ELSE row.owner
     IN CASE o \notin setting.allowed -> Answer("forbidden", NoRun, o)
          [] o \in setting.allowed /\ ~row.url -> Answer("gone", NoRun, o)
          [] o \in setting.allowed /\ row.url /\ owner = o -> LocalLogs(o)
          [] OTHER -> proxied' = [org |-> o, task |-> t] /\ UNCHANGED answer
  /\ UNCHANGED <<setting, reportVars, syncVars>>

\* FailedAssetLogsViewSet.file at the owner: a report of a task goes by the row
\* of the task, which has its owner once the event was handled.
ServeLogs ==
  LET o == proxied.org
      row == rows[Owner][proxied.task]
  IN /\ proxied # NoRequest
     /\ CASE ~reports[Owner].there \/ (~OfFunction /\ ~row.there) -> Answer("not found", NoRun, o)
          [] reports[Owner].there /\ (OfFunction \/ row.there) /\ o \notin setting.allowed ->
               Answer("forbidden", NoRun, o)
          [] reports[Owner].there /\ o \in setting.allowed /\ (OfFunction \/ row.owner = Owner) ->
               LocalLogs(o)
          [] OTHER -> Answer("error", NoRun, o)
     /\ UNCHANGED <<setting, reportVars, syncVars>>

-----------------------------------------------------------------------------
Next ==
  \/ \E t \in Task : RegisterTask(t)
  \/ \E r \in Run : StoreFailure(r) \/ RegisterReport(r) \/ RegisterFails(r) \/ Crash(r)
  \/ \E o \in Org : HandleEvent(o) \/ \E t \in Task : AskLogs(o, t)
  \/ ServeLogs

Spec == Init /\ [][Next]_vars

-----------------------------------------------------------------------------
(* Properties *)

\* The type invariant.
TypeOK ==
  /\ setting \in SettingType
  /\ job \in [Run -> {"store", "register", "done"}]
  /\ reports \in [Org -> [there : BOOLEAN, run : Run \union {NoRun}]]
  /\ registered \in Run \union {NoRun}
  /\ log \in Seq([kind : {"created", "failed", "report"}, task : Task \union {NoTask}])
  /\ handled \in [Org -> Nat]
  /\ proxied \in [org : Org \union {NoOrg}, task : Task \union {NoTask}]

\* Whoever is given logs may see them, and they are those of the registered run
\* unless a second message failed too and stored its own (utils/errors.py:35).
\* A report never loses its logs to the event about it (events/sync.py:429-434),
\* and the owner fails to serve what it has only for a task, while its own
\* consumer is behind the one of the organization that asks
\* (failed_asset_logs.py:27, 41).
LogsAreRight ==
  /\ answer.result # "no file"
  /\ answer.result = "logs" =>
       /\ answer.org \in setting.allowed
       /\ answer.run = registered \/ Cardinality(setting.runs) > 1
  /\ answer.result \in {"not found", "error"} => ~OfFunction /\ answer.early

\* Once an organization has handled every event, its rows of the failed tasks
\* say why they failed and where the logs are, whenever the tasks were
\* registered and in whatever order the events of the failure come
\* (events/sync.py:401-426); a failure stays unreported only when the
\* orchestrator could not be reached (tasks_asset_failure_report.py:63).
RowsTellWhy ==
  /\ \A o \in Org : registered # NoRun /\ handled[o] = Len(log) =>
       \A t \in Created :
         /\ rows[o][t].there /\ rows[o][t].failed
         /\ rows[o][t].error = Error /\ rows[o][t].owner = Owner
         /\ rows[o][t].url <=> HasLogs(Error)
  /\ (\A r \in Run : job[r] = "done") => registered # NoRun \/ "down" \in setting.env

=============================================================================
