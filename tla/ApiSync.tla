------------------------------- MODULE ApiSync -------------------------------
(***************************************************************************)
(* The API server's copy of one compute plan: api/events/reactor.py and    *)
(* api/events/sync.py consume the orchestrator's events one by one, while  *)
(* api/views/computetask.py (task_bulk_create) saves the tasks it has just *)
(* registered, and both recompute the plan's row                           *)
(* (api/models/computeplan.py).                                            *)
(*                                                                         *)
(* The handler of an event is one database transaction and the view has    *)
(* one per task (READ COMMITTED): what a transaction reads before it       *)
(* commits is a step of its own where another commit in between matters.   *)
(* The id of the last event is saved after the handler's transaction.      *)
(*                                                                         *)
(* Every task has at most one input that another task produces.  The       *)
(* orchestrator and the tasks' life are external.                          *)
(***************************************************************************)
EXTENDS Naturals, Sequences

CONSTANTS
  Task,       \* the tasks of the compute plan
  NoTask,
  Parent,     \* the task that produces the input of each task, or NoTask
  Settings    \* the settings checked

\* views: the tasks are created through this server's API; updates: the plan may
\* be renamed and canceled; lag bounds the events the consumer is behind, and
\* crashes its crashes.
SettingType ==
  [tasks : SUBSET Task, views : BOOLEAN, updates : BOOLEAN, lag : Nat \ {0}, crashes : Nat]

ASSUME SyncAssumption ==
  /\ NoTask \notin Task
  /\ Parent \in [Task -> Task \union {NoTask}]
  /\ Settings \subseteq SettingType

VARIABLES
  setting,
  orcStatus,    \* the orchestrator: the status of each task
  orcPlan,      \* the orchestrator: whether the plan was canceled, renamed
  log,          \* the orchestrator's events after api_lastevent, oldest first
  rows,         \* api_computetask: the status of each task, or "none"
  outputs,      \* api_computetaskoutputasset: how many rows for each task
  inputs,       \* api_computetaskinputasset: the tasks with an input asset
  plan,         \* api_computeplan
  consumer,     \* where the consumer is, and what it read
  view,         \* where task_bulk_create is, and what it read
  crashes

orcVars == <<orcStatus, orcPlan, log>>
dbVars == <<rows, outputs, inputs, plan>>
vars == <<setting, orcVars, dbVars, consumer, view, crashes>>

Status == {"builder", "waiting", "todo", "done", "failed", "canceled"}
Ended == {"done", "failed", "canceled"}
PlanStatus == {"CREATED", "DOING", "DONE", "FAILED", "CANCELED"}

Children(t) == {c \in Task : Parent[c] = t}

\* Faulty: an input is resolved only when its asset is created.
OutputKnownNever(t) == FALSE

\* The asset of the task's input exists already.
OutputKnown(t) == Parent[t] # NoTask /\ outputs[Parent[t]] > 0

\* ComputePlan.update_status, from the rows of the plan's tasks.
PlanStatusOf(canceled, st) ==
  LET saved == {t \in Task : st[t] # "none"}
      with(s) == {t \in saved : st[t] = s}
  IN CASE canceled \/ with("canceled") # {} -> "CANCELED"
       [] ~canceled /\ with("canceled") = {} ->
            CASE with("builder") = saved -> "CREATED"
              [] with("builder") # saved /\ with("done") = saved -> "DONE"
              [] {with("builder"), with("done")} \intersect {saved} = {} ->
                   IF with("failed") # {} THEN "FAILED" ELSE "DOING"

\* ComputePlan.update_end_date: whether the plan has an end date.
EndedAfter(canceled, st, ended) ==
  LET some(S) == \E t \in Task : st[t] \in S
  IN \/ canceled
     \/ /\ some({"failed", "canceled"}) \/ ~some(Status \ Ended)
        /\ ended \/ some(Ended)

\* Faulty: a plan that has an end date keeps it when it gets new tasks.
RecomputedNeverReopened(p, st) ==
  [p EXCEPT !.ended = p.ended \/ EndedAfter(p.canceled, st, p.ended),
            !.status = PlanStatusOf(p.canceled, st)]

\* update_end_date then update_status, from one copy of the plan's row.
Recomputed(p, st) ==
  [p EXCEPT !.ended = EndedAfter(p.canceled, st, p.ended), !.status = PlanStatusOf(p.canceled, st)]

-----------------------------------------------------------------------------
Init ==
  /\ setting \in Settings
  /\ orcStatus = [t \in Task |-> "none"]
  /\ orcPlan = [canceled |-> FALSE, renamed |-> FALSE]
  /\ log = <<>>
  /\ rows = [t \in Task |-> "none"]
  /\ outputs = [t \in Task |-> 0]
  /\ inputs = {}
  /\ plan = [canceled |-> FALSE, renamed |-> FALSE, ended |-> FALSE, status |-> "CREATED"]
  /\ consumer = [at |-> "ready", children |-> {}]
  /\ view = [at |-> "idle", plan |-> plan, task |-> NoTask, resolved |-> FALSE]
  /\ crashes = 0

-----------------------------------------------------------------------------
(* The orchestrator *)

Emit(es) == Len(log) < setting.lag /\ log' = log \o es
TaskEvent(kind, t, st) == [kind |-> kind, task |-> t, status |-> st]
PlanEvent(p) == [kind |-> "plan", task |-> NoTask, plan |-> p]

SetOrcStatus(t, st) ==
  /\ orcStatus' = [orcStatus EXCEPT ![t] = st]
  /\ Emit(<<TaskEvent("updated", t, st)>>)

\* A task can be registered once its parent is.
CanRegister(t) ==
  /\ t \in setting.tasks
  /\ orcStatus[t] = "none" /\ ~orcPlan.canceled
  /\ Parent[t] # NoTask => orcStatus[Parent[t]] # "none"

RegisterInOrchestrator(t) ==
  /\ CanRegister(t)
  /\ orcStatus' = [orcStatus EXCEPT ![t] = "builder"]
  /\ Emit(<<TaskEvent("created", t, "builder")>>)

\* Another organization registers the task.
RegisterElsewhere(t) ==
  /\ ~setting.views
  /\ RegisterInOrchestrator(t)
  /\ UNCHANGED <<setting, orcPlan, dbVars, consumer, view, crashes>>

\* The function is built; the parent is done.
Progress(t) ==
  /\ \/ orcStatus[t] = "builder" /\ SetOrcStatus(t, "waiting")
     \/ /\ orcStatus[t] = "waiting"
        /\ Parent[t] # NoTask => orcStatus[Parent[t]] = "done"
        /\ SetOrcStatus(t, "todo")
  /\ UNCHANGED <<setting, orcPlan, dbVars, consumer, view, crashes>>

\* The task runs: its output is registered, then it is done; or it ends badly.
Finish(t) ==
  /\ orcStatus[t] = "todo"
  /\ \/ /\ orcStatus' = [orcStatus EXCEPT ![t] = "done"]
        /\ Emit(<<TaskEvent("output", t, "done"), TaskEvent("updated", t, "done")>>)
     \/ SetOrcStatus(t, "failed")
     \/ orcPlan.canceled /\ SetOrcStatus(t, "canceled")
  /\ UNCHANGED <<setting, orcPlan, dbVars, consumer, view, crashes>>

UpdatePlan ==
  /\ setting.updates
  /\ \E field \in {"canceled", "renamed"} :
       /\ ~orcPlan[field]
       /\ orcPlan' = [orcPlan EXCEPT ![field] = TRUE]
  /\ Emit(<<PlanEvent(orcPlan')>>)
  /\ UNCHANGED <<setting, orcStatus, dbVars, consumer, view, crashes>>

-----------------------------------------------------------------------------
(* The event consumer: consume_channel, on_event, sync_on_event_message      *)

Event == Head(log)

\* _create_computetask_output_asset: the inputs that refer to the output.
ReadInputs ==
  /\ consumer.at = "ready" /\ log # <<>>
  /\ consumer' =
       [at |-> "apply",
        children |-> IF Event.kind = "output"
                     THEN {c \in Children(Event.task) : rows[c] # "none"} ELSE {}]
  /\ UNCHANGED <<setting, orcVars, dbVars, view, crashes>>

\* Faulty: the row is saved over the one that exists.
SaveTaskOverwriting(t, st, resolved) ==
  /\ rows' = [rows EXCEPT ![t] = st]
  /\ inputs' = IF resolved THEN inputs \union {t} ELSE inputs

\* save_if_not_exists: a row that exists is kept.
SaveTask(t, st, resolved) ==
  IF rows[t] = "none"
  THEN /\ rows' = [rows EXCEPT ![t] = st]
       /\ inputs' = IF resolved THEN inputs \union {t} ELSE inputs
  ELSE UNCHANGED <<rows, inputs>>

\* The handler's transaction commits.
ApplyEvent ==
  /\ consumer.at = "apply"
  /\ \/ /\ Event.kind = "created"
        /\ SaveTask(Event.task, Event.status, OutputKnown(Event.task))
        /\ plan' = Recomputed(plan, rows')
        /\ UNCHANGED outputs
     \/ /\ Event.kind = "updated"
        /\ rows' = [rows EXCEPT ![Event.task] = Event.status]
        /\ plan' = Recomputed(plan, rows')
        /\ UNCHANGED <<outputs, inputs>>
     \/ /\ Event.kind = "plan"
        /\ plan' = Recomputed([plan EXCEPT !.canceled = Event.plan.canceled,
                                           !.renamed = Event.plan.renamed], rows)
        /\ UNCHANGED <<rows, outputs, inputs>>
     \/ /\ Event.kind = "output" /\ consumer.children \intersect inputs = {}
        /\ outputs' = [outputs EXCEPT ![Event.task] = @ + 1]
        /\ inputs' = inputs \union consumer.children
        /\ UNCHANGED <<rows, plan>>
  /\ consumer' = [at |-> "save", children |-> {}]
  /\ UNCHANGED <<setting, orcVars, view, crashes>>

\* The input already has an asset (OneToOneField): IntegrityError.  The
\* transaction is rolled back, every consumer stops and the process is
\* restarted.
EventFails ==
  /\ consumer.at = "apply"
  /\ Event.kind = "output" /\ consumer.children \intersect inputs # {}
  /\ consumer' = [at |-> "ready", children |-> {}]
  /\ UNCHANGED <<setting, orcVars, dbVars, view, crashes>>

\* Faulty: the id that was read when the channel was opened is saved again.
SaveLastEventOfStart ==
  /\ consumer.at = "save"
  /\ consumer' = [at |-> "ready", children |-> {}]
  /\ UNCHANGED <<setting, orcVars, dbVars, view, crashes>>

SaveLastEvent ==
  /\ consumer.at = "save"
  /\ log' = Tail(log)
  /\ consumer' = [at |-> "ready", children |-> {}]
  /\ UNCHANGED <<setting, orcStatus, orcPlan, dbVars, view, crashes>>

\* The process is restarted; a transaction that was not committed is undone.
Crash ==
  /\ crashes < setting.crashes
  /\ consumer.at # "ready"
  /\ consumer' = [at |-> "ready", children |-> {}]
  /\ crashes' = crashes + 1
  /\ UNCHANGED <<setting, orcVars, dbVars, view>>

-----------------------------------------------------------------------------
(* task_bulk_create, one request of one task at a time *)

\* The plan's row is read ...
ReadPlan ==
  /\ setting.views /\ view.at = "idle"
  /\ \E t \in Task : CanRegister(t)
  /\ view' = [view EXCEPT !.at = "register", !.plan = plan]
  /\ UNCHANGED <<setting, orcVars, dbVars, consumer, crashes>>

\* ... before the tasks are registered in the orchestrator, which refuses them
\* when the plan is canceled.
RegisterInView ==
  /\ view.at = "register"
  /\ \/ \E t \in Task :
          /\ RegisterInOrchestrator(t)
          /\ view' = [view EXCEPT !.at = "read", !.task = t]
     \/ /\ ~\E t \in Task : CanRegister(t)
        /\ view' = [view EXCEPT !.at = "idle"]
        /\ UNCHANGED <<orcStatus, log>>
  /\ UNCHANGED <<setting, orcPlan, dbVars, consumer, crashes>>

\* ComputeTaskSerializer.create: is there an asset for the input already?
ReadOutput ==
  /\ view.at = "read"
  /\ view' = [view EXCEPT !.at = "commit", !.resolved = OutputKnown(view.task)]
  /\ UNCHANGED <<setting, orcVars, dbVars, consumer, crashes>>

CommitTask ==
  /\ view.at = "commit"
  /\ SaveTask(view.task, "builder", view.resolved)
  /\ view' = [view EXCEPT !.at = "endDate"]
  /\ UNCHANGED <<setting, orcVars, outputs, plan, consumer, crashes>>

\* update_end_date and update_status save every field of the row that was read
\* when the request started.
UpdateEndDate ==
  /\ view.at = "endDate"
  /\ plan' = [view.plan EXCEPT !.ended = EndedAfter(view.plan.canceled, rows, view.plan.ended)]
  /\ view' = [view EXCEPT !.at = "status", !.plan = plan']
  /\ UNCHANGED <<setting, orcVars, rows, outputs, inputs, consumer, crashes>>

UpdateStatus ==
  /\ view.at = "status"
  /\ plan' = [view.plan EXCEPT !.status = PlanStatusOf(view.plan.canceled, rows)]
  /\ view' = [view EXCEPT !.at = "idle", !.plan = plan', !.task = NoTask, !.resolved = FALSE]
  /\ UNCHANGED <<setting, orcVars, rows, outputs, inputs, consumer, crashes>>

-----------------------------------------------------------------------------
ConsumerStep == ReadInputs \/ ApplyEvent \/ EventFails \/ SaveLastEvent

ViewStep ==
  RegisterInView \/ ReadOutput \/ CommitTask \/ UpdateEndDate \/ UpdateStatus

CaughtUp == log = <<>> /\ consumer.at = "ready" /\ view.at = "idle"

Next ==
  \/ \E t \in Task : RegisterElsewhere(t) \/ Progress(t) \/ Finish(t)
  \/ UpdatePlan
  \/ ConsumerStep \/ Crash
  \/ ReadPlan \/ ViewStep
  \/ CaughtUp /\ UNCHANGED vars

Spec == Init /\ [][Next]_vars

\* The consumer is restarted when it stops, and a request is served to its end.
FairSpec == Spec /\ WF_vars(ConsumerStep) /\ WF_vars(ViewStep)

-----------------------------------------------------------------------------
TypeOK ==
  /\ orcStatus \in [Task -> Status \union {"none"}]
  /\ rows \in [Task -> Status \union {"none"}]
  /\ outputs \in [Task -> Nat]
  /\ inputs \subseteq Task
  /\ plan \in [canceled : BOOLEAN, renamed : BOOLEAN, ended : BOOLEAN, status : PlanStatus]
  /\ consumer.at \in {"ready", "apply", "save"} /\ consumer.children \subseteq Task
  /\ view.at \in {"idle", "register", "read", "commit", "endDate", "status"}
  /\ crashes \in 0..setting.crashes

\* Once every event is handled, the rows of the tasks say what the orchestrator
\* says, whoever inserted them.
RowsSynced == CaughtUp => rows = orcStatus

\* Once every event is handled, so does the row of the plan when the tasks come
\* from another organization: the last update of its status and of its end date
\* saw the last update of the tasks.
PlanSynced ==
  CaughtUp /\ ~setting.views =>
    /\ plan.canceled = orcPlan.canceled /\ plan.renamed = orcPlan.renamed
    /\ plan.status = PlanStatusOf(orcPlan.canceled, orcStatus)
    /\ plan.ended = EndedAfter(orcPlan.canceled, orcStatus, FALSE)

\* serializers/computetask.py:207-208: the asset of an input "could be known
\* during task registration or could be resolved later if it does not exist yet".
InputsResolved ==
  CaughtUp =>
    \A t \in Task : Parent[t] # NoTask /\ rows[t] # "none" /\ outputs[Parent[t]] > 0 => t \in inputs

\* So it is when every row is inserted by the consumer, whose handlers run one
\* after the other, a crash and a repeated event included.
InputsResolvedByEvents == ~setting.views => InputsResolved

\* sync.py:490-491: every handler may run again, so every event is handled in
\* the end.
EventsHandled == <>[](log = <<>>)

\* No handler fails for ever while the consumer does not crash, whoever inserted
\* the rows first.
EventsHandledOnce == <>[](log = <<>> \/ crashes > 0)
=============================================================================
