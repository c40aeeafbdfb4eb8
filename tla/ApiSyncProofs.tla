------------------------------ MODULE ApiSyncProofs ------------------------------
(***************************************************************************)
(* For any tasks, any graph of inputs, any lag and any crashes: the        *)
(* consumer of the events alone resolves every input, the rows of the      *)
(* tasks follow the orchestrator whoever inserts them, and so does the row *)
(* of the plan when they are created elsewhere.                            *)
(***************************************************************************)
EXTENDS ApiSync, SequenceTheorems, TLAPS

EventSet ==
  [kind : {"created", "updated", "output"}, task : Task, status : Status]
    \union [kind : {"plan"}, task : {NoTask},
            plan : [canceled : BOOLEAN, renamed : BOOLEAN]]

\* The types the invariant needs.
Typed ==
  /\ log \in Seq(EventSet)
  /\ orcPlan \in [canceled : BOOLEAN, renamed : BOOLEAN]
  /\ orcStatus = [t \in Task |-> orcStatus[t]]
  /\ rows = [t \in Task |-> rows[t]]
  /\ outputs = [t \in Task |-> outputs[t]]

\* The creation of a task is among the first n events.
CreatedIn(events, t, n) == \E j \in 1..n : events[j].kind = "created" /\ events[j].task = t

\* A task has its row before an event changes its status: its creation is handled
\* first.
Ordered ==
  /\ \A i \in 1..Len(log) :
       log[i].kind = "updated" =>
         rows[log[i].task] # "none" \/ CreatedIn(log, log[i].task, i - 1)
  /\ \A t \in Task : orcStatus[t] # "none" => rows[t] # "none" \/ CreatedIn(log, t, Len(log))

\* The consumer has read the rows that are there when its transaction commits: no
\* one else writes any.
Reading ==
  /\ consumer.at = "apply" =>
       /\ log # <<>>
       /\ Event.kind = "output" =>
            consumer.children = {c \in Children(Event.task) : rows[c] # "none"}
  /\ consumer.at = "save" =>
       log # <<>> /\ (Event.kind = "created" => rows[Event.task] # "none")

\* At every moment, not only when the events are handled.
Resolved ==
  \A t \in Task : Parent[t] # NoTask /\ rows[t] # "none" /\ outputs[Parent[t]] > 0 => t \in inputs

Inv == ~setting.views => view.at = "idle" /\ Typed /\ Ordered /\ Reading /\ Resolved

-----------------------------------------------------------------------------
\* What is appended to the events leaves the first ones in their places.
LEMMA Emitting ==
  ASSUME Typed, NEW es \in Seq(EventSet), Emit(es)
  PROVE  /\ log' \in Seq(EventSet) /\ Len(log') = Len(log) + Len(es) /\ Len(log) \in Nat
         /\ \A i \in 1..Len(log) : log'[i] = log[i]
         /\ \A i \in 1..Len(es) : log'[Len(log) + i] = es[i]
         /\ log # <<>> => log' # <<>> /\ Head(log') = Head(log)
  BY DEF Emit, Typed

\* A step of the orchestrator that creates the task t, or changes the status of a
\* task it has.
LEMMA OrchestratorInv ==
  ASSUME Inv, NEW t \in Task, NEW es \in Seq(EventSet), Emit(es),
         UNCHANGED <<setting, dbVars, consumer, view>>,
         orcPlan' \in [canceled : BOOLEAN, renamed : BOOLEAN],
         orcStatus' = [u \in Task |-> orcStatus'[u]],
         \A u \in Task \ {t} : orcStatus'[u] = orcStatus[u],
         \A i \in 1..Len(es) : es[i].kind = "updated" => es[i].task = t /\ orcStatus[t] # "none",
         orcStatus[t] = "none" /\ orcStatus'[t] # "none" =>
           Len(es) = 1 /\ es[1].kind = "created" /\ es[1].task = t
  PROVE  Inv'
<1> SUFFICES ASSUME ~setting.views
             PROVE  view'.at = "idle" /\ Typed' /\ Ordered' /\ Reading' /\ Resolved'
  BY DEF Inv
<1> USE DEF Inv, dbVars
<1>0. Typed /\ Ordered /\ Reading /\ Resolved /\ Len(log) \in Nat
  BY Emitting
<1>1. Typed'
  BY <1>0, Emitting DEF Typed
<1>2. ASSUME NEW u, NEW n \in 0..Len(log), CreatedIn(log, u, n) PROVE CreatedIn(log', u, n)
  <2>1. PICK j \in 1..n : log[j].kind = "created" /\ log[j].task = u
    BY <1>2 DEF CreatedIn
  <2>2. log'[j] = log[j]
    BY <1>0, Emitting
  <2> QED
    BY <2>1, <2>2 DEF CreatedIn
<1>3. Len(log') = Len(log) + Len(es) /\ Len(log) \in Nat /\ Len(es) \in Nat
  BY <1>0, Emitting
<1>4. ASSUME NEW u, CreatedIn(log, u, Len(log)), NEW n \in Nat, Len(log) <= n
      PROVE  CreatedIn(log', u, n)
  <2>1. PICK j \in 1..Len(log) : log[j].kind = "created" /\ log[j].task = u
    BY <1>4 DEF CreatedIn
  <2>2. log'[j] = log[j] /\ j \in 1..n
    BY <1>3, <1>4, Emitting
  <2> QED
    BY <2>1, <2>2 DEF CreatedIn
<1>5. ASSUME NEW i \in 1..Len(log'), log'[i].kind = "updated"
      PROVE  rows'[log'[i].task] # "none" \/ CreatedIn(log', log'[i].task, i - 1)
  <2>1. CASE i \in 1..Len(log)
    <3>1. log'[i] = log[i] /\ i - 1 \in 0..Len(log)
      BY <1>0, <2>1, Emitting
    <3>2. rows[log[i].task] # "none" \/ CreatedIn(log, log[i].task, i - 1)
      BY <1>0, <1>5, <2>1, <3>1 DEF Ordered
    <3> QED
      BY <1>2, <3>1, <3>2
  <2>2. CASE i \notin 1..Len(log)
    <3> DEFINE k == i - Len(log)
    <3>1. k \in 1..Len(es) /\ i = Len(log) + k /\ i - 1 \in Nat /\ Len(log) <= i - 1
      BY <1>3, <1>5, <2>2
    <3>2. log'[i] = es[k]
      BY <1>0, <3>1, Emitting
    <3>3. log'[i].task = t /\ orcStatus[t] # "none"
      BY <1>5, <3>1, <3>2
    <3>4. rows[t] # "none" \/ CreatedIn(log, t, Len(log))
      BY <1>0, <3>3 DEF Ordered
    <3> HIDE DEF k
    <3> QED
      BY <1>4, <3>1, <3>3, <3>4
  <2> QED
    BY <2>1, <2>2
<1>6. ASSUME NEW u \in Task, orcStatus'[u] # "none"
      PROVE  rows'[u] # "none" \/ CreatedIn(log', u, Len(log'))
  <2>1. CASE orcStatus[u] # "none"
    BY <1>0, <1>3, <1>4, <2>1 DEF Ordered
  <2>2. CASE orcStatus[u] = "none"
    <3>1. u = t /\ Len(es) = 1 /\ es[1].kind = "created" /\ es[1].task = u
      BY <1>6, <2>2
    <3>2. 1 \in 1..Len(es) /\ Len(log) + 1 \in 1..Len(log')
      BY <1>3, <3>1
    <3>3. log'[Len(log) + 1] = es[1]
      BY <1>0, <3>2, Emitting
    <3>4. CreatedIn(log', u, Len(log'))
      BY <3>1, <3>2, <3>3 DEF CreatedIn
    <3> QED
      BY <3>4
  <2> QED
    BY <2>1, <2>2
<1>7. Ordered'
  BY <1>5, <1>6 DEF Ordered
<1>8. Reading'
  BY <1>0, Emitting DEF Reading, Event
<1> QED
  BY <1>0, <1>1, <1>7, <1>8 DEF Resolved

\* A step that leaves the events alone and forgets no row keeps their order.
LEMMA OrderKept ==
  ASSUME Ordered, UNCHANGED <<log, orcStatus>>,
         \A t : rows[t] # "none" => rows'[t] # "none"
  PROVE  Ordered'
  BY DEF Ordered, CreatedIn

\* The handler of the first event commits.
LEMMA ApplyEventInv == Inv /\ ApplyEvent => Inv'
<1> SUFFICES ASSUME ~setting.views, Inv, ApplyEvent
             PROVE  view'.at = "idle" /\ Typed' /\ Ordered' /\ Reading' /\ Resolved'
  BY DEF Inv, ApplyEvent
<1>1. /\ Typed /\ Ordered /\ Reading /\ Resolved /\ view.at = "idle"
      /\ UNCHANGED <<setting, orcStatus, orcPlan, log, view>>
      /\ consumer' = [at |-> "save", children |-> {}]
  BY DEF Inv, ApplyEvent, orcVars
<1>2. log # <<>> /\ Event \in EventSet
  BY <1>1, HeadTailProperties DEF Reading, Typed, Event, ApplyEvent
<1>3. Len(log) \in Nat \ {0} /\ Event = log[1]
  BY <1>1, <1>2, EmptySeq DEF Typed, Event
<1>4. CASE Event.kind = "created"
  <2> DEFINE t == Event.task
  <2>1. t \in Task /\ Event.status # "none"
    BY <1>2, <1>4 DEF EventSet, Status
  <2>2. SaveTask(t, Event.status, OutputKnown(t)) /\ UNCHANGED outputs
    BY <1>4 DEF ApplyEvent
  <2>3. Typed' /\ rows'[t] # "none" /\ \A u : u # t => rows'[u] = rows[u]
    <3>1. CASE rows[t] = "none"
      <4>1. rows' = [rows EXCEPT ![t] = Event.status]
        BY <2>2, <3>1 DEF SaveTask
      <4> QED
        BY <1>1, <2>1, <2>2, <4>1 DEF Typed
    <3>2. CASE rows[t] # "none"
      <4>1. UNCHANGED rows
        BY <2>2, <3>2 DEF SaveTask
      <4> QED
        BY <1>1, <2>2, <3>2, <4>1 DEF Typed
    <3> QED
      BY <3>1, <3>2
  <2>4. Ordered'
    BY <1>1, <2>1, <2>2, <2>3, OrderKept DEF SaveTask
  <2>5. Resolved'
    BY <1>1, <2>1, <2>2, <2>3 DEF Resolved, SaveTask, OutputKnown
  <2> QED
    BY <1>1, <1>2, <2>3, <2>4, <2>5 DEF Reading, Event
<1>5. CASE Event.kind = "updated"
  <2> DEFINE t == Event.task
  <2>1. t \in Task /\ Event.status # "none"
    BY <1>2, <1>5 DEF EventSet, Status
  <2>2. rows' = [rows EXCEPT ![t] = Event.status] /\ UNCHANGED <<outputs, inputs>>
    BY <1>5 DEF ApplyEvent
  <2>3. rows[t] # "none"
    BY <1>1, <1>3, <1>5 DEF Ordered, CreatedIn
  <2>4. Typed' /\ rows'[t] # "none" /\ \A u : u # t => rows'[u] = rows[u]
    BY <1>1, <2>1, <2>2 DEF Typed
  <2>5. Ordered'
    BY <1>1, <2>4, OrderKept
  <2>6. Resolved'
    BY <1>1, <2>2, <2>3, <2>4 DEF Resolved
  <2> QED
    BY <1>1, <1>2, <1>5, <2>4, <2>5, <2>6 DEF Reading, Event
<1>6. CASE Event.kind = "plan"
  <2>1. UNCHANGED <<rows, outputs, inputs>>
    BY <1>6 DEF ApplyEvent
  <2> QED
    BY <1>1, <1>2, <1>6, <2>1, OrderKept DEF Typed, Reading, Resolved, Event
<1>7. CASE Event.kind = "output"
  <2>1. /\ outputs' = [outputs EXCEPT ![Event.task] = @ + 1]
        /\ inputs' = inputs \union consumer.children
        /\ UNCHANGED rows
    BY <1>7 DEF ApplyEvent
  <2>2. consumer.children = {c \in Children(Event.task) : rows[c] # "none"}
    BY <1>1, <1>7 DEF Reading, ApplyEvent
  <2>3. Typed' /\ \A u : u # Event.task => outputs'[u] = outputs[u]
    BY <1>1, <2>1 DEF Typed
  <2>4. Resolved'
    BY <1>1, <2>1, <2>2, <2>3 DEF Resolved, Children
  <2> QED
    BY <1>1, <1>2, <1>7, <2>1, <2>3, <2>4, OrderKept DEF Reading, Event
<1> QED
  BY <1>4, <1>5, <1>6, <1>7 DEF ApplyEvent

\* The event is the next one no more: what it created has its row.
LEMMA SaveLastEventInv == Inv /\ SaveLastEvent => Inv'
<1> SUFFICES ASSUME ~setting.views, Inv, SaveLastEvent
             PROVE  view'.at = "idle" /\ Typed' /\ Ordered' /\ Reading' /\ Resolved'
  BY DEF Inv, SaveLastEvent
<1>1. /\ Typed /\ Ordered /\ Reading /\ Resolved /\ view.at = "idle"
      /\ UNCHANGED <<setting, orcStatus, orcPlan, rows, outputs, inputs, view>>
      /\ log' = Tail(log) /\ consumer' = [at |-> "ready", children |-> {}]
  BY DEF Inv, SaveLastEvent, dbVars
<1>2. log # <<>> /\ (log[1].kind = "created" => rows[log[1].task] # "none")
  BY <1>1 DEF Reading, SaveLastEvent, Event, Typed
<1>3. /\ log' \in Seq(EventSet) /\ Len(log) \in Nat \ {0} /\ Len(log') = Len(log) - 1
      /\ \A i \in 1..Len(log') : log'[i] = log[i + 1]
  BY <1>1, <1>2, HeadTailProperties DEF Typed
<1>4. ASSUME NEW t, NEW n \in 1..Len(log), CreatedIn(log, t, n)
      PROVE  rows[t] # "none" \/ CreatedIn(log', t, n - 1)
  <2>1. PICK j \in 1..n : log[j].kind = "created" /\ log[j].task = t
    BY <1>4 DEF CreatedIn
  <2>2. CASE j = 1
    BY <1>2, <2>1, <2>2
  <2>3. CASE j # 1
    <3>1. j - 1 \in 1..(n - 1) /\ j - 1 \in 1..Len(log') /\ (j - 1) + 1 = j
      BY <1>3, <2>3
    <3>2. log'[j - 1] = log[j]
      BY <1>3, <3>1
    <3> QED
      BY <2>1, <3>1, <3>2 DEF CreatedIn
  <2> QED
    BY <2>2, <2>3
<1>5. ASSUME NEW i \in 1..Len(log'), log'[i].kind = "updated"
      PROVE  rows[log'[i].task] # "none" \/ CreatedIn(log', log'[i].task, i - 1)
  <2>1. log'[i] = log[i + 1] /\ i + 1 \in 1..Len(log) /\ i \in 1..Len(log) /\ (i + 1) - 1 = i
    BY <1>3
  <2>2. rows[log[i + 1].task] # "none" \/ CreatedIn(log, log[i + 1].task, i)
    BY <1>1, <1>5, <2>1 DEF Ordered
  <2> QED
    BY <1>4, <2>1, <2>2
<1>6. ASSUME NEW t \in Task, orcStatus[t] # "none"
      PROVE  rows[t] # "none" \/ CreatedIn(log', t, Len(log'))
  BY <1>1, <1>3, <1>4, <1>6 DEF Ordered
<1>7. Ordered'
  BY <1>1, <1>5, <1>6 DEF Ordered
<1> QED
  BY <1>1, <1>3, <1>7 DEF Typed, Reading, Resolved

\* A step of the consumer that writes no row.
LEMMA ReadingInv ==
  ASSUME Inv, UNCHANGED <<setting, orcVars, dbVars, view>>,
         consumer'.at = "ready" \/ ReadInputs
  PROVE  Inv'
  BY DEF Inv, Typed, Ordered, CreatedIn, Reading, Resolved, ReadInputs, Event, orcVars, dbVars

\* The initial state.
LEMMA InvInit == Init => Inv
  BY EmptySeq DEF Init, Inv, Typed, Ordered, Reading, Resolved

\* The steps of the orchestrator: no task is updated before it is created.
LEMMA RegisterElsewhereInv ==
  ASSUME Inv, SyncAssumption, NEW t \in Task, RegisterElsewhere(t)
  PROVE  Inv'
<1> DEFINE es == <<TaskEvent("created", t, "builder")>>
<1>1. ~setting.views /\ Typed
  BY DEF RegisterElsewhere, Inv
<1>2. es \in Seq(EventSet) /\ Len(es) = 1 /\ es[1].kind = "created" /\ es[1].task = t
  BY DEF TaskEvent, EventSet, Status
<1>3. /\ orcStatus' = [orcStatus EXCEPT ![t] = "builder"] /\ Emit(es)
      /\ UNCHANGED <<setting, orcPlan, dbVars, consumer, view>>
  BY DEF RegisterElsewhere, RegisterInOrchestrator
<1> HIDE DEF es
<1> QED
  BY <1>1, <1>2, <1>3, OrchestratorInv DEF Typed

\* The same for the step of a task that the orchestrator has.
LEMMA UpdateInv ==
  ASSUME Inv, ~setting.views, NEW t \in Task, orcStatus[t] # "none", NEW st \in Status,
         UNCHANGED <<setting, orcPlan, dbVars, consumer, view>>,
         orcStatus' = [orcStatus EXCEPT ![t] = st],
         \/ Emit(<<TaskEvent("updated", t, st)>>)
         \/ Emit(<<TaskEvent("output", t, st), TaskEvent("updated", t, st)>>)
  PROVE  Inv'
<1>1. Typed
  BY DEF Inv
<1>2. CASE Emit(<<TaskEvent("updated", t, st)>>)
  <2> DEFINE es == <<TaskEvent("updated", t, st)>>
  <2>1. es \in Seq(EventSet) /\ \A i \in 1..Len(es) : es[i].task = t
    BY DEF TaskEvent, EventSet
  <2>2. Emit(es)
    BY <1>2
  <2> HIDE DEF es
  <2> QED
    BY <1>1, <2>1, <2>2, OrchestratorInv DEF Typed
<1>3. CASE Emit(<<TaskEvent("output", t, st), TaskEvent("updated", t, st)>>)
  <2> DEFINE es == <<TaskEvent("output", t, st), TaskEvent("updated", t, st)>>
  <2>1. es \in Seq(EventSet) /\ \A i \in 1..Len(es) : es[i].task = t
    BY DEF TaskEvent, EventSet
  <2>2. Emit(es)
    BY <1>3
  <2> HIDE DEF es
  <2> QED
    BY <1>1, <2>1, <2>2, OrchestratorInv DEF Typed
<1> QED
  BY <1>2, <1>3

LEMMA UpdatePlanInv ==
  ASSUME Inv, ~setting.views, UpdatePlan
  PROVE  Inv'
<1> DEFINE es == <<PlanEvent(orcPlan')>>
<1>1. Typed
  BY DEF Inv
<1>2. orcPlan' \in [canceled : BOOLEAN, renamed : BOOLEAN] /\ Emit(es)
  BY <1>1 DEF UpdatePlan, Typed
<1>3. es \in Seq(EventSet) /\ Len(es) = 1 /\ es[1].kind = "plan"
  BY <1>2 DEF PlanEvent, EventSet
<1>4. UNCHANGED <<setting, orcStatus, dbVars, consumer, view>>
  BY DEF UpdatePlan
<1> HIDE DEF es
<1>5. CASE \E t \in Task : TRUE
  BY <1>1, <1>2, <1>3, <1>4, <1>5, OrchestratorInv DEF Typed
<1>6. CASE Task = {}
  BY <1>1, <1>2, <1>3, <1>4, <1>6, Emitting
  DEF Inv, Typed, Ordered, Reading, Resolved, dbVars, Event, EventSet
<1> QED
  BY <1>5, <1>6

\* One step.
LEMMA InvNext ==
  ASSUME Inv, SyncAssumption, [Next]_vars
  PROVE  Inv'
<1> SUFFICES ASSUME ~setting'.views PROVE Inv'
  BY DEF Inv
<1>1. CASE UNCHANGED vars
  BY <1>1 DEF Inv, Typed, Ordered, CreatedIn, Reading, Resolved, Event, vars, orcVars, dbVars
<1>2. CASE ReadInputs \/ EventFails \/ Crash
  BY <1>2, ReadingInv DEF ReadInputs, EventFails, Crash, orcVars, dbVars
<1>3. CASE ApplyEvent
  BY <1>3, ApplyEventInv
<1>4. CASE SaveLastEvent
  BY <1>4, SaveLastEventInv
<1>5. CASE UpdatePlan
  BY <1>5, UpdatePlanInv DEF UpdatePlan
<1>6. ASSUME NEW t \in Task, RegisterElsewhere(t) PROVE Inv'
  BY <1>6, RegisterElsewhereInv
<1>7. ASSUME NEW t \in Task, Progress(t) PROVE Inv'
  <2>1. PICK st \in Status : SetOrcStatus(t, st) /\ orcStatus[t] # "none"
    BY <1>7 DEF Progress, Status
  <2> QED
    BY <1>7, <2>1, UpdateInv DEF Progress, SetOrcStatus
<1>8. ASSUME NEW t \in Task, Finish(t) PROVE Inv'
  <2>1. orcStatus[t] # "none" /\ UNCHANGED <<setting, orcPlan, dbVars, consumer, view>>
    BY <1>8 DEF Finish
  <2>2. CASE /\ orcStatus' = [orcStatus EXCEPT ![t] = "done"]
             /\ Emit(<<TaskEvent("output", t, "done"), TaskEvent("updated", t, "done")>>)
    BY <2>1, <2>2, UpdateInv DEF Status
  <2>3. CASE SetOrcStatus(t, "failed")
    BY <2>1, <2>3, UpdateInv DEF Status, SetOrcStatus
  <2>4. CASE SetOrcStatus(t, "canceled")
    BY <2>1, <2>4, UpdateInv DEF Status, SetOrcStatus
  <2> QED
    BY <1>8, <2>2, <2>3, <2>4 DEF Finish
<1>9. CASE ReadPlan \/ ViewStep
  <2>1. ~setting.views /\ view.at = "idle"
    BY <1>9 DEF Inv, ReadPlan, ViewStep, RegisterInView, ReadOutput, CommitTask, UpdateEndDate,
                UpdateStatus
  <2> QED
    BY <1>9, <2>1
    DEF ReadPlan, ViewStep, RegisterInView, ReadOutput, CommitTask, UpdateEndDate, UpdateStatus
<1> QED
  BY <1>1, <1>2, <1>3, <1>4, <1>5, <1>6, <1>7, <1>8, <1>9 DEF Next, ConsumerStep

LEMMA EventsInvariant == Spec => []Inv
<1>1. Inv /\ [Next]_vars => Inv'
  BY InvNext, SyncAssumption
<1> QED
  BY InvInit, <1>1, PTL DEF Spec

\* An input whose asset is known has it, when every row is inserted by the
\* handlers of the events, which run one after the other, a crash and a repeated
\* event included.
THEOREM EventsResolveInputs == Spec => []InputsResolvedByEvents
<1>1. Inv => InputsResolvedByEvents
  BY DEF Inv, Resolved, InputsResolvedByEvents, InputsResolved
<1> QED
  BY EventsInvariant, <1>1, PTL

-----------------------------------------------------------------------------
(* The rows of the tasks, with views or without.                            *)

\* The event says what the status of the task is.
Says(e, t) == e.kind \in {"created", "updated"} /\ e.task = t
LastSaying(events, t, i) ==
  Says(events[i], t) /\ \A j \in i + 1..Len(events) : ~Says(events[j], t)

\* The first event of a task is its creation, and the orchestrator has the task.
Created ==
  /\ \A i \in 1..Len(log) : log[i].kind = "created" => log[i].status = "builder"
  /\ \A i \in 1..Len(log), t \in Task : Says(log[i], t) => orcStatus[t] # "none"
  /\ \A i, j \in 1..Len(log) :
       i < j /\ log[j].kind = "created" => ~Says(log[i], log[j].task)

\* The row says what the orchestrator says, or an event that will set it is to
\* come: the last one that concerns the task has its status, and only views may
\* have written the row before its creation is handled.
Coming(t) ==
  \/ rows[t] = orcStatus[t] /\ \A i \in 1..Len(log) : ~Says(log[i], t)
  \/ \E i \in 1..Len(log) :
       /\ LastSaying(log, t, i) /\ log[i].status = orcStatus[t]
       /\ log[i].kind = "created" => rows[t] \in {"none", "builder"}

\* What is handled has its row, and a request has registered its task.
Handled ==
  /\ consumer.at = "apply" => log # <<>>
  /\ consumer.at = "save" =>
       /\ log # <<>>
       /\ \A t \in Task : Says(Event, t) =>
            rows[t] # "none" /\ (Event.kind = "updated" => rows[t] = Event.status)
  /\ view.at \in {"read", "commit"} => view.task \in Task /\ orcStatus[view.task] # "none"

RowsInv == Typed /\ Created /\ (\A t \in Task : Coming(t)) /\ Handled

\* The orchestrator appends events that concern one task, the last of which has
\* its status.
LEMMA SayingInv ==
  ASSUME RowsInv, NEW t \in Task, NEW es \in Seq(EventSet), Emit(es),
         UNCHANGED <<rows, outputs, consumer, orcPlan>>,
         view'.at \in {"read", "commit"} => view' = view \/ view'.task = t,
         orcStatus' = [orcStatus EXCEPT ![t] = es[Len(es)].status],
         Len(es) # 0, Says(es[Len(es)], t), es[Len(es)].status # "none",
         \A i \in 1..Len(es) : es[i].task = t,
         \A i \in 1..Len(es) : es[i].kind = "created" =>
           Len(es) = 1 /\ es[i].status = "builder" /\ orcStatus[t] = "none"
  PROVE  RowsInv'
<1>0. /\ Typed /\ Created /\ Handled /\ \A u \in Task : Coming(u)
      /\ Len(log) \in Nat /\ Len(es) \in Nat \ {0} /\ Len(log') = Len(log) + Len(es)
  BY Emitting DEF RowsInv
<1>1. Typed'
  BY <1>0, Emitting DEF Typed
<1>2. \A i \in 1..Len(log) : log'[i] = log[i]
  BY <1>0, Emitting
<1>3. \A i \in 1..Len(log') : i \notin 1..Len(log) =>
        \E k \in 1..Len(es) : i = Len(log) + k /\ log'[i] = es[k]
  <2> SUFFICES ASSUME NEW i \in 1..Len(log'), i \notin 1..Len(log)
               PROVE  \E k \in 1..Len(es) : i = Len(log) + k /\ log'[i] = es[k]
    OBVIOUS
  <2>1. i - Len(log) \in 1..Len(es) /\ i = Len(log) + (i - Len(log))
    BY <1>0
  <2> QED
    BY <1>0, <2>1, Emitting
<1>4. orcStatus'[t] # "none" /\ orcStatus'[t] = es[Len(es)].status
      /\ \A u \in Task : u # t => orcStatus'[u] = orcStatus[u]
  BY <1>0 DEF Typed
<1>5. Created'
  <2>1. ASSUME NEW i \in 1..Len(log'), log'[i].kind = "created"
        PROVE  log'[i].status = "builder"
    BY <1>0, <1>2, <1>3, <2>1 DEF Created
  <2>2. ASSUME NEW i \in 1..Len(log'), NEW u \in Task, Says(log'[i], u)
        PROVE  orcStatus'[u] # "none"
    <3>1. CASE i \in 1..Len(log)
      BY <1>0, <1>2, <1>4, <2>2, <3>1 DEF Created
    <3>2. CASE i \notin 1..Len(log)
      <4>1. PICK k \in 1..Len(es) : log'[i] = es[k]
        BY <1>3, <3>2
      <4>2. u = t
        BY <2>2, <4>1 DEF Says
      <4> QED
        BY <1>4, <4>2
    <3> QED
      BY <3>1, <3>2
  <2>3. ASSUME NEW i \in 1..Len(log'), NEW j \in 1..Len(log'), i < j, log'[j].kind = "created"
        PROVE  ~Says(log'[i], log'[j].task)
    <3>1. CASE j \in 1..Len(log)
      <4>1. i \in 1..Len(log)
        BY <1>0, <2>3, <3>1
      <4> QED
        BY <1>0, <1>2, <2>3, <3>1, <4>1 DEF Created
    <3>2. CASE j \notin 1..Len(log)
      <4>1. PICK k \in 1..Len(es) : j = Len(log) + k /\ log'[j] = es[k]
        BY <1>3, <3>2
      <4>2. Len(es) = 1 /\ orcStatus[t] = "none" /\ log'[j].task = t
        BY <2>3, <4>1
      <4>3. i \in 1..Len(log)
        BY <1>0, <2>3, <4>1, <4>2
      <4> QED
        BY <1>0, <1>2, <4>2, <4>3 DEF Created
    <3> QED
      BY <3>1, <3>2
  <2> QED
    BY <2>1, <2>2, <2>3 DEF Created
<1>6. ASSUME NEW u \in Task PROVE Coming(u)'
  <2>1. CASE u = t
    <3> DEFINE n == Len(log')
    <3>1. n \in 1..Len(log') /\ log'[n] = es[Len(es)]
      <4>1. n \in 1..Len(log') /\ n = Len(log) + Len(es) /\ Len(es) \in 1..Len(es)
        BY <1>0
      <4>2. log'[Len(log) + Len(es)] = es[Len(es)]
        BY <1>0, <4>1, Emitting
      <4> QED
        BY <4>1, <4>2
    <3>2. LastSaying(log', t, n)
      BY <1>0, <3>1 DEF LastSaying
    <3>3. log'[n].kind = "created" => rows'[t] \in {"none", "builder"}
      <4> SUFFICES ASSUME log'[n].kind = "created" PROVE rows[t] \in {"none", "builder"}
        OBVIOUS
      <4>1. orcStatus[t] = "none"
        BY <1>0, <3>1
      <4>2. \A i \in 1..Len(log) : ~Says(log[i], t)
        BY <1>0, <4>1 DEF Created
      <4>3. rows[t] = orcStatus[t]
        BY <1>0, <4>2 DEF Coming, LastSaying
      <4> QED
        BY <4>1, <4>3
    <3>4. log'[n].status = orcStatus'[t]
      BY <1>4, <3>1
    <3> HIDE DEF n
    <3> QED
      BY <2>1, <3>1, <3>2, <3>3, <3>4 DEF Coming
  <2>2. CASE u # t
    <3>1. \A i \in 1..Len(log') : i \notin 1..Len(log) => ~Says(log'[i], u)
      BY <1>3, <2>2 DEF Says
    <3>2. CASE rows[u] = orcStatus[u] /\ \A i \in 1..Len(log) : ~Says(log[i], u)
      BY <1>2, <1>4, <2>2, <3>1, <3>2 DEF Coming
    <3>3. ASSUME NEW i \in 1..Len(log), LastSaying(log, u, i), log[i].status = orcStatus[u],
                 log[i].kind = "created" => rows[u] \in {"none", "builder"}
          PROVE  Coming(u)'
      <4>1. i \in 1..Len(log') /\ log'[i] = log[i]
        BY <1>0, <1>2
      <4>2. LastSaying(log', u, i)
        <5>1. ASSUME NEW j \in i + 1..Len(log') PROVE ~Says(log'[j], u)
          <6>1. CASE j \in 1..Len(log)
            <7>1. j \in i + 1..Len(log)
              BY <1>0, <6>1
            <7> QED
              BY <1>2, <3>3, <6>1, <7>1 DEF LastSaying
          <6>2. CASE j \notin 1..Len(log)
            <7>1. j \in 1..Len(log')
              BY <1>0
            <7> QED
              BY <3>1, <6>2, <7>1
          <6> QED
            BY <6>1, <6>2
        <5> QED
          BY <3>3, <4>1, <5>1 DEF LastSaying
      <4> QED
        BY <1>4, <2>2, <3>3, <4>1, <4>2 DEF Coming
    <3> QED
      BY <1>0, <3>2, <3>3 DEF Coming
  <2> QED
    BY <2>1, <2>2
<1>7. Handled'
  <2>1. log # <<>> => log' # <<>> /\ Event' = Event
    BY <1>0, Emitting DEF Event
  <2> QED
    BY <1>0, <1>4, <2>1 DEF Handled
<1> QED
  BY <1>1, <1>5, <1>6, <1>7 DEF RowsInv

\* The first event is handled: the row it is about gets its status, or keeps the
\* one it has.
LEMMA HandlingRows == RowsInv /\ ApplyEvent => RowsInv'
<1> SUFFICES ASSUME RowsInv, ApplyEvent PROVE RowsInv'
  OBVIOUS
<1>1. /\ Typed /\ Created /\ Handled /\ \A t \in Task : Coming(t)
      /\ UNCHANGED <<setting, orcStatus, orcPlan, log, view>>
      /\ consumer' = [at |-> "save", children |-> {}]
  BY DEF RowsInv, ApplyEvent, orcVars
<1>2. log # <<>> /\ Event \in EventSet
  BY <1>1, HeadTailProperties DEF Handled, Typed, Event, ApplyEvent
<1>3. Len(log) \in Nat \ {0} /\ Event = log[1] /\ 1 \in 1..Len(log)
  BY <1>1, <1>2, EmptySeq DEF Typed, Event
<1>4. Created' /\ Event' = Event
  BY <1>1 DEF Created, Event
<1>5. ASSUME NEW t \in Task, UNCHANGED rows \/ rows'[t] = rows[t] PROVE Coming(t)'
  BY <1>1, <1>5 DEF Coming, LastSaying
<1>6. CASE Event.kind \in {"created", "updated"}
  <2>0. Event.task \in Task /\ Event.status \in Status
    BY <1>2, <1>6 DEF EventSet
  <2>1. PICK t \in Task : /\ t = Event.task /\ Event.status \in Status
                          /\ Says(Event, t) /\ \A u : u # t => ~Says(Event, u)
    BY <2>0, <1>6 DEF Says
  <2>2. /\ UNCHANGED outputs
        /\ \/ Event.kind = "created" /\ SaveTask(t, Event.status, OutputKnown(t))
           \/ Event.kind = "updated" /\ rows' = [rows EXCEPT ![t] = Event.status]
    BY <1>6, <2>1 DEF ApplyEvent
  <2>3. rows' = rows \/ rows' = [rows EXCEPT ![t] = Event.status]
    BY <2>2 DEF SaveTask
  <2>4. Typed' /\ \A u \in Task : u # t => rows'[u] = rows[u]
    BY <1>1, <2>1, <2>2, <2>3 DEF Typed
  <2>5. /\ rows'[t] # "none"
        /\ Event.kind = "updated" => rows'[t] = Event.status
        /\ Event.kind = "created" =>
             \/ rows' = rows
             \/ rows[t] = "none" /\ rows'[t] = Event.status
    <3>1. Event.status # "none"
      BY <2>1 DEF Status
    <3> QED
      BY <1>1, <2>1, <2>2, <3>1 DEF Typed, SaveTask
  <2>6. Coming(t)'
    <3>1. PICK i \in 1..Len(log) :
            /\ LastSaying(log, t, i) /\ log[i].status = orcStatus[t]
            /\ log[i].kind = "created" => rows[t] \in {"none", "builder"}
      BY <1>1, <1>3, <2>1 DEF Coming
    <3>2. log[i].kind = "created" => rows'[t] \in {"none", "builder"}
      <4> SUFFICES ASSUME log[i].kind = "created" PROVE rows'[t] \in {"none", "builder"}
        OBVIOUS
      <4>1. i = 1
        <5>1. log[i].task = t
          BY <3>1 DEF LastSaying, Says
        <5> QED
          BY <1>1, <1>3, <2>1, <5>1 DEF Created
      <4>2. Event.kind = "created" /\ Event.status = "builder"
        BY <1>1, <1>3, <4>1 DEF Created
      <4> QED
        BY <2>5, <3>1, <4>2
    <3>3. LastSaying(log', t, i) /\ log' = log /\ orcStatus' = orcStatus
      BY <1>1, <3>1
    <3> QED
      BY <3>1, <3>2, <3>3 DEF Coming
  <2>7. Handled'
    <3>1. Says(Event, t)' /\ \A u \in Task : u # t => ~Says(Event', u)
      BY <1>4, <2>1, <1>1
    <3> QED
      BY <1>1, <1>2, <1>4, <2>1, <2>5 DEF Handled
  <2> QED
    BY <1>1, <1>4, <1>5, <2>4, <2>6, <2>7 DEF RowsInv
<1>7. CASE Event.kind \notin {"created", "updated"}
  <2>1. UNCHANGED rows /\ (UNCHANGED outputs \/ outputs' = [outputs EXCEPT ![Event.task] = @ + 1])
    BY <1>7 DEF ApplyEvent
  <2>2. Typed'
    BY <1>1, <2>1 DEF Typed
  <2>3. Handled'
    BY <1>1, <1>2, <1>4, <1>7 DEF Handled, Says
  <2> QED
    BY <1>1, <1>4, <1>5, <2>1, <2>2, <2>3 DEF RowsInv
<1> QED
  BY <1>6, <1>7

\* An event that is handled can be forgotten: the row has its status.
LEMMA ForgettingRows == RowsInv /\ SaveLastEvent => RowsInv'
<1> SUFFICES ASSUME RowsInv, SaveLastEvent PROVE RowsInv'
  OBVIOUS
<1>1. /\ Typed /\ Created /\ Handled /\ \A t \in Task : Coming(t)
      /\ UNCHANGED <<setting, orcStatus, orcPlan, rows, outputs, view>>
      /\ log' = Tail(log) /\ consumer' = [at |-> "ready", children |-> {}]
  BY DEF RowsInv, SaveLastEvent, dbVars
<1>2. log # <<>> /\ Event = log[1]
      /\ \A t \in Task : Says(Event, t) =>
           rows[t] # "none" /\ (Event.kind = "updated" => rows[t] = Event.status)
  BY <1>1 DEF Handled, SaveLastEvent, Event, Typed
<1>3. /\ log' \in Seq(EventSet) /\ Len(log) \in Nat \ {0} /\ Len(log') = Len(log) - 1
      /\ \A i \in 1..Len(log') : log'[i] = log[i + 1]
  BY <1>1, <1>2, HeadTailProperties DEF Typed
<1>4. Typed'
  BY <1>1, <1>3 DEF Typed
<1>5. Created'
  BY <1>1, <1>3 DEF Created
<1>6. ASSUME NEW t \in Task PROVE Coming(t)'
  <2>1. CASE rows[t] = orcStatus[t] /\ \A i \in 1..Len(log) : ~Says(log[i], t)
    BY <1>1, <1>3, <2>1 DEF Coming
  <2>2. ASSUME NEW i \in 1..Len(log), LastSaying(log, t, i), log[i].status = orcStatus[t],
               log[i].kind = "created" => rows[t] \in {"none", "builder"}
        PROVE  Coming(t)'
    <3>1. CASE i = 1
      <4>1. Says(Event, t) /\ \A j \in 2..Len(log) : ~Says(log[j], t)
        BY <1>2, <2>2, <3>1 DEF LastSaying
      <4>2. rows[t] # "none" /\ (Event.kind = "updated" => rows[t] = Event.status)
        BY <1>2, <4>1
      <4>3. rows[t] = orcStatus[t]
        BY <1>1, <1>2, <2>2, <3>1, <4>1, <4>2 DEF Created, Says
      <4>4. \A j \in 1..Len(log') : ~Says(log'[j], t)
        BY <1>3, <4>1
      <4> QED
        BY <1>1, <4>3, <4>4 DEF Coming
    <3>2. CASE i # 1
      <4>1. i - 1 \in 1..Len(log') /\ log'[i - 1] = log[i]
        BY <1>3, <3>2
      <4>2. LastSaying(log', t, i - 1)
        BY <1>3, <2>2, <4>1 DEF LastSaying
      <4> QED
        BY <1>1, <2>2, <4>1, <4>2 DEF Coming
    <3> QED
      BY <3>1, <3>2
  <2> QED
    BY <1>1, <2>1, <2>2 DEF Coming
<1>7. Handled'
  BY <1>1 DEF Handled
<1> QED
  BY <1>4, <1>5, <1>6, <1>7 DEF RowsInv

\* The view writes a row that was not there, before its creation is handled.
LEMMA CommittingRows == RowsInv /\ CommitTask => RowsInv'
<1> SUFFICES ASSUME RowsInv, CommitTask PROVE RowsInv'
  OBVIOUS
<1>1. /\ Typed /\ Created /\ Handled /\ \A u \in Task : Coming(u)
      /\ UNCHANGED <<setting, orcStatus, orcPlan, log, outputs, consumer>>
      /\ SaveTask(view.task, "builder", view.resolved) /\ view' = [view EXCEPT !.at = "endDate"]
  BY DEF RowsInv, CommitTask, orcVars
<1>2. PICK t \in Task : t = view.task /\ orcStatus[t] # "none"
  BY DEF RowsInv, Handled, CommitTask
<1>3. CASE rows[t] # "none"
  <2>1. UNCHANGED rows
    BY <1>1, <1>2, <1>3 DEF SaveTask
  <2> QED
    BY <1>1, <2>1 DEF RowsInv, Typed, Created, Coming, LastSaying, Handled, Event, CommitTask
<1>4. CASE rows[t] = "none"
  <2>1. rows' = [rows EXCEPT ![t] = "builder"]
    BY <1>1, <1>2, <1>4 DEF SaveTask
  <2>2. Typed' /\ rows'[t] = "builder" /\ \A u \in Task : u # t => rows'[u] = rows[u]
    BY <1>1, <1>2, <2>1 DEF Typed
  <2>3. Coming(t)'
    BY <1>1, <1>2, <1>4, <2>2 DEF Coming, LastSaying
  <2>4. \A u \in Task : Coming(u)'
    BY <1>1, <2>2, <2>3 DEF Coming, LastSaying
  <2>5. Created'
    BY <1>1 DEF Created
  <2>6. Handled'
    BY <1>1, <1>4, <2>2 DEF Handled, Event, CommitTask
  <2> QED
    BY <2>2, <2>4, <2>5, <2>6 DEF RowsInv
<1> QED
  BY <1>3, <1>4

\* A step that leaves events and rows alone.
LEMMA KeepingRows ==
  ASSUME RowsInv, UNCHANGED <<log, orcStatus, orcPlan, rows, outputs>>,
         \/ UNCHANGED consumer
         \/ consumer'.at = "ready"
         \/ consumer'.at = "apply" /\ log # <<>>,
         \/ view'.at \notin {"read", "commit"}
         \/ view.at \in {"read", "commit"} /\ view'.task = view.task
  PROVE  RowsInv'
  BY DEF RowsInv, Typed, Created, Coming, LastSaying, Handled, Event

\* A change of the plan concerns no row.
LEMMA UpdatingPlanKeepsRows == RowsInv /\ UpdatePlan => RowsInv'
<1> SUFFICES ASSUME RowsInv, UpdatePlan PROVE RowsInv'
  OBVIOUS
<1> DEFINE es == <<PlanEvent(orcPlan')>>
<1>1. /\ Typed /\ Created /\ Handled /\ \A u \in Task : Coming(u)
      /\ orcPlan' \in [canceled : BOOLEAN, renamed : BOOLEAN] /\ Emit(es)
      /\ UNCHANGED <<orcStatus, rows, outputs, consumer, view>>
  BY DEF RowsInv, UpdatePlan, Typed, dbVars
<1>2. es \in Seq(EventSet) /\ Len(es) = 1 /\ es[1].kind = "plan"
  BY <1>1 DEF PlanEvent, EventSet
<1> HIDE DEF es
<1>3. /\ log' \in Seq(EventSet) /\ Len(log) \in Nat /\ Len(log') = Len(log) + 1
      /\ \A i \in 1..Len(log) : log'[i] = log[i]
      /\ log'[Len(log) + 1].kind = "plan"
      /\ log # <<>> => log' # <<>> /\ Event' = Event
  <2>1. /\ log' \in Seq(EventSet) /\ Len(log) \in Nat /\ Len(log') = Len(log) + Len(es)
        /\ \A i \in 1..Len(log) : log'[i] = log[i]
        /\ \A i \in 1..Len(es) : log'[Len(log) + i] = es[i]
        /\ log # <<>> => log' # <<>> /\ Head(log') = Head(log)
    BY <1>1, <1>2, Emitting
  <2>2. log'[Len(log) + 1] = es[1]
    BY <1>2, <2>1
  <2> QED
    BY <1>2, <2>1, <2>2 DEF Event
<1>4. Typed'
  BY <1>1, <1>3 DEF Typed
<1>5. \A i \in 1..Len(log') : i \in 1..Len(log) \/ log'[i].kind = "plan"
  BY <1>3
<1>6. Created'
  BY <1>1, <1>3, <1>5 DEF Created, Says
<1>7. ASSUME NEW t \in Task PROVE Coming(t)'
  <2>1. CASE rows[t] = orcStatus[t] /\ \A i \in 1..Len(log) : ~Says(log[i], t)
    BY <1>1, <1>3, <1>5, <2>1 DEF Coming, Says
  <2>2. ASSUME NEW i \in 1..Len(log), LastSaying(log, t, i), log[i].status = orcStatus[t],
               log[i].kind = "created" => rows[t] \in {"none", "builder"}
        PROVE  Coming(t)'
    <3>1. i \in 1..Len(log') /\ log'[i] = log[i]
      BY <1>3
    <3>2. \A j \in i + 1..Len(log') : j \in 1..Len(log') /\ (j \in 1..Len(log) => j \in i + 1..Len(log))
      BY <1>3
    <3>3. LastSaying(log', t, i)
      BY <1>3, <1>5, <2>2, <3>1, <3>2 DEF LastSaying, Says
    <3> QED
      BY <1>1, <2>2, <3>1, <3>3 DEF Coming
  <2> QED
    BY <1>1, <2>1, <2>2 DEF Coming
<1>8. Handled'
  BY <1>1, <1>3 DEF Handled
<1> QED
  BY <1>4, <1>6, <1>7, <1>8 DEF RowsInv

\* The orchestrator registers a task, for the view or for another organization.
LEMMA RegisteringRows ==
  ASSUME RowsInv, NEW t \in Task, RegisterInOrchestrator(t),
         UNCHANGED <<orcPlan, dbVars, consumer>>,
         view'.at \in {"read", "commit"} => view' = view \/ view'.task = t
  PROVE  RowsInv'
<1> DEFINE es == <<TaskEvent("created", t, "builder")>>
<1>1. es \in Seq(EventSet) /\ Len(es) = 1 /\ es[1] = TaskEvent("created", t, "builder")
  BY DEF TaskEvent, EventSet, Status
<1>2. Emit(es) /\ orcStatus' = [orcStatus EXCEPT ![t] = "builder"] /\ orcStatus[t] = "none"
  BY DEF RegisterInOrchestrator, CanRegister
<1> HIDE DEF es
<1>3. /\ Len(es) # 0 /\ es[Len(es)].status = "builder" /\ Says(es[Len(es)], t)
      /\ \A i \in 1..Len(es) : es[i].task = t /\ es[i].status = "builder"
  <2>1. \A i \in 1..Len(es) : i = 1
    BY <1>1
  <2> QED
    BY <1>1, <2>1 DEF TaskEvent, Says
<1>4. UNCHANGED <<rows, outputs, consumer, orcPlan>>
  BY DEF dbVars
<1> QED
  BY <1>1, <1>2, <1>3, <1>4, SayingInv

\* The orchestrator changes the status of a task it has.
LEMMA UpdatingRows ==
  ASSUME RowsInv, NEW t \in Task, NEW st \in Status,
         UNCHANGED <<orcPlan, dbVars, consumer, view>>,
         orcStatus' = [orcStatus EXCEPT ![t] = st],
         \/ Emit(<<TaskEvent("updated", t, st)>>)
         \/ Emit(<<TaskEvent("output", t, st), TaskEvent("updated", t, st)>>)
  PROVE  RowsInv'
<1>0. UNCHANGED <<rows, outputs, consumer, orcPlan, view>> /\ st # "none"
  BY DEF dbVars, Status
<1>1. CASE Emit(<<TaskEvent("updated", t, st)>>)
  <2> DEFINE es == <<TaskEvent("updated", t, st)>>
  <2>1. es \in Seq(EventSet) /\ Len(es) = 1 /\ es[1] = TaskEvent("updated", t, st)
    BY DEF TaskEvent, EventSet
  <2>2. Emit(es)
    BY <1>1
  <2> HIDE DEF es
  <2>3. \A i \in 1..Len(es) : i = 1
    BY <2>1
  <2>4. /\ Len(es) # 0 /\ es[Len(es)].status = st /\ Says(es[Len(es)], t)
        /\ \A i \in 1..Len(es) : es[i].task = t /\ es[i].kind # "created"
    BY <2>1, <2>3 DEF TaskEvent, Says
  <2> QED
    BY <1>0, <2>1, <2>2, <2>4, SayingInv
<1>2. CASE Emit(<<TaskEvent("output", t, st), TaskEvent("updated", t, st)>>)
  <2> DEFINE es == <<TaskEvent("output", t, st), TaskEvent("updated", t, st)>>
  <2>1. /\ es \in Seq(EventSet) /\ Len(es) = 2
        /\ es[1] = TaskEvent("output", t, st) /\ es[2] = TaskEvent("updated", t, st)
    BY DEF TaskEvent, EventSet
  <2>2. Emit(es)
    BY <1>2
  <2> HIDE DEF es
  <2>3. \A i \in 1..Len(es) : i = 1 \/ i = 2
    BY <2>1
  <2>4. /\ Len(es) # 0 /\ es[Len(es)].status = st /\ Says(es[Len(es)], t)
        /\ \A i \in 1..Len(es) : es[i].task = t /\ es[i].kind # "created"
    BY <2>1, <2>3 DEF TaskEvent, Says
  <2> QED
    BY <1>0, <2>1, <2>2, <2>4, SayingInv
<1> QED
  BY <1>1, <1>2

\* What a request has read is kept in a record.
ViewFields ==
  view = [at |-> view.at, plan |-> view.plan, task |-> view.task, resolved |-> view.resolved]

LEMMA ViewHasFields == Spec => []ViewFields
<1>1. Init => ViewFields
  BY DEF Init, ViewFields
<1>2. ViewFields /\ [Next]_vars => ViewFields'
  BY DEF ViewFields, Next, vars, RegisterElsewhere, Progress, Finish, UpdatePlan, ConsumerStep,
         ReadInputs, ApplyEvent, EventFails, SaveLastEvent, Crash, ReadPlan, ViewStep,
         RegisterInView, ReadOutput, CommitTask, UpdateEndDate, UpdateStatus
<1> QED
  BY <1>1, <1>2, PTL DEF Spec

LEMMA RowsInit == Init => RowsInv
  BY EmptySeq DEF Init, RowsInv, Typed, Created, Coming, Handled

\* One step.
LEMMA RowsNext ==
  ASSUME RowsInv, ViewFields, [Next]_vars
  PROVE  RowsInv'
<1>1. CASE UNCHANGED vars
  BY <1>1, KeepingRows DEF vars, orcVars, dbVars, RowsInv, Typed, Created, Coming, LastSaying, Handled, Event
<1>2. CASE ReadInputs \/ EventFails \/ Crash
  BY <1>2, KeepingRows DEF ReadInputs, EventFails, Crash, orcVars, dbVars, RowsInv, Handled
<1>3. CASE ReadPlan \/ ReadOutput \/ UpdateEndDate \/ UpdateStatus
  BY <1>3, KeepingRows DEF ViewFields, ReadPlan, ReadOutput, UpdateEndDate, UpdateStatus, orcVars, dbVars
<1>4. CASE RegisterInView
  <2>1. ASSUME NEW t \in Task, RegisterInOrchestrator(t),
               view' = [view EXCEPT !.at = "read", !.task = t]
        PROVE  RowsInv'
    <3>1. view'.task = t /\ UNCHANGED <<orcPlan, dbVars, consumer>>
      BY <1>4, <2>1 DEF RegisterInView, ViewFields
    <3> QED
      BY <2>1, <3>1, RegisteringRows
  <2>2. CASE view' = [view EXCEPT !.at = "idle"] /\ UNCHANGED <<orcStatus, log>>
    <3>1. view'.at = "idle" /\ UNCHANGED <<orcPlan, rows, outputs, consumer>>
      BY <1>4, <2>2 DEF RegisterInView, ViewFields, dbVars
    <3> QED
      BY <2>2, <3>1, KeepingRows
  <2> QED
    BY <1>4, <2>1, <2>2 DEF RegisterInView
<1>5. ASSUME NEW t \in Task, RegisterElsewhere(t) PROVE RowsInv'
  BY <1>5, RegisteringRows DEF RegisterElsewhere
<1>6. ASSUME NEW t \in Task, Progress(t) PROVE RowsInv'
  <2>1. PICK st \in Status : SetOrcStatus(t, st)
    BY <1>6 DEF Progress, Status
  <2> QED
    BY <1>6, <2>1, UpdatingRows DEF Progress, SetOrcStatus
<1>7. ASSUME NEW t \in Task, Finish(t) PROVE RowsInv'
  <2>1. UNCHANGED <<orcPlan, dbVars, consumer, view>>
    BY <1>7 DEF Finish
  <2>2. CASE /\ orcStatus' = [orcStatus EXCEPT ![t] = "done"]
             /\ Emit(<<TaskEvent("output", t, "done"), TaskEvent("updated", t, "done")>>)
    BY <2>1, <2>2, UpdatingRows DEF Status
  <2>3. CASE SetOrcStatus(t, "failed")
    BY <2>1, <2>3, UpdatingRows DEF Status, SetOrcStatus
  <2>4. CASE SetOrcStatus(t, "canceled")
    BY <2>1, <2>4, UpdatingRows DEF Status, SetOrcStatus
  <2> QED
    BY <1>7, <2>2, <2>3, <2>4 DEF Finish
<1> QED
  BY <1>1, <1>2, <1>3, <1>4, <1>5, <1>6, <1>7, UpdatingPlanKeepsRows, HandlingRows,
     ForgettingRows, CommittingRows
  DEF Next, ConsumerStep, ViewStep

LEMMA RowsInvariant == Spec => []RowsInv
<1>1. RowsInv /\ ViewFields /\ [Next]_vars => RowsInv'
  BY RowsNext
<1> QED
  BY RowsInit, ViewHasFields, <1>1, PTL DEF Spec

LEMMA RowsInvSynced == RowsInv => RowsSynced
<1> SUFFICES ASSUME RowsInv, log = <<>> PROVE rows = orcStatus
  BY DEF RowsSynced, CaughtUp
<1>1. ASSUME NEW t \in Task PROVE rows[t] = orcStatus[t]
  <2>1. Coming(t) /\ ~\E i \in 1..Len(log) : TRUE
    BY EmptySeq DEF RowsInv
  <2> QED
    BY <2>1 DEF Coming
<1> QED
  BY <1>1 DEF RowsInv, Typed

\* Once the events are handled, the rows of the tasks are what the orchestrator
\* has: whoever inserted them, whatever was read before another commit, and
\* however often the consumer has died between a commit and the saving of its id.
THEOREM RowsFollowTasks == Spec => []RowsSynced
  BY RowsInvariant, RowsInvSynced, PTL
-----------------------------------------------------------------------------
(* The row of the plan, when its tasks are created elsewhere.               *)

PlanRow == [canceled : BOOLEAN, renamed : BOOLEAN, ended : BOOLEAN, status : PlanStatus]

\* The row of the plan is that of the rows of the tasks.
UpToDate ==
  /\ plan.status = PlanStatusOf(plan.canceled, rows)
  /\ plan.ended = EndedAfter(plan.canceled, rows, FALSE)

\* What the plan's row has of p.
SaysOfPlan(p) == plan.canceled = p.canceled /\ plan.renamed = p.renamed

LastPlanEvent(events, i) ==
  events[i].kind = "plan" /\ \A j \in i + 1..Len(events) : events[j].kind # "plan"

\* The plan's row says what the orchestrator says, or the last event about the
\* plan, which is to come, does.
PlanComing ==
  \/ SaysOfPlan(orcPlan) /\ \A i \in 1..Len(log) : log[i].kind # "plan"
  \/ \E i \in 1..Len(log) : LastPlanEvent(log, i) /\ log[i].plan = orcPlan

\* A plan that is canceled stays canceled, in the row as well.
CanceledForGood ==
  /\ \A i \in 1..Len(log) : log[i].kind = "plan" =>
       /\ plan.canceled => log[i].plan.canceled
       /\ log[i].plan.canceled => orcPlan.canceled
  /\ \A i, j \in 1..Len(log) :
       i < j /\ log[i].kind = "plan" /\ log[j].kind = "plan" =>
         (log[i].plan.canceled => log[j].plan.canceled)

PlanHandled == consumer.at = "save" /\ Event.kind = "plan" => SaysOfPlan(Event.plan)

PlanInv ==
  ~setting.views =>
    /\ plan \in PlanRow /\ \A t \in Task : rows[t] \in Status \union {"none"}
    /\ UpToDate /\ PlanComing /\ CanceledForGood /\ PlanHandled

\* What the plan's end date depends on: it is kept only if a task has ended.
LEMMA EndedFromRows ==
  ASSUME NEW c \in BOOLEAN, NEW e \in BOOLEAN, NEW st,
         \A t \in Task : st[t] \in Status \union {"none"},
         e => c \/ \E t \in Task : st[t] # "none"
  PROVE  /\ EndedAfter(c, st, e) = EndedAfter(c, st, FALSE)
         /\ EndedAfter(c, st, FALSE) \in BOOLEAN
         /\ EndedAfter(c, st, FALSE) => c \/ \E t \in Task : st[t] # "none"
<1> DEFINE bad == \E t \in Task : st[t] \in {"failed", "canceled"}
           open == \E t \in Task : st[t] \in Status \ Ended
           ended == \E t \in Task : st[t] \in Ended
<1>1. \A d : EndedAfter(c, st, d) = (c \/ ((bad \/ ~open) /\ (d \/ ended)))
  BY DEF EndedAfter
<1>2. (\E t \in Task : st[t] # "none") => open \/ ended
  BY DEF Status, Ended
<1>3. ended => \E t \in Task : st[t] # "none"
  BY DEF Ended
<1>4. bad => ended
  BY DEF Ended
<1> HIDE DEF bad, open, ended
<1>5. (c \/ ((bad \/ ~open) /\ (e \/ ended))) = (c \/ ((bad \/ ~open) /\ (FALSE \/ ended)))
  BY <1>2, <1>4
<1> QED
  BY <1>1, <1>3, <1>5

LEMMA StatusOfPlan ==
  ASSUME NEW c \in BOOLEAN, NEW st
  PROVE  PlanStatusOf(c, st) \in PlanStatus
<1> DEFINE saved == {t \in Task : st[t] # "none"}
           with(s) == {t \in saved : st[t] = s}
<1>1. CASE c \/ with("canceled") # {}
  BY <1>1 DEF PlanStatusOf, PlanStatus
<1>2. CASE ~c /\ with("canceled") = {}
  <2>1. CASE with("builder") = saved
    BY <1>2, <2>1 DEF PlanStatusOf, PlanStatus
  <2>2. CASE with("builder") # saved /\ with("done") = saved
    BY <1>2, <2>2 DEF PlanStatusOf, PlanStatus
  <2>3. CASE with("builder") # saved /\ with("done") # saved
    BY <1>2, <2>3 DEF PlanStatusOf, PlanStatus
  <2> QED
    BY <2>1, <2>2, <2>3
<1> QED
  BY <1>1, <1>2

\* The handlers leave the row as the tasks' rows and its own fields have it.
LEMMA RecomputedIsUpToDate ==
  ASSUME NEW p \in PlanRow,
         \A t \in Task : rows'[t] \in Status \union {"none"},
         p.ended => p.canceled \/ \E t \in Task : rows'[t] # "none",
         plan' = Recomputed(p, rows')
  PROVE  /\ plan' \in PlanRow /\ UpToDate'
         /\ plan'.canceled = p.canceled /\ plan'.renamed = p.renamed
<1> DEFINE st == rows'
           end == EndedAfter(p.canceled, st, p.ended)
           status == PlanStatusOf(p.canceled, st)
<1>1. p.canceled \in BOOLEAN /\ p.ended \in BOOLEAN
  BY DEF PlanRow
<1>2. end = EndedAfter(p.canceled, st, FALSE) /\ end \in BOOLEAN
  BY <1>1, EndedFromRows
<1>3. status \in PlanStatus
  BY <1>1, StatusOfPlan
<1>4. plan' = [p EXCEPT !.ended = end, !.status = status]
  BY DEF Recomputed
<1> HIDE DEF end, status
<1>5. /\ plan' \in PlanRow /\ plan'.canceled = p.canceled /\ plan'.renamed = p.renamed
      /\ plan'.ended = end /\ plan'.status = status
  BY <1>2, <1>3, <1>4 DEF PlanRow
<1>6. UpToDate'
  BY <1>2, <1>5 DEF UpToDate, status
<1> QED
  BY <1>5, <1>6

\* Events that are not about the plan.
LEMMA OtherEvents ==
  ASSUME PlanInv, Typed, NEW es \in Seq(EventSet), Emit(es),
         \A i \in 1..Len(es) : es[i].kind # "plan",
         consumer.at = "save" => log # <<>>,
         UNCHANGED <<setting, orcPlan, dbVars, consumer>>
  PROVE  PlanInv'
<1> SUFFICES ASSUME ~setting.views PROVE PlanInv'
  BY DEF PlanInv
<1> USE DEF dbVars
<1>0. /\ plan \in PlanRow /\ \A t \in Task : rows[t] \in Status \union {"none"}
      /\ UpToDate /\ PlanComing /\ CanceledForGood /\ PlanHandled
      /\ Len(log) \in Nat /\ Len(es) \in Nat /\ Len(log') = Len(log) + Len(es)
  BY Emitting DEF PlanInv
<1>1. \A i \in 1..Len(log) : log'[i] = log[i] /\ i \in 1..Len(log')
  BY <1>0, Emitting
<1>2. ASSUME NEW i \in 1..Len(log'), i \notin 1..Len(log) PROVE log'[i].kind # "plan"
  <2> DEFINE k == i - Len(log)
  <2>1. k \in 1..Len(es) /\ i = Len(log) + k
    BY <1>0, <1>2
  <2> HIDE DEF k
  <2>2. log'[i] = es[k]
    BY <2>1, Emitting
  <2> QED
    BY <2>1, <2>2
<1>3. PlanComing'
  <2>1. CASE SaysOfPlan(orcPlan) /\ \A i \in 1..Len(log) : log[i].kind # "plan"
    <3>1. SaysOfPlan(orcPlan)' /\ \A i \in 1..Len(log') : log'[i].kind # "plan"
      BY <1>1, <1>2, <2>1 DEF SaysOfPlan
    <3> QED
      BY <3>1 DEF PlanComing
  <2>2. ASSUME NEW i \in 1..Len(log), LastPlanEvent(log, i), log[i].plan = orcPlan
        PROVE  PlanComing'
    <3>1. ASSUME NEW j \in i + 1..Len(log') PROVE log'[j].kind # "plan"
      <4>1. j \in 1..Len(log') /\ (j \in 1..Len(log) => j \in i + 1..Len(log))
        BY <1>0
      <4> QED
        BY <1>1, <1>2, <2>2, <4>1 DEF LastPlanEvent
    <3>2. LastPlanEvent(log', i) /\ i \in 1..Len(log') /\ log'[i].plan = orcPlan'
      BY <1>1, <2>2, <3>1 DEF LastPlanEvent
    <3> QED
      BY <3>2 DEF PlanComing
  <2> QED
    BY <1>0, <2>1, <2>2 DEF PlanComing
<1>4. CanceledForGood'
  <2>1. \A i \in 1..Len(log') : log'[i].kind = "plan" => i \in 1..Len(log) /\ log'[i] = log[i]
    BY <1>1, <1>2
  <2> QED
    BY <1>0, <2>1 DEF CanceledForGood
<1>5. PlanHandled'
  BY <1>0, Emitting DEF PlanHandled, Event, SaysOfPlan
<1>6. plan' \in PlanRow /\ UpToDate'
  BY <1>0 DEF UpToDate
<1> QED
  BY <1>0, <1>3, <1>4, <1>5, <1>6 DEF PlanInv

\* The plan is canceled or renamed.
LEMMA UpdatingPlan ==
  ASSUME PlanInv, Typed, consumer.at = "save" => log # <<>>, UpdatePlan
  PROVE  PlanInv'
<1> SUFFICES ASSUME ~setting.views PROVE PlanInv'
  BY DEF PlanInv, UpdatePlan
<1> DEFINE es == <<PlanEvent(orcPlan')>>
           n == Len(log) + 1
<1>1. /\ orcPlan' \in [canceled : BOOLEAN, renamed : BOOLEAN] /\ Emit(es)
      /\ orcPlan.canceled => orcPlan'.canceled
      /\ UNCHANGED <<setting, rows, plan, consumer>>
  BY DEF UpdatePlan, Typed, dbVars
<1>2. es \in Seq(EventSet) /\ Len(es) = 1 /\ es[1].kind = "plan" /\ es[1].plan = orcPlan'
  BY <1>1 DEF PlanEvent, EventSet
<1> HIDE DEF es
<1>3. /\ Len(log) \in Nat /\ Len(log') = n /\ n \in 1..Len(log')
      /\ \A i \in 1..Len(log) : log'[i] = log[i]
      /\ log'[n] = es[1]
      /\ log # <<>> => Event' = Event
  <2>1. /\ Len(log) \in Nat /\ Len(log') = Len(log) + Len(es)
        /\ \A i \in 1..Len(log) : log'[i] = log[i]
        /\ \A i \in 1..Len(es) : log'[Len(log) + i] = es[i]
        /\ log # <<>> => Head(log') = Head(log)
    BY <1>1, <1>2, Emitting
  <2> QED
    BY <1>2, <2>1 DEF Event
<1>4. \A i \in 1..Len(log') : i = n \/ (i \in 1..Len(log) /\ i < n)
  BY <1>3
<1> HIDE DEF n
<1>5. /\ plan \in PlanRow /\ \A t \in Task : rows[t] \in Status \union {"none"}
      /\ UpToDate /\ PlanComing /\ CanceledForGood /\ PlanHandled
  BY DEF PlanInv
<1>6. PlanComing'
  <2>1. \A j \in n + 1..Len(log') : FALSE
    BY <1>3
  <2>2. LastPlanEvent(log', n) /\ log'[n].plan = orcPlan'
    BY <1>2, <1>3, <2>1 DEF LastPlanEvent
  <2> QED
    BY <1>3, <2>2 DEF PlanComing
<1>7. plan.canceled => orcPlan.canceled
  <2>1. CASE SaysOfPlan(orcPlan)
    BY <2>1 DEF SaysOfPlan
  <2>2. ASSUME NEW i \in 1..Len(log), log[i].kind = "plan"
        PROVE  plan.canceled => orcPlan.canceled
    BY <1>5, <2>2 DEF CanceledForGood
  <2> QED
    BY <1>5, <2>1, <2>2 DEF PlanComing, LastPlanEvent
<1>8. CanceledForGood'
  <2>1. ASSUME NEW i \in 1..Len(log'), log'[i].kind = "plan"
        PROVE  /\ plan'.canceled => log'[i].plan.canceled
               /\ log'[i].plan.canceled => orcPlan'.canceled
    <3>1. CASE i = n
      BY <1>1, <1>2, <1>3, <1>7, <3>1
    <3>2. CASE i # n
      <4>1. i \in 1..Len(log) /\ log'[i] = log[i]
        BY <1>3, <1>4, <3>2
      <4> QED
        BY <1>1, <1>5, <2>1, <4>1 DEF CanceledForGood
    <3> QED
      BY <3>1, <3>2
  <2>2. ASSUME NEW i \in 1..Len(log'), NEW j \in 1..Len(log'), i < j,
               log'[i].kind = "plan", log'[j].kind = "plan"
        PROVE  log'[i].plan.canceled => log'[j].plan.canceled
    <3>1. CASE j = n
      BY <1>2, <1>3, <2>1, <2>2, <3>1
    <3>2. CASE j # n
      <4>1. j \in 1..Len(log) /\ i \in 1..Len(log)
        BY <1>3, <1>4, <2>2, <3>2
      <4> QED
        BY <1>3, <1>5, <2>2, <4>1 DEF CanceledForGood
    <3> QED
      BY <3>1, <3>2
  <2> QED
    BY <2>1, <2>2 DEF CanceledForGood
<1>9. PlanHandled' /\ UpToDate' /\ plan' \in PlanRow
  BY <1>1, <1>3, <1>5 DEF PlanHandled, SaysOfPlan, UpToDate
<1> QED
  BY <1>1, <1>5, <1>6, <1>8, <1>9 DEF PlanInv

\* The handler of the first event recomputes the row, unless the event is about
\* an output.
LEMMA HandlingPlan ==
  ASSUME PlanInv, RowsInv, ApplyEvent
  PROVE  PlanInv'
<1> SUFFICES ASSUME ~setting.views PROVE PlanInv'
  BY DEF PlanInv, ApplyEvent
<1>1. /\ Typed /\ UNCHANGED <<setting, orcStatus, orcPlan, log>>
      /\ consumer' = [at |-> "save", children |-> {}]
      /\ plan \in PlanRow /\ \A t \in Task : rows[t] \in Status \union {"none"}
      /\ UpToDate /\ PlanComing /\ CanceledForGood /\ PlanHandled
  BY DEF RowsInv, PlanInv, ApplyEvent, orcVars
<1>2. log # <<>> /\ Event \in EventSet /\ Event' = Event
  BY <1>1, HeadTailProperties DEF RowsInv, Handled, Typed, Event, ApplyEvent
<1>3. Len(log) \in Nat \ {0} /\ Event = log[1] /\ 1 \in 1..Len(log)
  BY <1>1, <1>2, EmptySeq DEF Typed, Event
<1>4. plan.ended => plan.canceled \/ \E t \in Task : rows[t] # "none"
  <2>1. plan.canceled \in BOOLEAN
    BY <1>1 DEF PlanRow
  <2>2. EndedAfter(plan.canceled, rows, FALSE) => plan.canceled \/ \E t \in Task : rows[t] # "none"
    BY <1>1, <2>1, EndedFromRows
  <2> QED
    BY <1>1, <2>2 DEF UpToDate
<1>5. CASE Event.kind \in {"created", "updated"}
  <2>1. Event.task \in Task /\ Event.status \in Status
    BY <1>2, <1>5 DEF EventSet
  <2>2. plan' = Recomputed(plan, rows')
    BY <1>5 DEF ApplyEvent
  <2>3. rows' = rows \/ rows' = [rows EXCEPT ![Event.task] = Event.status]
    BY <1>5 DEF ApplyEvent, SaveTask
  <2>4. \A t \in Task : /\ rows'[t] \in Status \union {"none"}
                        /\ rows[t] # "none" => rows'[t] # "none"
    BY <1>1, <2>1, <2>3 DEF Typed, Status
  <2>5. plan.ended => plan.canceled \/ \E t \in Task : rows'[t] # "none"
    BY <1>4, <2>4
  <2>6. plan' \in PlanRow /\ UpToDate' /\ plan'.canceled = plan.canceled /\ plan'.renamed = plan.renamed
    BY <1>1, <2>2, <2>4, <2>5, RecomputedIsUpToDate
  <2>7. PlanComing' /\ CanceledForGood' /\ PlanHandled'
    <3>1. PlanComing'
      BY <1>1, <2>6 DEF PlanComing, SaysOfPlan, LastPlanEvent
    <3>2. CanceledForGood'
      BY <1>1, <2>6 DEF CanceledForGood
    <3> QED
      BY <1>2, <1>5, <3>1, <3>2 DEF PlanHandled
  <2> QED
    BY <2>4, <2>6, <2>7 DEF PlanInv
<1>6. CASE Event.kind = "plan"
  <2> DEFINE p == [plan EXCEPT !.canceled = Event.plan.canceled, !.renamed = Event.plan.renamed]
  <2>1. Event.plan \in [canceled : BOOLEAN, renamed : BOOLEAN]
    BY <1>2, <1>6 DEF EventSet
  <2>2. /\ p \in PlanRow /\ p.canceled = Event.plan.canceled /\ p.renamed = Event.plan.renamed
        /\ p.ended = plan.ended
    BY <1>1, <2>1 DEF PlanRow
  <2>3. plan' = Recomputed(p, rows') /\ rows' = rows
    BY <1>6 DEF ApplyEvent
  <2> HIDE DEF p
  <2>4. plan.canceled => Event.plan.canceled
    BY <1>1, <1>3, <1>6 DEF CanceledForGood
  <2>5. p.ended => p.canceled \/ \E t \in Task : rows'[t] # "none"
    BY <1>4, <2>2, <2>3, <2>4
  <2>6. plan' \in PlanRow /\ UpToDate' /\ plan'.canceled = p.canceled /\ plan'.renamed = p.renamed
    BY <1>1, <2>2, <2>3, <2>5, RecomputedIsUpToDate
  <2>7. PlanComing'
    <3>1. PICK i \in 1..Len(log) : LastPlanEvent(log, i) /\ log[i].plan = orcPlan
      BY <1>1, <1>3, <1>6 DEF PlanComing
    <3>2. LastPlanEvent(log', i) /\ log'[i].plan = orcPlan' /\ i \in 1..Len(log')
      BY <1>1, <3>1
    <3> QED
      BY <3>2 DEF PlanComing
  <2>8. CanceledForGood'
    <3>1. \A i \in 1..Len(log) : i = 1 \/ 1 < i
      BY <1>3
    <3> QED
      BY <1>1, <1>3, <1>6, <2>2, <2>6, <3>1 DEF CanceledForGood
  <2>9. PlanHandled'
    BY <1>2, <2>2, <2>6 DEF PlanHandled, SaysOfPlan
  <2> QED
    BY <1>1, <2>3, <2>6, <2>7, <2>8, <2>9 DEF PlanInv
<1>7. CASE Event.kind = "output"
  <2>1. UNCHANGED <<rows, plan>>
    BY <1>7 DEF ApplyEvent
  <2> QED
    BY <1>1, <1>2, <1>7, <2>1
    DEF PlanInv, UpToDate, PlanComing, SaysOfPlan, LastPlanEvent, CanceledForGood, PlanHandled
<1> QED
  BY <1>2, <1>5, <1>6, <1>7 DEF ApplyEvent

\* An event about the plan that is handled can be forgotten.
LEMMA ForgettingPlan ==
  ASSUME PlanInv, RowsInv, SaveLastEvent
  PROVE  PlanInv'
<1> SUFFICES ASSUME ~setting.views PROVE PlanInv'
  BY DEF PlanInv, SaveLastEvent
<1>1. /\ Typed /\ UNCHANGED <<setting, orcStatus, orcPlan, rows, plan>>
      /\ log' = Tail(log) /\ consumer' = [at |-> "ready", children |-> {}]
      /\ plan \in PlanRow /\ \A t \in Task : rows[t] \in Status \union {"none"}
      /\ UpToDate /\ PlanComing /\ CanceledForGood
  BY DEF RowsInv, PlanInv, SaveLastEvent, dbVars
<1>2. log # <<>> /\ Event = log[1] /\ (Event.kind = "plan" => SaysOfPlan(Event.plan))
  BY <1>1 DEF RowsInv, Handled, SaveLastEvent, Event, Typed, PlanInv, PlanHandled
<1>3. /\ Len(log) \in Nat \ {0} /\ Len(log') = Len(log) - 1
      /\ \A i \in 1..Len(log') : log'[i] = log[i + 1]
  BY <1>1, <1>2, HeadTailProperties DEF Typed
<1>4. \A i \in 1..Len(log') : i + 1 \in 1..Len(log)
  BY <1>3
<1>5. PlanComing'
  <2>1. CASE SaysOfPlan(orcPlan) /\ \A i \in 1..Len(log) : log[i].kind # "plan"
    <3>1. SaysOfPlan(orcPlan)' /\ \A i \in 1..Len(log') : log'[i].kind # "plan"
      BY <1>1, <1>3, <1>4, <2>1 DEF SaysOfPlan
    <3> QED
      BY <3>1 DEF PlanComing
  <2>2. ASSUME NEW i \in 1..Len(log), LastPlanEvent(log, i), log[i].plan = orcPlan
        PROVE  PlanComing'
    <3>1. CASE i = 1
      <4>1. SaysOfPlan(orcPlan)'
        BY <1>1, <1>2, <2>2, <3>1 DEF SaysOfPlan, LastPlanEvent
      <4>2. ASSUME NEW j \in 1..Len(log') PROVE log'[j].kind # "plan"
        <5>1. j + 1 \in i + 1..Len(log)
          BY <1>3, <3>1
        <5> QED
          BY <1>3, <2>2, <5>1 DEF LastPlanEvent
      <4> QED
        BY <4>1, <4>2 DEF PlanComing
    <3>2. CASE i # 1
      <4>1. i - 1 \in 1..Len(log') /\ log'[i - 1] = log[i]
        BY <1>3, <3>2
      <4>2. ASSUME NEW j \in (i - 1) + 1..Len(log') PROVE log'[j].kind # "plan"
        <5>1. j \in 1..Len(log') /\ j + 1 \in i + 1..Len(log)
          BY <1>3, <3>2
        <5> QED
          BY <1>3, <2>2, <5>1 DEF LastPlanEvent
      <4>3. LastPlanEvent(log', i - 1) /\ log'[i - 1].plan = orcPlan'
        BY <1>1, <2>2, <4>1, <4>2 DEF LastPlanEvent
      <4> QED
        BY <4>1, <4>3 DEF PlanComing
    <3> QED
      BY <3>1, <3>2
  <2> QED
    BY <1>1, <2>1, <2>2 DEF PlanComing
<1>6. CanceledForGood'
  <2>1. \A i, j \in 1..Len(log') : i < j => i + 1 < j + 1
    OBVIOUS
  <2> QED
    BY <1>1, <1>3, <1>4, <2>1 DEF CanceledForGood
<1>7. PlanHandled' /\ UpToDate'
  BY <1>1 DEF PlanHandled, UpToDate
<1> QED
  BY <1>1, <1>5, <1>6, <1>7 DEF PlanInv

\* A step that leaves the events and the rows alone and handles no event.
LEMMA KeepingPlan ==
  ASSUME PlanInv, UNCHANGED <<setting, log, orcPlan, rows, plan>>,
         UNCHANGED consumer \/ consumer'.at # "save"
  PROVE  PlanInv'
<1>1. (UpToDate => UpToDate') /\ (PlanHandled => PlanHandled')
  BY DEF UpToDate, PlanHandled, SaysOfPlan, Event
<1>2. (PlanComing => PlanComing') /\ (CanceledForGood => CanceledForGood')
  BY DEF PlanComing, SaysOfPlan, LastPlanEvent, CanceledForGood
<1> QED
  BY <1>1, <1>2 DEF PlanInv

LEMMA PlanInit == Init => PlanInv
<1> SUFFICES ASSUME Init PROVE PlanInv
  OBVIOUS
<1>1. plan \in PlanRow /\ \A t \in Task : rows[t] = "none"
  BY DEF Init, PlanRow, PlanStatus
<1>2. PlanStatusOf(FALSE, rows) = "CREATED"
  <2>1. {t \in Task : rows[t] # "none"} = {}
    BY <1>1
  <2> QED
    BY <2>1 DEF PlanStatusOf
<1>3. EndedAfter(FALSE, rows, FALSE) = FALSE
  BY <1>1 DEF EndedAfter, Ended
<1>4. plan.canceled = FALSE /\ plan.ended = FALSE /\ plan.status = "CREATED"
  BY DEF Init
<1>5. UpToDate
  BY <1>2, <1>3, <1>4 DEF UpToDate
<1>6. \A i \in 1..Len(log) : FALSE
  BY EmptySeq DEF Init
<1>7. PlanComing /\ CanceledForGood /\ PlanHandled
  BY <1>6 DEF Init, PlanComing, SaysOfPlan, CanceledForGood, PlanHandled
<1> QED
  BY <1>1, <1>5, <1>7 DEF PlanInv

\* One step.
LEMMA PlanNext ==
  ASSUME PlanInv, Inv, RowsInv, [Next]_vars
  PROVE  PlanInv'
<1> SUFFICES ASSUME ~setting.views PROVE PlanInv'
  <2>1. setting' = setting
    BY DEF vars, Next, RegisterElsewhere, Progress, Finish, UpdatePlan, ConsumerStep,
           ReadInputs, ApplyEvent, EventFails, SaveLastEvent, Crash, ReadPlan, ViewStep,
           RegisterInView, ReadOutput, CommitTask, UpdateEndDate, UpdateStatus
  <2> QED
    BY <2>1 DEF PlanInv
<1>0. Typed /\ view.at = "idle" /\ (consumer.at = "save" => log # <<>>)
  BY DEF Inv, RowsInv, Handled
<1>1. CASE UNCHANGED vars
  BY <1>1, KeepingPlan DEF vars, orcVars, dbVars
<1>2. CASE ReadInputs \/ EventFails \/ Crash
  BY <1>2, KeepingPlan DEF ReadInputs, EventFails, Crash, orcVars, dbVars
<1>3. ASSUME NEW t \in Task, RegisterElsewhere(t) PROVE PlanInv'
  <2> DEFINE es == <<TaskEvent("created", t, "builder")>>
  <2>1. /\ es \in Seq(EventSet) /\ Emit(es) /\ UNCHANGED <<setting, orcPlan, dbVars, consumer>>
        /\ \A i \in 1..Len(es) : es[i].kind # "plan"
    BY <1>3 DEF RegisterElsewhere, RegisterInOrchestrator, TaskEvent, EventSet, Status
  <2> HIDE DEF es
  <2> QED
    BY <1>0, <2>1, OtherEvents
<1>4. ASSUME NEW t \in Task, NEW st \in Status, SetOrcStatus(t, st),
             UNCHANGED <<setting, orcPlan, dbVars, consumer>>
      PROVE  PlanInv'
  <2> DEFINE es == <<TaskEvent("updated", t, st)>>
  <2>1. es \in Seq(EventSet) /\ Emit(es) /\ \A i \in 1..Len(es) : es[i].kind # "plan"
    BY <1>4 DEF SetOrcStatus, TaskEvent, EventSet
  <2> HIDE DEF es
  <2> QED
    BY <1>0, <1>4, <2>1, OtherEvents
<1>5. ASSUME NEW t \in Task, Progress(t) PROVE PlanInv'
  <2>1. UNCHANGED <<setting, orcPlan, dbVars, consumer>> /\ \E st \in Status : SetOrcStatus(t, st)
    BY <1>5 DEF Progress, Status
  <2> QED
    BY <1>4, <2>1
<1>6. ASSUME NEW t \in Task, Finish(t) PROVE PlanInv'
  <2>1. UNCHANGED <<setting, orcPlan, dbVars, consumer>>
    BY <1>6 DEF Finish
  <2>2. CASE Emit(<<TaskEvent("output", t, "done"), TaskEvent("updated", t, "done")>>)
    <3> DEFINE es == <<TaskEvent("output", t, "done"), TaskEvent("updated", t, "done")>>
    <3>1. /\ es \in Seq(EventSet) /\ Len(es) = 2
          /\ es[1].kind # "plan" /\ es[2].kind # "plan"
      BY DEF TaskEvent, EventSet, Status
    <3>2. Emit(es)
      BY <2>2
    <3> HIDE DEF es
    <3>3. \A i \in 1..Len(es) : i = 1 \/ i = 2
      BY <3>1
    <3> QED
      BY <1>0, <2>1, <3>1, <3>2, <3>3, OtherEvents
  <2>3. CASE SetOrcStatus(t, "failed") \/ SetOrcStatus(t, "canceled")
    BY <1>4, <2>1, <2>3 DEF Status
  <2> QED
    BY <1>6, <2>2, <2>3 DEF Finish
<1>7. CASE UpdatePlan
  BY <1>0, <1>7, UpdatingPlan
<1>8. CASE ApplyEvent
  BY <1>8, HandlingPlan
<1>9. CASE SaveLastEvent
  BY <1>9, ForgettingPlan
<1>10. ~ReadPlan /\ ~ViewStep
  BY <1>0 DEF ReadPlan, ViewStep, RegisterInView, ReadOutput, CommitTask, UpdateEndDate, UpdateStatus
<1> QED
  BY <1>1, <1>2, <1>3, <1>5, <1>6, <1>7, <1>8, <1>9, <1>10 DEF Next, ConsumerStep

LEMMA PlanInvSynced ==
  ASSUME PlanInv, RowsSynced
  PROVE  PlanSynced
<1> SUFFICES ASSUME CaughtUp, ~setting.views
             PROVE  /\ plan.canceled = orcPlan.canceled /\ plan.renamed = orcPlan.renamed
                    /\ plan.status = PlanStatusOf(orcPlan.canceled, orcStatus)
                    /\ plan.ended = EndedAfter(orcPlan.canceled, orcStatus, FALSE)
  BY DEF PlanSynced
<1>1. rows = orcStatus /\ \A i \in 1..Len(log) : FALSE
  BY EmptySeq DEF RowsSynced, CaughtUp
<1>2. UpToDate /\ PlanComing
  BY DEF PlanInv
<1>3. SaysOfPlan(orcPlan)
  BY <1>1, <1>2 DEF PlanComing
<1> QED
  BY <1>1, <1>2, <1>3 DEF UpToDate, SaysOfPlan

\* Once the events are handled the plan's row has the status and the end date of
\* the orchestrator's tasks: the last recomputation saw the last update, whatever
\* was handled twice, and no end date outlives the reason for it.
THEOREM PlanFollows == Spec => []PlanSynced
<1>1. PlanInv /\ Inv /\ RowsInv /\ [Next]_vars => PlanInv'
  BY PlanNext
<1>2. Spec => []PlanInv
  BY PlanInit, EventsInvariant, RowsInvariant, <1>1, PTL DEF Spec
<1>3. PlanInv /\ RowsSynced => PlanSynced
  BY PlanInvSynced
<1> QED
  BY <1>2, <1>3, RowsFollowTasks, PTL
=============================================================================
