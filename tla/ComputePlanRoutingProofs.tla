----------------------- MODULE ComputePlanRoutingProofs -----------------------
(***************************************************************************)
(* A plan that does not grow is at one worker until it is released there:  *)
(* for any workers, tasks, retries, failures and cancellation.             *)
(***************************************************************************)
EXTENDS ComputePlanRouting, SequenceTheorems, TLAPS

\* What a worker and the reactor have when they are at work.
Placed ==
  /\ \A w \in Worker : pc[w] \in InTask => job[w] \in Task
  /\ reactor.at # "idle" => reactor.task \in Task
  /\ reactor.at \in {"send", "sendTeardown"} => reactor.worker \in Worker

\* Before the plan is registered there is nothing to do.
Fresh ==
  (\A t \in Task : status[t] = "none") =>
    /\ events = <<>> /\ reactor = Idle /\ reports = {}
    /\ \A w \in Worker : tasks[w] = {} /\ teardowns[w] = 0 /\ pc[w] = "idle"

\* A plan that does not grow is over for good.
Dead == ~PlanRunning /\ \E t \in Task : status[t] # "none"

TornWhenDead ==
  \A w \in Worker : pc[w] \in {"tdRelease", "tdPods", "tdDirs"} => Dead

\* Everything of the plan is at the worker of its mapping ...
AllHome ==
  /\ \A w \in Worker :
       tasks[w] # {} \/ teardowns[w] > 0 \/ pc[w] # "idle" => mapping = w
  /\ reactor.at \in {"send", "sendTeardown"} => mapping = reactor.worker
  /\ pod \in {mapping, NoWorker}

\* ... until that worker releases it: then no task runs any more, and the pod is
\* about to be deleted, unless the teardown was cut short.
Over ==
  /\ Dead
  /\ \A w \in Worker : pc[w] \notin {"pod", "shares", "running"}
  /\ pod # NoWorker => pc[pod] = "tdPods" \/ pod \in cut
  /\ (\E w \in Worker : pc[w] = "tdDirs") => pod = NoWorker

\* What the orchestrator emits for the reactor.
EventSet == [task : Task, status : {"todo"} \union Final]

Typed == TypeOK /\ Placed

Homed == ~plan.grows => TornWhenDead /\ (AllHome \/ Over)

Inv == Typed /\ Fresh /\ Homed

-----------------------------------------------------------------------------
LEMMA TypedInit == Init => Typed
<1> SUFFICES ASSUME Init PROVE Typed
  OBVIOUS
<1>1. status \in [Task -> {"none", "waiting"} \union Active \union Final] /\ events \in Seq(EventSet)
  BY EmptySeq DEF Init
<1>2. /\ tasks \in [Worker -> SUBSET Task] /\ teardowns \in [Worker -> Nat]
      /\ retries \in [Task -> 0..MaxRetries]
  BY RoutingAssumption DEF Init
<1>3. job \in [Worker -> Task \union {NoTask}] /\ pc \in [Worker -> Pc]
  BY DEF Init, Pc
<1> QED
  BY RoutingAssumption, <1>1, <1>2, <1>3 DEF Init, Typed, TypeOK, Placed, Idle, InTask, EventSet

\* What the orchestrator stores and emits.
LEMMA SetStatusTyped ==
  ASSUME Typed, NEW t \in Task, NEW st \in {"todo", "doing"} \union Final, SetStatus(t, st)
  PROVE  /\ status' \in [Task -> {"none", "waiting"} \union Active \union Final]
         /\ events' \in Seq(EventSet)
<1>1. status \in [Task -> {"none", "waiting"} \union Active \union Final] /\ events \in Seq(EventSet)
  BY DEF Typed, TypeOK, EventSet
<1>2. st # "doing" => [task |-> t, status |-> st] \in EventSet
  BY DEF EventSet
<1> QED
  BY <1>1, <1>2, AppendProperties DEF SetStatus, Active

\* What is put into a queue.
LEMMA Queued ==
  ASSUME tasks \in [Worker -> SUBSET Task], NEW w \in Worker, NEW t \in Task,
         tasks' = [tasks EXCEPT ![w] = @ \union {t}]
  PROVE  tasks' \in [Worker -> SUBSET Task]
  OBVIOUS

LEMMA Counted ==
  ASSUME teardowns \in [Worker -> Nat], NEW w \in Worker,
         UNCHANGED teardowns \/ teardowns' = [teardowns EXCEPT ![w] = @ + 1]
  PROVE  teardowns' \in [Worker -> Nat]
  OBVIOUS

LEMMA TypedNext ==
  ASSUME Typed, [Next]_vars
  PROVE  Typed'
<1>0. /\ NoWorker \notin Worker /\ NoTask \notin Task /\ MaxRetries \in Nat
      /\ \A p \in Plans : p.tasks \subseteq Task
      /\ events \in Seq(EventSet)
  BY RoutingAssumption DEF PlanType, Typed, TypeOK, EventSet
<1> USE <1>0 DEF Typed, TypeOK, Placed, Active, Final, Pc, InTask, InTeardown, Goto, Idle,
              orcVars, queueVars, lossVars, workerVars
<1>1. CASE RegisterPlan
  BY <1>1 DEF RegisterPlan
<1>2. CASE CancelPlan
  BY <1>2 DEF CancelPlan
<1>3. ASSUME NEW t \in Task, AddTask(t) PROVE Typed'
  BY <1>3 DEF AddTask
<1>4. ASSUME NEW t \in Task, TaskReady(t) PROVE Typed'
  BY <1>4 DEF TaskReady, SetStatus
<1>5. CASE ReadEvent
  <2>1. events # <<>> /\ Head(events) \in EventSet /\ Tail(events) \in Seq(EventSet)
    BY <1>5, <1>0, HeadTailProperties DEF ReadEvent
  <2>2. /\ reactor' \in [at : {"idle", "route", "send", "lookup", "sendTeardown"},
                         task : Task \union {NoTask}, worker : Worker \union {NoWorker}]
        /\ reactor'.at \in {"idle", "route", "lookup"} /\ (reactor'.at # "idle" => reactor'.task \in Task)
    BY <1>5, <2>1 DEF ReadEvent, EventSet
  <2> QED
    BY <1>5, <2>1, <2>2 DEF ReadEvent, EventSet
<1>6. CASE GetWorkerQueue
  BY <1>6 DEF GetWorkerQueue
<1>7. CASE GetExistingWorkerQueue
  BY <1>7 DEF GetExistingWorkerQueue
<1>8. CASE Send
  <2>1. reactor.worker \in Worker /\ reactor.task \in Task
    BY <1>8 DEF Send
  <2>2. tasks' \in [Worker -> SUBSET Task]
    BY <1>8, <2>1, Queued DEF Send
  <2>3. UNCHANGED teardowns \/ teardowns' = [teardowns EXCEPT ![reactor.worker] = @ + 1]
    BY <1>8 DEF Send
  <2>4. teardowns' \in [Worker -> Nat]
    BY <2>1, <2>3, Counted
  <2> QED
    BY <1>8, <2>2, <2>4 DEF Send
<1>9. ASSUME NEW w \in Worker, NEW t \in Task, Receive(w, t) PROVE Typed'
  BY <1>9 DEF Receive
<1>10. ASSUME NEW w \in Worker, Check(w) PROVE Typed'
  <2>1. job[w] \in Task
    BY <1>10 DEF Check
  <2>2. /\ status' \in [Task -> {"none", "waiting"} \union Active \union Final]
        /\ events' \in Seq(EventSet)
    BY <1>10, <2>1, SetStatusTyped DEF Check, EventSet
  <2>3. dirs' \subseteq Worker /\ \E at \in {"idle", "recheck", "pod"} : pc' = [pc EXCEPT ![w] = at]
    BY <1>10 DEF Check
  <2> QED
    BY <1>10, <2>1, <2>2, <2>3 DEF Check, EventSet, SetStatus
<1>11. ASSUME NEW w \in Worker, FindOrCreatePod(w) PROVE Typed'
  BY <1>11 DEF FindOrCreatePod
<1>12. ASSUME NEW w \in Worker, CheckPodVolume(w) PROVE Typed'
  <2>1. job[w] \in Task
    BY <1>12 DEF CheckPodVolume
  <2>2. CASE pod = w
    BY <1>12, <2>2 DEF CheckPodVolume
  <2>3. CASE pod # w /\ retries[job[w]] < MaxRetries
    <3>1. /\ retries' = [retries EXCEPT ![job[w]] = @ + 1]
          /\ tasks' = [tasks EXCEPT ![w] = @ \union {job[w]}] /\ pc' = [pc EXCEPT ![w] = "onRetry"]
          /\ UNCHANGED reports
      BY <1>12, <2>3 DEF CheckPodVolume, RetryOrFail
    <3>2. retries' \in [Task -> 0..MaxRetries]
      BY <1>0, <2>1, <2>3, <3>1
    <3>3. tasks' \in [Worker -> SUBSET Task]
      BY <2>1, <3>1, Queued
    <3> QED
      BY <1>12, <3>1, <3>2, <3>3 DEF CheckPodVolume
  <2>4. CASE pod # w /\ ~(retries[job[w]] < MaxRetries)
    <3>1. /\ reports' = reports \union {job[w]} /\ pc' = [pc EXCEPT ![w] = "idle"]
          /\ UNCHANGED <<retries, tasks>>
      BY <1>12, <2>4 DEF CheckPodVolume, RetryOrFail
    <3> QED
      BY <1>12, <2>1, <3>1 DEF CheckPodVolume
  <2> QED
    BY <2>2, <2>3, <2>4
<1>13. ASSUME NEW w \in Worker, Run(w) PROVE Typed'
  <2>1. job[w] \in Task
    BY <1>13 DEF Run
  <2>2. /\ status' \in [Task -> {"none", "waiting"} \union Active \union Final]
        /\ events' \in Seq(EventSet)
    BY <1>13, <2>1, SetStatusTyped DEF Run, EventSet
  <2>3. plan' = plan /\ stopped' = stopped /\ reports' \subseteq Task
    BY <1>13, <2>1 DEF Run
  <2> QED
    BY <1>13, <2>2, <2>3 DEF Run, EventSet
<1>14. ASSUME NEW w \in Worker, OnRetry(w) PROVE Typed'
  BY <1>14 DEF OnRetry
<1>15. ASSUME NEW w \in Worker, TeardownCheck(w) PROVE Typed'
  BY <1>15 DEF TeardownCheck
<1>16. ASSUME NEW w \in Worker, ReleaseWorker(w) PROVE Typed'
  BY <1>16 DEF ReleaseWorker
<1>17. ASSUME NEW w \in Worker, DeletePods(w) PROVE Typed'
  BY <1>17 DEF DeletePods
<1>18. ASSUME NEW w \in Worker, DeleteDirs(w) PROVE Typed'
  BY <1>18 DEF DeleteDirs
<1>19. ASSUME NEW w \in Worker, ReceiveTeardown(w) PROVE Typed'
  BY <1>19 DEF ReceiveTeardown
<1>21. ASSUME NEW t \in Task, ReportFailure(t) PROVE Typed'
  <2>1. /\ status' \in [Task -> {"none", "waiting"} \union Active \union Final]
        /\ events' \in Seq(EventSet)
    BY <1>21, SetStatusTyped DEF ReportFailure, EventSet
  <2>2. plan' = plan /\ stopped' \in BOOLEAN /\ reports' \subseteq Task /\ unreported' \subseteq Task
    BY <1>21 DEF ReportFailure
  <2> QED
    BY <1>21, <2>1, <2>2 DEF ReportFailure, EventSet
<1>22. ASSUME NEW w \in Worker, CutTeardown(w) PROVE Typed'
  BY <1>22 DEF CutTeardown
<1>20. CASE UNCHANGED vars
  BY <1>20 DEF vars
<1> HIDE DEF Typed
<1> QED
  BY <1>1, <1>2, <1>3, <1>4, <1>5, <1>6, <1>7, <1>8, <1>9, <1>10,
     <1>11, <1>12, <1>13, <1>14, <1>15, <1>16, <1>17, <1>18, <1>19, <1>20,
     <1>21, <1>22
  DEF Next, ReactorStep, WorkerStep, Quiet

-----------------------------------------------------------------------------
(* Nothing is there before the plan is registered *)

LEMMA PlanKept == [Next]_vars => UNCHANGED plan
<1> USE DEF orcVars, SetStatus
<1>1. ASSUME NEW w \in Worker, WorkerStep(w) PROVE UNCHANGED plan
  BY <1>1 DEF WorkerStep, Check, FindOrCreatePod, CheckPodVolume, RetryOrFail, Run, OnRetry,
    TeardownCheck, ReleaseWorker, DeletePods, DeleteDirs
<1>2. ASSUME ReactorStep PROVE UNCHANGED plan
  BY <1>2 DEF ReactorStep, ReadEvent, GetWorkerQueue, GetExistingWorkerQueue, Send
<1> QED
  BY <1>1, <1>2 DEF Next, Quiet, RegisterPlan, CancelPlan, AddTask, TaskReady, ReportFailure, ReceiveTeardown,
    CutTeardown, Receive, vars

LEMMA FreshNext ==
  ASSUME Typed, Fresh, [Next]_vars
  PROVE  Fresh'
<1>0. /\ status \in [Task -> {"none", "waiting"} \union Active \union Final]
      /\ \A w \in Worker : pc[w] \in InTask => job[w] \in Task
  BY DEF Typed, TypeOK, Placed
<1> USE DEF Fresh, Active, Final, InTask, Idle, orcVars, queueVars, lossVars, workerVars
<1>1. CASE RegisterPlan
  BY <1>1, <1>0 DEF RegisterPlan
<1>2. CASE CancelPlan
  BY <1>2, <1>0 DEF CancelPlan
<1>3. ASSUME NEW t \in Task, AddTask(t) PROVE Fresh'
  BY <1>3, <1>0 DEF AddTask
<1>4. ASSUME NEW t \in Task, TaskReady(t) PROVE Fresh'
  BY <1>4, <1>0 DEF TaskReady, SetStatus
<1>5. CASE ReadEvent
  BY <1>5, <1>0 DEF ReadEvent
<1>6. CASE GetWorkerQueue
  BY <1>6, <1>0 DEF GetWorkerQueue
<1>7. CASE GetExistingWorkerQueue
  BY <1>7, <1>0 DEF GetExistingWorkerQueue
<1>8. CASE Send
  BY <1>8, <1>0 DEF Send
<1>9. ASSUME NEW w \in Worker, NEW t \in Task, Receive(w, t) PROVE Fresh'
  BY <1>9, <1>0 DEF Receive
<1>10. ASSUME NEW w \in Worker, Check(w) PROVE Fresh'
  BY <1>10, <1>0 DEF Check, SetStatus
<1>11. ASSUME NEW w \in Worker, FindOrCreatePod(w) PROVE Fresh'
  BY <1>11, <1>0 DEF FindOrCreatePod
<1>12. ASSUME NEW w \in Worker, CheckPodVolume(w) PROVE Fresh'
  BY <1>12, <1>0 DEF CheckPodVolume, RetryOrFail, SetStatus
<1>13. ASSUME NEW w \in Worker, Run(w) PROVE Fresh'
  BY <1>13, <1>0 DEF Run, SetStatus
<1>14. ASSUME NEW w \in Worker, OnRetry(w) PROVE Fresh'
  BY <1>14, <1>0 DEF OnRetry
<1>15. ASSUME NEW w \in Worker, TeardownCheck(w) PROVE Fresh'
  BY <1>15, <1>0 DEF TeardownCheck
<1>16. ASSUME NEW w \in Worker, ReleaseWorker(w) PROVE Fresh'
  BY <1>16, <1>0 DEF ReleaseWorker
<1>17. ASSUME NEW w \in Worker, DeletePods(w) PROVE Fresh'
  BY <1>17, <1>0 DEF DeletePods
<1>18. ASSUME NEW w \in Worker, DeleteDirs(w) PROVE Fresh'
  BY <1>18, <1>0 DEF DeleteDirs
<1>19. ASSUME NEW w \in Worker, ReceiveTeardown(w) PROVE Fresh'
  BY <1>19, <1>0 DEF ReceiveTeardown
<1>21. ASSUME NEW t \in Task, ReportFailure(t) PROVE Fresh'
  BY <1>21, <1>0 DEF ReportFailure, SetStatus
<1>22. ASSUME NEW w \in Worker, CutTeardown(w) PROVE Fresh'
  BY <1>22, <1>0 DEF CutTeardown, InTeardown
<1>20. CASE UNCHANGED vars
  BY <1>20, <1>0 DEF vars
<1> QED
  BY <1>1, <1>2, <1>3, <1>4, <1>5, <1>6, <1>7, <1>8, <1>9, <1>10,
     <1>11, <1>12, <1>13, <1>14, <1>15, <1>16, <1>17, <1>18, <1>19, <1>20,
     <1>21, <1>22
  DEF Next, ReactorStep, WorkerStep, Quiet

-----------------------------------------------------------------------------
(* The plan is at one worker *)

\* Every step but the registration of the plan keeps it over.
LEMMA DeadStays ==
  ASSUME Typed, ~plan.grows, Dead, [Next]_vars
  PROVE  Dead'
<1>0. /\ status \in [Task -> {"none", "waiting"} \union Active \union Final]
      /\ \A w \in Worker : pc[w] \in InTask => job[w] \in Task
  BY DEF Typed, TypeOK, Placed
<1> USE DEF Dead, PlanRunning, Active, Final, InTask, orcVars
<1>1. CASE RegisterPlan
  BY <1>1, <1>0 DEF RegisterPlan
<1>2. CASE CancelPlan
  BY <1>2, <1>0 DEF CancelPlan
<1>3. ASSUME NEW t \in Task, AddTask(t) PROVE Dead'
  BY <1>3, <1>0 DEF AddTask
<1>4. ASSUME NEW t \in Task, TaskReady(t) PROVE Dead'
  BY <1>4, <1>0 DEF TaskReady, SetStatus
<1>5. CASE ReadEvent
  BY <1>5, <1>0 DEF ReadEvent
<1>6. CASE GetWorkerQueue
  BY <1>6, <1>0 DEF GetWorkerQueue
<1>7. CASE GetExistingWorkerQueue
  BY <1>7, <1>0 DEF GetExistingWorkerQueue
<1>8. CASE Send
  BY <1>8, <1>0 DEF Send
<1>9. ASSUME NEW w \in Worker, NEW t \in Task, Receive(w, t) PROVE Dead'
  BY <1>9, <1>0 DEF Receive
<1>10. ASSUME NEW w \in Worker, Check(w) PROVE Dead'
  <2>1. \/ UNCHANGED status
        \/ stopped /\ \E t \in Task : status' = [status EXCEPT ![t] = "canceled"]
    BY <1>10, <1>0 DEF Check, SetStatus, Runnable
  <2>2. UNCHANGED <<plan, stopped>>
    BY <1>10 DEF Check
  <2> QED
    BY <1>0, <2>1, <2>2
<1>11. ASSUME NEW w \in Worker, FindOrCreatePod(w) PROVE Dead'
  BY <1>11, <1>0 DEF FindOrCreatePod
<1>12. ASSUME NEW w \in Worker, CheckPodVolume(w) PROVE Dead'
  BY <1>12, <1>0 DEF CheckPodVolume, RetryOrFail, SetStatus
<1>13. ASSUME NEW w \in Worker, Run(w) PROVE Dead'
  BY <1>13, <1>0 DEF Run, SetStatus
<1>14. ASSUME NEW w \in Worker, OnRetry(w) PROVE Dead'
  BY <1>14, <1>0 DEF OnRetry
<1>15. ASSUME NEW w \in Worker, TeardownCheck(w) PROVE Dead'
  BY <1>15, <1>0 DEF TeardownCheck
<1>16. ASSUME NEW w \in Worker, ReleaseWorker(w) PROVE Dead'
  BY <1>16, <1>0 DEF ReleaseWorker
<1>17. ASSUME NEW w \in Worker, DeletePods(w) PROVE Dead'
  BY <1>17, <1>0 DEF DeletePods
<1>18. ASSUME NEW w \in Worker, DeleteDirs(w) PROVE Dead'
  BY <1>18, <1>0 DEF DeleteDirs
<1>19. ASSUME NEW w \in Worker, ReceiveTeardown(w) PROVE Dead'
  BY <1>19, <1>0 DEF ReceiveTeardown
<1>21. ASSUME NEW t \in Task, ReportFailure(t) PROVE Dead'
  BY <1>21, <1>0 DEF ReportFailure, SetStatus
<1>22. ASSUME NEW w \in Worker, CutTeardown(w) PROVE Dead'
  BY <1>22, <1>0 DEF CutTeardown
<1>20. CASE UNCHANGED vars
  BY <1>20, <1>0 DEF vars
<1> QED
  BY <1>1, <1>2, <1>3, <1>4, <1>5, <1>6, <1>7, <1>8, <1>9, <1>10,
     <1>11, <1>12, <1>13, <1>14, <1>15, <1>16, <1>17, <1>18, <1>19, <1>20,
     <1>21, <1>22
  DEF Next, ReactorStep, WorkerStep, Quiet

LEMMA HomedNext ==
  ASSUME Typed, Fresh, Homed, [Next]_vars
  PROVE  Homed'
<1> SUFFICES ASSUME ~plan.grows PROVE Homed'
  BY PlanKept DEF Homed
<1>01. Dead => Dead'
  BY DeadStays
<1>02. NoWorker \notin Worker
  BY RoutingAssumption
<1>0. /\ TornWhenDead /\ (AllHome \/ Over)
      /\ tasks \in [Worker -> SUBSET Task] /\ teardowns \in [Worker -> Nat] /\ pc \in [Worker -> Pc]
      /\ \A w \in Worker : pc[w] \in InTask => job[w] \in Task
      /\ reactor.at \in {"send", "sendTeardown"} => reactor.worker \in Worker
      /\ mapping \in Worker \union {NoWorker}
  BY DEF Typed, TypeOK, Placed, Homed
<1> USE <1>01, <1>02 DEF Homed, TornWhenDead, AllHome, Over, Goto, Idle, orcVars, queueVars, lossVars, workerVars
<1>1. CASE RegisterPlan
  BY <1>1, <1>0 DEF RegisterPlan
<1>2. CASE CancelPlan
  BY <1>2, <1>0 DEF CancelPlan
<1>3. ASSUME NEW t \in Task, AddTask(t) PROVE Homed'
  BY <1>3, <1>0 DEF AddTask
<1>4. ASSUME NEW t \in Task, TaskReady(t) PROVE Homed'
  BY <1>4, <1>0 DEF TaskReady, SetStatus
<1>5. CASE ReadEvent
  BY <1>5, <1>0 DEF ReadEvent
<1>6. CASE GetWorkerQueue
  BY <1>6, <1>0 DEF GetWorkerQueue
<1>7. CASE GetExistingWorkerQueue
  BY <1>7, <1>0 DEF GetExistingWorkerQueue
<1>8. CASE Send
  BY <1>8, <1>0 DEF Send
<1>9. ASSUME NEW w \in Worker, NEW t \in Task, Receive(w, t) PROVE Homed'
  BY <1>9, <1>0 DEF Receive
<1>10. ASSUME NEW w \in Worker, Check(w) PROVE Homed'
  <2>1. ~Dead \/ pc'[w] = "idle"
    BY <1>10, <1>0 DEF Check, Dead, PlanRunning, Runnable, Active, InTask
  <2>2. /\ \E at \in {"idle", "recheck", "pod"} : pc' = [pc EXCEPT ![w] = at]
        /\ pc[w] \in {"check", "recheck"}
        /\ UNCHANGED <<plan, mapping, reactor, tasks, teardowns, pod, cut>>
    BY <1>10 DEF Check
  <2>3. CASE Dead
    BY <1>0, <1>01, <2>1, <2>2, <2>3
  <2>4. CASE ~Dead
    BY <1>0, <1>01, <2>2, <2>4
  <2> QED
    BY <2>3, <2>4
<1>11. ASSUME NEW w \in Worker, FindOrCreatePod(w) PROVE Homed'
  BY <1>11, <1>0 DEF FindOrCreatePod
<1>12. ASSUME NEW w \in Worker, CheckPodVolume(w) PROVE Homed'
  BY <1>12, <1>0 DEF CheckPodVolume, RetryOrFail, SetStatus
<1>13. ASSUME NEW w \in Worker, Run(w) PROVE Homed'
  BY <1>13, <1>0 DEF Run, SetStatus
<1>14. ASSUME NEW w \in Worker, OnRetry(w) PROVE Homed'
  BY <1>14, <1>0 DEF OnRetry
<1>15. ASSUME NEW w \in Worker, TeardownCheck(w) PROVE Homed'
  <2>1. pc[w] = "tdCheck" /\ UNCHANGED <<plan, status, stopped, mapping, reactor, tasks, teardowns, pod, cut>>
    BY <1>15 DEF TeardownCheck
  <2>2. \E at \in {"idle", "tdRelease"} : pc' = [pc EXCEPT ![w] = at] /\ (at = "tdRelease" => ~PlanRunning)
    BY <1>15 DEF TeardownCheck
  <2>3. \E t \in Task : status[t] # "none"
    BY <2>1 DEF Fresh
  <2>4. pc'[w] = "tdRelease" => Dead
    BY <1>0, <2>2, <2>3 DEF Dead
  <2> QED
    BY <1>0, <2>1, <2>2, <2>4
<1>16. ASSUME NEW w \in Worker, ReleaseWorker(w) PROVE Homed'
  BY <1>16, <1>0 DEF ReleaseWorker
<1>17. ASSUME NEW w \in Worker, DeletePods(w) PROVE Homed'
  BY <1>17, <1>0 DEF DeletePods
<1>18. ASSUME NEW w \in Worker, DeleteDirs(w) PROVE Homed'
  BY <1>18, <1>0 DEF DeleteDirs
<1>19. ASSUME NEW w \in Worker, ReceiveTeardown(w) PROVE Homed'
  BY <1>19, <1>0 DEF ReceiveTeardown
<1>21. ASSUME NEW t \in Task, ReportFailure(t) PROVE Homed'
  BY <1>21, <1>0 DEF ReportFailure, SetStatus
<1>22. ASSUME NEW w \in Worker, CutTeardown(w) PROVE Homed'
  BY <1>22, <1>0 DEF CutTeardown
<1>20. CASE UNCHANGED vars
  BY <1>20, <1>0 DEF vars
<1> QED
  BY <1>1, <1>2, <1>3, <1>4, <1>5, <1>6, <1>7, <1>8, <1>9, <1>10,
     <1>11, <1>12, <1>13, <1>14, <1>15, <1>16, <1>17, <1>18, <1>19, <1>20,
     <1>21, <1>22
  DEF Next, ReactorStep, WorkerStep, Quiet

-----------------------------------------------------------------------------
LEMMA Invariance == Spec => []Inv
<1>1. Init => Fresh /\ Homed
  BY RoutingAssumption DEF Init, Fresh, Homed, TornWhenDead, AllHome, Idle
<1>2. Inv /\ [Next]_vars => Inv'
  BY TypedNext, FreshNext, HomedNext DEF Inv
<1> QED
  BY TypedInit, <1>1, <1>2, PTL DEF Spec, Inv

\* Every variable has its type.
THEOREM TypeCorrect == Spec => []TypeOK
<1>1. Inv => TypeOK
  BY DEF Inv, Typed
<1> QED
  BY <1>1, Invariance, PTL

\* celery_queuing.md: the tasks of a plan that does not grow wait only in the queue
\* of the worker that has its pod.
THEOREM TasksWaitAtThePod == Spec => []ScheduledOnPodsWorker
<1>1. Inv => ScheduledOnPodsWorker
  BY DEF Inv, Homed, AllHome, Over, Dead, PlanRunning, Runnable, Typed, TypeOK, ScheduledOnPodsWorker, Active
<1> QED
  BY <1>1, Invariance, PTL

\* No pod of a plan that does not grow is out of reach of a teardown, unless one that
\* had released its worker was cut short.
THEOREM PodIsReachable == Spec => []PodIsAccountedFor
<1>1. Inv => PodIsAccountedFor
  BY RoutingAssumption DEF Inv, Homed, AllHome, Over, Typed, TypeOK, PodIsAccountedFor
<1> QED
  BY <1>1, Invariance, PTL
=============================================================================
