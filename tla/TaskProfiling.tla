---------------------------- MODULE TaskProfiling ----------------------------
(***************************************************************************)
(* The profile of one compute task: the worker tells the API of its own    *)
(* organization when an attempt starts and how long each step of it took   *)
(* (substrapp/tasks/tasks_compute_task.py), and the API keeps one profile  *)
(* per task and one row per step (api/views/task_profiling.py).            *)
(*                                                                         *)
(* A call is a POST and, when the row exists, a PUT; it is tried several   *)
(* times and then given up without failing the task.  An attempt of the    *)
(* task can fail and be retried, and its message can come back after the   *)
(* task has ended.  Durations and dates are the number of the delivery     *)
(* ("turn") they were measured in.                                         *)
(***************************************************************************)
EXTENDS Naturals, FiniteSets

CONSTANTS
  Tries,        \* tries of a call (5 in substrapp/utils)
  MaxTurns,     \* bound: deliveries and attempts of the task
  MaxLost       \* bound: calls or answers lost

VARIABLES
  remote,       \* the function belongs to another organization
  row,          \* the event consumer has inserted the row of the task
  created,      \* turn of the profile's creation date, 0 if there is none
  steps,        \* step |-> turn of its duration, 0 if there is none
  ended,        \* turn in which the task ended, 0 before
  pc,           \* the call the worker is at, or "idle"
  turn, try,    \* deliveries so far; tries of the present call
  sent,         \* the message is to be delivered (again)
  givenUp,      \* <<turn, call>> of the calls given up
  lost

vars == <<remote, row, created, steps, ended, pc, turn, try, sent, givenUp, lost>>

\* ComputeTaskSteps
Step == {"prepare_inputs", "download_function", "task_execution", "save_outputs"}
Call == Step \union {"profile"}

\* What _run reports after each call; download_function is skipped for the
\* functions of the organization.
After(call) ==
  CASE call = "profile" -> "prepare_inputs"
    [] call = "prepare_inputs" -> IF remote THEN "download_function" ELSE "task_execution"
    [] call = "download_function" -> "task_execution"
    [] call = "task_execution" -> "save_outputs"
    [] call = "save_outputs" -> "mark_as_done"

TypeOK ==
  /\ remote \in BOOLEAN /\ row \in BOOLEAN /\ sent \in BOOLEAN
  /\ created \in 0..MaxTurns /\ steps \in [Step -> 0..MaxTurns] /\ ended \in 0..MaxTurns
  /\ pc \in Call \union {"idle", "failed", "check", "mark_as_done"}
  /\ turn \in 0..MaxTurns /\ try \in 0..Tries
  /\ givenUp \subseteq (1..MaxTurns) \X Call
  /\ lost \in 0..MaxLost

Init ==
  /\ remote \in BOOLEAN /\ row \in BOOLEAN
  /\ created = 0 /\ steps = [s \in Step |-> 0] /\ ended = 0
  /\ pc = "idle" /\ turn = 0 /\ try = 0 /\ sent = TRUE
  /\ givenUp = {} /\ lost = 0

task == <<remote, ended, turn, sent>>

-----------------------------------------------------------------------------
(* The API.                                                                *)

\* The consumer inserts the row of the task.
InsertRow ==
  /\ ~row
  /\ row' = TRUE
  /\ UNCHANGED <<remote, created, steps, ended, pc, turn, try, sent, givenUp, lost>>

\* TaskProfilingViewSet and TaskProfilingStepViewSet accept a profile once the
\* task has a row, a step once the task has a profile (400, or 409 then 404).
Accepts(call) == IF call = "profile" THEN row ELSE created # 0

\* Faulty: POST only, the row of an earlier attempt is kept.
StorePostOnly(call) ==
  IF call = "profile" THEN /\ created' = IF created = 0 THEN turn ELSE created
                           /\ UNCHANGED steps
                      ELSE /\ steps' = [steps EXCEPT ![call] = IF @ = 0 THEN turn ELSE @]
                           /\ UNCHANGED created

\* _send_profiling_event: POST, and PUT after a 409.  The PUT of a profile sets
\* its creation date and leaves its steps.
Store(call) ==
  IF call = "profile" THEN created' = turn /\ UNCHANGED steps
                      ELSE steps' = [steps EXCEPT ![call] = turn] /\ UNCHANGED created

-----------------------------------------------------------------------------
(* The worker.                                                             *)

\* A delivery, a retry or a redelivery of the message: compute_task.
Receive ==
  /\ pc = "idle" /\ sent /\ turn < MaxTurns
  /\ turn' = turn + 1
  /\ pc' = "profile" /\ try' = 0 /\ sent' = FALSE
  /\ UNCHANGED <<remote, row, created, steps, ended, givenUp, lost>>

\* The profile comes before the task's status is read.
Advance(call) ==
  /\ pc' = IF call = "profile" THEN "check" ELSE After(call)
  /\ try' = 0

\* retry(): the last exception is swallowed.
TryAgain(call) ==
  IF try + 1 < Tries THEN try' = try + 1 /\ UNCHANGED <<pc, givenUp>>
                     ELSE Advance(call) /\ givenUp' = givenUp \union {<<turn, call>>}

CallWorks ==
  /\ pc \in Call /\ Accepts(pc)
  /\ Store(pc) /\ Advance(pc)
  /\ UNCHANGED <<task, row, givenUp, lost>>

CallRefused ==
  /\ pc \in Call /\ ~Accepts(pc)
  /\ TryAgain(pc)
  /\ UNCHANGED <<task, row, created, steps, lost>>

\* The request is lost, or its answer after it was applied.
CallLost ==
  /\ pc \in Call /\ lost < MaxLost
  /\ lost' = lost + 1
  /\ \/ UNCHANGED <<created, steps>>
     \/ Accepts(pc) /\ Store(pc)
  /\ TryAgain(pc)
  /\ UNCHANGED <<task, row>>

\* abort_task_if_not_runnable: the message of a task that has ended is ignored.
CheckTask ==
  /\ pc = "check"
  /\ pc' = IF ended = 0 THEN After("profile") ELSE "idle"
  /\ UNCHANGED <<task, row, created, steps, try, givenUp, lost>>

\* The work before a report fails and Celery sends the task again, or the last
\* attempt fails and a failure report ends the task.
WorkFails ==
  /\ pc \in Step \union {"mark_as_done"}
  /\ try = 0
  /\ IF turn < MaxTurns THEN pc' = "idle" /\ sent' = TRUE /\ UNCHANGED ended
                        ELSE pc' = "failed" /\ ended' = turn /\ UNCHANGED sent
  /\ UNCHANGED <<remote, row, created, steps, turn, try, givenUp, lost>>

\* mark_as_done; the message is delivered again if it is not acknowledged.
MarkAsDone ==
  /\ pc = "mark_as_done"
  /\ ended' = turn
  /\ pc' = "idle"
  /\ sent' \in BOOLEAN
  /\ UNCHANGED <<remote, row, created, steps, turn, try, givenUp, lost>>

Next ==
  \/ InsertRow \/ Receive \/ CallWorks \/ CallRefused \/ CallLost
  \/ CheckTask \/ WorkFails \/ MarkAsDone

Spec == Init /\ [][Next]_vars

-----------------------------------------------------------------------------
Done == ended # 0 /\ pc = "idle"

\* The profile of a task that is done is the one of the attempt that ended it,
\* its start and every step, however many attempts came before and however many
\* answers were lost, as long as no call was given up.  There is one exception:
\* the message of a task that is done already resets the start of the profile
\* before the status is looked at, and the duration of the task is negative.
ProfileIsOfTheLastAttempt ==
  Done /\ givenUp = {} =>
    /\ created \in {ended, turn}
    /\ \A s \in Step : steps[s] = IF s = "download_function" /\ ~remote THEN 0 ELSE ended
=============================================================================
