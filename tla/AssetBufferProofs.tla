--------------------------- MODULE AssetBufferProofs ---------------------------
(***************************************************************************)
(* The user's code runs on complete copies and a task fails for a reason,  *)
(* for any tasks and assets, any processes, any volume and any faults the  *)
(* properties allow.                                                       *)
(***************************************************************************)
EXTENDS AssetBuffer, FiniteSetTheorems, TLAPS

\* What a process that works on a task has.  The lock keeps the filling of the
\* buffer to one process; only a data sample or an opener is copied alone.
Owns(p) ==
  /\ p \in setting.processes
  /\ job[p].task \in Task
  /\ \A u \in Producers(job[p].task) : tstate[u] = "done"
  /\ \/ tstate[job[p].task] = "doing"
     \/ tstate[job[p].task] = "done" /\ pc[p] = "teardown" /\ job[p].error = "none"
  /\ pc[p] \in {"fetch", "purge"} => locks["global"] = p
  /\ pc[p] # "fetch" => job[p].busy = {}
  /\ pc[p] \in {"fetch", "link"} => job[p].todo \union job[p].busy \subseteq Inputs[job[p].task]
  /\ pc[p] = "run" => job[p].todo = {}
  /\ \A a \in job[p].busy \ Model : job[p].busy = {a}
  /\ pc[p] \in {"wait", "fetch", "link", "run"} => job[p].error = "none"

\* A process that removes a model works on no task.
Removers ==
  \A p \in Process : removing[p] # {} =>
    p \in setting.processes /\ pc[p] = "idle" /\ removing[p] \subseteq disabled

IdleOrOwns(p) == IF pc[p] = "idle" THEN job[p] = NoJob ELSE Owns(p)

Owning ==
  /\ \A p \in Process : IdleOrOwns(p)
  /\ \A p, q \in Process :
       pc[p] # "idle" /\ pc[q] # "idle" /\ job[p].task = job[q].task => p = q

\* A model is there until the tasks that read it are done.
Keeping ==
  /\ \A m \in disabled : \A t \in Consumers(m) : tstate[t] = "done"
  /\ removals \subseteq disabled /\ dbRemovals \subseteq disabled
  /\ \A u \in Task : tstate[u] = "done" => Outputs[u] \subseteq stored \union disabled

\* Nothing fails: an asset that a task has fetched stays until the task is done.
Calm == setting.env = {} /\ Roomy

Staying(p) ==
  /\ pc[p] \notin {"purge", "clearWait", "clear"} /\ ~job[p].bad
  /\ pc[p] = "fetch" =>
       /\ \A a \in job[p].busy : buffer[a] = "partial" \/ (a \in Model /\ buffer[a] = "whole")
       /\ \A a \in Inputs[job[p].task] \ (job[p].todo \union job[p].busy) : buffer[a] = "whole"
  /\ pc[p] = "link" => \A a \in Inputs[job[p].task] : buffer[a] = "whole"

\* What is linked is in the buffer, unless it was disabled since.
Linking ==
  \A t \in Task, a \in Asset :
    links[t][a] # "absent" => buffer[a] # "absent" \/ a \in disabled

CalmStays == Calm => Linking /\ \A p \in Process : Staying(p)

\* The settings of LinkedWhole, and what holds while a task links its inputs.
Careful == Survivors /\ (Alone \/ Calm)

LinkedSoFar ==
  Careful => \A p \in Process : pc[p] \in {"link", "run"} =>
    \A a \in Inputs[job[p].task] \ job[p].todo : links[job[p].task][a] = "whole"

Inv ==
  /\ TypeOK
  /\ Owning
  /\ Keeping
  /\ Removers
  /\ BufferTrusted
  /\ CalmStays
  /\ LinkedSoFar

-----------------------------------------------------------------------------
(* The types *)

LEMMA TypeInit == Init => TypeOK
<1> SUFFICES ASSUME Init PROVE TypeOK
  OBVIOUS
<1>1. NoJob \in Job /\ NoCopies \in [Asset -> Copy]
  BY DEF NoJob, Job, NoCopies, Copy
<1>2. buffer \in [Asset -> Copy] /\ job \in [Process -> Job] /\ links \in [Task -> [Asset -> Copy]]
  BY <1>1 DEF Init
<1>3. MaxRetries \in Nat /\ MaxFaults \in Nat
  BY AssetBufferAssumption
<1>4. /\ locks \in [{"global", "clear"} -> Process \union {Free, Dead}]
      /\ pc \in [Process -> Place]
      /\ tstate \in [Task -> {"todo", "doing", "done", "failed"}]
      /\ failures \in [Task -> 0..MaxRetries] /\ faults \in 0..MaxFaults
  BY <1>3 DEF Init, Place
<1>5. setting \in Settings /\ folder \in BOOLEAN
  BY DEF Init
<1> QED
  BY <1>2, <1>4, <1>5 DEF Init, TypeOK

\* The part of TypeOK that takes the longest.
JobTyped == job \in [Process -> Job]

\* What the end of a failed fetch leaves.
LEMMA RaiseJob ==
  ASSUME JobTyped, NEW p \in Process, NEW a \in Asset, NEW e \in {"error", "space"}, Raise(p, a, e)
  PROVE  /\ JobTyped'
         /\ \A q \in Process \ {p} : job'[q] = job[q]
         /\ job'[p].task = job[p].task
         /\ a \in Model => /\ job'[p].todo = job[p].todo \ {a} /\ job'[p].busy = job[p].busy \ {a}
                           /\ job'[p].bad /\ job'[p].error = job[p].error
         /\ a \notin Model => /\ job'[p].todo = {} /\ job'[p].busy = {}
                              /\ job'[p].bad = job[p].bad /\ job'[p].error = e
<1>1. CASE a \in Model
  <2> DEFINE j == [job[p] EXCEPT !.todo = @ \ {a}, !.busy = @ \ {a}, !.bad = TRUE]
  <2>1. /\ j \in Job /\ j.task = job[p].task /\ j.todo = job[p].todo \ {a}
        /\ j.busy = job[p].busy \ {a} /\ j.bad /\ j.error = job[p].error
    BY DEF JobTyped, Job
  <2>2. job' = [job EXCEPT ![p] = j]
    BY <1>1 DEF Raise, SetJob
  <2> HIDE DEF j
  <2> QED
    BY <1>1, <2>1, <2>2 DEF JobTyped
<1>2. CASE a \notin Model
  <2> DEFINE j == [job[p] EXCEPT !.todo = {}, !.busy = {}, !.error = e]
  <2>1. /\ j \in Job /\ j.task = job[p].task /\ j.todo = {} /\ j.busy = {}
        /\ j.bad = job[p].bad /\ j.error = e
    BY DEF JobTyped, Job
  <2>2. job' = [job EXCEPT ![p] = j]
    BY <1>2 DEF Raise, SetJob
  <2> HIDE DEF j
  <2> QED
    BY <1>2, <2>1, <2>2 DEF JobTyped
<1> QED
  BY <1>1, <1>2

LEMMA JobPut ==
  ASSUME JobTyped, NEW p \in Process, NEW j \in Job, job' = [job EXCEPT ![p] = j]
  PROVE  JobTyped'
  BY DEF JobTyped

LEMMA JobNext ==
  ASSUME TypeOK, Owning, [Next]_vars
  PROVE  JobTyped'
<1>0. /\ job \in [Process -> Job]
      /\ \A p \in Process : pc[p] # "idle" => job[p].task \in Task
      /\ Inputs \in [Task -> SUBSET Asset]
  BY AssetBufferAssumption DEF TypeOK, Owning, IdleOrOwns, Owns
<1>00. JobTyped
  BY <1>0 DEF JobTyped
<1> USE <1>0 DEF JobTyped, Job, NoJob, SetJob, Present, taskVars, removalVars, modelVars
<1>1. ASSUME NEW p \in Process, NEW t \in Task, Receive(p, t) PROVE JobTyped'
  BY <1>1 DEF Receive
<1>2. ASSUME NEW p \in Process, LockBuffer(p) PROVE JobTyped'
  BY <1>2 DEF LockBuffer
<1>3. ASSUME NEW p \in Process, WaitTimeout(p) PROVE JobTyped'
  BY <1>3 DEF WaitTimeout
<1>4. ASSUME NEW p \in Process, EndPurge(p) PROVE JobTyped'
  BY <1>4 DEF EndPurge
<1>5. ASSUME NEW p \in Process, JoinFailed(p) PROVE JobTyped'
  BY <1>5 DEF JoinFailed, FetchedAll
<1>6. ASSUME NEW p \in Process, UnlockBuffer(p) PROVE JobTyped'
  BY <1>6 DEF UnlockBuffer, FetchedAll
<1>7. ASSUME NEW p \in Process, StartExecution(p) PROVE JobTyped'
  BY <1>7 DEF StartExecution
<1>8. ASSUME NEW p \in Process, SaveOutputs(p) PROVE JobTyped'
  BY <1>8 DEF SaveOutputs
<1>9. ASSUME NEW p \in Process, LockClear(p) PROVE JobTyped'
  BY <1>9 DEF LockClear
<1>10. ASSUME NEW p \in Process, ClearTimeout(p) PROVE JobTyped'
  BY <1>10 DEF ClearTimeout
<1>11. ASSUME NEW p \in Process, EndClear(p) PROVE JobTyped'
  BY <1>11 DEF EndClear
<1>12. ASSUME NEW p \in Process, Teardown(p) PROVE JobTyped'
  BY <1>12 DEF Teardown
<1>13. ASSUME NEW p \in Process, Kill(p) PROVE JobTyped'
  BY <1>13 DEF Kill, Orphaned
<1>14. ASSUME NEW p \in Process, NEW a \in Asset, Exists(p, a) PROVE JobTyped'
  BY <1>14 DEF Exists, Reached
<1>15. ASSUME NEW p \in Process, NEW a \in Asset, StartFetch(p, a) PROVE JobTyped'
  <2> DEFINE j == [job[p] EXCEPT !.todo = @ \ {a}, !.busy = @ \union {a}]
  <2>1. j \in Job
    BY AssetBufferAssumption
  <2>2. job' = [job EXCEPT ![p] = j]
    BY <1>15 DEF StartFetch
  <2> HIDE DEF j, JobTyped, Job
  <2> QED
    BY <1>00, <2>1, <2>2, JobPut
<1>16. ASSUME NEW p \in Process, NEW a \in Asset, EndFetch(p, a) PROVE JobTyped'
  BY <1>16 DEF EndFetch
<1>17. ASSUME NEW p \in Process, NEW a \in Asset, FetchFails(p, a) PROVE JobTyped'
  <2>1. Raise(p, a, "error")
    BY <1>17 DEF FetchFails
  <2> QED
    BY <2>1, RaiseJob DEF JobTyped
<1>18. ASSUME NEW p \in Process, NEW a \in Asset, NoSpace(p, a) PROVE JobTyped'
  <2>1. PICK e \in {"error", "space"} : Raise(p, a, e)
    BY <1>18 DEF NoSpace
  <2> QED
    BY <2>1, RaiseJob DEF JobTyped
<1>19. ASSUME NEW p \in Process, NEW a \in Asset, BadChecksum(p, a) PROVE JobTyped'
  <2> DEFINE j == [job[p] EXCEPT !.todo = Present \intersect Sample, !.busy = {}, !.error = "error"]
  <2>1. j \in Job
    BY AssetBufferAssumption
  <2>2. job' = [job EXCEPT ![p] = j]
    BY <1>19 DEF BadChecksum
  <2> HIDE DEF j, JobTyped, Job
  <2> QED
    BY <1>00, <2>1, <2>2, JobPut
<1>20. ASSUME NEW p \in Process, NEW a \in Asset, LinkAsset(p, a) PROVE JobTyped'
  BY <1>20 DEF LinkAsset
<1>21. ASSUME NEW p \in Process, NEW a \in Asset, LinkFails(p, a) PROVE JobTyped'
  <2> DEFINE j == [job[p] EXCEPT !.todo = {}, !.error = "error"]
  <2>1. j \in Job
    BY AssetBufferAssumption
  <2>2. job' = [job EXCEPT ![p] = j]
    BY <1>21 DEF LinkFails
  <2> HIDE DEF j, JobTyped, Job
  <2> QED
    BY <1>00, <2>1, <2>2, JobPut
<1>22. ASSUME NEW p \in Process, NEW a \in Asset, RemoveAsset(p, a) PROVE JobTyped'
  BY <1>22 DEF RemoveAsset
<1>23. ASSUME NEW t \in Task, FinishedTask(t) PROVE JobTyped'
  BY <1>23 DEF FinishedTask
<1>24. ASSUME NEW m \in Model, DisableOutput(m) PROVE JobTyped'
  BY <1>24 DEF DisableOutput
<1>25. ASSUME NEW m \in Model, RemoveFromDb(m) PROVE JobTyped'
  BY <1>25 DEF RemoveFromDb
<1>29. ASSUME NEW p \in Process, NEW m \in Model, ReceiveRemoval(p, m) PROVE JobTyped'
  BY <1>29 DEF ReceiveRemoval
<1>26. ASSUME NEW p \in Process, NEW m \in Model, RemoveFromBuffer(p, m) PROVE JobTyped'
  BY <1>26 DEF RemoveFromBuffer
<1>27. CASE Restart
  BY <1>27 DEF Restart, Orphaned
<1>28. CASE UNCHANGED vars
  BY <1>28 DEF vars
<1> QED
  BY <1>1, <1>2, <1>3, <1>4, <1>5, <1>6, <1>7, <1>8, <1>9, <1>10, <1>11, <1>12, <1>13, <1>14, <1>15,
     <1>16, <1>17, <1>18, <1>19, <1>20, <1>21, <1>22, <1>23, <1>24, <1>25, <1>26, <1>27, <1>28, <1>29
  DEF Next, ProcessStep, AssetStep, AssetFault, ModelStep, Quiet

LEMMA TypeNext ==
  ASSUME TypeOK, Owning, [Next]_vars
  PROVE  TypeOK'
<1>0. job' \in [Process -> Job]
  BY JobNext DEF JobTyped
<1>01. \A p \in Process : pc[p] # "idle" => job[p].task \in Task
  BY DEF Owning, IdleOrOwns, Owns
<1> USE AssetBufferAssumption, <1>0, <1>01
    DEF TypeOK, NoCopies, Copy, Place, Fault, Goto, Hold, Remove, Write,
        diskVars, taskVars, removalVars, modelVars, envVars
<1>1. ASSUME NEW p \in Process, NEW t \in Task, Receive(p, t) PROVE TypeOK'
  BY <1>1 DEF Receive
<1>2. ASSUME NEW p \in Process, LockBuffer(p) PROVE TypeOK'
  BY <1>2 DEF LockBuffer
<1>3. ASSUME NEW p \in Process, WaitTimeout(p) PROVE TypeOK'
  BY <1>3 DEF WaitTimeout
<1>4. ASSUME NEW p \in Process, EndPurge(p) PROVE TypeOK'
  BY <1>4 DEF EndPurge
<1>5. ASSUME NEW p \in Process, JoinFailed(p) PROVE TypeOK'
  BY <1>5 DEF JoinFailed, FetchedAll
<1>6. ASSUME NEW p \in Process, UnlockBuffer(p) PROVE TypeOK'
  BY <1>6 DEF UnlockBuffer, FetchedAll
<1>7. ASSUME NEW p \in Process, StartExecution(p) PROVE TypeOK'
  BY <1>7 DEF StartExecution
<1>8. ASSUME NEW p \in Process, SaveOutputs(p) PROVE TypeOK'
  BY <1>8 DEF SaveOutputs
<1>9. ASSUME NEW p \in Process, LockClear(p) PROVE TypeOK'
  <2>1. CASE folder
    <3>1. locks' = [locks EXCEPT !["clear"] = p] /\ pc' = [pc EXCEPT ![p] = "clear"]
      BY <1>9, <2>1 DEF LockClear
    <3>2. locks' \in [{"global", "clear"} -> Process \union {Free, Dead}]
      BY <3>1
    <3>3. pc' \in [Process -> Place]
      BY <3>1
    <3> QED
      BY <1>9, <2>1, <3>2, <3>3 DEF LockClear
  <2>2. CASE ~folder
    BY <1>9, <2>2 DEF LockClear
  <2> QED
    BY <2>1, <2>2
<1>10. ASSUME NEW p \in Process, ClearTimeout(p) PROVE TypeOK'
  BY <1>10 DEF ClearTimeout
<1>11. ASSUME NEW p \in Process, EndClear(p) PROVE TypeOK'
  BY <1>11 DEF EndClear
<1>12. ASSUME NEW p \in Process, Teardown(p) PROVE TypeOK'
  <2>1. CASE job[p].error = "none"
    BY <1>12, <2>1 DEF Teardown
  <2>2. CASE job[p].error # "none"
    <3>1. tstate' \in [Task -> {"todo", "doing", "done", "failed"}]
      BY <1>12, <2>2 DEF Teardown
    <3>2. failures' \in [Task -> 0..MaxRetries] /\ links' \in [Task -> [Asset -> Copy]]
      BY <1>12, <2>2 DEF Teardown
    <3>3. pc' \in [Process -> Place]
      BY <1>12 DEF Teardown
    <3> QED
      BY <1>12, <2>2, <3>1, <3>2, <3>3 DEF Teardown
  <2> QED
    BY <2>1, <2>2
<1>13. ASSUME NEW p \in Process, Kill(p) PROVE TypeOK'
  BY <1>13 DEF Kill, Orphaned
<1>14. ASSUME NEW p \in Process, NEW a \in Asset, Exists(p, a) PROVE TypeOK'
  BY <1>14 DEF Exists, Reached
<1>15. ASSUME NEW p \in Process, NEW a \in Asset, StartFetch(p, a) PROVE TypeOK'
  BY <1>15 DEF StartFetch, Reached
<1>16. ASSUME NEW p \in Process, NEW a \in Asset, EndFetch(p, a) PROVE TypeOK'
  BY <1>16 DEF EndFetch
<1>17. ASSUME NEW p \in Process, NEW a \in Asset, FetchFails(p, a) PROVE TypeOK'
  BY <1>17 DEF FetchFails, Raise
<1>18. ASSUME NEW p \in Process, NEW a \in Asset, NoSpace(p, a) PROVE TypeOK'
  BY <1>18 DEF NoSpace, Raise, Reached
<1>19. ASSUME NEW p \in Process, NEW a \in Asset, BadChecksum(p, a) PROVE TypeOK'
  BY <1>19 DEF BadChecksum
<1>20. ASSUME NEW p \in Process, NEW a \in Asset, LinkAsset(p, a) PROVE TypeOK'
  BY <1>20 DEF LinkAsset
<1>21. ASSUME NEW p \in Process, NEW a \in Asset, LinkFails(p, a) PROVE TypeOK'
  BY <1>21 DEF LinkFails
<1>22. ASSUME NEW p \in Process, NEW a \in Asset, RemoveAsset(p, a) PROVE TypeOK'
  BY <1>22 DEF RemoveAsset
<1>23. ASSUME NEW t \in Task, FinishedTask(t) PROVE TypeOK'
  BY <1>23 DEF FinishedTask
<1>24. ASSUME NEW m \in Model, DisableOutput(m) PROVE TypeOK'
  BY <1>24 DEF DisableOutput
<1>25. ASSUME NEW m \in Model, RemoveFromDb(m) PROVE TypeOK'
  BY <1>25 DEF RemoveFromDb
<1>29. ASSUME NEW p \in Process, NEW m \in Model, ReceiveRemoval(p, m) PROVE TypeOK'
  BY <1>29 DEF ReceiveRemoval
<1>26. ASSUME NEW p \in Process, NEW m \in Model, RemoveFromBuffer(p, m) PROVE TypeOK'
  BY <1>26 DEF RemoveFromBuffer
<1>27. CASE Restart
  BY <1>27 DEF Restart, Orphaned
<1>28. CASE UNCHANGED vars
  BY <1>28 DEF vars
<1> HIDE DEF TypeOK
<1> QED
  BY <1>1, <1>2, <1>3, <1>4, <1>5, <1>6, <1>7, <1>8, <1>9, <1>10, <1>11, <1>12, <1>13, <1>14, <1>15,
     <1>16, <1>17, <1>18, <1>19, <1>20, <1>21, <1>22, <1>23, <1>24, <1>25, <1>26, <1>27, <1>28, <1>29
  DEF Next, ProcessStep, AssetStep, AssetFault, ModelStep, Quiet

-----------------------------------------------------------------------------
(* What a process that works on a task has *)

\* A step of one process, which takes a task that no one has, goes on with its
\* own, or leaves it.
LEMMA OneMoves ==
  ASSUME TypeOK, Owning, NEW p \in Process, UNCHANGED setting,
         \A q \in Process \ {p} : job'[q] = job[q] /\ pc'[q] = pc[q],
         \A t \in Task : \/ tstate'[t] = tstate[t]
                         \/ tstate[t] = "todo"
                         \/ tstate[t] = "doing" /\ pc[p] # "idle" /\ job[p].task = t,
         locks'["global"] = locks["global"] \/ locks["global"] \in {p, Free, Dead},
         \/ pc'[p] = "idle"
         \/ tstate[job'[p].task] = "todo"
         \/ pc[p] # "idle" /\ job'[p].task = job[p].task,
         IdleOrOwns(p)'
  PROVE  Owning'
<1>1. Outputs \in [Task -> SUBSET Model] /\ {Free, Dead} \intersect Process = {}
  BY AssetBufferAssumption
<1>2. ASSUME NEW q \in Process \ {p} PROVE IdleOrOwns(q)'
  BY <1>1, <1>2, SMTT(30) DEF TypeOK, Owning, IdleOrOwns, Owns, Producers
<1>3. ASSUME NEW q \in Process \ {p}, pc'[q] # "idle", pc'[p] # "idle" PROVE job'[q].task # job'[p].task
  BY <1>3 DEF TypeOK, Owning, IdleOrOwns, Owns
<1> QED
  BY <1>2, <1>3 DEF Owning

LEMMA GoesOn ==
  ASSUME TypeOK, Owning, NEW p \in Process, pc[p] \notin {"idle", "teardown"}, pc'[p] # "idle",
         UNCHANGED <<setting, tstate>>,
         \A q \in Process \ {p} : job'[q] = job[q] /\ pc'[q] = pc[q],
         job'[p].task = job[p].task,
         locks'["global"] = locks["global"] \/ locks["global"] \in {p, Free},
         pc'[p] \in {"fetch", "purge"} => locks'["global"] = p,
         pc'[p] # "fetch" => job'[p].busy = {},
         pc'[p] \in {"fetch", "link"} => job'[p].todo \union job'[p].busy \subseteq Inputs[job[p].task],
         pc'[p] = "run" => job'[p].todo = {},
         \A a \in job'[p].busy \ Model : job'[p].busy = {a},
         pc'[p] \in {"wait", "fetch", "link", "run"} => job'[p].error = "none"
  PROVE  Owning'
<1>1. Owns(p)
  BY DEF Owning, IdleOrOwns
<1>2. Owns(p)'
  BY <1>1 DEF Owns, Producers
<1>3. IdleOrOwns(p)'
  BY <1>2 DEF IdleOrOwns
<1> QED
  BY <1>3, OneMoves

LEMMA OwningKept ==
  ASSUME Owning, UNCHANGED <<setting, tstate, locks, pc, job>>
  PROVE  Owning'
  BY DEF Owning, IdleOrOwns, Owns, Producers

LEMMA OwningInit == Init => Owning
  BY DEF Init, Owning, IdleOrOwns

LEMMA OwningNext ==
  ASSUME TypeOK, Owning, [Next]_vars
  PROVE  Owning'
<1>0. /\ pc \in [Process -> Place] /\ job \in [Process -> Job]
      /\ locks \in [{"global", "clear"} -> Process \union {Free, Dead}]
      /\ tstate \in [Task -> {"todo", "doing", "done", "failed"}]
      /\ \A p \in Process : IdleOrOwns(p)
  BY DEF TypeOK, Owning
<1> USE DEF IdleOrOwns, Owns, Job, Fault, Goto, Hold, SetJob, diskVars, taskVars, removalVars, modelVars, envVars
<1>1. ASSUME NEW p \in Process, NEW t \in Task, Receive(p, t) PROVE Owning'
  <2>1. IdleOrOwns(p)'
    BY <1>1, <1>0, AssetBufferAssumption DEF Receive, NoJob, Producers
  <2> QED
    BY <1>1, <1>0, <2>1, OneMoves DEF Receive, NoJob
<1>2. ASSUME NEW p \in Process, LockBuffer(p) PROVE Owning'
  BY <1>2, <1>0, GoesOn DEF LockBuffer
<1>3. ASSUME NEW p \in Process, WaitTimeout(p) PROVE Owning'
  BY <1>3, <1>0, GoesOn DEF WaitTimeout
<1>4. ASSUME NEW p \in Process, EndPurge(p) PROVE Owning'
  BY <1>4, <1>0, GoesOn DEF EndPurge
<1>5. ASSUME NEW p \in Process, JoinFailed(p) PROVE Owning'
  BY <1>5, <1>0, GoesOn DEF JoinFailed, FetchedAll
<1>6. ASSUME NEW p \in Process, UnlockBuffer(p) PROVE Owning'
  BY <1>6, <1>0, GoesOn DEF UnlockBuffer, FetchedAll
<1>7. ASSUME NEW p \in Process, StartExecution(p) PROVE Owning'
  BY <1>7, <1>0, GoesOn DEF StartExecution
<1>8. ASSUME NEW p \in Process, SaveOutputs(p) PROVE Owning'
  <2>1. IdleOrOwns(p)'
    BY <1>8, <1>0, AssetBufferAssumption DEF SaveOutputs, Producers
  <2> QED
    BY <1>8, <1>0, <2>1, OneMoves DEF SaveOutputs
<1>9. ASSUME NEW p \in Process, LockClear(p) PROVE Owning'
  <2>1. CASE folder
    BY <1>9, <1>0, <2>1, GoesOn DEF LockClear
  <2>2. CASE ~folder
    BY <1>9, <1>0, <2>2, GoesOn DEF LockClear
  <2> QED
    BY <2>1, <2>2
<1>10. ASSUME NEW p \in Process, ClearTimeout(p) PROVE Owning'
  BY <1>10, <1>0, GoesOn DEF ClearTimeout
<1>11. ASSUME NEW p \in Process, EndClear(p) PROVE Owning'
  BY <1>11, <1>0, GoesOn DEF EndClear
<1>12. ASSUME NEW p \in Process, Teardown(p) PROVE Owning'
  <2>1. pc'[p] = "idle" /\ job'[p] = NoJob /\ \A q \in Process \ {p} : job'[q] = job[q] /\ pc'[q] = pc[q]
    BY <1>12, <1>0 DEF Teardown
  <2>2. CASE job[p].error = "none"
    BY <1>12, <2>1, <2>2, OneMoves DEF Teardown
  <2>3. CASE job[p].error # "none"
    <3>1. tstate[job[p].task] = "doing" /\ job[p].task \in Task
      BY <1>12, <1>0, <2>3 DEF Teardown
    <3>2. \A t \in Task : t # job[p].task => tstate'[t] = tstate[t]
      BY <1>12, <1>0, <2>3 DEF Teardown
    <3> QED
      BY <1>12, <1>0, <2>1, <3>1, <3>2, OneMoves DEF Teardown
  <2> QED
    BY <2>2, <2>3
<1>13. ASSUME NEW p \in Process, Kill(p) PROVE Owning'
  <2>1. pc'[p] = "idle" /\ job'[p] = NoJob /\ \A q \in Process \ {p} : job'[q] = job[q] /\ pc'[q] = pc[q]
    BY <1>13, <1>0 DEF Kill, Orphaned
  <2>2. \A t \in Task : tstate'[t] = IF tstate[t] = "doing" /\ job[p].task = t THEN "todo" ELSE tstate[t]
    BY <1>13 DEF Kill, Orphaned
  <2>3. locks'["global"] = locks["global"] \/ locks["global"] = p
    BY <1>13, <1>0 DEF Kill
  <2>4. pc[p] = "idle" => \A t \in Task : job[p].task # t
    BY <1>0, AssetBufferAssumption DEF NoJob
  <2>5. IdleOrOwns(p)'
    BY <2>1
  <2>6. UNCHANGED setting
    BY <1>13 DEF Kill
  <2> QED
    BY <2>1, <2>2, <2>3, <2>4, <2>5, <2>6, OneMoves
<1>14. ASSUME NEW p \in Process, NEW a \in Asset, Exists(p, a) PROVE Owning'
  BY <1>14, <1>0, GoesOn DEF Exists, Reached
<1>15. ASSUME NEW p \in Process, NEW a \in Asset, StartFetch(p, a) PROVE Owning'
  <2>1. job[p].busy = {} \/ (a \in Model /\ job[p].busy \subseteq Model)
    <3>1. \A b \in job[p].busy : Stage(a) <= Stage(b) /\ b \in Asset
      BY <1>15, <1>0, AssetBufferAssumption DEF StartFetch, Reached
    <3> QED
      BY <1>15, <3>1, AssetBufferAssumption DEF StartFetch, Reached, Stage, Asset
  <2> QED
    BY <1>15, <1>0, <2>1, GoesOn DEF StartFetch, Reached
<1>16. ASSUME NEW p \in Process, NEW a \in Asset, EndFetch(p, a) PROVE Owning'
  BY <1>16, <1>0, GoesOn DEF EndFetch
<1>17. ASSUME NEW p \in Process, NEW a \in Asset, FetchFails(p, a) PROVE Owning'
  <2>1. Raise(p, a, "error")
    BY <1>17 DEF FetchFails
  <2>2. /\ a \in Model => UNCHANGED <<locks, pc>>
        /\ a \notin Model =>
             /\ locks' = [locks EXCEPT !["global"] = Free]
             /\ \E place \in {"clearWait", "teardown"} : pc' = [pc EXCEPT ![p] = place]
    BY <2>1 DEF Raise
  <2>3. /\ job'[p].task = job[p].task /\ \A q \in Process \ {p} : job'[q] = job[q]
        /\ a \in Model => /\ job'[p].todo = job[p].todo \ {a} /\ job'[p].busy = job[p].busy \ {a}
                          /\ job'[p].error = job[p].error
        /\ a \notin Model => job'[p].todo = {} /\ job'[p].busy = {}
    BY <1>0, <2>1, RaiseJob DEF JobTyped
  <2>4. pc[p] = "fetch" /\ UNCHANGED <<setting, tstate>>
    BY <1>17 DEF FetchFails
  <2> QED
    BY <1>0, <2>2, <2>3, <2>4, GoesOn
<1>18. ASSUME NEW p \in Process, NEW a \in Asset, NoSpace(p, a) PROVE Owning'
  <2>1. PICK e \in {"error", "space"} : Raise(p, a, e)
    BY <1>18 DEF NoSpace
  <2>2. /\ a \in Model => UNCHANGED <<locks, pc>>
        /\ a \notin Model =>
             /\ locks' = [locks EXCEPT !["global"] = Free]
             /\ \E place \in {"clearWait", "teardown"} : pc' = [pc EXCEPT ![p] = place]
    BY <2>1 DEF Raise
  <2>3. /\ job'[p].task = job[p].task /\ \A q \in Process \ {p} : job'[q] = job[q]
        /\ a \in Model => /\ job'[p].todo = job[p].todo \ {a} /\ job'[p].busy = job[p].busy \ {a}
                          /\ job'[p].error = job[p].error
        /\ a \notin Model => job'[p].todo = {} /\ job'[p].busy = {}
    BY <1>0, <2>1, RaiseJob DEF JobTyped
  <2>4. pc[p] = "fetch" /\ UNCHANGED <<setting, tstate>>
    BY <1>18 DEF NoSpace, Reached
  <2> QED
    BY <1>0, <2>2, <2>3, <2>4, GoesOn
<1>19. ASSUME NEW p \in Process, NEW a \in Asset, BadChecksum(p, a) PROVE Owning'
  BY <1>19, <1>0, GoesOn DEF BadChecksum
<1>20. ASSUME NEW p \in Process, NEW a \in Asset, LinkAsset(p, a) PROVE Owning'
  BY <1>20, <1>0, GoesOn DEF LinkAsset
<1>21. ASSUME NEW p \in Process, NEW a \in Asset, LinkFails(p, a) PROVE Owning'
  BY <1>21, <1>0, GoesOn DEF LinkFails
<1>22. ASSUME NEW p \in Process, NEW a \in Asset, RemoveAsset(p, a) PROVE Owning'
  BY <1>22, <1>0, GoesOn DEF RemoveAsset
<1>23. ASSUME NEW t \in Task, FinishedTask(t) PROVE Owning'
  BY <1>23, OwningKept DEF FinishedTask
<1>24. ASSUME NEW m \in Model, DisableOutput(m) PROVE Owning'
  BY <1>24, OwningKept DEF DisableOutput
<1>25. ASSUME NEW m \in Model, RemoveFromDb(m) PROVE Owning'
  BY <1>25, OwningKept DEF RemoveFromDb
<1>29. ASSUME NEW p \in Process, NEW m \in Model, ReceiveRemoval(p, m) PROVE Owning'
  BY <1>29, OwningKept DEF ReceiveRemoval
<1>26. ASSUME NEW p \in Process, NEW m \in Model, RemoveFromBuffer(p, m) PROVE Owning'
  BY <1>26, OwningKept DEF RemoveFromBuffer
<1>27. CASE Restart
  <2>1. \A p \in Process : pc'[p] = "idle" /\ job'[p] = NoJob
    BY <1>27 DEF Restart, Orphaned
  <2> QED
    BY <2>1 DEF Owning
<1>28. CASE UNCHANGED vars
  BY <1>28, OwningKept DEF vars
<1> HIDE DEF IdleOrOwns, Owns, Job
<1> QED
  BY <1>1, <1>2, <1>3, <1>4, <1>5, <1>6, <1>7, <1>8, <1>9, <1>10, <1>11, <1>12, <1>13, <1>14, <1>15,
     <1>16, <1>17, <1>18, <1>19, <1>20, <1>21, <1>22, <1>23, <1>24, <1>25, <1>26, <1>27, <1>28, <1>29
  DEF Next, ProcessStep, AssetStep, AssetFault, ModelStep, Quiet

-----------------------------------------------------------------------------
(* A model is there until the tasks that read it are done *)

LEMMA KeepingKept ==
  ASSUME Keeping, UNCHANGED <<disabled, stored, dbRemovals>>, removals' \subseteq removals,
         \A t \in Task : tstate'[t] = "done" <=> tstate[t] = "done"
  PROVE  Keeping'
  BY DEF Keeping, Consumers

LEMMA KeepingInit == Init => Keeping
  BY DEF Init, Keeping

LEMMA KeepingNext ==
  ASSUME TypeOK, Owning, Keeping, [Next]_vars
  PROVE  Keeping'
<1>0. /\ tstate \in [Task -> {"todo", "doing", "done", "failed"}]
      /\ \A p \in Process : IdleOrOwns(p)
  BY DEF TypeOK, Owning
<1> USE DEF taskVars, removalVars, modelVars
<1>1. ASSUME NEW p \in Process, NEW t \in Task, Receive(p, t) PROVE Keeping'
  BY <1>1, <1>0, KeepingKept DEF Receive
<1>2. ASSUME NEW p \in Process, LockBuffer(p) PROVE Keeping'
  BY <1>2, KeepingKept DEF LockBuffer
<1>3. ASSUME NEW p \in Process, WaitTimeout(p) PROVE Keeping'
  BY <1>3, KeepingKept DEF WaitTimeout
<1>4. ASSUME NEW p \in Process, EndPurge(p) PROVE Keeping'
  BY <1>4, KeepingKept DEF EndPurge
<1>5. ASSUME NEW p \in Process, JoinFailed(p) PROVE Keeping'
  BY <1>5, KeepingKept DEF JoinFailed, FetchedAll
<1>6. ASSUME NEW p \in Process, UnlockBuffer(p) PROVE Keeping'
  BY <1>6, KeepingKept DEF UnlockBuffer, FetchedAll
<1>7. ASSUME NEW p \in Process, StartExecution(p) PROVE Keeping'
  BY <1>7, KeepingKept DEF StartExecution
<1>8. ASSUME NEW p \in Process, SaveOutputs(p) PROVE Keeping'
  <2>1. job[p].task \in Task /\ \A t \in Task : t # job[p].task => tstate'[t] = tstate[t]
    BY <1>8, <1>0 DEF SaveOutputs, IdleOrOwns, Owns
  <2>2. tstate'[job[p].task] = "done" /\ stored' = stored \union Outputs[job[p].task]
    BY <1>8, <1>0, <2>1 DEF SaveOutputs
  <2> QED
    BY <1>8, <2>1, <2>2 DEF SaveOutputs, Keeping, Consumers
<1>9. ASSUME NEW p \in Process, LockClear(p) PROVE Keeping'
  BY <1>9, KeepingKept DEF LockClear
<1>10. ASSUME NEW p \in Process, ClearTimeout(p) PROVE Keeping'
  BY <1>10, KeepingKept DEF ClearTimeout
<1>11. ASSUME NEW p \in Process, EndClear(p) PROVE Keeping'
  BY <1>11, KeepingKept DEF EndClear
<1>12. ASSUME NEW p \in Process, Teardown(p) PROVE Keeping'
  <2>1. CASE job[p].error = "none"
    BY <1>12, <2>1, KeepingKept DEF Teardown
  <2>2. CASE job[p].error # "none"
    <3>1. tstate[job[p].task] = "doing" /\ job[p].task \in Task
      BY <1>12, <1>0, <2>2 DEF Teardown, IdleOrOwns, Owns
    <3>2. \A t \in Task : tstate'[t] = "done" <=> tstate[t] = "done"
      BY <1>12, <1>0, <2>2, <3>1 DEF Teardown
    <3> QED
      BY <1>12, <3>2, KeepingKept DEF Teardown
  <2> QED
    BY <2>1, <2>2
<1>13. ASSUME NEW p \in Process, Kill(p) PROVE Keeping'
  BY <1>13, <1>0, KeepingKept DEF Kill, Orphaned
<1>14. ASSUME NEW p \in Process, NEW a \in Asset, Exists(p, a) PROVE Keeping'
  BY <1>14, KeepingKept DEF Exists, Reached
<1>15. ASSUME NEW p \in Process, NEW a \in Asset, StartFetch(p, a) PROVE Keeping'
  BY <1>15, KeepingKept DEF StartFetch, Reached
<1>16. ASSUME NEW p \in Process, NEW a \in Asset, EndFetch(p, a) PROVE Keeping'
  BY <1>16, KeepingKept DEF EndFetch
<1>17. ASSUME NEW p \in Process, NEW a \in Asset, FetchFails(p, a) PROVE Keeping'
  BY <1>17, KeepingKept DEF FetchFails, Raise
<1>18. ASSUME NEW p \in Process, NEW a \in Asset, NoSpace(p, a) PROVE Keeping'
  BY <1>18, KeepingKept DEF NoSpace, Raise, Reached
<1>19. ASSUME NEW p \in Process, NEW a \in Asset, BadChecksum(p, a) PROVE Keeping'
  BY <1>19, KeepingKept DEF BadChecksum
<1>20. ASSUME NEW p \in Process, NEW a \in Asset, LinkAsset(p, a) PROVE Keeping'
  BY <1>20, KeepingKept DEF LinkAsset
<1>21. ASSUME NEW p \in Process, NEW a \in Asset, LinkFails(p, a) PROVE Keeping'
  BY <1>21, KeepingKept DEF LinkFails
<1>22. ASSUME NEW p \in Process, NEW a \in Asset, RemoveAsset(p, a) PROVE Keeping'
  BY <1>22, KeepingKept DEF RemoveAsset
<1>23. ASSUME NEW t \in Task, FinishedTask(t) PROVE Keeping'
  BY <1>23, KeepingKept DEF FinishedTask
<1>24. ASSUME NEW m \in Model, DisableOutput(m) PROVE Keeping'
  BY <1>24 DEF DisableOutput, Keeping, Consumers
<1>25. ASSUME NEW m \in Model, RemoveFromDb(m) PROVE Keeping'
  BY <1>25 DEF RemoveFromDb, Keeping, Consumers
<1>29. ASSUME NEW p \in Process, NEW m \in Model, ReceiveRemoval(p, m) PROVE Keeping'
  BY <1>29, KeepingKept DEF ReceiveRemoval
<1>26. ASSUME NEW p \in Process, NEW m \in Model, RemoveFromBuffer(p, m) PROVE Keeping'
  BY <1>26, KeepingKept DEF RemoveFromBuffer
<1>27. CASE Restart
  BY <1>27, <1>0, KeepingKept DEF Restart, Orphaned
<1>28. CASE UNCHANGED vars
  BY <1>28, KeepingKept DEF vars
<1> QED
  BY <1>1, <1>2, <1>3, <1>4, <1>5, <1>6, <1>7, <1>8, <1>9, <1>10, <1>11, <1>12, <1>13, <1>14, <1>15,
     <1>16, <1>17, <1>18, <1>19, <1>20, <1>21, <1>22, <1>23, <1>24, <1>25, <1>26, <1>27, <1>28, <1>29
  DEF Next, ProcessStep, AssetStep, AssetFault, ModelStep, Quiet

-----------------------------------------------------------------------------
(* A process that removes a model *)

LEMMA SettingKept == [Next]_vars => UNCHANGED setting
<1> USE DEF envVars
<1>1. ASSUME NEW p \in Process, ProcessStep(p) \/ Kill(p) PROVE UNCHANGED setting
  BY <1>1 DEF ProcessStep, LockBuffer, WaitTimeout, EndPurge, JoinFailed, UnlockBuffer,
    StartExecution, SaveOutputs, LockClear, ClearTimeout, EndClear, Teardown, Kill
<1>2. ASSUME NEW p \in Process, NEW a \in Asset, AssetStep(p, a) \/ AssetFault(p, a)
      PROVE  UNCHANGED setting
  BY <1>2 DEF AssetStep, AssetFault, Exists, StartFetch, EndFetch, FetchFails, NoSpace, BadChecksum,
    LinkAsset, LinkFails, RemoveAsset
<1>3. ASSUME NEW m \in Model, ModelStep(m) PROVE UNCHANGED setting
  BY <1>3 DEF ModelStep, DisableOutput, RemoveFromDb, ReceiveRemoval, RemoveFromBuffer
<1> QED
  BY <1>1, <1>2, <1>3 DEF Next, Quiet, Receive, FinishedTask, Restart, vars

LEMMA RemoversInit == Init => Removers
  BY DEF Init, Removers

LEMMA RemoversNext ==
  ASSUME TypeOK, Keeping, Removers, [Next]_vars
  PROVE  Removers'
<1> SUFFICES ASSUME NEW q \in Process, removing'[q] # {}
             PROVE  q \in setting'.processes /\ pc'[q] = "idle" /\ removing'[q] \subseteq disabled'
  BY DEF Removers
<1>0. /\ pc \in [Process -> Place] /\ removing \in [Process -> SUBSET Model]
      /\ setting' = setting
  BY SettingKept DEF TypeOK
<1>1. ASSUME NEW p \in Process, NEW t \in Task, Receive(p, t)
      PROVE  removing' = removing /\ disabled' = disabled /\ removing[p] = {} /\ pc'[q] = IF q = p THEN "wait" ELSE pc[q]
  BY <1>0, <1>1 DEF Receive, Goto, removalVars, modelVars
<1>2. ASSUME NEW p \in Process, ProcessStep(p)
      PROVE  removing' = removing /\ disabled' = disabled /\ pc[p] # "idle" /\ (q # p => pc'[q] = pc[q])
  BY <1>0, <1>2 DEF ProcessStep, LockBuffer, WaitTimeout, EndPurge, JoinFailed, UnlockBuffer, FetchedAll,
    StartExecution, SaveOutputs, LockClear, ClearTimeout, EndClear, Teardown, Goto, removalVars, modelVars
<1>3. ASSUME NEW p \in Process, NEW a \in Asset, AssetStep(p, a) \/ AssetFault(p, a)
      PROVE  removing' = removing /\ disabled' = disabled /\ pc[p] # "idle" /\ (q # p => pc'[q] = pc[q])
  BY <1>0, <1>3 DEF AssetStep, AssetFault, Exists, StartFetch, EndFetch, FetchFails, NoSpace, BadChecksum,
    LinkAsset, LinkFails, RemoveAsset, Reached, Raise, Goto, removalVars, modelVars
<1>4. ASSUME NEW p \in Process, Kill(p)
      PROVE  /\ removing'[q] = IF q = p THEN {} ELSE removing[q]
             /\ disabled' = disabled /\ (q # p => pc'[q] = pc[q])
  BY <1>0, <1>4 DEF Kill, Orphaned
<1>5. ASSUME NEW t \in Task, FinishedTask(t) PROVE UNCHANGED <<removing, disabled, pc>>
  BY <1>5 DEF FinishedTask, removalVars
<1>6. ASSUME NEW m \in Model, DisableOutput(m) PROVE removing' = removing /\ pc' = pc /\ disabled \subseteq disabled'
  BY <1>6 DEF DisableOutput
<1>7. ASSUME NEW m \in Model, RemoveFromDb(m) PROVE UNCHANGED <<removing, disabled, pc>>
  BY <1>7 DEF RemoveFromDb, removalVars
<1>8. ASSUME NEW p \in Process, NEW m \in Model, ReceiveRemoval(p, m)
      PROVE  /\ removing'[q] = IF q = p THEN {m} ELSE removing[q]
             /\ disabled' = disabled /\ pc' = pc /\ pc[p] = "idle" /\ p \in setting.processes /\ m \in disabled
  BY <1>0, <1>8 DEF ReceiveRemoval, Keeping
<1>9. ASSUME NEW p \in Process, NEW m \in Model, RemoveFromBuffer(p, m)
      PROVE  removing'[q] = (IF q = p THEN {} ELSE removing[q]) /\ disabled' = disabled /\ pc' = pc
  BY <1>0, <1>9 DEF RemoveFromBuffer
<1>10. CASE Restart
  BY <1>10 DEF Restart
<1>11. UNCHANGED vars => UNCHANGED <<removing, disabled, pc>>
  BY DEF vars, removalVars, modelVars
<1> QED
  BY <1>0, <1>1, <1>2, <1>3, <1>4, <1>5, <1>6, <1>7, <1>8, <1>9, <1>10, <1>11
  DEF Next, ModelStep, Quiet, Removers

-----------------------------------------------------------------------------
(* What is found in the buffer can be trusted *)

\* A step of one process, which answers for the partial copies it leaves.
LEMMA TrustedMove ==
  ASSUME BufferTrusted, NEW p \in Process, UNCHANGED setting,
         \A q \in Process \ {p} : job'[q] = job[q] /\ pc'[q] = pc[q],
         \A a \in Asset : buffer'[a] = "partial" =>
           \/ a \in job'[p].busy \/ (pc'[p] = "purge" /\ a \in job'[p].todo)
           \/ /\ buffer[a] = "partial"
              /\ a \notin job[p].busy /\ ~(pc[p] = "purge" /\ a \in job[p].todo)
  PROVE  BufferTrusted'
  BY DEF BufferTrusted, Survivors

LEMMA TrustedKept ==
  ASSUME BufferTrusted, UNCHANGED <<setting, job, pc>>,
         \A a \in Asset : buffer'[a] = "partial" => buffer[a] = "partial"
  PROVE  BufferTrusted'
  BY DEF BufferTrusted, Survivors

LEMMA TrustedInit == Init => BufferTrusted
  BY DEF Init, BufferTrusted, NoCopies

LEMMA TrustedNext ==
  ASSUME TypeOK, Owning, BufferTrusted, [Next]_vars
  PROVE  BufferTrusted'
<1>0. /\ pc \in [Process -> Place] /\ job \in [Process -> Job] /\ buffer \in [Asset -> Copy]
      /\ \A p \in Process : IdleOrOwns(p)
  BY DEF TypeOK, Owning
<1> USE DEF IdleOrOwns, Owns, Job, Goto, SetJob, Remove, Write, diskVars, removalVars, modelVars, envVars
<1>1. ASSUME NEW p \in Process, NEW t \in Task, Receive(p, t) PROVE BufferTrusted'
  BY <1>1, <1>0, TrustedMove DEF Receive
<1>2. ASSUME NEW p \in Process, LockBuffer(p) PROVE BufferTrusted'
  BY <1>2, <1>0, TrustedMove DEF LockBuffer
<1>3. ASSUME NEW p \in Process, WaitTimeout(p) PROVE BufferTrusted'
  BY <1>3, <1>0, TrustedMove DEF WaitTimeout
<1>4. ASSUME NEW p \in Process, EndPurge(p) PROVE BufferTrusted'
  BY <1>4, <1>0, TrustedMove DEF EndPurge
<1>5. ASSUME NEW p \in Process, JoinFailed(p) PROVE BufferTrusted'
  BY <1>5, <1>0, TrustedMove DEF JoinFailed, FetchedAll
<1>6. ASSUME NEW p \in Process, UnlockBuffer(p) PROVE BufferTrusted'
  BY <1>6, <1>0, TrustedMove DEF UnlockBuffer, FetchedAll
<1>7. ASSUME NEW p \in Process, StartExecution(p) PROVE BufferTrusted'
  BY <1>7, <1>0, TrustedMove DEF StartExecution
<1>8. ASSUME NEW p \in Process, SaveOutputs(p) PROVE BufferTrusted'
  BY <1>8, <1>0, TrustedMove DEF SaveOutputs
<1>9. ASSUME NEW p \in Process, LockClear(p) PROVE BufferTrusted'
  BY <1>9, <1>0, TrustedMove DEF LockClear
<1>10. ASSUME NEW p \in Process, ClearTimeout(p) PROVE BufferTrusted'
  BY <1>10, <1>0, TrustedMove DEF ClearTimeout
<1>11. ASSUME NEW p \in Process, EndClear(p) PROVE BufferTrusted'
  BY <1>11, <1>0, TrustedMove DEF EndClear
<1>12. ASSUME NEW p \in Process, Teardown(p) PROVE BufferTrusted'
  BY <1>12, <1>0, TrustedMove DEF Teardown
<1>13. ASSUME NEW p \in Process, Kill(p) PROVE BufferTrusted'
  BY <1>13 DEF Kill, Fault, BufferTrusted, Survivors
<1>14. ASSUME NEW p \in Process, NEW a \in Asset, Exists(p, a) PROVE BufferTrusted'
  BY <1>14, <1>0, TrustedMove DEF Exists, Reached
<1>15. ASSUME NEW p \in Process, NEW a \in Asset, StartFetch(p, a) PROVE BufferTrusted'
  BY <1>15, <1>0, TrustedMove DEF StartFetch, Reached
<1>16. ASSUME NEW p \in Process, NEW a \in Asset, EndFetch(p, a) PROVE BufferTrusted'
  BY <1>16, <1>0, TrustedMove DEF EndFetch
<1>17. ASSUME NEW p \in Process, NEW a \in Asset, FetchFails(p, a) PROVE BufferTrusted'
  <2>1. Raise(p, a, "error") /\ Remove({a}) /\ a \in job[p].busy
    BY <1>17 DEF FetchFails
  <2>2. /\ \A q \in Process \ {p} : job'[q] = job[q]
        /\ a \in Model => job'[p].busy = job[p].busy \ {a}
    BY <1>0, <2>1, RaiseJob DEF JobTyped
  <2>4. \A q \in Process \ {p} : pc'[q] = pc[q]
    BY <1>0, <2>1 DEF Raise
  <2>3. a \notin Model => job[p].busy \subseteq {a}
    BY <1>17, <1>0 DEF FetchFails
  <2> QED
    BY <1>17, <1>0, <2>1, <2>2, <2>3, <2>4, TrustedMove DEF FetchFails
<1>18. ASSUME NEW p \in Process, NEW a \in Asset, NoSpace(p, a) PROVE BufferTrusted'
  <2>1. PICK e \in {"error", "space"} : Raise(p, a, e)
    BY <1>18 DEF NoSpace
  <2>2. /\ \A q \in Process \ {p} : job'[q] = job[q]
        /\ a \in Model => job'[p].busy = job[p].busy \ {a}
    BY <1>0, <2>1, RaiseJob DEF JobTyped
  <2>4. \A q \in Process \ {p} : pc'[q] = pc[q]
    BY <1>0, <2>1 DEF Raise
  <2>3. a \notin Model => job[p].busy \subseteq {a}
    BY <1>18, <1>0 DEF NoSpace, Reached
  <2> QED
    BY <1>18, <1>0, <2>1, <2>2, <2>3, <2>4, TrustedMove DEF NoSpace, Reached
<1>19. ASSUME NEW p \in Process, NEW a \in Asset, BadChecksum(p, a) PROVE BufferTrusted'
  <2>1. job[p].busy = {a} /\ a \in Asset /\ pc[p] = "fetch"
    BY <1>19, <1>0, AssetBufferAssumption DEF BadChecksum, Asset
  <2>2. /\ job'[p].todo = Present \intersect Sample /\ pc'[p] = "purge"
        /\ \A q \in Process \ {p} : job'[q] = job[q] /\ pc'[q] = pc[q]
        /\ UNCHANGED <<buffer, setting>>
    BY <1>19, <1>0 DEF BadChecksum
  <2>3. buffer[a] = "partial" => a \in job'[p].todo
    BY <1>19, <2>1, <2>2 DEF BadChecksum, Present
  <2> QED
    BY <1>0, <2>1, <2>2, <2>3, TrustedMove
<1>20. ASSUME NEW p \in Process, NEW a \in Asset, LinkAsset(p, a) PROVE BufferTrusted'
  BY <1>20, <1>0, TrustedMove DEF LinkAsset
<1>21. ASSUME NEW p \in Process, NEW a \in Asset, LinkFails(p, a) PROVE BufferTrusted'
  BY <1>21, <1>0, TrustedMove DEF LinkFails
<1>22. ASSUME NEW p \in Process, NEW a \in Asset, RemoveAsset(p, a) PROVE BufferTrusted'
  BY <1>22, <1>0, TrustedMove DEF RemoveAsset
<1>23. ASSUME NEW t \in Task, FinishedTask(t) PROVE BufferTrusted'
  BY <1>23, TrustedKept DEF FinishedTask
<1>24. ASSUME NEW m \in Model, DisableOutput(m) PROVE BufferTrusted'
  BY <1>24, TrustedKept DEF DisableOutput
<1>25. ASSUME NEW m \in Model, RemoveFromDb(m) PROVE BufferTrusted'
  BY <1>25, TrustedKept DEF RemoveFromDb
<1>29. ASSUME NEW p \in Process, NEW m \in Model, ReceiveRemoval(p, m) PROVE BufferTrusted'
  BY <1>29, TrustedKept DEF ReceiveRemoval
<1>26. ASSUME NEW p \in Process, NEW m \in Model, RemoveFromBuffer(p, m) PROVE BufferTrusted'
  BY <1>26, <1>0, TrustedKept DEF RemoveFromBuffer
<1>27. CASE Restart
  BY <1>27 DEF Restart, Fault, BufferTrusted, Survivors
<1>28. CASE UNCHANGED vars
  BY <1>28, TrustedKept DEF vars
<1> HIDE DEF IdleOrOwns, Owns, Job
<1> QED
  BY <1>1, <1>2, <1>3, <1>4, <1>5, <1>6, <1>7, <1>8, <1>9, <1>10, <1>11, <1>12, <1>13, <1>14, <1>15,
     <1>16, <1>17, <1>18, <1>19, <1>20, <1>21, <1>22, <1>23, <1>24, <1>25, <1>26, <1>27, <1>28, <1>29
  DEF Next, ProcessStep, AssetStep, AssetFault, ModelStep, Quiet

-----------------------------------------------------------------------------
(* When nothing fails, an asset stays *)

\* What a task at work needs has been produced and is not disabled.
LEMMA NeededStays ==
  ASSUME TypeOK, Owning, Keeping, NEW p \in Process, pc[p] \in {"fetch", "link"},
         NEW a \in Inputs[job[p].task]
  PROVE  a \in Asset /\ a \notin disabled /\ (a \in Model => a \in stored)
<1>1. Owns(p)
  BY DEF Owning, IdleOrOwns
<1>2. job[p].task \in Task /\ tstate[job[p].task] = "doing"
  BY <1>1 DEF Owns
<1>3. a \in Asset
  BY <1>2, AssetBufferAssumption
<1>4. a \notin disabled
  BY <1>2 DEF TypeOK, Keeping, Consumers
<1>5. ASSUME a \in Model PROVE a \in stored
  <2>1. PICK u \in Task : a \in Outputs[u]
    BY <1>2, <1>5, AssetBufferAssumption
  <2>2. tstate[u] = "done"
    BY <1>1, <2>1 DEF Owns, Producers
  <2> QED
    BY <1>4, <2>1, <2>2 DEF Keeping
<1> QED
  BY <1>3, <1>4, <1>5

\* There is room for it.
LEMMA NeededFits ==
  ASSUME TypeOK, Owning, Keeping, CalmStays, Calm, NEW p \in Process, pc[p] = "fetch",
         NEW a \in Inputs[job[p].task], buffer[a] = "absent"
  PROVE  Fits
<1>1. a \in Asset /\ a \notin disabled
  BY NeededStays
<1>2. \A t \in Task : links[t][a] = "absent"
  BY <1>1 DEF CalmStays, Linking
<1>3. Used \subseteq Asset /\ Used # Asset
  BY <1>1, <1>2 DEF Used
<1>4. Cardinality(Used) \in Nat /\ Cardinality(Asset) \in Nat /\ Cardinality(Used) < Cardinality(Asset)
  BY <1>3, AssetBufferAssumption, FS_Subset, FS_CardinalityType
<1>5. setting.capacity \in Nat
  BY AssetBufferAssumption DEF TypeOK, SettingType
<1> QED
  BY <1>4, <1>5 DEF Calm, Roomy, Fits

\* The lock keeps the filling of the buffer to one process.
LEMMA OneFills ==
  ASSUME Owning, NEW p \in Process, NEW q \in Process, pc[p] = "fetch", pc[q] = "fetch"
  PROVE  p = q
  BY DEF Owning, IdleOrOwns, Owns

\* A step of one process that keeps what the others have found.
LEMMA CalmMove ==
  ASSUME TypeOK, Owning, Keeping, CalmStays, Calm, NEW p \in Process, UNCHANGED setting,
         \A q \in Process \ {p} : job'[q] = job[q] /\ pc'[q] = pc[q],
         disabled \subseteq disabled',
         \A a \in Asset \ disabled :
           /\ buffer[a] # "absent" => buffer'[a] # "absent"
           /\ buffer[a] = "whole" => buffer'[a] = "whole"
           /\ buffer[a] = "partial" =>
                buffer'[a] = "partial" \/ (a \in Model /\ buffer'[a] = "whole") \/ pc[p] = "fetch",
         \A t \in Task, a \in Asset :
           links'[t][a] # "absent" => links[t][a] # "absent" \/ buffer'[a] # "absent",
         Staying(p)'
  PROVE  CalmStays'
<1>1. ASSUME NEW q \in Process \ {p} PROVE Staying(q)'
  <2>1. Staying(q) /\ job'[q] = job[q] /\ pc'[q] = pc[q]
    BY DEF CalmStays
  <2>2. CASE pc[q] = "fetch"
    <3>1. pc[p] # "fetch"
      BY <2>2, OneFills
    <3>2. \A a \in Inputs[job[q].task] : a \in Asset \ disabled
      BY <2>2, NeededStays
    <3>3. job[q].busy \subseteq Inputs[job[q].task]
      BY <2>2 DEF Owning, IdleOrOwns, Owns
    <3> QED
      BY <2>1, <2>2, <3>1, <3>2, <3>3 DEF Staying
  <2>3. CASE pc[q] = "link"
    <3>1. \A a \in Inputs[job[q].task] : a \in Asset \ disabled
      BY <2>3, NeededStays
    <3> QED
      BY <2>1, <2>3, <3>1 DEF Staying
  <2>4. CASE pc[q] \notin {"fetch", "link"}
    BY <2>1, <2>4 DEF Staying
  <2> QED
    BY <2>2, <2>3, <2>4
<1>2. Linking'
  BY DEF CalmStays, Linking
<1> QED
  BY <1>1, <1>2 DEF CalmStays

LEMMA CalmKept ==
  ASSUME CalmStays, UNCHANGED <<setting, job, pc, buffer, links>>, disabled \subseteq disabled'
  PROVE  CalmStays'
  BY DEF CalmStays, Calm, Roomy, Linking, Staying

LEMMA CalmInit == Init => CalmStays
  BY DEF Init, CalmStays, Linking, Staying, NoCopies, NoJob

LEMMA CalmNext ==
  ASSUME TypeOK, Owning, Removers, BufferTrusted, CalmStays, Keeping, [Next]_vars
  PROVE  CalmStays'
<1> SUFFICES ASSUME Calm PROVE CalmStays'
  BY SettingKept DEF CalmStays, Calm, Roomy
<1>0. /\ pc \in [Process -> Place] /\ job \in [Process -> Job] /\ buffer \in [Asset -> Copy]
      /\ links \in [Task -> [Asset -> Copy]]
      /\ \A p \in Process : IdleOrOwns(p) /\ Staying(p)
      /\ setting.env = {}
  BY DEF TypeOK, Owning, CalmStays, Calm
<1> USE DEF IdleOrOwns, Owns, Staying, Job, NoJob, Goto, SetJob, Write, diskVars, removalVars, modelVars, envVars
<1>1. ASSUME NEW p \in Process, NEW t \in Task, Receive(p, t) PROVE CalmStays'
  BY <1>1, <1>0, CalmMove DEF Receive
<1>2. ASSUME NEW p \in Process, LockBuffer(p) PROVE CalmStays'
  BY <1>2, <1>0, CalmMove DEF LockBuffer
<1>3. ASSUME NEW p \in Process, WaitTimeout(p) PROVE CalmStays'
  BY <1>3, <1>0, CalmMove DEF WaitTimeout
<1>4. ASSUME NEW p \in Process, EndPurge(p) PROVE CalmStays'
  BY <1>4, <1>0 DEF EndPurge
<1>5. ASSUME NEW p \in Process, JoinFailed(p) PROVE CalmStays'
  BY <1>5, <1>0 DEF JoinFailed
<1>6. ASSUME NEW p \in Process, UnlockBuffer(p) PROVE CalmStays'
  BY <1>6, <1>0, CalmMove DEF UnlockBuffer, FetchedAll
<1>7. ASSUME NEW p \in Process, StartExecution(p) PROVE CalmStays'
  BY <1>7, <1>0, CalmMove DEF StartExecution
<1>8. ASSUME NEW p \in Process, SaveOutputs(p) PROVE CalmStays'
  <2>1. job[p].task \in Task /\ Outputs[job[p].task] \subseteq Model
    BY <1>8, <1>0, AssetBufferAssumption DEF SaveOutputs
  <2>2. \A b \in Asset : buffer'[b] = buffer[b] \/ (b \in Model /\ buffer'[b] = "whole")
    BY <1>8, <2>1 DEF SaveOutputs
  <2> QED
    BY <1>8, <1>0, <2>2, CalmMove DEF SaveOutputs
<1>9. ASSUME NEW p \in Process, LockClear(p) PROVE CalmStays'
  BY <1>9, <1>0 DEF LockClear
<1>10. ASSUME NEW p \in Process, ClearTimeout(p) PROVE CalmStays'
  BY <1>10, <1>0 DEF ClearTimeout
<1>11. ASSUME NEW p \in Process, EndClear(p) PROVE CalmStays'
  BY <1>11, <1>0 DEF EndClear
<1>12. ASSUME NEW p \in Process, Teardown(p) PROVE CalmStays'
  <2>1. job[p].task \in Task
    BY <1>12, <1>0 DEF Teardown
  <2>2. \A t \in Task, b \in Asset : links'[t][b] # "absent" => links[t][b] # "absent"
    BY <1>12, <1>0, <2>1 DEF Teardown, NoCopies
  <2> QED
    BY <1>12, <1>0, <2>2, CalmMove DEF Teardown
<1>13. ASSUME NEW p \in Process, Kill(p) PROVE CalmStays'
  BY <1>13, <1>0 DEF Kill, Fault
<1>14. ASSUME NEW p \in Process, NEW a \in Asset, Exists(p, a) PROVE CalmStays'
  <2>1. buffer[a] = "partial" => a \in job[p].busy
    BY <1>14, <1>0, OneFills DEF Exists, Reached, BufferTrusted, Survivors
  <2> QED
    BY <1>14, <1>0, <2>1, CalmMove DEF Exists, Reached, Copy
<1>15. ASSUME NEW p \in Process, NEW a \in Asset, StartFetch(p, a) PROVE CalmStays'
  BY <1>15, <1>0, CalmMove DEF StartFetch, Reached
<1>16. ASSUME NEW p \in Process, NEW a \in Asset, EndFetch(p, a) PROVE CalmStays'
  <2>1. a \in Asset /\ a \in job[p].busy /\ pc[p] = "fetch"
    BY <1>16 DEF EndFetch
  <2>2. /\ buffer'[a] = "whole" /\ \A b \in Asset \ {a} : buffer'[b] = buffer[b]
        /\ buffer[a] # "absent"
    BY <1>16, <1>0, <2>1 DEF EndFetch
  <2>3. /\ pc' = pc /\ \A q \in Process \ {p} : job'[q] = job[q]
        /\ job'[p].task = job[p].task /\ job'[p].todo = job[p].todo
        /\ job'[p].busy = job[p].busy \ {a} /\ job'[p].bad = job[p].bad
    BY <1>16, <1>0 DEF EndFetch
  <2>4. \A b \in Inputs[job[p].task] : b \in Asset
    BY <2>1, NeededStays
  <2>5. Staying(p)'
    BY <1>0, <2>1, <2>2, <2>3, <2>4
  <2> QED
    BY <1>16, <1>0, <2>1, <2>2, <2>3, <2>5, CalmMove DEF EndFetch
<1>17. ASSUME NEW p \in Process, NEW a \in Asset, FetchFails(p, a) PROVE CalmStays'
  <2>1. a \in Inputs[job[p].task]
    BY <1>17, <1>0 DEF FetchFails
  <2> QED
    BY <1>17, <1>0, <2>1, NeededStays DEF FetchFails, Fault
<1>18. ASSUME NEW p \in Process, NEW a \in Asset, NoSpace(p, a) PROVE CalmStays'
  <2>1. a \in Inputs[job[p].task]
    BY <1>18, <1>0 DEF NoSpace, Reached
  <2> QED
    BY <1>18, <2>1, NeededFits DEF NoSpace, Reached
<1>19. ASSUME NEW p \in Process, NEW a \in Asset, BadChecksum(p, a) PROVE CalmStays'
  BY <1>19, <1>0, AssetBufferAssumption DEF BadChecksum, Fault
<1>20. ASSUME NEW p \in Process, NEW a \in Asset, LinkAsset(p, a) PROVE CalmStays'
  BY <1>20, <1>0, CalmMove DEF LinkAsset
<1>21. ASSUME NEW p \in Process, NEW a \in Asset, LinkFails(p, a) PROVE CalmStays'
  BY <1>21, <1>0, CalmMove DEF LinkFails
<1>22. ASSUME NEW p \in Process, NEW a \in Asset, RemoveAsset(p, a) PROVE CalmStays'
  BY <1>22, <1>0 DEF RemoveAsset
<1>23. ASSUME NEW t \in Task, FinishedTask(t) PROVE CalmStays'
  BY <1>23, CalmKept DEF FinishedTask
<1>24. ASSUME NEW m \in Model, DisableOutput(m) PROVE CalmStays'
  BY <1>24, CalmKept DEF DisableOutput
<1>25. ASSUME NEW m \in Model, RemoveFromDb(m) PROVE CalmStays'
  BY <1>25, CalmKept DEF RemoveFromDb
<1>29. ASSUME NEW p \in Process, NEW m \in Model, ReceiveRemoval(p, m) PROVE CalmStays'
  BY <1>29, CalmKept DEF ReceiveRemoval
<1>26. ASSUME NEW p \in Process, NEW m \in Model, RemoveFromBuffer(p, m) PROVE CalmStays'
  <2>1. m \in disabled
    BY <1>26 DEF RemoveFromBuffer, Removers
  <2> QED
    <3>1. /\ UNCHANGED <<setting, pc, job, links, disabled>>
          /\ \A a \in Asset \ {m} : buffer'[a] = buffer[a]
      BY <1>26 DEF RemoveFromBuffer, Remove
    <3>2. pc[p] = "idle" /\ p \in Process
      BY <1>26 DEF RemoveFromBuffer, Removers
    <3>3. Staying(p)'
      BY <1>0, <3>1, <3>2
    <3>4. \A a \in Asset \ disabled : buffer'[a] = buffer[a]
      BY <2>1, <3>1
    <3>5. \A t \in Task, a \in Asset : links'[t][a] # "absent" => links[t][a] # "absent"
      BY <3>1
    <3> QED
      BY <3>1, <3>3, <3>4, <3>5, CalmMove
<1>27. CASE Restart
  BY <1>27, <1>0 DEF Restart, Fault
<1>28. CASE UNCHANGED vars
  BY <1>28, CalmKept DEF vars
<1> HIDE DEF IdleOrOwns, Owns, Staying, Job
<1> QED
  BY <1>1, <1>2, <1>3, <1>4, <1>5, <1>6, <1>7, <1>8, <1>9, <1>10, <1>11, <1>12, <1>13, <1>14, <1>15,
     <1>16, <1>17, <1>18, <1>19, <1>20, <1>21, <1>22, <1>23, <1>24, <1>25, <1>26, <1>27, <1>28, <1>29
  DEF Next, ProcessStep, AssetStep, AssetFault, ModelStep, Quiet

-----------------------------------------------------------------------------
(* The links are complete *)

\* What is linked is whole: the process that links works alone, or no process
\* removes what another one needs.
LEMMA WholeWhenLinked ==
  ASSUME TypeOK, Owning, BufferTrusted, CalmStays, Careful, NEW p \in Process, pc[p] = "link",
         NEW a \in Asset, a \in Inputs[job[p].task], buffer[a] # "absent"
  PROVE  buffer[a] = "whole" /\ ~Torn(a)
<1>1. CASE Calm
  BY <1>1 DEF CalmStays, Staying, Torn
<1>2. CASE Alone
  <2>1. \A q \in Process : pc[q] # "idle" => q \in setting.processes
    BY DEF Owning, IdleOrOwns, Owns
  <2>2. setting.processes = {p}
    <3>1. p \in setting.processes /\ setting.processes \subseteq Process
      BY <2>1, AssetBufferAssumption DEF TypeOK, SettingType
    <3>2. IsFiniteSet(setting.processes)
      BY <3>1, AssetBufferAssumption, FS_Subset
    <3> QED
      BY <1>2, <3>1, <3>2, FS_Subset, FS_Singleton DEF Alone
  <2>3. \A q \in Process : pc[q] \in {"idle", "link"} /\ job[q].busy = {}
    BY <2>1, <2>2 DEF Owning, IdleOrOwns, Owns, NoJob
  <2> QED
    BY <2>3 DEF Careful, BufferTrusted, Torn, TypeOK, Copy
<1> QED
  BY <1>1, <1>2 DEF Careful

\* A step of one process on the links of its own task.
LEMMA LinkedMove ==
  ASSUME TypeOK, Owning, LinkedSoFar, Careful, NEW p \in Process, UNCHANGED setting,
         \A q \in Process \ {p} : job'[q] = job[q] /\ pc'[q] = pc[q],
         \A t \in Task : links'[t] = links[t] \/ (pc[p] # "idle" /\ t = job[p].task),
         pc'[p] \in {"link", "run"} =>
           \A a \in Inputs[job'[p].task] \ job'[p].todo : links'[job'[p].task][a] = "whole"
  PROVE  LinkedSoFar'
<1>1. ASSUME NEW q \in Process \ {p}, pc[q] \in {"link", "run"}
      PROVE  links'[job[q].task] = links[job[q].task]
  BY <1>1 DEF Owning, IdleOrOwns, Owns
<1> QED
  BY <1>1 DEF LinkedSoFar

LEMMA LinkedKept ==
  ASSUME LinkedSoFar, Careful, UNCHANGED <<setting, job, pc, links>>
  PROVE  LinkedSoFar'
  BY DEF LinkedSoFar

LEMMA LinkedInit == Init => LinkedSoFar
  BY DEF Init, LinkedSoFar

LEMMA LinkedNext ==
  ASSUME TypeOK, Owning, BufferTrusted, CalmStays, LinkedSoFar, [Next]_vars
  PROVE  LinkedSoFar'
<1> SUFFICES ASSUME Careful PROVE LinkedSoFar'
  BY SettingKept DEF LinkedSoFar, Careful, Survivors, Alone, Calm, Roomy
<1>0. /\ pc \in [Process -> Place] /\ job \in [Process -> Job]
      /\ links \in [Task -> [Asset -> Copy]]
      /\ \A p \in Process : IdleOrOwns(p)
      /\ setting.env \intersect {"kill", "restart"} = {}
  BY DEF TypeOK, Owning, Careful, Survivors
<1> USE DEF IdleOrOwns, Owns, Job, Goto, SetJob, diskVars, removalVars, modelVars, envVars
<1>1. ASSUME NEW p \in Process, NEW t \in Task, Receive(p, t) PROVE LinkedSoFar'
  BY <1>1, <1>0, LinkedMove DEF Receive
<1>2. ASSUME NEW p \in Process, LockBuffer(p) PROVE LinkedSoFar'
  BY <1>2, <1>0, LinkedMove DEF LockBuffer
<1>3. ASSUME NEW p \in Process, WaitTimeout(p) PROVE LinkedSoFar'
  BY <1>3, <1>0, LinkedMove DEF WaitTimeout
<1>4. ASSUME NEW p \in Process, EndPurge(p) PROVE LinkedSoFar'
  BY <1>4, <1>0, LinkedMove DEF EndPurge
<1>5. ASSUME NEW p \in Process, JoinFailed(p) PROVE LinkedSoFar'
  BY <1>5, <1>0, LinkedMove DEF JoinFailed, FetchedAll
<1>6. ASSUME NEW p \in Process, UnlockBuffer(p) PROVE LinkedSoFar'
  BY <1>6, <1>0, LinkedMove DEF UnlockBuffer, FetchedAll
<1>7. ASSUME NEW p \in Process, StartExecution(p) PROVE LinkedSoFar'
  <2>1. \A b \in Inputs[job[p].task] \ job[p].todo : links[job[p].task][b] = "whole"
    BY <1>7 DEF StartExecution, LinkedSoFar
  <2> QED
    BY <1>7, <1>0, <2>1, LinkedMove DEF StartExecution
<1>8. ASSUME NEW p \in Process, SaveOutputs(p) PROVE LinkedSoFar'
  BY <1>8, <1>0, LinkedMove DEF SaveOutputs
<1>9. ASSUME NEW p \in Process, LockClear(p) PROVE LinkedSoFar'
  BY <1>9, <1>0, LinkedMove DEF LockClear
<1>10. ASSUME NEW p \in Process, ClearTimeout(p) PROVE LinkedSoFar'
  BY <1>10, <1>0, LinkedMove DEF ClearTimeout
<1>11. ASSUME NEW p \in Process, EndClear(p) PROVE LinkedSoFar'
  BY <1>11, <1>0, LinkedMove DEF EndClear
<1>12. ASSUME NEW p \in Process, Teardown(p) PROVE LinkedSoFar'
  BY <1>12, <1>0, LinkedMove DEF Teardown
<1>13. ASSUME NEW p \in Process, Kill(p) PROVE LinkedSoFar'
  BY <1>13, <1>0 DEF Kill, Fault
<1>14. ASSUME NEW p \in Process, NEW a \in Asset, Exists(p, a) PROVE LinkedSoFar'
  BY <1>14, <1>0, LinkedMove DEF Exists, Reached
<1>15. ASSUME NEW p \in Process, NEW a \in Asset, StartFetch(p, a) PROVE LinkedSoFar'
  BY <1>15, <1>0, LinkedMove DEF StartFetch, Reached
<1>16. ASSUME NEW p \in Process, NEW a \in Asset, EndFetch(p, a) PROVE LinkedSoFar'
  BY <1>16, <1>0, LinkedMove DEF EndFetch
<1>17. ASSUME NEW p \in Process, NEW a \in Asset, FetchFails(p, a) PROVE LinkedSoFar'
  BY <1>17, <1>0, LinkedMove DEF FetchFails, Raise
<1>18. ASSUME NEW p \in Process, NEW a \in Asset, NoSpace(p, a) PROVE LinkedSoFar'
  BY <1>18, <1>0, LinkedMove DEF NoSpace, Raise, Reached
<1>19. ASSUME NEW p \in Process, NEW a \in Asset, BadChecksum(p, a) PROVE LinkedSoFar'
  BY <1>19, <1>0, LinkedMove DEF BadChecksum
<1>20. ASSUME NEW p \in Process, NEW a \in Asset, LinkAsset(p, a) PROVE LinkedSoFar'
  <2>1. /\ pc[p] = "link" /\ a \in job[p].todo /\ a \in Inputs[job[p].task] /\ job[p].task \in Task
        /\ buffer[a] # "absent"
    BY <1>20, <1>0 DEF LinkAsset
  <2>2. buffer[a] = "whole" /\ ~Torn(a)
    BY <2>1, WholeWhenLinked
  <2>3. links' = [links EXCEPT ![job[p].task][a] = "whole"]
    BY <1>20, <2>2 DEF LinkAsset
  <2>4. \A b \in Inputs[job[p].task] \ job[p].todo : links[job[p].task][b] = "whole"
    BY <2>1 DEF LinkedSoFar
  <2>5. /\ pc' = pc /\ \A q \in Process \ {p} : job'[q] = job[q]
        /\ job'[p].task = job[p].task /\ job'[p].todo = job[p].todo \ {a}
    BY <1>20, <1>0 DEF LinkAsset
  <2>6. \A b \in Inputs[job[p].task] : b \in Asset
    BY <2>1, AssetBufferAssumption
  <2> QED
    BY <1>20, <1>0, <2>1, <2>3, <2>4, <2>5, <2>6, LinkedMove DEF LinkAsset
<1>21. ASSUME NEW p \in Process, NEW a \in Asset, LinkFails(p, a) PROVE LinkedSoFar'
  BY <1>21, <1>0, LinkedMove DEF LinkFails
<1>22. ASSUME NEW p \in Process, NEW a \in Asset, RemoveAsset(p, a) PROVE LinkedSoFar'
  BY <1>22, <1>0, LinkedMove DEF RemoveAsset
<1>23. ASSUME NEW t \in Task, FinishedTask(t) PROVE LinkedSoFar'
  BY <1>23, LinkedKept DEF FinishedTask
<1>24. ASSUME NEW m \in Model, DisableOutput(m) PROVE LinkedSoFar'
  BY <1>24, LinkedKept DEF DisableOutput
<1>25. ASSUME NEW m \in Model, RemoveFromDb(m) PROVE LinkedSoFar'
  BY <1>25, LinkedKept DEF RemoveFromDb
<1>29. ASSUME NEW p \in Process, NEW m \in Model, ReceiveRemoval(p, m) PROVE LinkedSoFar'
  BY <1>29, LinkedKept DEF ReceiveRemoval
<1>26. ASSUME NEW p \in Process, NEW m \in Model, RemoveFromBuffer(p, m) PROVE LinkedSoFar'
  BY <1>26, LinkedKept DEF RemoveFromBuffer
<1>27. CASE Restart
  BY <1>27, <1>0 DEF Restart, Fault
<1>28. CASE UNCHANGED vars
  BY <1>28, LinkedKept DEF vars
<1> HIDE DEF IdleOrOwns, Owns, Job
<1> QED
  BY <1>1, <1>2, <1>3, <1>4, <1>5, <1>6, <1>7, <1>8, <1>9, <1>10, <1>11, <1>12, <1>13, <1>14, <1>15,
     <1>16, <1>17, <1>18, <1>19, <1>20, <1>21, <1>22, <1>23, <1>24, <1>25, <1>26, <1>27, <1>28, <1>29
  DEF Next, ProcessStep, AssetStep, AssetFault, ModelStep, Quiet

-----------------------------------------------------------------------------
LEMMA InvNext == Inv /\ [Next]_vars => Inv'
  BY TypeNext, OwningNext, KeepingNext, RemoversNext, TrustedNext, CalmNext, LinkedNext DEF Inv

LEMMA Invariance == Spec => []Inv
<1>1. Init => Inv
  BY TypeInit, OwningInit, KeepingInit, RemoversInit, TrustedInit, CalmInit, LinkedInit DEF Inv
<1> QED
  BY <1>1, InvNext, PTL DEF Spec

\* Every variable has its type.
THEOREM TypeCorrect == Spec => []TypeOK
<1>1. Inv => TypeOK
  BY DEF Inv
<1> QED
  BY <1>1, Invariance, PTL

\* What is found in the buffer is complete or being completed, and the user's
\* code runs on complete copies of all its inputs: asset_buffer.py links them
\* after the lock on the buffer was released.
THEOREM CopiesAreWhole == Spec => []RunsOnWhole
<1>1. ASSUME Inv PROVE LinkedWhole
  <2>1. SUFFICES ASSUME Careful, NEW p \in Process, pc[p] = "run"
                 PROVE  \A a \in Inputs[job[p].task] : links[job[p].task][a] = "whole"
    BY DEF LinkedWhole, Careful, Calm
  <2>2. job[p].todo = {}
    BY <1>1, <2>1 DEF Inv, Owning, IdleOrOwns, Owns
  <2> QED
    BY <1>1, <2>1, <2>2 DEF Inv, LinkedSoFar
<1>2. Inv => RunsOnWhole
  BY <1>1 DEF Inv, RunsOnWhole
<1> QED
  BY <1>2, Invariance, PTL

-----------------------------------------------------------------------------
(* Why a task fails *)

\* One process, and no fault but kills: nothing is purged, and what a task has
\* begun to fetch is there.
Solo == Alone /\ setting.env \subseteq {"kill"}
SoloInv ==
  Solo => \A p \in Process :
    pc[p] # "purge" /\ \A a \in job[p].busy \intersect Sample : buffer[a] = "partial"

\* One process and no fault.  The inputs fit on the volume, and a lack of space
\* while they are fetched reaches _run.
Steady == Alone /\ setting.env = {}
MayFit(t) == Cardinality(Inputs[t]) <= setting.capacity /\ Inputs[t] \intersect (setting.served \union Model) = {}

\* A task that met a lack of space clears the buffer; it is tried again with a
\* buffer in which there is nothing but its inputs.
Clearing(p) ==
  /\ pc[p] \in {"clearWait", "clear", "teardown"} /\ job[p].error = "space"
  /\ pc[p] = "clear" => Present \subseteq job[p].todo
  /\ pc[p] = "teardown" => Present = {}
TriedAgain(p) ==
  /\ pc[p] \in {"wait", "fetch", "link", "run"} /\ ~job[p].bad
  /\ pc[p] = "fetch" => Inputs[job[p].task] \ job[p].todo \subseteq Present
  /\ pc[p] = "link" => Inputs[job[p].task] \subseteq Present
GetsSpace(t) ==
  /\ tstate[t] # "failed"
  /\ failures[t] = 0 => \E p \in Process : pc[p] # "idle"
  /\ failures[t] # 0 => Present \subseteq Inputs[t]
  /\ \A p \in Process : pc[p] # "idle" =>
       /\ job[p].task = t
       /\ IF failures[t] = 0 THEN Clearing(p) ELSE TriedAgain(p)

Links(p, t) == pc[p] \in {"link", "run", "teardown"} /\ job[p].task = t
SpaceInv ==
  Steady =>
    /\ locks["global"] # Dead /\ locks["clear"] # Dead
    /\ \A p \in Process : pc[p] # "idle" => folder
    /\ \A t \in Task : links[t] = NoCopies \/ \E p \in Process : Links(p, t)
    /\ \A t \in noSpace : MayFit(t) => tstate[t] = "done" \/ GetsSpace(t)

\* One process that may be killed, a volume for all assets, and no lock that
\* was left behind: every attempt that failed has been paid for with a kill.
Mended == setting.env = {"kill"} /\ Alone /\ Roomy /\ locks["global"] # Dead
AtWork(p) ==
  /\ pc[p] \notin {"clearWait", "clear"} /\ ~job[p].bad
  /\ pc[p] = "fetch" => Inputs[job[p].task] \ job[p].todo \subseteq Present
  /\ pc[p] = "link" => Inputs[job[p].task] \subseteq Present

\* A kill that the next attempt has still to fail for: the links it left.
Owed(t) ==
  \/ links[t] # NoCopies /\ \A p \in Process : ~Links(p, t)
  \/ \E p \in Process :
       /\ Links(p, t)
       /\ \/ pc[p] = "link" /\ \E a \in job[p].todo \intersect Model : links[t][a] # "absent"
          \/ pc[p] = "teardown" /\ job[p].error # "none"
Paid(t) ==
  /\ failures[t] + (IF Owed(t) THEN 1 ELSE 0) <= faults
  /\ tstate[t] = "failed" => MaxRetries < faults
KillInv ==
  Mended => Linking /\ (\A p \in Process : AtWork(p)) /\ \A t \in Task : Paid(t)

-----------------------------------------------------------------------------
(* One process *)

LEMMA OthersIdle ==
  ASSUME TypeOK, Owning, Alone, NEW p \in Process, p \in setting.processes
  PROVE  \A q \in Process \ {p} : pc[q] = "idle" /\ job[q] = NoJob
<1>1. setting.processes \subseteq Process /\ IsFiniteSet(setting.processes)
  BY AssetBufferAssumption, FS_Subset DEF TypeOK, SettingType
<1>2. setting.processes = {p}
  BY <1>1, FS_Subset, FS_Singleton DEF Alone
<1> QED
  BY <1>2 DEF Owning, IdleOrOwns, Owns

LEMMA WorksHere ==
  ASSUME Owning, NEW p \in Process, pc[p] # "idle"
  PROVE  Owns(p) /\ p \in setting.processes
  BY DEF Owning, IdleOrOwns, Owns

\* A step of the one process.
LEMMA SoloMove ==
  ASSUME TypeOK, Owning, Solo, NEW p \in Process, p \in setting.processes,
         \A q \in Process \ {p} : job'[q] = job[q] /\ pc'[q] = pc[q],
         pc'[p] # "purge", \A a \in job'[p].busy \intersect Sample : buffer'[a] = "partial"
  PROVE  SoloInv'
<1>1. \A q \in Process \ {p} : pc[q] = "idle" /\ job[q].busy = {}
  BY OthersIdle DEF Solo, NoJob
<1> QED
  BY <1>1 DEF SoloInv

LEMMA SoloKept ==
  ASSUME SoloInv, UNCHANGED <<setting, job, pc, buffer>>
  PROVE  SoloInv'
  BY DEF SoloInv, Solo, Alone

LEMMA SoloInit == Init => SoloInv
  BY DEF Init, SoloInv, NoJob

LEMMA SoloNext ==
  ASSUME TypeOK, Owning, Removers, SoloInv, [Next]_vars
  PROVE  SoloInv'
<1> SUFFICES ASSUME Solo PROVE SoloInv'
  BY SettingKept DEF SoloInv, Solo, Alone
<1>0. /\ pc \in [Process -> Place] /\ job \in [Process -> Job] /\ buffer \in [Asset -> Copy]
      /\ \A p \in Process : /\ IdleOrOwns(p) /\ pc[p] # "purge"
                            /\ \A a \in job[p].busy \intersect Sample : buffer[a] = "partial"
      /\ setting.env \subseteq {"kill"} /\ Sample \intersect Model = {} /\ Sample \subseteq Asset
  BY AssetBufferAssumption DEF TypeOK, Owning, SoloInv, Solo, Asset
<1> USE DEF IdleOrOwns, Owns, Job, NoJob, Goto, SetJob, Write, Remove, diskVars, removalVars, modelVars, envVars
<1>1. ASSUME NEW p \in Process, NEW t \in Task, Receive(p, t) PROVE SoloInv'
  BY <1>1, <1>0, WorksHere, SoloMove DEF Receive
<1>2. ASSUME NEW p \in Process, LockBuffer(p) PROVE SoloInv'
  BY <1>2, <1>0, WorksHere, SoloMove DEF LockBuffer
<1>3. ASSUME NEW p \in Process, WaitTimeout(p) PROVE SoloInv'
  BY <1>3, <1>0, WorksHere, SoloMove DEF WaitTimeout
<1>4. ASSUME NEW p \in Process, EndPurge(p) PROVE SoloInv'
  BY <1>4, <1>0 DEF EndPurge
<1>5. ASSUME NEW p \in Process, JoinFailed(p) PROVE SoloInv'
  BY <1>5, <1>0, WorksHere, SoloMove DEF JoinFailed, FetchedAll
<1>6. ASSUME NEW p \in Process, UnlockBuffer(p) PROVE SoloInv'
  BY <1>6, <1>0, WorksHere, SoloMove DEF UnlockBuffer, FetchedAll
<1>7. ASSUME NEW p \in Process, StartExecution(p) PROVE SoloInv'
  BY <1>7, <1>0, WorksHere, SoloMove DEF StartExecution
<1>8. ASSUME NEW p \in Process, SaveOutputs(p) PROVE SoloInv'
  BY <1>8, <1>0, WorksHere, SoloMove DEF SaveOutputs
<1>9. ASSUME NEW p \in Process, LockClear(p) PROVE SoloInv'
  BY <1>9, <1>0, WorksHere, SoloMove DEF LockClear
<1>10. ASSUME NEW p \in Process, ClearTimeout(p) PROVE SoloInv'
  BY <1>10, <1>0, WorksHere, SoloMove DEF ClearTimeout
<1>11. ASSUME NEW p \in Process, EndClear(p) PROVE SoloInv'
  BY <1>11, <1>0, WorksHere, SoloMove DEF EndClear
<1>12. ASSUME NEW p \in Process, Teardown(p) PROVE SoloInv'
  BY <1>12, <1>0, WorksHere, SoloMove DEF Teardown
<1>13. ASSUME NEW p \in Process, Kill(p) PROVE SoloInv'
  <2>1. p \in setting.processes
    BY <1>13, WorksHere DEF Kill, Removers
  <2>2. /\ \A q \in Process \ {p} : job'[q] = job[q] /\ pc'[q] = pc[q]
        /\ pc'[p] # "purge" /\ job'[p].busy = {}
    BY <1>13, <1>0 DEF Kill, Orphaned
  <2> QED
    BY <1>0, <2>1, <2>2, SoloMove
<1>14. ASSUME NEW p \in Process, NEW a \in Asset, Exists(p, a) PROVE SoloInv'
  BY <1>14, <1>0, WorksHere, SoloMove DEF Exists, Reached
<1>15. ASSUME NEW p \in Process, NEW a \in Asset, StartFetch(p, a) PROVE SoloInv'
  BY <1>15, <1>0, WorksHere, SoloMove DEF StartFetch, Reached
<1>16. ASSUME NEW p \in Process, NEW a \in Asset, EndFetch(p, a) PROVE SoloInv'
  BY <1>16, <1>0, WorksHere, SoloMove DEF EndFetch
<1>17. ASSUME NEW p \in Process, NEW a \in Asset, FetchFails(p, a) PROVE SoloInv'
  BY <1>17, <1>0 DEF FetchFails, Fault
<1>18. ASSUME NEW p \in Process, NEW a \in Asset, NoSpace(p, a) PROVE SoloInv'
  <2>1. PICK e \in {"error", "space"} : Raise(p, a, e)
    BY <1>18 DEF NoSpace
  <2>2. pc[p] = "fetch" /\ buffer' = buffer
    BY <1>18 DEF NoSpace, Reached
  <2>3. /\ \A q \in Process \ {p} : job'[q] = job[q]
        /\ job'[p].busy \subseteq job[p].busy
    BY <1>0, <2>1, RaiseJob DEF JobTyped
  <2>4. pc'[p] # "purge" /\ \A q \in Process \ {p} : pc'[q] = pc[q]
    BY <1>0, <2>1, <2>2 DEF Raise
  <2> QED
    BY <1>0, <2>2, <2>3, <2>4, WorksHere, SoloMove
<1>19. ASSUME NEW p \in Process, NEW a \in Asset, BadChecksum(p, a) PROVE SoloInv'
  BY <1>19, <1>0 DEF BadChecksum, Fault
<1>20. ASSUME NEW p \in Process, NEW a \in Asset, LinkAsset(p, a) PROVE SoloInv'
  BY <1>20, <1>0, WorksHere, SoloMove DEF LinkAsset
<1>21. ASSUME NEW p \in Process, NEW a \in Asset, LinkFails(p, a) PROVE SoloInv'
  BY <1>21, <1>0, WorksHere, SoloMove DEF LinkFails
<1>22. ASSUME NEW p \in Process, NEW a \in Asset, RemoveAsset(p, a) PROVE SoloInv'
  BY <1>22, <1>0, WorksHere, SoloMove DEF RemoveAsset
<1>23. ASSUME NEW t \in Task, FinishedTask(t) PROVE SoloInv'
  BY <1>23, SoloKept DEF FinishedTask
<1>24. ASSUME NEW m \in Model, DisableOutput(m) PROVE SoloInv'
  BY <1>24, SoloKept DEF DisableOutput
<1>25. ASSUME NEW m \in Model, RemoveFromDb(m) PROVE SoloInv'
  BY <1>25, SoloKept DEF RemoveFromDb
<1>29. ASSUME NEW p \in Process, NEW m \in Model, ReceiveRemoval(p, m) PROVE SoloInv'
  BY <1>29, SoloKept DEF ReceiveRemoval
<1>26. ASSUME NEW p \in Process, NEW m \in Model, RemoveFromBuffer(p, m) PROVE SoloInv'
  <2>1. p \in setting.processes /\ pc[p] = "idle" /\ UNCHANGED <<pc, job>>
    BY <1>26 DEF RemoveFromBuffer, Removers
  <2>2. job[p].busy = {}
    BY <1>0, <2>1
  <2> QED
    BY <1>0, <2>1, <2>2, SoloMove
<1>27. CASE Restart
  BY <1>27, <1>0 DEF Restart, Fault
<1>28. CASE UNCHANGED vars
  BY <1>28, SoloKept DEF vars
<1> HIDE DEF IdleOrOwns, Owns, Job
<1> QED
  BY <1>1, <1>2, <1>3, <1>4, <1>5, <1>6, <1>7, <1>8, <1>9, <1>10, <1>11, <1>12, <1>13, <1>14, <1>15,
     <1>16, <1>17, <1>18, <1>19, <1>20, <1>21, <1>22, <1>23, <1>24, <1>25, <1>26, <1>27, <1>28, <1>29
  DEF Next, ProcessStep, AssetStep, AssetFault, ModelStep, Quiet

-----------------------------------------------------------------------------
(* A lack of space is mended by clearing the buffer *)

LEMMA DoneStays ==
  ASSUME TypeOK, Owning, [Next]_vars, NEW t \in Task, tstate[t] = "done"
  PROVE  tstate'[t] = "done"
<1>1. ASSUME NEW p \in Process, NEW u \in Task, Receive(p, u) PROVE tstate'[t] = "done"
  BY <1>1 DEF Receive, TypeOK
<1>2. ASSUME NEW p \in Process, SaveOutputs(p) PROVE tstate'[t] = "done"
  BY <1>2 DEF SaveOutputs, TypeOK
<1>3. ASSUME NEW p \in Process, Teardown(p) PROVE tstate'[t] = "done"
  <2>1. Owns(p)
    BY <1>3, WorksHere DEF Teardown
  <2> QED
    BY <1>3, <2>1 DEF Teardown, Owns, TypeOK, taskVars
<1>4. ASSUME NEW p \in Process, Kill(p) PROVE tstate'[t] = "done"
  BY <1>4 DEF Kill, Orphaned, TypeOK
<1>5. CASE Restart
  BY <1>5 DEF Restart, Orphaned, TypeOK
<1>6. ASSUME NEW p \in Process, NEW a \in Asset, AssetStep(p, a) \/ AssetFault(p, a) PROVE UNCHANGED tstate
  BY <1>6 DEF AssetStep, AssetFault, Exists, StartFetch, EndFetch, NoSpace, LinkAsset, LinkFails, RemoveAsset,
              BadChecksum, FetchFails, taskVars
<1>7. ASSUME NEW p \in Process, ProcessStep(p), ~SaveOutputs(p), ~Teardown(p) PROVE UNCHANGED tstate
  BY <1>7 DEF ProcessStep, LockBuffer, WaitTimeout, EndPurge, JoinFailed, UnlockBuffer, StartExecution, LockClear,
              ClearTimeout, EndClear, taskVars
<1>8. ASSUME NEW u \in Task, FinishedTask(u) PROVE UNCHANGED tstate
  BY <1>8 DEF FinishedTask, taskVars
<1>9. ASSUME NEW m \in Model, ModelStep(m) PROVE UNCHANGED tstate
  BY <1>9 DEF ModelStep, DisableOutput, RemoveFromDb, ReceiveRemoval, RemoveFromBuffer, taskVars
<1>10. UNCHANGED vars => UNCHANGED tstate
  BY DEF vars, taskVars
<1> QED
  BY <1>1, <1>2, <1>3, <1>4, <1>5, <1>6, <1>7, <1>8, <1>9, <1>10 DEF Next, Quiet

\* What GetsSpace says of the one process.
GetsSpaceAt(p, t) ==
  /\ tstate[t] # "failed"
  /\ failures[t] = 0 => pc[p] # "idle"
  /\ failures[t] # 0 => Present \subseteq Inputs[t]
  /\ pc[p] # "idle" => /\ job[p].task = t
                       /\ IF failures[t] = 0 THEN Clearing(p) ELSE TriedAgain(p)

LEMMA SpaceAtProcess ==
  ASSUME TypeOK, Owning, Steady, SpaceInv, NEW p \in Process, p \in setting.processes,
         NEW t \in noSpace, MayFit(t), tstate[t] # "done"
  PROVE  GetsSpaceAt(p, t)
  BY OthersIdle DEF Steady, SpaceInv, GetsSpace, GetsSpaceAt

\* A step of the one process.
LEMMA SpaceMove ==
  ASSUME TypeOK, Owning, Steady, SpaceInv, NEW p \in Process, p \in setting.processes, UNCHANGED setting,
         \A q \in Process \ {p} : job'[q] = job[q] /\ pc'[q] = pc[q],
         locks'["global"] # Dead, locks'["clear"] # Dead,
         pc'[p] # "idle" => folder',
         \A t \in Task : \/ links'[t] = NoCopies
                         \/ Links(p, t)'
                         \/ links'[t] = links[t] /\ ~Links(p, t),
         \A t \in noSpace' : MayFit(t) /\ tstate'[t] # "done" => GetsSpaceAt(p, t)'
  PROVE  SpaceInv'
<1>1. \A q \in Process \ {p} : pc[q] = "idle" /\ pc'[q] = "idle"
  BY OthersIdle DEF Steady
<1>2. \A t \in Task : links'[t] = NoCopies \/ \E q \in Process : Links(q, t)'
  BY <1>1 DEF SpaceInv, Links
<1>3. ASSUME NEW t \in noSpace', MayFit(t), tstate'[t] # "done" PROVE GetsSpace(t)'
  BY <1>1, <1>3 DEF GetsSpace, GetsSpaceAt
<1>4. \A t \in noSpace' : MayFit(t)' => tstate'[t] = "done" \/ GetsSpace(t)'
  BY <1>3 DEF MayFit
<1>5. \A q \in Process : pc'[q] # "idle" => folder'
  BY <1>1
<1> QED
  BY <1>2, <1>4, <1>5 DEF SpaceInv

LEMMA SpaceKept ==
  ASSUME SpaceInv, UNCHANGED <<setting, locks, folder, links, pc, job, buffer, taskVars>>
  PROVE  SpaceInv'
  BY DEF SpaceInv, Steady, Alone, Links, MayFit, GetsSpace, Clearing, TriedAgain, Present, taskVars

\* Where there are only inputs of the task, there is room for the next one.
LEMMA FitsAgain ==
  ASSUME TypeOK, NEW t \in Task, MayFit(t), \A u \in Task : links[u] = NoCopies,
         Present \subseteq Inputs[t], NEW a \in Inputs[t], buffer[a] = "absent"
  PROVE  Fits
<1>1. Inputs[t] \subseteq Asset /\ IsFiniteSet(Inputs[t])
  BY AssetBufferAssumption, FS_Subset
<1>2. Used = Present
  BY DEF Used, Present, NoCopies
<1>3. a \notin Present /\ IsFiniteSet(Present)
  BY <1>1, FS_Subset DEF Present
<1>4. Cardinality(Present) <= Cardinality(Inputs[t] \ {a}) /\ IsFiniteSet(Inputs[t] \ {a})
  BY <1>1, <1>3, FS_Subset
<1>5. Cardinality(Inputs[t] \ {a}) = Cardinality(Inputs[t]) - 1
  BY <1>1, FS_RemoveElement
<1>6. Cardinality(Present) \in Nat /\ Cardinality(Inputs[t]) \in Nat
  BY <1>1, <1>3, FS_CardinalityType
<1>7. setting.capacity \in Nat
  BY AssetBufferAssumption DEF TypeOK, SettingType
<1> HIDE DEF MayFit
<1>8. Cardinality(Inputs[t]) <= setting.capacity
  BY DEF MayFit
<1> QED
  BY <1>2, <1>4, <1>5, <1>6, <1>7, <1>8 DEF Fits

LEMMA SpaceInit == Init => SpaceInv
<1> SUFFICES ASSUME Init PROVE SpaceInv
  OBVIOUS
<1> QED
  BY AssetBufferAssumption DEF Init, SpaceInv

LEMMA SpaceNext ==
  ASSUME MaxRetries > 0, TypeOK, Owning, Removers, SoloInv, SpaceInv, [Next]_vars
  PROVE  SpaceInv'
<1> SUFFICES ASSUME Steady PROVE SpaceInv'
  BY SettingKept DEF SpaceInv, Steady, Alone
<1>0. /\ pc \in [Process -> Place] /\ job \in [Process -> Job] /\ buffer \in [Asset -> Copy]
      /\ tstate \in [Task -> {"todo", "doing", "done", "failed"}]
      /\ failures \in [Task -> 0..MaxRetries] /\ noSpace \subseteq Task
      /\ locks \in [{"global", "clear"} -> Process \union {Free, Dead}]
      /\ links \in [Task -> [Asset -> Copy]]
      /\ \A p \in Process : IdleOrOwns(p) /\ pc[p] # "purge"
      /\ \A p \in Process : \A a \in job[p].busy \intersect Sample : buffer[a] = "partial"
      /\ setting.env = {} /\ Dead \notin Process /\ Free # Dead
      /\ MaxRetries \in Nat
  BY AssetBufferAssumption DEF TypeOK, Owning, SoloInv, Solo, Steady
<1>00. /\ locks["global"] # Dead /\ locks["clear"] # Dead
       /\ \A p \in Process : pc[p] # "idle" => folder
  BY DEF SpaceInv
\* A task with a lack of space was one before, unless it has met it now.
<1>01. ASSUME NEW p \in Process, p \in setting.processes, NEW t \in noSpace, MayFit(t), tstate'[t] # "done"
       PROVE  t \in Task /\ tstate[t] # "done" /\ GetsSpaceAt(p, t) /\ failures[t] \in Nat
  BY <1>0, <1>01, DoneStays, SpaceAtProcess
<1> USE DEF Goto, SetJob, Hold, diskVars, taskVars, removalVars, modelVars, envVars, GetsSpaceAt, Links
<1>1. ASSUME NEW p \in Process, NEW t \in Task, Receive(p, t) PROVE SpaceInv'
  <2>1. /\ p \in setting.processes /\ pc[p] = "idle" /\ t \in Task /\ noSpace' \subseteq noSpace
        /\ folder' /\ links' = links /\ locks' = locks /\ buffer' = buffer /\ failures' = failures
        /\ noSpace' \subseteq {t}
    BY <1>1 DEF Receive
  <2>2. /\ \A q \in Process \ {p} : job'[q] = job[q] /\ pc'[q] = pc[q]
        /\ pc'[p] = "wait" /\ job'[p].task = t /\ ~job'[p].bad /\ tstate'[t] = "doing"
    BY <1>1, <1>0 DEF Receive, NoJob
  <2>3. ASSUME NEW u \in noSpace', MayFit(u), tstate'[u] # "done" PROVE GetsSpaceAt(p, u)'
    <3>1. u = t /\ u \in noSpace
      BY <2>1
    <3> QED
      BY <1>01, <2>1, <2>2, <2>3, <3>1 DEF TriedAgain, Present
  <2> QED
    BY <1>1, <1>0, <1>00, <2>1, <2>2, <2>3, SpaceMove DEF Receive
<1>2. ASSUME NEW p \in Process, LockBuffer(p) PROVE SpaceInv'
  <2>1. Owns(p) /\ p \in setting.processes /\ pc[p] # "idle" /\ folder
    BY <1>2, <1>00, WorksHere DEF LockBuffer
  <2>2. /\ \A q \in Process \ {p} : job'[q] = job[q] /\ pc'[q] = pc[q]
        /\ pc[p] = "wait" /\ pc'[p] = "fetch" /\ job'[p].task = job[p].task
        /\ job'[p].todo = Inputs[job[p].task] /\ job'[p].bad = job[p].bad
    BY <1>2, <1>0, <1>00, <2>1 DEF Job, LockBuffer
  <2>3. ASSUME NEW t \in noSpace', MayFit(t), tstate'[t] # "done" PROVE GetsSpaceAt(p, t)'
    <3>1. t \in noSpace /\ failures'[t] = failures[t] /\ Present' = Present
      BY <1>2 DEF Present, LockBuffer
    <3>2. GetsSpaceAt(p, t) /\ t \in Task /\ failures[t] \in Nat
      BY <1>01, <2>1, <2>3, <3>1
    <3>3. tstate'[t] # "failed"
      BY <1>2, <3>2 DEF LockBuffer
    <3> QED
      BY <1>0, <2>1, <2>2, <2>3, <3>1, <3>2, <3>3 DEF Clearing, TriedAgain
  <2> QED
    BY <1>2, <1>0, <1>00, <2>1, <2>2, <2>3, SpaceMove DEF LockBuffer
<1>3. ASSUME NEW p \in Process, WaitTimeout(p) PROVE SpaceInv'
  BY <1>3, <1>00 DEF WaitTimeout
<1>4. ASSUME NEW p \in Process, EndPurge(p) PROVE SpaceInv'
  BY <1>4, <1>0 DEF EndPurge
<1>5. ASSUME NEW p \in Process, JoinFailed(p) PROVE SpaceInv'
  <2>1. Owns(p) /\ p \in setting.processes /\ pc[p] # "idle" /\ folder
    BY <1>5, <1>00, WorksHere DEF JoinFailed, FetchedAll
  <2>2. /\ \A q \in Process \ {p} : job'[q] = job[q] /\ pc'[q] = pc[q]
        /\ pc[p] = "fetch" /\ pc'[p] = "teardown" /\ job'[p].task = job[p].task /\ job[p].bad
    BY <1>5, <1>0, <1>00, <2>1 DEF Job, JoinFailed, FetchedAll
  <2>3. ASSUME NEW t \in noSpace', MayFit(t), tstate'[t] # "done" PROVE GetsSpaceAt(p, t)'
    <3>1. t \in noSpace /\ failures'[t] = failures[t]
      BY <1>5 DEF Present, JoinFailed, FetchedAll
    <3>2. GetsSpaceAt(p, t) /\ t \in Task /\ failures[t] \in Nat
      BY <1>01, <2>1, <2>3, <3>1
    <3>3. tstate'[t] # "failed"
      BY <1>5, <3>2 DEF JoinFailed, FetchedAll
    <3> QED
      BY <1>0, <2>1, <2>2, <2>3, <3>1, <3>2, <3>3 DEF Clearing, TriedAgain
  <2> QED
    BY <1>5, <1>0, <1>00, <2>1, <2>2, <2>3, SpaceMove DEF JoinFailed, FetchedAll
<1>6. ASSUME NEW p \in Process, UnlockBuffer(p) PROVE SpaceInv'
  <2>1. Owns(p) /\ p \in setting.processes /\ pc[p] # "idle" /\ folder
    BY <1>6, <1>00, WorksHere DEF UnlockBuffer, FetchedAll
  <2>2. /\ \A q \in Process \ {p} : job'[q] = job[q] /\ pc'[q] = pc[q]
        /\ pc[p] = "fetch" /\ pc'[p] = "link" /\ job'[p].task = job[p].task
        /\ job[p].todo = {} /\ job'[p].bad = job[p].bad
    BY <1>6, <1>0, <1>00, <2>1 DEF Job, UnlockBuffer, FetchedAll
  <2>3. ASSUME NEW t \in noSpace', MayFit(t), tstate'[t] # "done" PROVE GetsSpaceAt(p, t)'
    <3>1. t \in noSpace /\ failures'[t] = failures[t] /\ Present' = Present
      BY <1>6 DEF Present, UnlockBuffer, FetchedAll
    <3>2. GetsSpaceAt(p, t) /\ t \in Task /\ failures[t] \in Nat
      BY <1>01, <2>1, <2>3, <3>1
    <3>3. tstate'[t] # "failed"
      BY <1>6, <3>2 DEF UnlockBuffer, FetchedAll
    <3> QED
      BY <1>0, <2>1, <2>2, <2>3, <3>1, <3>2, <3>3 DEF Clearing, TriedAgain
  <2> QED
    BY <1>6, <1>0, <1>00, <2>1, <2>2, <2>3, SpaceMove DEF UnlockBuffer, FetchedAll
<1>7. ASSUME NEW p \in Process, StartExecution(p) PROVE SpaceInv'
  <2>1. Owns(p) /\ p \in setting.processes /\ pc[p] # "idle" /\ folder
    BY <1>7, <1>00, WorksHere DEF StartExecution
  <2>2. /\ \A q \in Process \ {p} : job'[q] = job[q] /\ pc'[q] = pc[q]
        /\ pc[p] = "link" /\ pc'[p] = "run" /\ job' = job
    BY <1>7, <1>0, <1>00, <2>1 DEF Job, StartExecution
  <2>3. ASSUME NEW t \in noSpace', MayFit(t), tstate'[t] # "done" PROVE GetsSpaceAt(p, t)'
    <3>1. t \in noSpace /\ failures'[t] = failures[t] /\ Present' = Present
      BY <1>7 DEF Present, StartExecution
    <3>2. GetsSpaceAt(p, t) /\ t \in Task /\ failures[t] \in Nat
      BY <1>01, <2>1, <2>3, <3>1
    <3>3. tstate'[t] # "failed"
      BY <1>7, <3>2 DEF StartExecution
    <3> QED
      BY <1>0, <2>1, <2>2, <2>3, <3>1, <3>2, <3>3 DEF Clearing, TriedAgain
  <2> QED
    BY <1>7, <1>0, <1>00, <2>1, <2>2, <2>3, SpaceMove DEF StartExecution
<1>8. ASSUME NEW p \in Process, SaveOutputs(p) PROVE SpaceInv'
  <2>1. Owns(p) /\ p \in setting.processes /\ pc[p] # "idle" /\ folder
    BY <1>8, <1>00, WorksHere DEF SaveOutputs
  <2>2. /\ \A q \in Process \ {p} : job'[q] = job[q] /\ pc'[q] = pc[q]
        /\ pc[p] = "run" /\ pc'[p] = "teardown" /\ job' = job
        /\ (job[p].task \in Task => tstate'[job[p].task] = "done")
    BY <1>8, <1>0, <1>00, <2>1 DEF Job, SaveOutputs
  <2>3. ASSUME NEW t \in noSpace', MayFit(t), tstate'[t] # "done" PROVE GetsSpaceAt(p, t)'
    <3>1. t \in noSpace /\ failures'[t] = failures[t]
      BY <1>8 DEF Present, SaveOutputs
    <3>2. GetsSpaceAt(p, t) /\ t \in Task /\ failures[t] \in Nat
      BY <1>01, <2>1, <2>3, <3>1
    <3>3. tstate'[t] # "failed"
      BY <1>8, <3>2 DEF SaveOutputs
    <3> QED
      BY <1>0, <2>1, <2>2, <2>3, <3>1, <3>2, <3>3 DEF Clearing, TriedAgain
  <2> QED
    BY <1>8, <1>0, <1>00, <2>1, <2>2, <2>3, SpaceMove DEF SaveOutputs
<1>9. ASSUME NEW p \in Process, LockClear(p) PROVE SpaceInv'
  <2>1. Owns(p) /\ p \in setting.processes /\ pc[p] # "idle" /\ folder
    BY <1>9, <1>00, WorksHere DEF LockClear
  <2>2. /\ \A q \in Process \ {p} : job'[q] = job[q] /\ pc'[q] = pc[q]
        /\ pc[p] = "clearWait" /\ pc'[p] = "clear" /\ job'[p].task = job[p].task
        /\ job'[p].todo = Present /\ job'[p].error = job[p].error
    BY <1>9, <1>0, <1>00, <2>1 DEF Job, LockClear
  <2>3. ASSUME NEW t \in noSpace', MayFit(t), tstate'[t] # "done" PROVE GetsSpaceAt(p, t)'
    <3>1. t \in noSpace /\ failures'[t] = failures[t] /\ Present' = Present
      BY <1>9 DEF Present, LockClear
    <3>2. GetsSpaceAt(p, t) /\ t \in Task /\ failures[t] \in Nat
      BY <1>01, <2>1, <2>3, <3>1
    <3>3. tstate'[t] # "failed"
      BY <1>9, <3>2 DEF LockClear
    <3> QED
      BY <1>0, <2>1, <2>2, <2>3, <3>1, <3>2, <3>3 DEF Clearing, TriedAgain
  <2> QED
    BY <1>9, <1>0, <1>00, <2>1, <2>2, <2>3, SpaceMove DEF LockClear
<1>10. ASSUME NEW p \in Process, ClearTimeout(p) PROVE SpaceInv'
  BY <1>10, <1>00 DEF ClearTimeout
<1>11. ASSUME NEW p \in Process, EndClear(p) PROVE SpaceInv'
  <2>1. Owns(p) /\ p \in setting.processes /\ pc[p] # "idle" /\ folder
    BY <1>11, <1>00, WorksHere DEF EndClear
  <2>2. /\ \A q \in Process \ {p} : job'[q] = job[q] /\ pc'[q] = pc[q]
        /\ pc[p] = "clear" /\ pc'[p] = "teardown" /\ job' = job /\ job[p].todo = {}
    BY <1>11, <1>0, <1>00, <2>1 DEF Job, EndClear
  <2>3. ASSUME NEW t \in noSpace', MayFit(t), tstate'[t] # "done" PROVE GetsSpaceAt(p, t)'
    <3>1. t \in noSpace /\ failures'[t] = failures[t] /\ Present' = Present
      BY <1>11 DEF Present, EndClear
    <3>2. GetsSpaceAt(p, t) /\ t \in Task /\ failures[t] \in Nat
      BY <1>01, <2>1, <2>3, <3>1
    <3>3. tstate'[t] # "failed"
      BY <1>11, <3>2 DEF EndClear
    <3> QED
      BY <1>0, <2>1, <2>2, <2>3, <3>1, <3>2, <3>3 DEF Clearing, TriedAgain
  <2> QED
    BY <1>11, <1>0, <1>00, <2>1, <2>2, <2>3, SpaceMove DEF EndClear
<1>12. ASSUME NEW p \in Process, Teardown(p) PROVE SpaceInv'
  <2>1. Owns(p) /\ p \in setting.processes /\ pc[p] = "teardown"
    BY <1>12, WorksHere DEF Teardown
  <2>2. /\ \A q \in Process \ {p} : job'[q] = job[q] /\ pc'[q] = pc[q]
        /\ pc'[p] = "idle" /\ buffer' = buffer /\ noSpace' = noSpace /\ locks' = locks
    BY <1>12, <1>0, <2>1 DEF Teardown
  <2>3. links' = [links EXCEPT ![job[p].task] = NoCopies] /\ job[p].task \in Task
    BY <1>12, <2>1 DEF Teardown, Owns
  <2>4. ASSUME NEW t \in noSpace', MayFit(t), tstate'[t] # "done" PROVE GetsSpaceAt(p, t)'
    <3>1. GetsSpaceAt(p, t) /\ t \in Task /\ failures[t] \in Nat
      BY <1>01, <2>1, <2>2, <2>4
    <3>2. job[p].task = t /\ failures[t] = 0 /\ job[p].error = "space" /\ Present = {}
      BY <2>1, <3>1 DEF Clearing, TriedAgain
    <3>3. tstate'[t] = "todo" /\ failures'[t] = 1
      BY <1>12, <1>0, <3>1, <3>2 DEF Teardown
    <3> QED
      BY <2>2, <3>2, <3>3 DEF Present
  <2>5. \A t \in Task : links'[t] = NoCopies \/ (links'[t] = links[t] /\ ~Links(p, t))
    BY <1>0, <2>3
  <2> QED
    BY <1>12, <1>0, <1>00, <2>1, <2>2, <2>4, <2>5, SpaceMove DEF Teardown
<1>13. ASSUME NEW p \in Process, Kill(p) PROVE SpaceInv'
  BY <1>13, <1>0 DEF Kill, Fault
<1>14. ASSUME NEW p \in Process, NEW a \in Asset, Exists(p, a) PROVE SpaceInv'
  <2>1. Owns(p) /\ p \in setting.processes /\ pc[p] # "idle" /\ folder
    BY <1>14, <1>00, WorksHere DEF Exists, Reached, Present
  <2>2. /\ \A q \in Process \ {p} : job'[q] = job[q] /\ pc'[q] = pc[q]
        /\ pc[p] = "fetch" /\ pc'[p] = "fetch" /\ job'[p].task = job[p].task
        /\ job'[p].todo = job[p].todo \ {a} /\ job'[p].bad = job[p].bad /\ a \in Present
    BY <1>14, <1>0, <1>00, <2>1 DEF Job, Exists, Reached, Present
  <2>3. ASSUME NEW t \in noSpace', MayFit(t), tstate'[t] # "done" PROVE GetsSpaceAt(p, t)'
    <3>1. t \in noSpace /\ failures'[t] = failures[t] /\ Present' = Present
      BY <1>14 DEF Present, Exists, Reached, Present
    <3>2. GetsSpaceAt(p, t) /\ t \in Task /\ failures[t] \in Nat
      BY <1>01, <2>1, <2>3, <3>1
    <3>3. tstate'[t] # "failed"
      BY <1>14, <3>2 DEF Exists, Reached, Present
    <3> QED
      BY <1>0, <2>1, <2>2, <2>3, <3>1, <3>2, <3>3 DEF Clearing, TriedAgain
  <2> QED
    BY <1>14, <1>0, <1>00, <2>1, <2>2, <2>3, SpaceMove DEF Exists, Reached, Present
<1>15. ASSUME NEW p \in Process, NEW a \in Asset, StartFetch(p, a) PROVE SpaceInv'
  <2>1. Owns(p) /\ p \in setting.processes /\ pc[p] = "fetch" /\ a \in Inputs[job[p].task]
    BY <1>15, WorksHere DEF StartFetch, Reached, Owns
  <2>2. /\ \A q \in Process \ {p} : job'[q] = job[q] /\ pc'[q] = pc[q]
        /\ pc'[p] = "fetch" /\ job'[p].task = job[p].task
        /\ job'[p].todo = job[p].todo \ {a} /\ job'[p].bad = job[p].bad
    BY <1>15, <1>0, <2>1 DEF Job, StartFetch
  <2>3. Present' = Present \union {a} /\ folder'
    BY <1>15, <1>0, <1>00, <2>1 DEF StartFetch, Write, Present
  <2>4. ASSUME NEW t \in noSpace', MayFit(t), tstate'[t] # "done" PROVE GetsSpaceAt(p, t)'
    <3>1. t \in noSpace /\ failures'[t] = failures[t] /\ tstate'[t] = tstate[t]
      BY <1>15 DEF StartFetch
    <3>2. GetsSpaceAt(p, t) /\ t \in Task /\ failures[t] \in Nat
      BY <1>01, <2>1, <2>4, <3>1
    <3> QED
      BY <2>1, <2>2, <2>3, <3>1, <3>2 DEF Clearing, TriedAgain
  <2> QED
    BY <1>15, <1>0, <1>00, <2>1, <2>2, <2>3, <2>4, SpaceMove DEF StartFetch
<1>16. ASSUME NEW p \in Process, NEW a \in Asset, EndFetch(p, a) PROVE SpaceInv'
  <2>1. Owns(p) /\ p \in setting.processes /\ pc[p] # "idle" /\ folder
    BY <1>16, <1>00, WorksHere DEF EndFetch, Write, Present
  <2>2. /\ \A q \in Process \ {p} : job'[q] = job[q] /\ pc'[q] = pc[q]
        /\ pc[p] = "fetch" /\ pc'[p] = "fetch" /\ job'[p].task = job[p].task
        /\ job'[p].todo = job[p].todo /\ job'[p].bad = job[p].bad
        /\ Present' = Present
    BY <1>16, <1>0, <1>00, <2>1 DEF Job, EndFetch, Write, Present
  <2>3. ASSUME NEW t \in noSpace', MayFit(t), tstate'[t] # "done" PROVE GetsSpaceAt(p, t)'
    <3>1. t \in noSpace /\ failures'[t] = failures[t]
      BY <1>16 DEF Present, EndFetch, Write, Present
    <3>2. GetsSpaceAt(p, t) /\ t \in Task /\ failures[t] \in Nat
      BY <1>01, <2>1, <2>3, <3>1
    <3>3. tstate'[t] # "failed"
      BY <1>16, <3>2 DEF EndFetch, Write, Present
    <3> QED
      BY <1>0, <2>1, <2>2, <2>3, <3>1, <3>2, <3>3 DEF Clearing, TriedAgain
  <2> QED
    BY <1>16, <1>0, <1>00, <2>1, <2>2, <2>3, SpaceMove DEF EndFetch, Write, Present
<1>17. ASSUME NEW p \in Process, NEW a \in Asset, FetchFails(p, a) PROVE SpaceInv'
  BY <1>17, <1>0 DEF FetchFails, Fault
<1>18. ASSUME NEW p \in Process, NEW a \in Asset, NoSpace(p, a) PROVE SpaceInv'
  <2>1. PICK e \in {"error", "space"} : Raise(p, a, e) /\ (a \notin setting.served => e = "space")
    BY <1>18 DEF NoSpace
  <2>2. /\ Owns(p) /\ p \in setting.processes /\ pc[p] = "fetch" /\ a \in Inputs[job[p].task] /\ folder
        /\ job[p].task \in Task /\ UNCHANGED <<buffer, links, folder, tstate, failures, setting>>
        /\ noSpace' = noSpace \union {t \in {job[p].task} : failures[t] = 0}
        /\ buffer[a] = "absent" /\ ~Fits
    BY <1>18, <1>00, WorksHere DEF NoSpace, Reached, Owns
  <2>3. /\ \A q \in Process \ {p} : job'[q] = job[q] /\ pc'[q] = pc[q]
        /\ job'[p].task = job[p].task
        /\ a \notin Model => job'[p].error = e /\ (e = "space" => pc'[p] = "clearWait")
        /\ locks'["global"] # Dead /\ locks'["clear"] # Dead
    <3>1. JobTyped
      BY <1>0 DEF JobTyped
    <3>2. /\ \A q \in Process \ {p} : job'[q] = job[q]
          /\ job'[p].task = job[p].task
          /\ a \notin Model => job'[p].error = e
      BY <2>1, <3>1, RaiseJob
    <3>3. CASE a \in Model
      <4>1. UNCHANGED <<locks, pc>>
        BY <2>1, <3>3 DEF Raise
      <4> QED
        BY <1>0, <1>00, <3>2, <3>3, <4>1
    <3>4. CASE a \notin Model
      <4>1. Hold("global", Free) /\ Goto(p, IF e = "space" THEN "clearWait" ELSE "teardown")
        BY <2>1, <3>4 DEF Raise
      <4>2. \A q \in Process \ {p} : pc'[q] = pc[q]
        BY <1>0, <4>1 DEF Goto
      <4>3. e = "space" => pc'[p] = "clearWait"
        BY <1>0, <4>1 DEF Goto
      <4>4. locks'["global"] # Dead /\ locks'["clear"] # Dead
        BY <1>0, <1>00, <4>1 DEF Hold
      <4> QED
        BY <3>2, <4>2, <4>3, <4>4
    <3> QED
      BY <3>3, <3>4
  <2>4. ASSUME NEW t \in noSpace', MayFit(t), tstate'[t] # "done" PROVE GetsSpaceAt(p, t)'
    <3>1. CASE t \in noSpace
      <4>1. GetsSpaceAt(p, t) /\ t \in Task
        BY <1>01, <2>2, <2>4, <3>1
      <4>2. job[p].task = t /\ Present \subseteq Inputs[t]
        BY <2>2, <4>1 DEF Clearing
      <4>3. \A u \in Task : links[u] = NoCopies
        <5>1. \A q \in Process : ~(pc[q] \in {"link", "run", "teardown"})
          BY <2>2, OthersIdle DEF Steady
        <5> QED
          BY <5>1 DEF SpaceInv
      <4>4. Fits
        BY <2>2, <2>4, <4>1, <4>2, <4>3, FitsAgain
      <4> QED
        BY <2>2, <4>4
    <3>2. CASE t \notin noSpace
      <4>1. t = job[p].task /\ failures[t] = 0
        BY <2>2, <3>2
      <4>2. a \notin setting.served /\ a \notin Model
        BY <2>2, <2>4, <4>1 DEF MayFit
      <4>3. pc'[p] = "clearWait" /\ job'[p].error = "space"
        BY <2>1, <2>3, <4>2
      <4>4. tstate[t] = "doing"
        BY <2>2, <4>1 DEF Owns
      <4> QED
        BY <2>2, <2>3, <4>1, <4>3, <4>4 DEF Clearing
    <3> QED
      BY <3>1, <3>2
  <2> QED
    BY <1>0, <2>2, <2>3, <2>4, SpaceMove
<1>19. ASSUME NEW p \in Process, NEW a \in Asset, BadChecksum(p, a) PROVE SpaceInv'
  BY <1>19, <1>0 DEF BadChecksum, Fault
<1>20. ASSUME NEW p \in Process, NEW a \in Asset, LinkAsset(p, a) PROVE SpaceInv'
  <2>1. Owns(p) /\ p \in setting.processes /\ pc[p] # "idle" /\ folder
    BY <1>20, <1>00, WorksHere DEF LinkAsset, Owns
  <2>2. /\ \A q \in Process \ {p} : job'[q] = job[q] /\ pc'[q] = pc[q]
        /\ pc[p] = "link" /\ pc'[p] = "link" /\ job'[p].task = job[p].task
        /\ job'[p].bad = job[p].bad /\ job[p].task \in Task
        /\ \A t \in Task \ {job[p].task} : links'[t] = links[t]
    BY <1>20, <1>0, <1>00, <2>1 DEF Job, LinkAsset, Owns
  <2>3. ASSUME NEW t \in noSpace', MayFit(t), tstate'[t] # "done" PROVE GetsSpaceAt(p, t)'
    <3>1. t \in noSpace /\ failures'[t] = failures[t] /\ Present' = Present
      BY <1>20 DEF Present, LinkAsset, Owns
    <3>2. GetsSpaceAt(p, t) /\ t \in Task /\ failures[t] \in Nat
      BY <1>01, <2>1, <2>3, <3>1
    <3>3. tstate'[t] # "failed"
      BY <1>20, <3>2 DEF LinkAsset, Owns
    <3> QED
      BY <1>0, <2>1, <2>2, <2>3, <3>1, <3>2, <3>3 DEF Clearing, TriedAgain
  <2> QED
    BY <1>20, <1>0, <1>00, <2>1, <2>2, <2>3, SpaceMove DEF LinkAsset, Owns
<1>21. ASSUME NEW p \in Process, NEW a \in Asset, LinkFails(p, a) PROVE SpaceInv'
  <2>1. Owns(p) /\ p \in setting.processes /\ pc[p] # "idle" /\ folder
    BY <1>21, <1>00, WorksHere DEF LinkFails, Owns
  <2>2. /\ \A q \in Process \ {p} : job'[q] = job[q] /\ pc'[q] = pc[q]
        /\ pc[p] = "link" /\ pc'[p] = "teardown" /\ job'[p].task = job[p].task
        /\ (buffer[a] = "absent" \/ a \in Model) /\ a \in Inputs[job[p].task]
    BY <1>21, <1>0, <1>00, <2>1 DEF Job, LinkFails, Owns
  <2>3. ASSUME NEW t \in noSpace', MayFit(t), tstate'[t] # "done" PROVE GetsSpaceAt(p, t)'
    <3>1. t \in noSpace /\ failures'[t] = failures[t] /\ Present' = Present
      BY <1>21 DEF Present, LinkFails, Owns
    <3>2. GetsSpaceAt(p, t) /\ t \in Task /\ failures[t] \in Nat
      BY <1>01, <2>1, <2>3, <3>1
    <3>3. tstate'[t] # "failed"
      BY <1>21, <3>2 DEF LinkFails, Owns
    <3> QED
      BY <1>0, <2>1, <2>2, <2>3, <3>1, <3>2, <3>3 DEF Clearing, TriedAgain, Present, MayFit
  <2> QED
    BY <1>21, <1>0, <1>00, <2>1, <2>2, <2>3, SpaceMove DEF LinkFails, Owns
<1>22. ASSUME NEW p \in Process, NEW a \in Asset, RemoveAsset(p, a) PROVE SpaceInv'
  <2>1. Owns(p) /\ p \in setting.processes /\ pc[p] # "idle" /\ folder
    BY <1>22, <1>00, WorksHere DEF RemoveAsset, Remove, Present
  <2>2. /\ \A q \in Process \ {p} : job'[q] = job[q] /\ pc'[q] = pc[q]
        /\ pc[p] = "clear" /\ pc'[p] = "clear" /\ job'[p].task = job[p].task
        /\ job'[p].todo = job[p].todo \ {a} /\ job'[p].error = job[p].error
        /\ Present' = Present \ {a}
    BY <1>22, <1>0, <1>00, <2>1 DEF Job, RemoveAsset, Remove, Present
  <2>3. ASSUME NEW t \in noSpace', MayFit(t), tstate'[t] # "done" PROVE GetsSpaceAt(p, t)'
    <3>1. t \in noSpace /\ failures'[t] = failures[t]
      BY <1>22 DEF Present, RemoveAsset, Remove, Present
    <3>2. GetsSpaceAt(p, t) /\ t \in Task /\ failures[t] \in Nat
      BY <1>01, <2>1, <2>3, <3>1
    <3>3. tstate'[t] # "failed"
      BY <1>22, <3>2 DEF RemoveAsset, Remove, Present
    <3> QED
      BY <1>0, <2>1, <2>2, <2>3, <3>1, <3>2, <3>3 DEF Clearing, TriedAgain
  <2> QED
    BY <1>22, <1>0, <1>00, <2>1, <2>2, <2>3, SpaceMove DEF RemoveAsset, Remove, Present
<1>23. ASSUME NEW t \in Task, FinishedTask(t) PROVE SpaceInv'
  BY <1>23, SpaceKept DEF FinishedTask
<1>24. ASSUME NEW m \in Model, DisableOutput(m) PROVE SpaceInv'
  BY <1>24, SpaceKept DEF DisableOutput
<1>25. ASSUME NEW m \in Model, RemoveFromDb(m) PROVE SpaceInv'
  BY <1>25, SpaceKept DEF RemoveFromDb
<1>29. ASSUME NEW p \in Process, NEW m \in Model, ReceiveRemoval(p, m) PROVE SpaceInv'
  BY <1>29, SpaceKept DEF ReceiveRemoval
<1>26. ASSUME NEW p \in Process, NEW m \in Model, RemoveFromBuffer(p, m) PROVE SpaceInv'
  <2>1. /\ p \in setting.processes /\ pc[p] = "idle" /\ UNCHANGED <<pc, job, links, locks, taskVars>>
        /\ Present' \subseteq Present
    BY <1>26 DEF RemoveFromBuffer, Removers, Remove, Present
  <2>2. ASSUME NEW t \in noSpace', MayFit(t), tstate'[t] # "done" PROVE GetsSpaceAt(p, t)'
    BY <1>01, <2>1, <2>2
  <2> QED
    BY <1>26, <1>0, <1>00, <2>1, <2>2, SpaceMove DEF RemoveFromBuffer
<1>27. CASE Restart
  BY <1>27, <1>0 DEF Restart, Fault
<1>28. CASE UNCHANGED vars
  BY <1>28, SpaceKept DEF vars
<1> QED
  BY <1>1, <1>2, <1>3, <1>4, <1>5, <1>6, <1>7, <1>8, <1>9, <1>10, <1>11, <1>12, <1>13, <1>14, <1>15,
     <1>16, <1>17, <1>18, <1>19, <1>20, <1>21, <1>22, <1>23, <1>24, <1>25, <1>26, <1>27, <1>28, <1>29
  DEF Next, ProcessStep, AssetStep, AssetFault, ModelStep, Quiet

-----------------------------------------------------------------------------
(* A kill costs a task one attempt at most *)

\* What Owed says of the one process.
OwedAt(p, t) ==
  IF Links(p, t)
  THEN \/ pc[p] = "link" /\ \E a \in job[p].todo \intersect Model : links[t][a] # "absent"
       \/ pc[p] = "teardown" /\ job[p].error # "none"
  ELSE links[t] # NoCopies

LEMMA OwedAtProcess ==
  ASSUME TypeOK, Owning, Alone, NEW p \in Process, p \in setting.processes, NEW t \in Task
  PROVE  Owed(t) <=> OwedAt(p, t)
  BY OthersIdle DEF Owed, OwedAt, Links

\* A step of the one process.
LEMMA KillMove ==
  ASSUME TypeOK, Owning, KillInv, Mended, NEW p \in Process, p \in setting.processes, UNCHANGED setting,
         \A q \in Process \ {p} : job'[q] = job[q] /\ pc'[q] = pc[q],
         disabled \subseteq disabled',
         \A a \in Asset \ disabled : buffer[a] # "absent" => buffer'[a] # "absent",
         \A t \in Task, a \in Asset :
           links'[t][a] # "absent" => links[t][a] # "absent" \/ buffer'[a] # "absent",
         AtWork(p)',
         \A t \in Task : Paid(t)'
  PROVE  KillInv'
<1>1. \A q \in Process \ {p} : pc'[q] = "idle" /\ ~job'[q].bad
  BY OthersIdle DEF Mended, NoJob
<1>2. \A q \in Process : AtWork(q)'
  BY <1>1 DEF AtWork
<1>3. Linking'
  BY DEF KillInv, Linking
<1> QED
  BY <1>2, <1>3 DEF KillInv

\* A step of the one process that fails no attempt.
LEMMA KillGoesOn ==
  ASSUME TypeOK, Owning, KillInv, Mended, NEW p \in Process, p \in setting.processes, Alone',
         UNCHANGED <<setting, failures, faults>>,
         \A q \in Process \ {p} : job'[q] = job[q] /\ pc'[q] = pc[q],
         \A t \in Task : tstate'[t] = "failed" => tstate[t] = "failed",
         \A t \in Task : OwedAt(p, t)' => OwedAt(p, t)
  PROVE  \A t \in Task : Paid(t)'
<1>1. ASSUME NEW t \in Task, Owed(t)' PROVE Owed(t)
  <2>1. \A q \in Process \ {p} : pc'[q] = "idle" /\ pc[q] = "idle"
    BY OthersIdle DEF Mended
  <2>2. OwedAt(p, t)'
    BY <1>1, <2>1 DEF Owed, OwedAt, Links
  <2> QED
    BY <2>2, OwedAtProcess DEF Mended
<1>2. failures \in [Task -> 0..MaxRetries] /\ faults \in Nat /\ MaxRetries \in Nat
  BY AssetBufferAssumption DEF TypeOK
<1> SUFFICES ASSUME NEW t \in Task PROVE Paid(t)'
  OBVIOUS
<1>3. Paid(t) /\ failures[t] \in Nat
  BY <1>2 DEF KillInv
<1> QED
  BY <1>1, <1>2, <1>3 DEF Paid

LEMMA KillKept ==
  ASSUME KillInv, UNCHANGED <<setting, locks, links, pc, job, buffer, taskVars, faults>>, disabled \subseteq disabled'
  PROVE  KillInv'
  BY DEF KillInv, Mended, Alone, Roomy, Linking, AtWork, Paid, Owed, Links, Present, taskVars

\* There is room for what a task needs.
LEMMA NeededHasRoom ==
  ASSUME TypeOK, Owning, Keeping, Linking, Roomy, NEW p \in Process, pc[p] = "fetch",
         NEW a \in Inputs[job[p].task], buffer[a] = "absent"
  PROVE  Fits
<1>1. a \in Asset /\ a \notin disabled
  BY NeededStays
<1>2. \A t \in Task : links[t][a] = "absent"
  BY <1>1 DEF Linking
<1>3. Used \subseteq Asset /\ Used # Asset
  BY <1>1, <1>2 DEF Used
<1>4. Cardinality(Used) \in Nat /\ Cardinality(Asset) \in Nat /\ Cardinality(Used) < Cardinality(Asset)
  BY <1>3, AssetBufferAssumption, FS_Subset, FS_CardinalityType
<1>5. setting.capacity \in Nat
  BY AssetBufferAssumption DEF TypeOK, SettingType
<1> QED
  BY <1>4, <1>5 DEF Roomy, Fits

LEMMA KillInit == Init => KillInv
<1> SUFFICES ASSUME Init PROVE KillInv
  OBVIOUS
<1>1. \A t \in Task : ~Owed(t) /\ failures[t] = 0 /\ tstate[t] = "todo" /\ faults = 0
  BY DEF Init, Owed, Links
<1>2. Linking /\ \A p \in Process : AtWork(p)
  BY DEF Init, Linking, AtWork, NoCopies, NoJob
<1> QED
  BY <1>1, <1>2 DEF KillInv, Paid

LEMMA KillNext ==
  ASSUME TypeOK, Owning, Keeping, Removers, SoloInv, KillInv, [Next]_vars
  PROVE  KillInv'
<1> SUFFICES ASSUME Mended' PROVE KillInv'
  BY DEF KillInv
<1>0. /\ pc \in [Process -> Place] /\ job \in [Process -> Job] /\ buffer \in [Asset -> Copy]
      /\ tstate \in [Task -> {"todo", "doing", "done", "failed"}]
      /\ failures \in [Task -> 0..MaxRetries] /\ faults \in Nat
      /\ locks \in [{"global", "clear"} -> Process \union {Free, Dead}]
      /\ links \in [Task -> [Asset -> Copy]]
      /\ \A p \in Process : IdleOrOwns(p)
      /\ Dead \notin Process /\ Free # Dead /\ MaxRetries \in Nat
  BY AssetBufferAssumption DEF TypeOK, Owning
<1>01. setting' = setting /\ setting.env = {"kill"} /\ Alone /\ Alone' /\ Roomy /\ locks'["global"] # Dead
  BY SettingKept DEF Mended, Alone, Roomy
<1> USE DEF Goto, SetJob, Hold, diskVars, taskVars, removalVars, modelVars, envVars
\* A lock that was left behind stays.
<1>02. locks["global"] # Dead
  <2> SUFFICES ASSUME locks["global"] = Dead PROVE FALSE
    OBVIOUS
  <2>1. \A p \in Process : pc[p] \notin {"fetch", "purge"}
    BY <1>0 DEF IdleOrOwns, Owns
  <2>2. ASSUME NEW p \in Process, ProcessStep(p) PROVE locks'["global"] = locks["global"]
    BY <1>0, <2>1, <2>2 DEF ProcessStep, LockBuffer, WaitTimeout, EndPurge, JoinFailed, UnlockBuffer, FetchedAll,
          StartExecution, SaveOutputs, LockClear, ClearTimeout, EndClear, Teardown
  <2>3. ASSUME NEW p \in Process, NEW a \in Asset, AssetStep(p, a) \/ AssetFault(p, a)
        PROVE  locks'["global"] = locks["global"]
    BY <2>1, <2>3 DEF AssetStep, AssetFault, Exists, StartFetch, EndFetch, NoSpace, LinkAsset, LinkFails,
          RemoveAsset, BadChecksum, FetchFails, Reached
  <2>4. ASSUME NEW p \in Process, NEW t \in Task, Receive(p, t) PROVE locks'["global"] = locks["global"]
    BY <2>4 DEF Receive
  <2>5. ASSUME NEW p \in Process, Kill(p) PROVE locks'["global"] = Dead
    BY <1>0, <2>5 DEF Kill
  <2>6. ASSUME NEW t \in Task, FinishedTask(t) PROVE locks' = locks
    BY <2>6 DEF FinishedTask
  <2>7. ASSUME NEW m \in Model, ModelStep(m) PROVE locks' = locks
    BY <2>7 DEF ModelStep, DisableOutput, RemoveFromDb, ReceiveRemoval, RemoveFromBuffer
  <2>8. ~Restart
    BY <1>01 DEF Restart, Fault
  <2>9. UNCHANGED vars => locks' = locks
    BY DEF vars
  <2> QED
    BY <1>01, <2>2, <2>3, <2>4, <2>5, <2>6, <2>7, <2>8, <2>9 DEF Next, Quiet
<1>03. /\ Mended /\ Linking
       /\ \A p \in Process : AtWork(p) /\ pc[p] # "purge"
       /\ \A p \in Process : \A a \in job[p].busy \intersect Sample : buffer[a] = "partial"
       /\ \A t \in Task : Paid(t)
  BY <1>01, <1>02 DEF Mended, KillInv, SoloInv, Solo
<1> USE DEF OwedAt, Links, AtWork
<1>1. ASSUME NEW p \in Process, NEW t \in Task, Receive(p, t) PROVE KillInv'
  <2>1. /\ p \in setting.processes /\ pc[p] = "idle" /\ t \in Task /\ pc'[p] = "wait"
        /\ \A q \in Process \ {p} : job'[q] = job[q] /\ pc'[q] = pc[q]
        /\ ~job'[p].bad /\ UNCHANGED <<links, buffer, failures, faults, disabled>>
        /\ \A u \in Task : tstate'[u] = "failed" => tstate[u] = "failed"
    BY <1>1, <1>0 DEF Receive, NoJob
  <2>2. \A u \in Task : OwedAt(p, u)' => OwedAt(p, u)
    BY <2>1
  <2>3. \A u \in Task : Paid(u)'
    BY <1>0, <1>01, <1>03, <2>1, <2>2, KillGoesOn
  <2> QED
    BY <1>0, <1>01, <1>03, <2>1, <2>3, KillMove
<1>2. ASSUME NEW p \in Process, LockBuffer(p) PROVE KillInv'
  <2>1. Owns(p) /\ p \in setting.processes /\ pc[p] # "idle" /\ job[p].task \in Task
    BY <1>2, WorksHere DEF LockBuffer, Owns
  <2>2. /\ \A q \in Process \ {p} : job'[q] = job[q] /\ pc'[q] = pc[q]
        /\ pc[p] = "wait" /\ pc'[p] = "fetch" /\ job'[p].task = job[p].task /\ job'[p].bad = job[p].bad
        /\ job'[p].todo = Inputs[job[p].task]
    BY <1>2, <1>0, <1>03, <2>1 DEF Job, Owns, LockBuffer
  <2>3. AtWork(p)'
    BY <1>2, <1>0, <1>03, <2>1, <2>2 DEF Present, LockBuffer
  <2>4. \A t \in Task : OwedAt(p, t)' => OwedAt(p, t)
    BY <1>2, <1>0, <1>03, <2>1, <2>2 DEF NoCopies, LockBuffer
  <2>5. \A t \in Task : Paid(t)'
    BY <1>2, <1>0, <1>01, <1>03, <2>1, <2>2, <2>4, KillGoesOn DEF LockBuffer
  <2> QED
    BY <1>2, <1>0, <1>01, <1>03, <2>1, <2>2, <2>3, <2>5, KillMove DEF LockBuffer
<1>3. ASSUME NEW p \in Process, WaitTimeout(p) PROVE KillInv'
  BY <1>3, <1>02 DEF WaitTimeout
<1>4. ASSUME NEW p \in Process, EndPurge(p) PROVE KillInv'
  BY <1>4, <1>03 DEF EndPurge
<1>5. ASSUME NEW p \in Process, JoinFailed(p) PROVE KillInv'
  BY <1>5, <1>03 DEF JoinFailed
<1>6. ASSUME NEW p \in Process, UnlockBuffer(p) PROVE KillInv'
  <2>1. Owns(p) /\ p \in setting.processes /\ pc[p] # "idle" /\ job[p].task \in Task
    BY <1>6, WorksHere DEF UnlockBuffer, FetchedAll, Owns
  <2>2. /\ \A q \in Process \ {p} : job'[q] = job[q] /\ pc'[q] = pc[q]
        /\ pc[p] = "fetch" /\ pc'[p] = "link" /\ job'[p].task = job[p].task /\ job'[p].bad = job[p].bad
        /\ job[p].todo = {} /\ links' = links
    BY <1>6, <1>0, <1>03, <2>1 DEF Job, Owns, UnlockBuffer, FetchedAll
  <2>3. AtWork(p)'
    BY <1>6, <1>0, <1>03, <2>1, <2>2 DEF Present, UnlockBuffer, FetchedAll
  <2>4. \A t \in Task : OwedAt(p, t)' => OwedAt(p, t)
    <3>1. \A t \in Task : links[t] = NoCopies => \A a \in Model : links[t][a] = "absent"
      BY DEF NoCopies, Asset
    <3> QED
      BY <2>1, <2>2, <3>1
  <2>5. \A t \in Task : Paid(t)'
    BY <1>6, <1>0, <1>01, <1>03, <2>1, <2>2, <2>4, KillGoesOn DEF UnlockBuffer, FetchedAll
  <2> QED
    BY <1>6, <1>0, <1>01, <1>03, <2>1, <2>2, <2>3, <2>5, KillMove DEF UnlockBuffer, FetchedAll
<1>7. ASSUME NEW p \in Process, StartExecution(p) PROVE KillInv'
  <2>1. Owns(p) /\ p \in setting.processes /\ pc[p] # "idle" /\ job[p].task \in Task
    BY <1>7, WorksHere DEF StartExecution, Owns
  <2>2. /\ \A q \in Process \ {p} : job'[q] = job[q] /\ pc'[q] = pc[q]
        /\ pc[p] = "link" /\ pc'[p] = "run" /\ job'[p].task = job[p].task /\ job'[p].bad = job[p].bad
        /\ job[p].todo = {}
    BY <1>7, <1>0, <1>03, <2>1 DEF Job, Owns, StartExecution
  <2>3. AtWork(p)'
    BY <1>7, <1>0, <1>03, <2>1, <2>2 DEF Present, StartExecution
  <2>4. \A t \in Task : OwedAt(p, t)' => OwedAt(p, t)
    BY <1>7, <1>0, <1>03, <2>1, <2>2 DEF NoCopies, StartExecution
  <2>5. \A t \in Task : Paid(t)'
    BY <1>7, <1>0, <1>01, <1>03, <2>1, <2>2, <2>4, KillGoesOn DEF StartExecution
  <2> QED
    BY <1>7, <1>0, <1>01, <1>03, <2>1, <2>2, <2>3, <2>5, KillMove DEF StartExecution
<1>8. ASSUME NEW p \in Process, SaveOutputs(p) PROVE KillInv'
  <2>1. Owns(p) /\ p \in setting.processes /\ pc[p] # "idle" /\ job[p].task \in Task
    BY <1>8, WorksHere DEF SaveOutputs, Owns
  <2>2. /\ \A q \in Process \ {p} : job'[q] = job[q] /\ pc'[q] = pc[q]
        /\ pc[p] = "run" /\ pc'[p] = "teardown" /\ job'[p].task = job[p].task /\ job'[p].bad = job[p].bad
        /\ job'[p].error = "none" /\ \A a \in Asset : buffer[a] # "absent" => buffer'[a] # "absent"
    BY <1>8, <1>0, <1>03, <2>1 DEF Job, Owns, SaveOutputs
  <2>3. AtWork(p)'
    BY <1>8, <1>0, <1>03, <2>1, <2>2 DEF Present, SaveOutputs
  <2>4. \A t \in Task : OwedAt(p, t)' => OwedAt(p, t)
    BY <1>8, <1>0, <1>03, <2>1, <2>2 DEF NoCopies, SaveOutputs
  <2>5. \A t \in Task : Paid(t)'
    BY <1>8, <1>0, <1>01, <1>03, <2>1, <2>2, <2>4, KillGoesOn DEF SaveOutputs
  <2> QED
    BY <1>8, <1>0, <1>01, <1>03, <2>1, <2>2, <2>3, <2>5, KillMove DEF SaveOutputs
<1>9. ASSUME NEW p \in Process, LockClear(p) PROVE KillInv'
  BY <1>9, <1>03 DEF LockClear
<1>10. ASSUME NEW p \in Process, ClearTimeout(p) PROVE KillInv'
  BY <1>10, <1>03 DEF ClearTimeout
<1>11. ASSUME NEW p \in Process, EndClear(p) PROVE KillInv'
  BY <1>11, <1>03 DEF EndClear
<1>12. ASSUME NEW p \in Process, Teardown(p) PROVE KillInv'
  <2>1. Owns(p) /\ p \in setting.processes /\ pc[p] = "teardown" /\ job[p].task \in Task
    BY <1>12, WorksHere DEF Teardown, Owns
  <2>2. /\ \A q \in Process \ {p} : job'[q] = job[q] /\ pc'[q] = pc[q]
        /\ pc'[p] = "idle" /\ ~job'[p].bad /\ UNCHANGED <<buffer, faults, disabled>>
    BY <1>12, <1>0, <2>1 DEF Teardown, NoJob
  <2>3. links' = [links EXCEPT ![job[p].task] = NoCopies]
    BY <1>12 DEF Teardown
  <2>4. ASSUME NEW t \in Task PROVE Paid(t)'
    <3>0. Paid(t) /\ failures[t] \in Nat /\ failures[t] <= MaxRetries
      BY <1>0, <1>03
    <3>1. Owed(t)' => OwedAt(p, t)'
      BY <1>03, <2>1, <2>2, OthersIdle DEF Owed, Mended
    <3>2. Owed(t) <=> OwedAt(p, t)
      BY <1>01, <2>1, OwedAtProcess
    <3>3. CASE t = job[p].task /\ job[p].error # "none"
      <4>1. ~OwedAt(p, t)' /\ OwedAt(p, t)
        BY <1>0, <2>1, <2>2, <2>3, <3>3
      <4>2. failures[t] + 1 <= faults
        BY <3>0, <3>2, <4>1 DEF Paid
      <4>3. IF failures[t] < MaxRetries THEN tstate'[t] = "todo" /\ failures'[t] = failures[t] + 1
            ELSE failures'[t] = failures[t]
        BY <1>12, <1>0, <3>3 DEF Teardown
      <4> QED
        BY <1>0, <2>2, <3>0, <3>1, <4>1, <4>2, <4>3 DEF Paid
    <3>4. CASE t # job[p].task \/ job[p].error = "none"
      <4>1. OwedAt(p, t)' => OwedAt(p, t)
        BY <1>0, <2>1, <2>2, <2>3, <3>4
      <4>2. tstate'[t] = tstate[t] /\ failures'[t] = failures[t]
        BY <1>12, <1>0, <2>1, <3>4 DEF Teardown
      <4> QED
        BY <1>0, <2>2, <3>0, <3>1, <3>2, <4>1, <4>2 DEF Paid
    <3> QED
      BY <3>3, <3>4
  <2>5. \A t \in Task, a \in Asset : links'[t][a] # "absent" => links[t][a] # "absent"
    BY <1>0, <2>1, <2>3 DEF NoCopies
  <2> QED
    BY <1>01, <1>03, <2>1, <2>2, <2>4, <2>5, KillMove
<1>13. ASSUME NEW p \in Process, Kill(p) PROVE KillInv'
  <2>1. p \in setting.processes /\ (pc[p] # "idle" => Owns(p))
    BY <1>13, WorksHere DEF Kill, Removers
  <2>2. /\ \A q \in Process \ {p} : job'[q] = job[q] /\ pc'[q] = pc[q]
        /\ pc'[p] = "idle" /\ ~job'[p].bad /\ UNCHANGED <<buffer, links, failures, disabled>>
        /\ faults' = faults + 1
        /\ \A t \in Task : tstate'[t] = "failed" => tstate[t] = "failed"
    BY <1>13, <1>0, <2>1 DEF Kill, Orphaned, NoJob, Fault
  <2>3. \A t \in Task : Paid(t)'
    BY <1>0, <1>03, <2>2 DEF Paid
  <2> QED
    BY <1>01, <1>03, <2>1, <2>2, <2>3, KillMove
<1>14. ASSUME NEW p \in Process, NEW a \in Asset, Exists(p, a) PROVE KillInv'
  <2>1. Owns(p) /\ p \in setting.processes /\ pc[p] # "idle" /\ job[p].task \in Task
    BY <1>14, WorksHere DEF Exists, Reached, Owns
  <2>2. /\ \A q \in Process \ {p} : job'[q] = job[q] /\ pc'[q] = pc[q]
        /\ pc[p] = "fetch" /\ pc'[p] = "fetch" /\ job'[p].task = job[p].task /\ job'[p].bad = job[p].bad
        /\ job'[p].todo = job[p].todo \ {a} /\ a \in Asset /\ buffer[a] # "absent"
    BY <1>14, <1>0, <1>03, <2>1 DEF Job, Owns, Exists, Reached
  <2>3. AtWork(p)'
    BY <1>14, <1>0, <1>03, <2>1, <2>2 DEF Present, Exists, Reached
  <2>4. \A t \in Task : OwedAt(p, t)' => OwedAt(p, t)
    BY <1>14, <1>0, <1>03, <2>1, <2>2 DEF NoCopies, Exists, Reached
  <2>5. \A t \in Task : Paid(t)'
    BY <1>14, <1>0, <1>01, <1>03, <2>1, <2>2, <2>4, KillGoesOn DEF Exists, Reached
  <2> QED
    BY <1>14, <1>0, <1>01, <1>03, <2>1, <2>2, <2>3, <2>5, KillMove DEF Exists, Reached
<1>15. ASSUME NEW p \in Process, NEW a \in Asset, StartFetch(p, a) PROVE KillInv'
  <2>1. Owns(p) /\ p \in setting.processes /\ pc[p] # "idle" /\ job[p].task \in Task
    BY <1>15, WorksHere DEF StartFetch, Reached, Write, Present, Owns
  <2>2. /\ \A q \in Process \ {p} : job'[q] = job[q] /\ pc'[q] = pc[q]
        /\ pc[p] = "fetch" /\ pc'[p] = "fetch" /\ job'[p].task = job[p].task /\ job'[p].bad = job[p].bad
        /\ job'[p].todo = job[p].todo \ {a} /\ Present' = Present \union {a}
        /\ \A b \in Asset : buffer[b] # "absent" => buffer'[b] # "absent"
    BY <1>15, <1>0, <1>03, <2>1 DEF Job, Owns, StartFetch, Reached, Write, Present
  <2>3. AtWork(p)'
    BY <1>15, <1>0, <1>03, <2>1, <2>2 DEF Owns, StartFetch, Reached, Write, Present
  <2>4. \A t \in Task : OwedAt(p, t)' => OwedAt(p, t)
    BY <1>15, <1>0, <1>03, <2>1, <2>2 DEF NoCopies, StartFetch, Reached, Write, Present
  <2>5. \A t \in Task : Paid(t)'
    BY <1>15, <1>0, <1>01, <1>03, <2>1, <2>2, <2>4, KillGoesOn DEF StartFetch, Reached, Write, Present
  <2> QED
    BY <1>15, <1>0, <1>01, <1>03, <2>1, <2>2, <2>3, <2>5, KillMove DEF StartFetch, Reached, Write, Present
<1>16. ASSUME NEW p \in Process, NEW a \in Asset, EndFetch(p, a) PROVE KillInv'
  <2>1. Owns(p) /\ p \in setting.processes /\ pc[p] # "idle" /\ job[p].task \in Task
    BY <1>16, WorksHere DEF EndFetch, Write, Present, Owns
  <2>2. /\ \A q \in Process \ {p} : job'[q] = job[q] /\ pc'[q] = pc[q]
        /\ pc[p] = "fetch" /\ pc'[p] = "fetch" /\ job'[p].task = job[p].task /\ job'[p].bad = job[p].bad
        /\ job'[p].todo = job[p].todo /\ Present' = Present
        /\ \A b \in Asset : buffer[b] # "absent" => buffer'[b] # "absent"
    BY <1>16, <1>0, <1>03, <2>1 DEF Job, Owns, EndFetch, Write, Present
  <2>3. AtWork(p)'
    BY <1>16, <1>0, <1>03, <2>1, <2>2 DEF Owns, EndFetch, Write, Present
  <2>4. \A t \in Task : OwedAt(p, t)' => OwedAt(p, t)
    BY <1>16, <1>0, <1>03, <2>1, <2>2 DEF NoCopies, EndFetch, Write, Present
  <2>5. \A t \in Task : Paid(t)'
    BY <1>16, <1>0, <1>01, <1>03, <2>1, <2>2, <2>4, KillGoesOn DEF EndFetch, Write, Present
  <2> QED
    BY <1>16, <1>0, <1>01, <1>03, <2>1, <2>2, <2>3, <2>5, KillMove DEF EndFetch, Write, Present
<1>17. ASSUME NEW p \in Process, NEW a \in Asset, FetchFails(p, a) PROVE KillInv'
  BY <1>17, <1>01 DEF FetchFails, Fault
<1>18. ASSUME NEW p \in Process, NEW a \in Asset, NoSpace(p, a) PROVE KillInv'
  <2>1. pc[p] = "fetch" /\ a \in Inputs[job[p].task] /\ buffer[a] = "absent" /\ ~Fits
    BY <1>18, WorksHere DEF NoSpace, Reached, Owns
  <2> QED
    BY <1>01, <1>03, <2>1, NeededHasRoom
<1>19. ASSUME NEW p \in Process, NEW a \in Asset, BadChecksum(p, a) PROVE KillInv'
  BY <1>19, <1>01, <1>03 DEF BadChecksum, Fault
<1>20. ASSUME NEW p \in Process, NEW a \in Asset, LinkAsset(p, a) PROVE KillInv'
  <2>1. Owns(p) /\ p \in setting.processes /\ pc[p] # "idle" /\ job[p].task \in Task
    BY <1>20, WorksHere DEF LinkAsset, Owns
  <2>2. /\ \A q \in Process \ {p} : job'[q] = job[q] /\ pc'[q] = pc[q]
        /\ pc[p] = "link" /\ pc'[p] = "link" /\ job'[p].task = job[p].task /\ job'[p].bad = job[p].bad
        /\ job'[p].todo = job[p].todo \ {a} /\ a \in Asset /\ buffer[a] # "absent"
        /\ \A t \in Task, b \in Asset : (t # job[p].task \/ b # a) => links'[t][b] = links[t][b]
        /\ \A t \in Task \ {job[p].task} : links'[t] = links[t]
    BY <1>20, <1>0, <1>03, <2>1 DEF Job, Owns, LinkAsset
  <2>3. AtWork(p)'
    BY <1>20, <1>0, <1>03, <2>1, <2>2 DEF Present, LinkAsset
  <2>4. \A t \in Task : OwedAt(p, t)' => OwedAt(p, t)
    BY <1>20, <1>0, <1>03, <2>1, <2>2 DEF NoCopies, LinkAsset
  <2>5. \A t \in Task : Paid(t)'
    BY <1>20, <1>0, <1>01, <1>03, <2>1, <2>2, <2>4, KillGoesOn DEF LinkAsset
  <2> QED
    BY <1>20, <1>0, <1>01, <1>03, <2>1, <2>2, <2>3, <2>5, KillMove DEF LinkAsset
<1>21. ASSUME NEW p \in Process, NEW a \in Asset, LinkFails(p, a) PROVE KillInv'
  <2>1. Owns(p) /\ p \in setting.processes /\ pc[p] # "idle" /\ job[p].task \in Task
    BY <1>21, WorksHere DEF LinkFails, Owns
  <2>2. /\ \A q \in Process \ {p} : job'[q] = job[q] /\ pc'[q] = pc[q]
        /\ pc[p] = "link" /\ pc'[p] = "teardown" /\ job'[p].task = job[p].task /\ job'[p].bad = job[p].bad
        /\ a \in Model /\ a \in job[p].todo /\ links[job[p].task][a] # "absent"
    BY <1>21, <1>0, <1>03, <2>1 DEF Job, Owns, LinkFails, Present, NoCopies
  <2>3. AtWork(p)'
    BY <1>21, <1>0, <1>03, <2>1, <2>2 DEF Present, LinkFails
  <2>4. \A t \in Task : OwedAt(p, t)' => OwedAt(p, t)
    BY <1>21, <1>0, <1>03, <2>1, <2>2 DEF NoCopies, LinkFails
  <2>5. \A t \in Task : Paid(t)'
    BY <1>21, <1>0, <1>01, <1>03, <2>1, <2>2, <2>4, KillGoesOn DEF LinkFails
  <2> QED
    BY <1>21, <1>0, <1>01, <1>03, <2>1, <2>2, <2>3, <2>5, KillMove DEF LinkFails
<1>22. ASSUME NEW p \in Process, NEW a \in Asset, RemoveAsset(p, a) PROVE KillInv'
  BY <1>22, <1>03 DEF RemoveAsset
<1>23. ASSUME NEW t \in Task, FinishedTask(t) PROVE KillInv'
  BY <1>23, KillKept DEF FinishedTask
<1>24. ASSUME NEW m \in Model, DisableOutput(m) PROVE KillInv'
  <2>1. disabled \subseteq disabled'
    BY <1>24 DEF DisableOutput
  <2> QED
    BY <1>24, <2>1, KillKept DEF DisableOutput
<1>25. ASSUME NEW m \in Model, RemoveFromDb(m) PROVE KillInv'
  BY <1>25, KillKept DEF RemoveFromDb
<1>29. ASSUME NEW p \in Process, NEW m \in Model, ReceiveRemoval(p, m) PROVE KillInv'
  BY <1>29, KillKept DEF ReceiveRemoval
<1>26. ASSUME NEW p \in Process, NEW m \in Model, RemoveFromBuffer(p, m) PROVE KillInv'
  <2>1. /\ p \in setting.processes /\ pc[p] = "idle" /\ UNCHANGED <<pc, job, links, failures, faults, noSpace, tstate, disabled>>
        /\ \A a \in Asset \ {m} : buffer'[a] = buffer[a]
    BY <1>26 DEF RemoveFromBuffer, Removers, Remove
  <2>2. m \in disabled
    BY <1>26 DEF RemoveFromBuffer, Removers
  <2>3. AtWork(p)'
    BY <1>03, <2>1
  <2>4. \A t \in Task : Paid(t)'
    BY <1>03, <2>1 DEF Paid, Owed
  <2> QED
    BY <1>01, <1>03, <2>1, <2>2, <2>3, <2>4, KillMove
<1>27. CASE Restart
  BY <1>27, <1>01 DEF Restart, Fault
<1>28. CASE UNCHANGED vars
  BY <1>28, KillKept DEF vars
<1> QED
  BY <1>1, <1>2, <1>3, <1>4, <1>5, <1>6, <1>7, <1>8, <1>9, <1>10, <1>11, <1>12, <1>13, <1>14, <1>15,
     <1>16, <1>17, <1>18, <1>19, <1>20, <1>21, <1>22, <1>23, <1>24, <1>25, <1>26, <1>27, <1>28, <1>29
  DEF Next, ProcessStep, AssetStep, AssetFault, ModelStep, Quiet

-----------------------------------------------------------------------------
LEMMA FailuresInvariance == Spec => [](Inv /\ SoloInv /\ KillInv)
<1>1. Init => Inv /\ SoloInv /\ KillInv
  BY TypeInit, OwningInit, KeepingInit, RemoversInit, TrustedInit, CalmInit, LinkedInit, SoloInit, KillInit DEF Inv
<1>2. Inv /\ SoloInv /\ KillInv /\ [Next]_vars => (Inv /\ SoloInv /\ KillInv)'
  <2> SUFFICES ASSUME Inv, SoloInv, KillInv, [Next]_vars PROVE Inv' /\ SoloInv' /\ KillInv'
    OBVIOUS
  <2>1. Inv'
    BY InvNext
  <2> QED
    BY <2>1, SoloNext, KillNext DEF Inv
<1> QED
  BY <1>1, <1>2, PTL DEF Spec

LEMMA SpaceInvariance ==
  ASSUME MaxRetries > 0
  PROVE  Spec => []SpaceInv
<1>1. Init => SpaceInv
  BY SpaceInit
<1>2. Inv /\ SoloInv /\ SpaceInv /\ [Next]_vars => SpaceInv'
  BY SpaceNext DEF Inv
<1> QED
  BY <1>1, <1>2, FailuresInvariance, PTL DEF Spec

\* With a retry at least, a task fails for lack of space only where clearing the
\* buffer cannot mend it; and a kill costs it no more than one attempt, unless it
\* leaves the lock on the buffer (asset_buffer.py, tasks_compute_task.py).
THEOREM FailuresHaveReasons ==
  ASSUME MaxRetries > 0
  PROVE  Spec => []FailuresAreReal
<1>1. SpaceInv /\ TypeOK => NoSpaceIsReal
  <2> SUFFICES ASSUME SpaceInv, TypeOK PROVE NoSpaceIsReal
    OBVIOUS
  <2> SUFFICES ASSUME Steady, NEW t \in noSpace, tstate[t] = "failed" PROVE ~MayFit(t)
    <3>1. \A u \in noSpace : Cardinality(Inputs[u]) \in Nat
      BY AssetBufferAssumption, FS_Subset, FS_CardinalityType DEF TypeOK
    <3>2. setting.capacity \in Nat
      BY AssetBufferAssumption DEF TypeOK, SettingType
    <3> QED
      BY <3>1, <3>2 DEF NoSpaceIsReal, Steady, MayFit
  <2> QED
    BY DEF SpaceInv, GetsSpace
<1>2. KillInv /\ TypeOK => KillIsSurvived
  <2> SUFFICES ASSUME KillInv, TypeOK, Mended, faults <= MaxRetries, NEW t \in Task, tstate[t] = "failed" PROVE FALSE
    BY DEF KillIsSurvived, Mended
  <2>1. MaxRetries < faults /\ MaxRetries \in Nat /\ faults \in Nat
    BY AssetBufferAssumption DEF KillInv, Paid, TypeOK
  <2> QED
    BY <2>1
<1>3. Inv => TypeOK
  BY DEF Inv
<1>4. NoSpaceIsReal /\ KillIsSurvived => FailuresAreReal
  BY DEF FailuresAreReal
<1> QED
  BY <1>1, <1>2, <1>3, <1>4, FailuresInvariance, SpaceInvariance, PTL
=============================================================================
