--------------------------- MODULE FunctionBuildProofs ---------------------------
(***************************************************************************)
(* A function that is READY has its image, the row of a function that has  *)
(* ended follows the orchestrator but for two gaps, and a function fails   *)
(* only for a reason, for any functions of one archive, builders and       *)
(* savers, retries, settings and faults.                                   *)
(***************************************************************************)
EXTENDS FunctionBuild, SequenceTheorems, TLAPS

SaverPlace == {"idle", "payload", "store", "read", "write", "update", "ready", "ack"}

\* The types the invariant needs.
Typed ==
  /\ status \in [Function -> Status]
  /\ spc \in [Saver -> SaverPlace]
  /\ save = [s \in Saver |-> [function |-> save[s].function, retries |-> save[s].retries,
                              seen |-> save[s].seen]]

\* What a saver has done to the function of its message: it reads the image from
\* the registry before it stores it, stores it before it tells the orchestrator,
\* and marks the function as READY last; and none of the three is ever undone.
Saved ==
  \A s \in Saver :
    /\ spc[s] \in {"store", "read", "write", "update", "ready"} => registry
    /\ spc[s] \in {"read", "write", "update", "ready"} => save[s].function \in stored
    /\ spc[s] = "ready" => save[s].function \in image

Inv == Typed /\ Saved /\ ReadyHasImage

\* The initial states satisfy the invariant.
LEMMA InitInv == Init => Inv
  BY FunctionBuildAssumption
  DEF Init, Inv, Typed, Saved, ReadyHasImage, Status, Final, RowStatus, SaverPlace, NoSave

\* A step that changes neither the registry, the stored images nor a saver keeps
\* it, if it marks no function as READY and forgets no image.
LEMMA Untouched ==
  ASSUME Inv, UNCHANGED saverVars,
         registry => registry', stored \subseteq stored', image \subseteq image',
         status' \in [Function -> Status],
         \A f \in Function : status'[f] = "ready" => status[f] = "ready"
  PROVE  Inv'
  BY DEF Inv, Typed, Saved, ReadyHasImage, saverVars

\* A change of status to something else than READY marks no function as READY.
LEMMA StatusStep ==
  ASSUME Inv, NEW f \in Function, NEW st \in Status \ {"ready"}, SetStatus(f, st)
  PROVE  /\ status' \in [Function -> Status] /\ image \subseteq image'
         /\ \A g \in Function : status'[g] = "ready" => status[g] = "ready"
  BY DEF Inv, Typed, SetStatus

\* What users, the reactor, the API server and the reports of failures do.
LEMMA OutsideStep ==
  ASSUME Inv,
         \/ \E f \in Function :
              \/ RegisterFunction(f) \/ SaveRow(f) \/ UsePlan(f) \/ StopPlans(f)
              \/ QueueBuild(f) \/ StoreFailureReport(f)
         \/ ConsumeEvent \/ Waiting
  PROVE  Inv'
<1> USE DEF orcVars, apiVars, brokerVars, imageVars, builderVars, historyVars
<1>1. ASSUME NEW f \in Function, RegisterFunction(f) PROVE Inv'
  BY <1>1, StatusStep, Untouched DEF RegisterFunction, Status
<1>2. ASSUME NEW f \in Function, SaveRow(f) \/ UsePlan(f) \/ StopPlans(f) \/ QueueBuild(f)
      PROVE  Inv'
  BY <1>2, Untouched DEF SaveRow, UsePlan, StopPlans, QueueBuild, Inv, Typed
<1>3. ASSUME NEW f \in Function, StoreFailureReport(f) PROVE Inv'
  <2>1. CASE SetStatus(f, "failed")
    BY <1>3, <2>1, StatusStep, Untouched DEF StoreFailureReport, Status, Final
  <2>2. CASE UNCHANGED orcVars
    BY <1>3, <2>2, Untouched DEF StoreFailureReport, Inv, Typed
  <2> QED
    BY <1>3, <2>1, <2>2 DEF StoreFailureReport
<1>4. CASE ConsumeEvent
  BY <1>4, Untouched DEF ConsumeEvent, Inv, Typed
<1>5. CASE Waiting
  BY <1>5, Untouched DEF Waiting, vars, Inv, Typed
<1> QED
  BY <1>1, <1>2, <1>3, <1>4, <1>5

\* What a builder and the Kaniko pod do.
LEMMA BuilderInv ==
  ASSUME Inv,
         \/ \E b \in Builder : \/ BuilderStep(b) \/ CrashBuilder(b)
                              \/ \E f \in Function : ReceiveBuild(b, f)
         \/ KanikoEnds
  PROVE  Inv'
<1> USE DEF orcVars, apiVars, brokerVars, imageVars, builderVars, historyVars
<1>1. ASSUME NEW b \in Builder, NEW f \in Function, ReceiveBuild(b, f) PROVE Inv'
  <2>1. CASE SetStatus(f, "building")
    BY <1>1, <2>1, StatusStep, Untouched DEF ReceiveBuild, Status
  <2>2. CASE UNCHANGED orcVars
    BY <1>1, <2>2, Untouched DEF ReceiveBuild, Inv, Typed
  <2> QED
    BY <1>1, <2>1, <2>2 DEF ReceiveBuild
<1>2. ASSUME NEW b \in Builder, BuilderStep(b) PROVE Inv'
  <2>1. UNCHANGED <<orcVars, registry, stored, saverVars>>
    BY <1>2 DEF BuilderStep, CheckRunnable, ImageExists, LookForPod, CreatePod, WatchPod,
                Recheck, DeletePod, EndBuild
  <2> QED
    BY <2>1, Untouched DEF Inv, Typed
<1>3. ASSUME NEW b \in Builder, CrashBuilder(b) PROVE Inv'
  BY <1>3, Untouched DEF CrashBuilder, Inv, Typed
<1>4. CASE KanikoEnds
  BY <1>4, Untouched DEF KanikoEnds, Inv, Typed
<1> QED
  BY <1>1, <1>2, <1>3, <1>4

\* A saver that goes back to the queue: it has nothing to answer for.
LEMMA SaverFree ==
  ASSUME Inv, NEW s \in Saver, EndSave(s), UNCHANGED <<status, image, registry, stored>>
  PROVE  Inv'
  BY FunctionBuildAssumption
  DEF Inv, Typed, Saved, ReadyHasImage, EndSave, GotoS, NoSave, SaverPlace, RowStatus

\* The steps of save_image_task, in order.
LEMMA SaverInv ==
  ASSUME Inv, NEW s \in Saver,
         \/ SaverStep(s) \/ CrashSaver(s)
         \/ \E m \in SaveMessage : ReceiveSave(s, m)
  PROVE  Inv'
<1> USE DEF orcVars, apiVars, brokerVars, imageVars, builderVars, historyVars
<1> USE DEF Inv, Typed, Saved, ReadyHasImage, GotoS, SaverPlace
<1>1. ASSUME NEW m \in SaveMessage, ReceiveSave(s, m) PROVE Inv'
  <2>1. save' = [save EXCEPT ![s] = [function |-> m.function, retries |-> m.retries, seen |-> "absent"]]
    BY <1>1 DEF ReceiveSave
  <2>2. spc[s] = "idle" /\ GotoS(s, "payload") /\ UNCHANGED <<status, image, registry, stored>>
    BY <1>1 DEF ReceiveSave
  <2> QED
    BY <2>1, <2>2
<1>2. CASE MakePayload(s)
  <2>1. CASE EndSave(s)
    BY <1>2, <2>1, SaverFree DEF MakePayload
  <2>2. CASE registry /\ GotoS(s, "store") /\ UNCHANGED save
    BY <1>2, <2>2 DEF MakePayload
  <2> QED
    BY <1>2, <2>1, <2>2 DEF MakePayload, SaveFails
<1>3. CASE StoreImage(s)
  <2>1. CASE EndSave(s) /\ UNCHANGED stored
    BY <1>3, <2>1, SaverFree DEF StoreImage
  <2>2. CASE stored' = stored \union {save[s].function} /\ GotoS(s, "read") /\ UNCHANGED save
    BY <1>3, <2>2 DEF StoreImage
  <2> QED
    BY <1>3, <2>1, <2>2 DEF StoreImage, SaveFails
<1>4. CASE ReadRow(s)
  BY <1>4 DEF ReadRow
<1>5. CASE WriteRow(s)
  <2>1. CASE EndSave(s)
    BY <1>5, <2>1, SaverFree DEF WriteRow
  <2>2. CASE GotoS(s, "update") /\ UNCHANGED save
    BY <1>5, <2>2 DEF WriteRow
  <2> QED
    BY <1>5, <2>1, <2>2 DEF WriteRow, SaveFails
<1>6. CASE UpdateFunction(s)
  <2>1. spc[s] = "update" /\ UNCHANGED <<registry, stored, save>>
    BY <1>6 DEF UpdateFunction
  <2>2. \/ image' = image \union {save[s].function} /\ GotoS(s, "ready") /\ UNCHANGED status
        \/ LoseUpdate(s)
    BY <1>6 DEF UpdateFunction
  <2>3. CASE image' = image \union {save[s].function} /\ GotoS(s, "ready") /\ UNCHANGED status
    BY <2>1, <2>3
  <2>4. CASE LoseUpdate(s)
    BY <2>1, <2>4 DEF LoseUpdate
  <2> QED
    BY <2>2, <2>3, <2>4
<1>7. CASE MarkReady(s)
  <2>1. CASE SetStatus(save[s].function, "ready") /\ GotoS(s, "ack")
    BY <1>7, <2>1 DEF MarkReady, SetStatus, Status, Final
  <2>2. CASE LoseUpdate(s)
    BY <1>7, <2>2 DEF MarkReady, LoseUpdate
  <2> QED
    BY <1>7, <2>1, <2>2 DEF MarkReady
<1>8. CASE Acknowledge(s)
  BY <1>8, SaverFree DEF Acknowledge
<1>9. CASE CrashSaver(s)
  BY <1>9, SaverFree DEF CrashSaver
<1> QED
  BY <1>1, <1>2, <1>3, <1>4, <1>5, <1>6, <1>7, <1>8, <1>9 DEF SaverStep

LEMMA Invariance == Spec => []Inv
<1>1. Init => Inv
  BY InitInv
<1>2. Inv /\ [Next]_vars => Inv'
  <2> SUFFICES ASSUME Inv, [Next]_vars PROVE Inv'
    OBVIOUS
  <2>1. CASE UNCHANGED vars
    BY <2>1 DEF vars, orcVars, imageVars, saverVars, Inv, Typed, Saved, ReadyHasImage
  <2>2. CASE Next
    BY <2>2, OutsideStep, BuilderInv, SaverInv DEF Next
  <2> QED
    BY <2>1, <2>2
<1> QED
  BY <1>1, <1>2, PTL DEF Spec

\* Whatever is killed, redelivered, refused or slow, and however the builds of
\* functions of one archive meet: a function that is READY has an image that is
\* stored, that the orchestrator knows, and that is in the registry.
THEOREM ImageOfReady == Spec => []ReadyHasImage
<1>1. Inv => ReadyHasImage
  BY DEF Inv
<1> QED
  BY Invariance, <1>1, PTL

-----------------------------------------------------------------------------
(* The rows of the functions.                                               *)

\* What the invariant of the rows needs of the types.
RowTyped ==
  /\ log \in Seq(Event)
  /\ row = [f \in Function |-> [status |-> row[f].status, image |-> row[f].image]]

\* A saver that is at work has a function.
Busy == \A s \in Saver : spc[s] # "idle" => save[s].function \in Function

\* The row shows the status of the function, or one of the gaps.
Shown(f) ==
  \/ row[f].status = status[f]
  \/ <<f, "canceled">> \in gaps /\ row[f].status = "canceled"
  \/ <<f, "stale">> \in gaps

LastEvent(events, f, i) ==
  events[i].function = f /\ \A j \in i + 1..Len(events) : events[j].function # f

\* It does, or the event that will make it do so is to come.
RowComing(f) ==
  status[f] \in Final =>
    \/ Shown(f) /\ \A i \in 1..Len(log) : log[i].function # f
    \/ \E i \in 1..Len(log) : LastEvent(log, f, i) /\ log[i].status = status[f]

RowInv == RowTyped /\ Busy /\ \A f \in Function : RowComing(f)

\* The orchestrator emits the event of one function, with its status.
LEMMA EmittingRow ==
  ASSUME Inv, RowInv, NEW f \in Function, NEW st \in Status, NEW img \in BOOLEAN,
         Emit(f, st, img), status' = [status EXCEPT ![f] = st],
         UNCHANGED row, gaps \subseteq gaps', Busy'
  PROVE  RowInv'
<1> DEFINE e == [function |-> f, status |-> st, image |-> img]
           n == Len(log) + 1
<1>1. RowTyped /\ \A g \in Function : RowComing(g)
  BY DEF RowInv
<1>2. e \in Event /\ e.function = f /\ e.status = st /\ log' = Append(log, e)
  BY DEF Event, Emit
<1> HIDE DEF e
<1>3. /\ log' \in Seq(Event) /\ Len(log) \in Nat /\ Len(log') = n
      /\ log'[n] = e /\ \A i \in 1..Len(log) : log'[i] = log[i]
  BY <1>1, <1>2, AppendProperties DEF RowTyped
<1>4. n \in 1..Len(log') /\ \A i \in 1..Len(log') : i = n \/ i \in 1..Len(log)
  BY <1>3
<1>5. status'[f] = st /\ \A g \in Function : g # f => status'[g] = status[g]
  BY DEF Inv, Typed
<1>6. ASSUME NEW g \in Function PROVE RowComing(g)'
  <2>1. CASE g = f
    <3>1. \A j \in n + 1..Len(log') : FALSE
      BY <1>3
    <3>2. LastEvent(log', f, n) /\ log'[n].status = status'[f]
      BY <1>2, <1>3, <1>5, <3>1 DEF LastEvent
    <3> QED
      BY <1>4, <2>1, <3>2 DEF RowComing
  <2>2. CASE g # f
    <3>1. log'[n].function # g
      BY <1>2, <1>3, <2>2
    <3> HIDE DEF n
    <3>2. CASE Shown(g) /\ \A i \in 1..Len(log) : log[i].function # g
      <4>1. \A i \in 1..Len(log') : log'[i].function # g
        BY <1>3, <1>4, <3>1, <3>2
      <4>2. Shown(g)'
        BY <1>5, <2>2, <3>2 DEF Shown
      <4> QED
        BY <4>1, <4>2 DEF RowComing
    <3>3. ASSUME NEW i \in 1..Len(log), LastEvent(log, g, i), log[i].status = status[g]
          PROVE  RowComing(g)'
      <4>1. i \in 1..Len(log') /\ log'[i] = log[i]
        BY <1>3 DEF n
      <4>2. ASSUME NEW j \in i + 1..Len(log') PROVE log'[j].function # g
        <5>1. j = n \/ (j \in 1..Len(log) /\ j \in i + 1..Len(log))
          BY <1>3 DEF n
        <5> QED
          BY <1>3, <3>1, <3>3, <5>1 DEF LastEvent
      <4>3. LastEvent(log', g, i) /\ log'[i].status = status'[g]
        BY <1>5, <2>2, <3>3, <4>1, <4>2 DEF LastEvent
      <4> QED
        BY <4>1, <4>3 DEF RowComing
    <3>4. status[g] \notin Final => RowComing(g)'
      BY <1>5, <2>2 DEF RowComing
    <3> QED
      BY <1>1, <3>2, <3>3, <3>4 DEF RowComing
  <2> QED
    BY <2>1, <2>2
<1>7. RowTyped'
  BY <1>1, <1>3 DEF RowTyped
<1> QED
  BY <1>6, <1>7 DEF RowInv

\* A step that leaves the orchestrator alone, and the status in every row that
\* it does not show as canceled or as stale.
LEMMA ShowingRow ==
  ASSUME RowInv, UNCHANGED <<log, status>>, gaps \subseteq gaps', Busy',
         row' = [f \in Function |-> [status |-> row'[f].status, image |-> row'[f].image]],
         \A f \in Function :
           \/ row'[f].status = row[f].status
           \/ row[f].status = "absent"
           \/ <<f, "canceled">> \in gaps' /\ row'[f].status = "canceled"
           \/ <<f, "stale">> \in gaps'
  PROVE  RowInv'
<1>1. RowTyped'
  BY DEF RowInv, RowTyped
<1>2. ASSUME NEW f \in Function PROVE RowComing(f)'
  <2>1. RowComing(f)
    BY DEF RowInv
  <2>2. CASE status[f] \in Final /\ Shown(f) /\ \A i \in 1..Len(log) : log[i].function # f
    <3>1. row[f].status = "absent" => Shown(f)'
      BY <2>2 DEF Shown, Final
    <3>2. Shown(f)'
      BY <2>2, <3>1 DEF Shown
    <3> QED
      BY <2>2, <3>2 DEF RowComing
  <2>3. CASE \E i \in 1..Len(log) : LastEvent(log, f, i) /\ log[i].status = status[f]
    BY <2>3 DEF RowComing, LastEvent
  <2>4. CASE status[f] \notin Final
    BY <2>4 DEF RowComing
  <2> QED
    BY <2>1, <2>2, <2>3, <2>4 DEF RowComing
<1> QED
  BY <1>1, <1>2 DEF RowInv

\* A step that leaves the rows alone as well.
LEMMA KeepingRow ==
  ASSUME RowInv, UNCHANGED <<log, status, row>>, gaps \subseteq gaps', Busy'
  PROVE  RowInv'
  BY ShowingRow DEF RowInv, RowTyped

\* The oldest event is applied: the row of its function has the event's status,
\* unless it is the one of a creation, which ends nothing.
LEMMA ConsumingRow ==
  ASSUME RowInv, ConsumeEvent
  PROVE  RowInv'
<1> DEFINE e == Head(log)
<1>1. /\ RowTyped /\ Busy /\ \A f \in Function : RowComing(f)
      /\ UNCHANGED <<status, gaps, spc, save>> /\ log # <<>> /\ log' = Tail(log)
  BY DEF RowInv, ConsumeEvent, saverVars, historyVars
<1>2. /\ Len(log) \in Nat \ {0} /\ Len(log') = Len(log) - 1 /\ log' \in Seq(Event)
      /\ \A i \in 1..Len(log') : log'[i] = log[i + 1]
      /\ e = log[1]
  BY <1>1, HeadTailProperties DEF RowTyped
<1>3. log[1] \in Event
  BY <1>1, <1>2, ElementOfSeq DEF RowTyped
<1>4. \/ row' = row /\ e.status = "waiting"
      \/ row' = [row EXCEPT ![e.function] = [status |-> e.status, image |-> e.image \/ @.image]]
  BY DEF ConsumeEvent
<1> HIDE DEF e
<1>5. /\ row' = [f \in Function |-> [status |-> row'[f].status, image |-> row'[f].image]]
      /\ \A f \in Function : f # e.function => row'[f] = row[f]
      /\ e.function \in Function /\ (e.status # "waiting" => row'[e.function].status = e.status)
  <2>1. e.function \in Function
    BY <1>2, <1>3 DEF Event
  <2> QED
    BY <1>1, <1>4, <2>1 DEF RowTyped
<1>6. ASSUME NEW f \in Function, status[f] \in Final PROVE RowComing(f)'
  <2>1. CASE Shown(f) /\ \A i \in 1..Len(log) : log[i].function # f
    <3>1. f # e.function
      BY <1>2, <2>1
    <3>2. Shown(f)'
      BY <1>1, <1>5, <2>1, <3>1 DEF Shown
    <3>3. ASSUME NEW i \in 1..Len(log') PROVE log'[i].function # f
      <4>1. i + 1 \in 1..Len(log)
        BY <1>2
      <4> QED
        BY <1>2, <2>1, <4>1
    <3> QED
      BY <3>2, <3>3 DEF RowComing
  <2>2. ASSUME NEW i \in 1..Len(log), LastEvent(log, f, i), log[i].status = status[f]
        PROVE  RowComing(f)'
    <3>1. CASE i = 1
      <4>1. e.function = f /\ e.status = status[f] /\ e.status # "waiting"
        BY <1>2, <1>6, <2>2, <3>1 DEF LastEvent, Final
      <4>2. Shown(f)'
        BY <1>1, <1>5, <4>1 DEF Shown
      <4>3. ASSUME NEW j \in 1..Len(log') PROVE log'[j].function # f
        <5>1. j + 1 \in i + 1..Len(log)
          BY <1>2, <3>1
        <5> QED
          BY <1>2, <2>2, <5>1 DEF LastEvent
      <4> QED
        BY <4>2, <4>3 DEF RowComing
    <3>2. CASE i # 1
      <4>1. i - 1 \in 1..Len(log') /\ log'[i - 1] = log[i]
        BY <1>2, <3>2
      <4>2. ASSUME NEW j \in (i - 1) + 1..Len(log') PROVE log'[j].function # f
        <5>1. j \in 1..Len(log') /\ j + 1 \in i + 1..Len(log)
          BY <1>2, <3>2
        <5> QED
          BY <1>2, <2>2, <5>1 DEF LastEvent
      <4>3. LastEvent(log', f, i - 1) /\ log'[i - 1].status = status'[f]
        BY <1>1, <2>2, <4>1, <4>2 DEF LastEvent
      <4> QED
        BY <4>1, <4>3 DEF RowComing
    <3> QED
      BY <3>1, <3>2
  <2> QED
    BY <1>1, <1>6, <2>1, <2>2 DEF RowComing
<1>7. \A f \in Function : status[f] \notin Final => RowComing(f)'
  BY <1>1 DEF RowComing
<1>8. RowTyped' /\ Busy'
  BY <1>1, <1>2, <1>5 DEF RowTyped, Busy
<1> QED
  BY <1>6, <1>7, <1>8 DEF RowInv

\* A change of status.
LEMMA StatusRow ==
  ASSUME Inv, RowInv, NEW f \in Function, NEW st \in Status, SetStatus(f, st),
         UNCHANGED row, gaps \subseteq gaps', Busy'
  PROVE  RowInv'
<1>1. Emit(f, st, f \in image) /\ status' = [status EXCEPT ![f] = st] /\ (f \in image) \in BOOLEAN
  BY DEF SetStatus
<1> QED
  BY <1>1, EmittingRow

LEMMA OutsideRow ==
  ASSUME Inv, RowInv,
         \/ \E f \in Function :
              \/ RegisterFunction(f) \/ SaveRow(f) \/ UsePlan(f) \/ StopPlans(f)
              \/ QueueBuild(f) \/ StoreFailureReport(f)
         \/ ConsumeEvent \/ Waiting
  PROVE  RowInv'
<1> USE DEF orcVars, apiVars, brokerVars, imageVars, builderVars, saverVars, historyVars
<1>0. UNCHANGED saverVars /\ Busy'
  BY DEF RowInv, Busy, RegisterFunction, SaveRow, UsePlan, StopPlans, QueueBuild,
         StoreFailureReport, ConsumeEvent, Waiting, vars
<1>1. ASSUME NEW f \in Function, RegisterFunction(f) PROVE RowInv'
  BY <1>0, <1>1, StatusRow DEF RegisterFunction, Status
<1>2. ASSUME NEW f \in Function, SaveRow(f) PROVE RowInv'
  <2>1. /\ row' = [row EXCEPT ![f].status = "waiting"] /\ row[f].status = "absent"
        /\ UNCHANGED <<log, status, gaps>>
    BY <1>2 DEF SaveRow
  <2>2. row' = [g \in Function |-> [status |-> row'[g].status, image |-> row'[g].image]]
    BY <2>1 DEF RowInv, RowTyped
  <2>3. \A g \in Function : row'[g].status = row[g].status \/ row[g].status = "absent"
    BY <2>1 DEF RowInv, RowTyped
  <2> QED
    BY <1>0, <2>1, <2>2, <2>3, ShowingRow
<1>3. ASSUME NEW f \in Function, UsePlan(f) \/ StopPlans(f) \/ QueueBuild(f) PROVE RowInv'
  BY <1>0, <1>3, KeepingRow DEF UsePlan, StopPlans, QueueBuild
<1>4. ASSUME NEW f \in Function, StoreFailureReport(f) PROVE RowInv'
  <2>1. UNCHANGED row /\ gaps \subseteq gaps'
    BY <1>4 DEF StoreFailureReport, AddGap
  <2>2. CASE SetStatus(f, "failed")
    BY <1>0, <2>1, <2>2, StatusRow DEF Status, Final
  <2>3. CASE UNCHANGED orcVars
    BY <1>0, <2>1, <2>3, KeepingRow
  <2> QED
    BY <1>4, <2>2, <2>3 DEF StoreFailureReport
<1>5. CASE ConsumeEvent
  BY <1>5, ConsumingRow
<1>6. CASE Waiting
  BY <1>0, <1>6, KeepingRow DEF Waiting, vars
<1> QED
  BY <1>1, <1>2, <1>3, <1>4, <1>5, <1>6

LEMMA BuilderRow ==
  ASSUME Inv, RowInv,
         \/ \E b \in Builder : \/ BuilderStep(b) \/ CrashBuilder(b)
                              \/ \E f \in Function : ReceiveBuild(b, f)
         \/ KanikoEnds
  PROVE  RowInv'
<1> USE DEF orcVars, apiVars, brokerVars, imageVars, saverVars, historyVars
<1>0. UNCHANGED saverVars /\ Busy'
  BY DEF RowInv, Busy, ReceiveBuild, BuilderStep, CheckRunnable, ImageExists, LookForPod,
         CreatePod, WatchPod, Recheck, DeletePod, EndBuild, CrashBuilder, KanikoEnds
<1>1. ASSUME NEW b \in Builder, NEW f \in Function, ReceiveBuild(b, f) PROVE RowInv'
  <2>1. UNCHANGED <<row, gaps>>
    BY <1>1 DEF ReceiveBuild
  <2>2. CASE SetStatus(f, "building")
    BY <1>0, <2>1, <2>2, StatusRow DEF Status
  <2>3. CASE UNCHANGED orcVars
    BY <1>0, <2>1, <2>3, KeepingRow
  <2> QED
    BY <1>1, <2>2, <2>3 DEF ReceiveBuild
<1>2. ASSUME NEW b \in Builder, CheckRunnable(b) PROVE RowInv'
  <2> DEFINE f == job[b].function
  <2>1. UNCHANGED <<log, status>>
    BY <1>2 DEF CheckRunnable
  <2>2. CASE row' = [row EXCEPT ![f].status = "canceled"] /\ AddGap(f, "canceled")
    <3>0. \A g \in Function : row[g] = [status |-> row[g].status, image |-> row[g].image]
      BY DEF RowInv, RowTyped
    <3>1. row' = [g \in Function |-> [status |-> row'[g].status, image |-> row'[g].image]]
      <4>1. row' = [g \in Function |-> IF g = f THEN [row[g] EXCEPT !.status = "canceled"]
                                                ELSE row[g]]
        BY <2>2 DEF RowInv, RowTyped
      <4>2. ASSUME NEW g \in Function
            PROVE  row'[g] = [status |-> row'[g].status, image |-> row'[g].image]
        <5>1. row[g] = [status |-> row[g].status, image |-> row[g].image]
          BY <3>0
        <5>2. CASE g = f
          <6>1. row'[g] = [row[g] EXCEPT !.status = "canceled"]
            BY <4>1, <5>2
          <6>2. row'[g] = [status |-> "canceled", image |-> row[g].image]
            BY <5>1, <6>1
          <6> QED
            BY <6>2
        <5>3. CASE g # f
          BY <4>1, <5>1, <5>3
        <5> QED
          BY <5>2, <5>3
      <4>3. row' = [g \in Function |-> row'[g]]
        BY <4>1
      <4> QED
        BY <4>2, <4>3
    <3>2. gaps \subseteq gaps' /\ <<f, "canceled">> \in gaps'
      BY <2>2 DEF AddGap
    <3>3. \A g \in Function : \/ row'[g].status = row[g].status
                              \/ <<g, "canceled">> \in gaps' /\ row'[g].status = "canceled"
      BY <2>2, <3>2 DEF RowInv, RowTyped
    <3> QED
      BY <1>0, <2>1, <3>1, <3>2, <3>3, ShowingRow
  <2>3. CASE UNCHANGED <<row, gaps>>
    BY <1>0, <2>1, <2>3, KeepingRow
  <2> QED
    BY <1>2, <2>2, <2>3 DEF CheckRunnable
<1>3. ASSUME NEW b \in Builder,
             \/ ImageExists(b) \/ LookForPod(b) \/ CreatePod(b) \/ WatchPod(b) \/ Recheck(b)
             \/ DeletePod(b) \/ EndBuild(b) \/ CrashBuilder(b) \/ KanikoEnds
      PROVE  RowInv'
  <2>1. UNCHANGED <<log, status, row, gaps>>
    BY <1>3 DEF ImageExists, LookForPod, CreatePod, WatchPod, Recheck, DeletePod, EndBuild,
                CrashBuilder, KanikoEnds
  <2> QED
    BY <1>0, <2>1, KeepingRow
<1>4. CASE KanikoEnds
  BY <1>0, <1>4, KeepingRow DEF KanikoEnds
<1> QED
  BY <1>1, <1>2, <1>3, <1>4 DEF BuilderStep

\* A saver that goes on with its function, or is free.
LEMMA SaverStaysBusy ==
  ASSUME Inv, RowInv, NEW s \in Saver,
         \/ EndSave(s)
         \/ \E where \in SaverPlace :
              GotoS(s, where) /\ save'[s].function \in Function
                /\ \A r \in Saver : r # s => save'[r] = save[r]
  PROVE  Busy'
  BY DEF Inv, Typed, RowInv, Busy, EndSave, GotoS

LEMMA SaverRow ==
  ASSUME Inv, RowInv, NEW s \in Saver,
         \/ SaverStep(s) \/ CrashSaver(s)
         \/ \E m \in SaveMessage : ReceiveSave(s, m)
  PROVE  RowInv'
<1> USE DEF orcVars, apiVars, brokerVars, imageVars, builderVars, historyVars
<1> DEFINE f == save[s].function
<1>0. spc[s] # "idle" => f \in Function
  BY DEF RowInv, Busy
<1>1. ASSUME spc[s] # "idle", NEW where \in SaverPlace, GotoS(s, where), UNCHANGED save PROVE Busy'
  BY <1>0, <1>1, SaverStaysBusy
<1>2. EndSave(s) => Busy'
  BY SaverStaysBusy
<1>3. ASSUME NEW m \in SaveMessage, ReceiveSave(s, m) PROVE RowInv'
  <2>1. /\ save' = [save EXCEPT ![s] = [function |-> m.function, retries |-> m.retries, seen |-> "absent"]]
        /\ GotoS(s, "payload") /\ UNCHANGED <<log, status, row, gaps>>
    BY <1>3 DEF ReceiveSave
  <2>2. save'[s].function \in Function /\ \A r \in Saver : r # s => save'[r] = save[r]
    BY <2>1 DEF SaveMessage, Inv, Typed
  <2>3. Busy'
    BY <2>1, <2>2, SaverStaysBusy DEF SaverPlace
  <2> QED
    BY <2>1, <2>3, KeepingRow
<1>4. CASE MakePayload(s)
  <2>1. UNCHANGED <<log, status, row, gaps>> /\ spc[s] = "payload"
    BY <1>4 DEF MakePayload
  <2>2. EndSave(s) \/ (GotoS(s, "store") /\ UNCHANGED save)
    BY <1>4 DEF MakePayload, SaveFails
  <2>3. Busy'
    BY <1>1, <1>2, <2>1, <2>2 DEF SaverPlace
  <2> QED
    BY <2>1, <2>3, KeepingRow
<1>5. CASE StoreImage(s)
  <2>1. UNCHANGED <<log, status, row>> /\ gaps \subseteq gaps' /\ spc[s] = "store"
    BY <1>5 DEF StoreImage, AddGap
  <2>2. EndSave(s) \/ (GotoS(s, "read") /\ UNCHANGED save)
    BY <1>5 DEF StoreImage, SaveFails
  <2>3. Busy'
    BY <1>1, <1>2, <2>1, <2>2 DEF SaverPlace
  <2> QED
    BY <2>1, <2>3, KeepingRow
<1>6. CASE ReadRow(s)
  <2>1. /\ save' = [save EXCEPT ![s].seen = row[f].status]
        /\ GotoS(s, "write") /\ UNCHANGED <<log, status, row, gaps>> /\ spc[s] = "read"
    BY <1>6 DEF ReadRow
  <2>2. save'[s].function = f /\ \A r \in Saver : r # s => save'[r] = save[r]
    BY <2>1 DEF Inv, Typed
  <2>3. Busy'
    BY <1>0, <2>1, <2>2, SaverStaysBusy DEF SaverPlace
  <2> QED
    BY <2>1, <2>3, KeepingRow
<1>7. CASE WriteRow(s)
  <2>1. UNCHANGED <<log, status>> /\ spc[s] = "write"
    BY <1>7 DEF WriteRow
  <2>2. CASE EndSave(s) /\ UNCHANGED <<row, gaps>>
    BY <1>2, <2>1, <2>2, KeepingRow
  <2>3. CASE /\ row' = [row EXCEPT ![f] = [status |-> save[s].seen, image |-> TRUE]]
             /\ IF row[f].status = save[s].seen THEN UNCHANGED gaps ELSE AddGap(f, "stale")
             /\ GotoS(s, "update") /\ UNCHANGED save
    <3>1. Busy'
      BY <1>1, <2>1, <2>3 DEF SaverPlace
    <3>2. row' = [g \in Function |-> [status |-> row'[g].status, image |-> row'[g].image]]
      BY <2>3 DEF RowInv, RowTyped
    <3>3. gaps \subseteq gaps' /\ (row[f].status # save[s].seen => <<f, "stale">> \in gaps')
      BY <2>3 DEF AddGap
    <3>4. \A g \in Function : row'[g].status = row[g].status \/ <<g, "stale">> \in gaps'
      BY <2>3, <3>3 DEF RowInv, RowTyped
    <3> QED
      BY <2>1, <3>1, <3>2, <3>3, <3>4, ShowingRow
  <2> QED
    BY <1>7, <2>2, <2>3 DEF WriteRow, SaveFails
<1>8. CASE UpdateFunction(s)
  <2>1. UNCHANGED <<row, save>> /\ spc[s] = "update" /\ f \in Function
    BY <1>0, <1>8 DEF UpdateFunction
  <2>2. CASE LoseUpdate(s)
    <3>1. Busy' /\ UNCHANGED <<log, status>> /\ gaps \subseteq gaps'
      BY <1>1, <2>1, <2>2 DEF LoseUpdate, AddGap, SaverPlace
    <3> QED
      BY <2>1, <3>1, KeepingRow
  <2>3. CASE Emit(f, status[f], TRUE) /\ GotoS(s, "ready") /\ UNCHANGED <<status, gaps>>
    <3>1. Busy'
      BY <1>1, <2>1, <2>3 DEF SaverPlace
    <3>2. status[f] \in Status /\ status' = [status EXCEPT ![f] = status[f]]
      BY <2>1, <2>3 DEF Inv, Typed
    <3> QED
      BY <2>1, <2>3, <3>1, <3>2, EmittingRow
  <2> QED
    BY <1>8, <2>2, <2>3 DEF UpdateFunction
<1>9. CASE MarkReady(s)
  <2>1. UNCHANGED <<row, save>> /\ spc[s] = "ready" /\ f \in Function
    BY <1>0, <1>9 DEF MarkReady
  <2>2. CASE LoseUpdate(s)
    <3>1. Busy' /\ UNCHANGED <<log, status>> /\ gaps \subseteq gaps'
      BY <1>1, <2>1, <2>2 DEF LoseUpdate, AddGap, SaverPlace
    <3> QED
      BY <2>1, <3>1, KeepingRow
  <2>3. CASE SetStatus(f, "ready") /\ GotoS(s, "ack") /\ UNCHANGED gaps
    <3>1. Busy'
      BY <1>1, <2>1, <2>3 DEF SaverPlace
    <3> QED
      BY <2>1, <2>3, <3>1, StatusRow DEF Status, Final
  <2> QED
    BY <1>9, <2>2, <2>3 DEF MarkReady
<1>10. CASE Acknowledge(s) \/ CrashSaver(s)
  <2>1. EndSave(s) /\ UNCHANGED <<log, status, row, gaps>>
    BY <1>10 DEF Acknowledge, CrashSaver
  <2> QED
    BY <1>2, <2>1, KeepingRow
<1> QED
  BY <1>3, <1>4, <1>5, <1>6, <1>7, <1>8, <1>9, <1>10 DEF SaverStep

LEMMA RowInit == Init => RowInv
<1> SUFFICES ASSUME Init PROVE RowInv
  OBVIOUS
<1>1. RowTyped /\ Busy
  BY EmptySeq DEF Init, RowTyped, Busy
<1>2. \A f \in Function : status[f] \notin Final
  BY DEF Init, Final
<1> QED
  BY <1>1, <1>2 DEF RowInv, RowComing

\* Whatever is killed, redelivered or lost, and however builds, saves and events
\* of the function are interleaved: two things, and nothing else, make the row
\* of a function that has ended differ from the orchestrator once the events are
\* applied: a canceled build, and a row saved as it was read before another
\* commit.
THEOREM RowsFollow == Spec => []RowFollows
<1>1. Inv /\ RowInv /\ [Next]_vars => RowInv'
  <2> SUFFICES ASSUME Inv, RowInv, [Next]_vars PROVE RowInv'
    OBVIOUS
  <2>1. CASE UNCHANGED vars
    BY <2>1, KeepingRow DEF vars, orcVars, apiVars, saverVars, historyVars, RowInv, Busy
  <2>2. CASE Next
    BY <2>2, OutsideRow, BuilderRow, SaverRow DEF Next
  <2> QED
    BY <2>1, <2>2
<1>2. RowInv => RowFollows
  <2> SUFFICES ASSUME RowInv, NEW f \in Function, log = <<>>, status[f] \in Final
               PROVE  Shown(f)
    BY DEF RowFollows, Shown
  <2>1. RowComing(f) /\ \A i \in 1..Len(log) : FALSE
    BY EmptySeq DEF RowInv
  <2> QED
    BY <2>1 DEF RowComing
<1> QED
  BY Invariance, RowInit, <1>1, <1>2, PTL DEF Spec

-----------------------------------------------------------------------------
(* The reasons for which a function fails.                                  *)

\* Where the chain of a function can be before its image is stored.
Queued(f) == f \in toBuild \/ builds[f] > 0
BuiltBy(b, f) == bpc[b] # "idle" /\ job[b].function = f
Sent(m, f) == saves[m] > 0 /\ m.function = f
SavedBy(s, f) == spc[s] \in {"payload", "store"} /\ save[s].function = f
Early(f) == <<f, "early">> \in gaps

\* What the invariant of the chain needs of the types.
ChainTyped ==
  /\ status \in [Function -> Status]
  /\ toBuild \subseteq Function /\ reports \subseteq Function /\ builds \in [Function -> Nat]
  /\ saves \in [SaveMessage -> Nat]
  /\ bpc \in [Builder -> {"idle", "check", "exists", "look", "create", "watch", "recheck", "delete", "profile"}]
  /\ job \in [Builder -> [function : Function \union {NoFunction}, tries : Nat, mine : BOOLEAN,
                         why : {"error", "timeout"}]]
  /\ spc \in [Saver -> SaverPlace]
  /\ save = [s \in Saver |-> [function |-> save[s].function, retries |-> save[s].retries,
                              seen |-> save[s].seen]]
  /\ \A b \in Builder : bpc[b] # "idle" => job[b].function \in Function
  /\ \A s \in Saver : spc[s] # "idle" => save[s].function \in Function

\* The Kaniko pod is deleted when its image is in the registry, so that a builder
\* that lost the race for it finds the pod or the image: it loses twice at most.
PodInv ==
  /\ kaniko \in {"none", "running"} \/ (kaniko = "completed" /\ registry)
  /\ \A b \in Builder :
       /\ bpc[b] = "watch" => kaniko # "none" \/ registry
       /\ bpc[b] \in {"recheck", "delete", "profile"} => registry
       /\ job[b].tries > 0 => kaniko # "none" \/ registry
       /\ job[b].tries > 0 /\ bpc[b] = "create" => registry
       /\ job[b].tries > 1 => registry /\ job[b].tries = 2 /\ bpc[b] \in {"check", "exists", "profile"}
  /\ \A m \in SaveMessage : saves[m] > 0 => registry
  /\ \A s \in Saver : spc[s] = "payload" => registry

\* A function is in one place of the chain at a time.
OnePlace(f) ==
  /\ builds[f] = 0 \/ (builds[f] = 1 /\ f \notin toBuild)
  /\ \A b, c \in Builder : BuiltBy(b, f) /\ BuiltBy(c, f) => b = c
  /\ \A m, n \in SaveMessage : Sent(m, f) /\ Sent(n, f) => m = n /\ saves[m] = 1
  /\ \A s, r \in Saver : SavedBy(s, f) /\ SavedBy(r, f) => s = r
  /\ Queued(f) => \A b \in Builder : ~BuiltBy(b, f)
  /\ Queued(f) \/ (\E b \in Builder : BuiltBy(b, f)) => \A m \in SaveMessage : ~Sent(m, f)
  /\ Queued(f) \/ (\E b \in Builder : BuiltBy(b, f)) \/ (\E m \in SaveMessage : Sent(m, f)) =>
       \A s \in Saver : ~SavedBy(s, f)

\* It is in none of them.
NoPlace(f) ==
  /\ ~Queued(f) /\ \A b \in Builder : ~BuiltBy(b, f)
  /\ \A m \in SaveMessage : ~Sent(m, f)
  /\ \A s \in Saver : ~SavedBy(s, f)

\* A function that has left the chain, for its image is stored or came early, does
\* not come back to it; and no report says that it failed but for the latter.
ChainInv(f) ==
  /\ OnePlace(f)
  /\ Queued(f) => status[f] = "waiting"
  /\ f \in stored \/ Early(f) \/ status[f] = "none" => NoPlace(f)
  /\ status[f] = "none" => f \notin stored /\ ~Early(f)
  /\ f \in reports \/ status[f] = "failed" => Early(f)

\* While nothing has gone wrong.
Chain == ChainTyped /\ PodInv /\ \A f \in Function : ChainInv(f)
FailureInv == faults \in Nat /\ (faults = 0 => Chain)

\* A step is a fault, or it is not.
LEMMA FaultStep ==
  ASSUME [Next]_vars
  PROVE  faults' \in {faults, faults + 1}
<1> USE DEF historyVars, Fault
<1>1. CASE UNCHANGED vars
  BY <1>1 DEF vars
<1>2. ASSUME NEW f \in Function,
             \/ RegisterFunction(f) \/ SaveRow(f) \/ UsePlan(f) \/ StopPlans(f)
             \/ QueueBuild(f) \/ StoreFailureReport(f)
             \/ \E b \in Builder : ReceiveBuild(b, f)
      PROVE  faults' \in {faults, faults + 1}
  BY <1>2 DEF RegisterFunction, SaveRow, UsePlan, StopPlans, QueueBuild, StoreFailureReport, ReceiveBuild
<1>3. ASSUME NEW b \in Builder, BuilderStep(b) \/ CrashBuilder(b)
      PROVE  faults' \in {faults, faults + 1}
  BY <1>3 DEF BuilderStep, CheckRunnable, ImageExists, LookForPod, CreatePod, WatchPod, Recheck,
              DeletePod, EndBuild, CrashBuilder
<1>4. ASSUME NEW s \in Saver, SaverStep(s) \/ CrashSaver(s) \/ \E m \in SaveMessage : ReceiveSave(s, m)
      PROVE  faults' \in {faults, faults + 1}
  BY <1>4 DEF SaverStep, MakePayload, StoreImage, ReadRow, WriteRow, UpdateFunction, MarkReady,
              LoseUpdate, Acknowledge, CrashSaver, ReceiveSave
<1>5. CASE KanikoEnds \/ ConsumeEvent \/ Waiting
  BY <1>5 DEF KanikoEnds, ConsumeEvent, Waiting, vars
<1> QED
  BY <1>1, <1>2, <1>3, <1>4, <1>5 DEF Next

\* No fault is taken by a step that leaves their number.
LEMMA NoFault ==
  ASSUME faults = 0, faults' = 0, NEW kind
  PROVE  ~Fault(kind)
  BY DEF Fault

\* A function that comes to no place of the chain it was not in: it keeps its
\* place or leaves it, and leaves it when its image is stored or is early.
LEMMA Staying ==
  ASSUME NEW f \in Function, ChainTyped, ChainTyped', ChainInv(f),
         f \in toBuild' => f \in toBuild,
         builds'[f] = builds[f],
         \A b \in Builder : BuiltBy(b, f)' => BuiltBy(b, f),
         \A m \in SaveMessage : m.function = f => saves'[m] = saves[m],
         \A s \in Saver : SavedBy(s, f)' => SavedBy(s, f),
         f \in stored' \/ Early(f)' => f \in stored \/ Early(f) \/ (NoPlace(f)' /\ status[f] # "none"),
         Early(f) => Early(f)',
         f \in reports' \/ status'[f] = "failed" => Early(f)',
         status'[f] = "none" <=> status[f] = "none",
         Queued(f)' => status'[f] = status[f]
  PROVE  ChainInv(f)'
<1>1. OnePlace(f)'
  BY DEF ChainInv, OnePlace, Queued, Sent, ChainTyped
<1>2. Queued(f)' => Queued(f)
  BY DEF Queued
<1>3. NoPlace(f) => NoPlace(f)'
  BY <1>2 DEF NoPlace, Sent, ChainTyped
<1> QED
  BY <1>1, <1>2, <1>3 DEF ChainInv

\* A step that leaves the chain alone, and the orchestrator's statuses.
LEMMA Resting ==
  ASSUME Chain, UNCHANGED <<status, brokerVars, imageVars, builderVars, gaps>>,
         UNCHANGED saverVars
  PROVE  Chain'
<1>1. ChainTyped' /\ PodInv'
  BY DEF Chain, ChainTyped, PodInv, brokerVars, imageVars, builderVars, saverVars
<1>2. ASSUME NEW f \in Function PROVE ChainInv(f)'
  BY DEF Chain, ChainInv, OnePlace, NoPlace, Queued, BuiltBy, Sent, SavedBy, Early,
         brokerVars, imageVars, builderVars, saverVars
<1> QED
  BY <1>1, <1>2 DEF Chain

\* What users, the reactor, the API server, the reports of failures and the
\* Kaniko pod do.
LEMMA OutsideChain ==
  ASSUME Chain, faults = 0, faults' = 0,
         \/ \E f \in Function :
              \/ RegisterFunction(f) \/ SaveRow(f) \/ UsePlan(f) \/ StopPlans(f)
              \/ QueueBuild(f) \/ StoreFailureReport(f)
         \/ ConsumeEvent \/ Waiting \/ KanikoEnds
  PROVE  Chain'
<1> USE DEF orcVars, apiVars, brokerVars, imageVars, builderVars, saverVars, historyVars
<1>1. ASSUME NEW f \in Function, RegisterFunction(f) PROVE Chain'
  <2>1. /\ status[f] = "none" /\ status' = [status EXCEPT ![f] = "waiting"]
        /\ toBuild' = toBuild \union {f}
        /\ UNCHANGED <<builds, saves, reports, imageVars, builderVars, saverVars, gaps>>
    BY <1>1 DEF RegisterFunction, SetStatus
  <2>2. ChainTyped' /\ PodInv'
    BY <2>1 DEF Chain, ChainTyped, PodInv, Status
  <2>3. ASSUME NEW g \in Function PROVE ChainInv(g)'
    <3>1. CASE g = f
      <4>1. NoPlace(f) /\ ~Early(f) /\ f \notin stored /\ f \notin reports
        BY <2>1 DEF Chain, ChainInv
      <4>2. builds[f] = 0
        BY <4>1 DEF NoPlace, Queued, Chain, ChainTyped
      <4>3. OnePlace(f)'
        BY <2>1, <4>1, <4>2 DEF OnePlace, NoPlace, Queued, BuiltBy, Sent, SavedBy
      <4>4. status'[f] = "waiting"
        BY <2>1 DEF Chain, ChainTyped
      <4> QED
        BY <2>1, <3>1, <4>1, <4>3, <4>4 DEF ChainInv, Early
    <3>2. CASE g # f
      <4>1. status'[g] = status[g] /\ (g \in toBuild' => g \in toBuild)
        BY <2>1, <3>2 DEF Chain, ChainTyped
      <4> QED
        BY <2>1, <2>2, <3>2, <4>1, Staying DEF Chain, ChainInv, BuiltBy, Sent, SavedBy, Early
    <3> QED
      BY <3>1, <3>2
  <2> QED
    BY <2>2, <2>3 DEF Chain
<1>2. ASSUME NEW f \in Function, SaveRow(f) \/ UsePlan(f) \/ StopPlans(f) PROVE Chain'
  BY <1>2, Resting DEF SaveRow, UsePlan, StopPlans
<1>3. ASSUME NEW f \in Function, QueueBuild(f) PROVE Chain'
  <2>1. /\ f \in toBuild /\ toBuild' = toBuild \ {f} /\ builds' = [builds EXCEPT ![f] = @ + 1]
        /\ UNCHANGED <<status, saves, reports, imageVars, builderVars, saverVars, gaps>>
    BY <1>3, NoFault DEF QueueBuild
  <2>2. ChainTyped' /\ PodInv'
    BY <2>1 DEF Chain, ChainTyped, PodInv
  <2>3. ASSUME NEW g \in Function PROVE ChainInv(g)'
    <3>1. CASE g = f
      <4>1. builds[f] = 0 /\ builds'[f] = 1 /\ f \notin toBuild' /\ Queued(f)
        BY <2>1 DEF Chain, ChainInv, OnePlace, Queued, ChainTyped
      <4> QED
        BY <2>1, <3>1, <4>1 DEF Chain, ChainInv, OnePlace, NoPlace, Queued, BuiltBy, Sent, SavedBy, Early
    <3>2. CASE g # f
      <4>1. builds'[g] = builds[g] /\ (g \in toBuild' => g \in toBuild)
        BY <2>1, <3>2 DEF Chain, ChainTyped
      <4> QED
        BY <2>1, <2>2, <3>2, <4>1, Staying DEF Chain, ChainInv, BuiltBy, Sent, SavedBy, Early
    <3> QED
      BY <3>1, <3>2
  <2> QED
    BY <2>2, <2>3 DEF Chain
<1>4. ASSUME NEW f \in Function, StoreFailureReport(f) PROVE Chain'
  <2>1. /\ f \in reports /\ reports' = reports \ {f}
        /\ UNCHANGED <<toBuild, builds, saves, imageVars, builderVars, saverVars, gaps>>
        /\ UNCHANGED status \/ (status[f] \notin Final /\ status' = [status EXCEPT ![f] = "failed"])
    BY <1>4, NoFault DEF StoreFailureReport, SetStatus
  <2>2. ChainTyped' /\ PodInv'
    BY <2>1 DEF Chain, ChainTyped, PodInv, Status, Final
  <2>3. ASSUME NEW g \in Function PROVE ChainInv(g)'
    <3>1. CASE UNCHANGED status \/ g # f
      <4>1. status'[g] = status[g]
        BY <2>1, <3>1 DEF Chain, ChainTyped
      <4>2. ChainInv(g) /\ ChainTyped
        BY DEF Chain
      <4> QED
        BY <2>1, <2>2, <4>1, <4>2, Staying DEF ChainInv, BuiltBy, Sent, SavedBy, Early
    <3>2. CASE status' = [status EXCEPT ![f] = "failed"] /\ g = f
      <4>1. ChainInv(f) /\ ChainTyped /\ Early(f) /\ NoPlace(f) /\ status[f] # "none" /\ status'[f] = "failed"
        BY <2>1, <3>2 DEF Chain, ChainInv, ChainTyped
      <4>2. ~Queued(f)'
        BY <2>1, <4>1 DEF NoPlace, Queued
      <4> QED
        BY <2>1, <2>2, <3>2, <4>1, <4>2, Staying DEF BuiltBy, Sent, SavedBy, Early
    <3> QED
      BY <2>1, <3>1, <3>2
  <2> QED
    BY <2>2, <2>3 DEF Chain
<1>5. CASE ConsumeEvent \/ Waiting
  BY <1>5, Resting DEF ConsumeEvent, Waiting, vars
<1>6. CASE KanikoEnds
  <2>1. /\ kaniko' = "completed" /\ registry' = TRUE
        /\ UNCHANGED <<status, brokerVars, stored, builderVars, saverVars, gaps>>
    BY <1>6, NoFault DEF KanikoEnds
  <2>2. ChainTyped' /\ PodInv'
    BY <2>1 DEF Chain, ChainTyped, PodInv
  <2>3. ASSUME NEW f \in Function PROVE ChainInv(f)'
    BY <2>1 DEF Chain, ChainInv, OnePlace, NoPlace, Queued, BuiltBy, Sent, SavedBy, Early
  <2> QED
    BY <2>2, <2>3 DEF Chain
<1> QED
  BY <1>1, <1>2, <1>3, <1>4, <1>5, <1>6

\* A builder that goes on with its function, or leaves it.
LEMMA BuilderMoves ==
  ASSUME Chain, NEW b \in Builder, PodInv', ChainTyped',
         UNCHANGED <<status, brokerVars, stored, saverVars, gaps>>,
         \A c \in Builder : c # b => bpc'[c] = bpc[c] /\ job'[c] = job[c],
         bpc'[b] # "idle" => bpc[b] # "idle" /\ job'[b].function = job[b].function
  PROVE  Chain'
<1>1. ASSUME NEW f \in Function PROVE ChainInv(f)'
  <2>1. \A c \in Builder : BuiltBy(c, f)' => BuiltBy(c, f)
    BY DEF BuiltBy
  <2>2. ChainInv(f) /\ ChainTyped
    BY DEF Chain
  <2> QED
    BY <2>1, <2>2, Staying DEF ChainInv, SavedBy, Early, brokerVars, saverVars
<1> QED
  BY <1>1 DEF Chain

\* The local variables of a build.
JobType == [function : Function \union {NoFunction}, tries : Nat, mine : BOOLEAN, why : {"error", "timeout"}]

\* What the next attempt of a build starts with.
LEMMA Again ==
  ASSUME NEW f \in Function, NEW tries \in Nat
  PROVE  /\ [NoBuild EXCEPT !.function = f, !.tries = tries] \in JobType
         /\ [NoBuild EXCEPT !.function = f, !.tries = tries].function = f
         /\ [NoBuild EXCEPT !.function = f, !.tries = tries].tries = tries
<1>1. NoBuild \in JobType
  BY DEF NoBuild, JobType
<1> QED
  BY <1>1 DEF JobType

\* The builds of functions, while there is no fault.  A builder loses the race
\* for the pod twice at most: it never comes to its last attempt.
LEMMA BuilderChain ==
  ASSUME MaxRetries >= 3, Chain, faults = 0, faults' = 0, NEW b \in Builder,
         BuilderStep(b) \/ CrashBuilder(b) \/ \E f \in Function : ReceiveBuild(b, f)
  PROVE  Chain'
<1> USE DEF orcVars, apiVars, brokerVars, imageVars, builderVars, saverVars, historyVars
<1> DEFINE f == job[b].function
<1>0. /\ ChainTyped /\ PodInv /\ MaxRetries \in Nat
      /\ bpc[b] # "idle" => f \in Function
      /\ job[b] = [function |-> f, tries |-> job[b].tries, mine |-> job[b].mine, why |-> job[b].why]
      /\ job[b].tries \in Nat /\ (bpc[b] \in {"exists", "create"} => job[b].tries + 1 < MaxRetries \/ registry)
  BY FunctionBuildAssumption DEF Chain, ChainTyped, PodInv
<1> HIDE DEF f
<1>1. ASSUME NEW g \in Function, ReceiveBuild(b, g) PROVE Chain'
  <2>1. ChainInv(g) /\ builds[g] = 1 /\ g \notin toBuild /\ Queued(g) /\ status[g] = "waiting"
    BY <1>0, <1>1 DEF ReceiveBuild, Chain, ChainInv, OnePlace, Queued, ChainTyped
  <2>2. /\ bpc[b] = "idle" /\ builds' = [builds EXCEPT ![g] = @ - 1]
        /\ status' = [status EXCEPT ![g] = "building"]
        /\ job' = [job EXCEPT ![b].function = g] /\ GotoB(b, "check")
        /\ UNCHANGED <<toBuild, saves, reports, imageVars, saverVars, gaps>>
    BY <1>1, <2>1, NoFault DEF ReceiveBuild, SetStatus
  <2>3. ChainTyped'
    BY <1>0, <2>1, <2>2 DEF ChainTyped, GotoB, Status
  <2>4. /\ bpc'[b] = "check" /\ job'[b].function = g /\ job'[b].tries = job[b].tries
        /\ \A c \in Builder : c # b => bpc'[c] = bpc[c] /\ job'[c] = job[c]
    BY <1>0, <2>2 DEF ChainTyped, GotoB
  <2>5. PodInv'
    BY <1>0, <2>2, <2>4 DEF PodInv
  <2>6. ASSUME NEW h \in Function PROVE ChainInv(h)'
    <3>1. CASE h = g
      <4>1. /\ builds'[g] = 0 /\ g \notin toBuild' /\ status'[g] = "building"
            /\ \A c \in Builder : BuiltBy(c, g)' <=> c = b
        BY <1>0, <2>1, <2>2, <2>4 DEF ChainTyped, ChainInv, OnePlace, BuiltBy
      <4>2. /\ \A m \in SaveMessage : ~Sent(m, g)'
            /\ \A s \in Saver : ~SavedBy(s, g)'
            /\ ~Queued(g)' /\ g \notin stored' /\ ~Early(g)' /\ g \notin reports'
        BY <2>1, <2>2, <4>1 DEF ChainInv, OnePlace, NoPlace, Queued, Sent, SavedBy, Early
      <4>3. OnePlace(g)'
        <5>1. \A c, d \in Builder : BuiltBy(c, g)' /\ BuiltBy(d, g)' => c = d
          BY <4>1
        <5> QED
          BY <4>1, <4>2, <5>1 DEF OnePlace
      <4> QED
        BY <3>1, <4>1, <4>2, <4>3 DEF ChainInv
    <3>2. CASE h # g
      <4>1. ChainInv(h) /\ builds'[h] = builds[h] /\ status'[h] = status[h]
        BY <1>0, <2>2, <3>2 DEF ChainTyped, Chain
      <4>2. \A c \in Builder : BuiltBy(c, h)' => BuiltBy(c, h)
        BY <2>4, <3>2 DEF BuiltBy
      <4> QED
        BY <1>0, <2>2, <2>3, <3>2, <4>1, <4>2, Staying DEF ChainInv, SavedBy, Early
    <3> QED
      BY <3>1, <3>2
  <2> QED
    BY <2>3, <2>5, <2>6 DEF Chain
<1>2. ASSUME EndJob(b) PROVE /\ bpc'[b] = "idle" /\ job'[b] = NoBuild
                             /\ \A c \in Builder : c # b => bpc'[c] = bpc[c] /\ job'[c] = job[c]
                             /\ (UNCHANGED <<status, brokerVars, spc, save>> => ChainTyped')
  BY <1>0, <1>2 DEF EndJob, GotoB, ChainTyped, NoBuild
<1>3. ASSUME NEW where \in {"check", "exists", "look", "create", "watch", "recheck", "delete", "profile"},
             GotoB(b, where), bpc[b] # "idle", NEW j \in JobType, j.function = f, job' = [job EXCEPT ![b] = j]
      PROVE  /\ bpc'[b] = where /\ job'[b].function = f /\ job'[b].tries = j.tries
             /\ \A c \in Builder : c # b => bpc'[c] = bpc[c] /\ job'[c] = job[c]
             /\ (UNCHANGED <<status, brokerVars, spc, save>> => ChainTyped')
  BY <1>0, <1>3 DEF GotoB, ChainTyped, JobType
<1>4. ASSUME NEW where \in {"check", "exists", "look", "create", "watch", "recheck", "delete", "profile"},
             GotoB(b, where), bpc[b] # "idle", UNCHANGED job
      PROVE  /\ bpc'[b] = where /\ job'[b] = job[b]
             /\ \A c \in Builder : c # b => bpc'[c] = bpc[c] /\ job'[c] = job[c]
             /\ (UNCHANGED <<status, brokerVars, spc, save>> => ChainTyped')
  BY <1>0, <1>4 DEF GotoB, ChainTyped
<1>5. CASE CheckRunnable(b)
  <2>1. UNCHANGED <<status, brokerVars, imageVars, saverVars>> /\ bpc[b] = "check"
    BY <1>5 DEF CheckRunnable
  <2>2. CASE EndJob(b) /\ AddGap(f, "canceled")
    <3>1. ChainTyped' /\ PodInv'
      BY <1>0, <1>2, <2>1, <2>2 DEF PodInv, NoBuild
    <3>2. ASSUME NEW g \in Function PROVE ChainInv(g)'
      <4>1. ChainInv(g) /\ (Early(g)' <=> Early(g))
        BY <2>2 DEF Chain, Early, AddGap
      <4>2. \A c \in Builder : BuiltBy(c, g)' => BuiltBy(c, g)
        BY <1>2, <2>2 DEF BuiltBy
      <4> QED
        BY <1>0, <2>1, <3>1, <4>1, <4>2, Staying DEF ChainInv, SavedBy
    <3> QED
      BY <3>1, <3>2 DEF Chain
  <2>3. CASE GotoB(b, "exists") /\ UNCHANGED <<gaps, job>>
    <3>1. ChainTyped' /\ bpc'[b] = "exists" /\ job'[b] = job[b]
          /\ \A c \in Builder : c # b => bpc'[c] = bpc[c] /\ job'[c] = job[c]
      BY <1>4, <2>1, <2>3
    <3>2. PodInv'
      BY <1>0, <2>1, <3>1 DEF PodInv
    <3> QED
      BY <2>1, <2>3, <3>1, <3>2, BuilderMoves
  <2> QED
    BY <1>5, <2>2, <2>3 DEF CheckRunnable, f
<1>6. CASE ImageExists(b)
  <2>1. /\ GotoB(b, IF registry THEN "profile" ELSE "look") /\ bpc[b] = "exists"
        /\ UNCHANGED <<status, brokerVars, imageVars, saverVars, gaps, job>>
    BY <1>6, NoFault DEF ImageExists
  <2>2. ChainTyped' /\ bpc'[b] = (IF registry THEN "profile" ELSE "look") /\ job'[b] = job[b]
        /\ \A c \in Builder : c # b => bpc'[c] = bpc[c] /\ job'[c] = job[c]
    BY <1>4, <2>1
  <2>3. PodInv'
    BY <1>0, <2>1, <2>2 DEF PodInv
  <2> QED
    BY <2>1, <2>2, <2>3, BuilderMoves
<1>7. CASE LookForPod(b)
  <2>1. /\ job' = [job EXCEPT ![b].mine = kaniko = "none"] /\ bpc[b] = "look"
        /\ GotoB(b, IF kaniko = "none" THEN "create" ELSE "watch")
        /\ UNCHANGED <<status, brokerVars, imageVars, saverVars, gaps>>
    BY <1>7, NoFault DEF LookForPod
  <2>2. /\ ChainTyped' /\ bpc'[b] = (IF kaniko = "none" THEN "create" ELSE "watch")
        /\ job'[b].function = f /\ job'[b].tries = job[b].tries
        /\ \A c \in Builder : c # b => bpc'[c] = bpc[c] /\ job'[c] = job[c]
    <3>1. PICK j : j = [job[b] EXCEPT !.mine = kaniko = "none"]
      OBVIOUS
    <3>2. j \in JobType /\ j.function = f /\ j.tries = job[b].tries
      BY <1>0, <3>1 DEF ChainTyped, JobType, f
    <3>3. job' = [job EXCEPT ![b] = j]
      BY <1>0, <2>1, <3>1 DEF ChainTyped
    <3> QED
      BY <1>3, <2>1, <3>2, <3>3
  <2>3. PodInv'
    BY <1>0, <2>1, <2>2 DEF PodInv
  <2> QED
    BY <2>1, <2>2, <2>3, BuilderMoves DEF f
<1>8. CASE CreatePod(b)
  <2>1. bpc[b] = "create" /\ UNCHANGED <<status, toBuild, builds, saves, registry, stored, saverVars, gaps>>
    BY <1>8 DEF CreatePod
  <2>2. job[b].tries \in {0, 1} /\ (job[b].tries = 1 => registry) /\ ~(job[b].tries + 1 >= MaxRetries)
    BY <1>0, <2>1 DEF PodInv
  <2>3. CASE kaniko = "none" /\ kaniko' = "running" /\ GotoB(b, "watch") /\ UNCHANGED <<job, reports>>
    <3>1. ChainTyped' /\ bpc'[b] = "watch" /\ job'[b] = job[b]
          /\ \A c \in Builder : c # b => bpc'[c] = bpc[c] /\ job'[c] = job[c]
      BY <1>4, <2>1, <2>3
    <3>2. PodInv'
      BY <1>0, <2>1, <2>2, <2>3, <3>1 DEF PodInv
    <3> QED
      BY <2>1, <2>3, <3>1, <3>2, BuilderMoves
  <2>4. CASE kaniko # "none" /\ NextAttempt(b) /\ UNCHANGED kaniko
    <3>1. GotoB(b, "check") /\ UNCHANGED reports
          /\ job' = [job EXCEPT ![b] = [NoBuild EXCEPT !.function = job[b].function,
                                                      !.tries = job[b].tries + 1]]
      BY <2>4 DEF NextAttempt
    <3>2. PICK j : j = [NoBuild EXCEPT !.function = job[b].function, !.tries = job[b].tries + 1]
      OBVIOUS
    <3>3. j \in JobType /\ j.function = f /\ j.tries = job[b].tries + 1
      <4>1. PICK tries \in Nat : tries = job[b].tries + 1
        BY <1>0
      <4>2. PICK g \in Function : g = job[b].function
        BY <1>0, <2>1 DEF f
      <4> QED
        BY <3>2, <4>1, <4>2, Again DEF f
    <3>4. job' = [job EXCEPT ![b] = j]
      BY <3>1, <3>2
    <3>5. /\ ChainTyped' /\ bpc'[b] = "check" /\ job'[b].function = f /\ job'[b].tries = j.tries
          /\ \A c \in Builder : c # b => bpc'[c] = bpc[c] /\ job'[c] = job[c]
      BY <1>3, <2>1, <2>4, <3>1, <3>3, <3>4
    <3>6. PodInv'
      BY <1>0, <2>1, <2>2, <2>4, <3>3, <3>5 DEF PodInv
    <3> QED
      BY <2>1, <2>4, <3>1, <3>5, <3>6, BuilderMoves DEF f
  <2> QED
    BY <1>8, <2>2, <2>3, <2>4, NoFault DEF CreatePod, RetryBuild
<1>9. CASE WatchPod(b)
  <2>1. /\ bpc[b] = "watch" /\ UNCHANGED <<status, brokerVars, imageVars, saverVars, gaps>>
        /\ \/ kaniko = "completed" /\ GotoB(b, "delete") /\ UNCHANGED job
           \/ kaniko = "none" /\ GotoB(b, "recheck") /\ job' = [job EXCEPT ![b].why = "timeout"]
    BY <1>0, <1>9, NoFault DEF WatchPod, PodInv
  <2>2. registry
    BY <1>0, <2>1 DEF PodInv
  <2>3. /\ ChainTyped' /\ bpc'[b] \in {"delete", "recheck"}
        /\ job'[b].function = f /\ job'[b].tries = job[b].tries
        /\ \A c \in Builder : c # b => bpc'[c] = bpc[c] /\ job'[c] = job[c]
    <3>1. CASE GotoB(b, "delete") /\ UNCHANGED job
      BY <1>4, <2>1, <3>1 DEF f
    <3>2. CASE GotoB(b, "recheck") /\ job' = [job EXCEPT ![b].why = "timeout"]
      <4>1. PICK j : j = [job[b] EXCEPT !.why = "timeout"]
        OBVIOUS
      <4>2. j \in JobType /\ j.function = f /\ j.tries = job[b].tries
        BY <1>0, <4>1 DEF ChainTyped, JobType, f
      <4>3. job' = [job EXCEPT ![b] = j]
        BY <1>0, <3>2, <4>1 DEF ChainTyped
      <4> QED
        BY <1>3, <2>1, <3>2, <4>2, <4>3
    <3> QED
      BY <2>1, <3>1, <3>2
  <2>4. PodInv'
    BY <1>0, <2>1, <2>2, <2>3 DEF PodInv
  <2> QED
    BY <2>1, <2>3, <2>4, BuilderMoves DEF f
<1>10. CASE Recheck(b)
  <2>1. /\ bpc[b] = "recheck" /\ GotoB(b, "profile")
        /\ UNCHANGED <<status, brokerVars, imageVars, saverVars, gaps, job>>
    BY <1>0, <1>10 DEF Recheck, PodInv
  <2>2. ChainTyped' /\ bpc'[b] = "profile" /\ job'[b] = job[b]
        /\ \A c \in Builder : c # b => bpc'[c] = bpc[c] /\ job'[c] = job[c]
    BY <1>4, <2>1
  <2>3. PodInv'
    BY <1>0, <2>1, <2>2 DEF PodInv
  <2> QED
    BY <2>1, <2>2, <2>3, BuilderMoves
<1>11. CASE DeletePod(b)
  <2>1. /\ bpc[b] = "delete" /\ GotoB(b, "profile") /\ kaniko' \in {"none", kaniko}
        /\ UNCHANGED <<status, brokerVars, registry, stored, saverVars, gaps, job>>
    BY <1>11 DEF DeletePod
  <2>2. ChainTyped' /\ bpc'[b] = "profile" /\ job'[b] = job[b]
        /\ \A c \in Builder : c # b => bpc'[c] = bpc[c] /\ job'[c] = job[c]
    BY <1>4, <2>1
  <2>3. PodInv'
    BY <1>0, <2>1, <2>2 DEF PodInv
  <2> QED
    BY <2>1, <2>2, <2>3, BuilderMoves
<1>12. CASE EndBuild(b)
  <2>0. PICK m : m = [function |-> f, retries |-> 0]
    OBVIOUS
  <2>1. /\ bpc[b] = "profile" /\ saves' = [saves EXCEPT ![m] = @ + 1] /\ EndJob(b)
        /\ UNCHANGED <<status, toBuild, builds, reports, imageVars, saverVars, gaps>>
    BY <1>12, <2>0, NoFault DEF EndBuild, AddSave, f
  <2>2. m \in SaveMessage /\ m.function = f /\ f \in Function
    BY <1>0, <2>0, <2>1 DEF SaveMessage
  <2>3. /\ bpc'[b] = "idle" /\ job'[b] = NoBuild
        /\ \A c \in Builder : c # b => bpc'[c] = bpc[c] /\ job'[c] = job[c]
    BY <1>2, <2>1
  <2>4. /\ saves' \in [SaveMessage -> Nat] /\ saves'[m] = saves[m] + 1
        /\ \A n \in SaveMessage : n # m => saves'[n] = saves[n]
    BY <1>0, <2>1, <2>2 DEF ChainTyped
  <2>5. ChainTyped'
    BY <1>0, <2>1, <2>4 DEF ChainTyped, EndJob, GotoB, NoBuild
  <2>6. PodInv'
    BY <1>0, <2>1, <2>3 DEF PodInv, NoBuild
  <2>7. ASSUME NEW g \in Function PROVE ChainInv(g)'
    <3>1. CASE g = f
      <4>1. BuiltBy(b, g) /\ ChainInv(g)
        BY <2>1, <2>2, <3>1 DEF BuiltBy, Chain, f
      <4>2. /\ ~NoPlace(g) /\ ~Queued(g) /\ (\A n \in SaveMessage : ~Sent(n, g))
            /\ (\A s \in Saver : ~SavedBy(s, g)) /\ \A c \in Builder : BuiltBy(c, g) => c = b
        BY <4>1 DEF ChainInv, OnePlace, NoPlace
      <4>3. /\ ~Queued(g)' /\ (\A s \in Saver : ~SavedBy(s, g)') /\ \A c \in Builder : ~BuiltBy(c, g)'
        BY <2>1, <2>3, <4>2 DEF Queued, SavedBy, BuiltBy
      <4>4. saves'[m] = 1 /\ \A n \in SaveMessage : Sent(n, g)' => n = m
        <5>1. saves[m] = 0
          BY <1>0, <2>2, <3>1, <4>2 DEF Sent, ChainTyped
        <5>2. ASSUME NEW n \in SaveMessage, n # m, saves'[n] > 0, n.function = g PROVE FALSE
          BY <2>4, <4>2, <5>2 DEF Sent
        <5> QED
          BY <2>4, <5>1, <5>2 DEF Sent
      <4>5. OnePlace(g)'
        BY <2>1, <4>1, <4>3, <4>4 DEF OnePlace, ChainInv, Queued
      <4> QED
        BY <2>1, <3>1, <4>1, <4>2, <4>3, <4>5 DEF ChainInv, Early
    <3>2. CASE g # f
      <4>1. ChainInv(g) /\ \A n \in SaveMessage : n.function = g => saves'[n] = saves[n]
        BY <2>2, <2>4, <3>2 DEF Chain
      <4>2. \A c \in Builder : BuiltBy(c, g)' => BuiltBy(c, g)
        BY <2>3 DEF BuiltBy
      <4> QED
        BY <1>0, <2>1, <2>5, <4>1, <4>2, Staying DEF ChainInv, SavedBy, Early
    <3> QED
      BY <3>1, <3>2
  <2> QED
    BY <2>5, <2>6, <2>7 DEF Chain
<1>13. CASE CrashBuilder(b)
  BY <1>13, NoFault DEF CrashBuilder
<1> QED
  BY <1>1, <1>5, <1>6, <1>7, <1>8, <1>9, <1>10, <1>11, <1>12, <1>13 DEF BuilderStep

\* The saving of images, while there is no fault: an image is missing to a saver
\* at no time, and is refused only when it comes before its row.
LEMMA SaverChain ==
  ASSUME Chain, faults = 0, faults' = 0, NEW s \in Saver,
         SaverStep(s) \/ CrashSaver(s) \/ \E m \in SaveMessage : ReceiveSave(s, m)
  PROVE  Chain'
<1> USE DEF orcVars, apiVars, brokerVars, imageVars, builderVars, saverVars, historyVars
<1>0. /\ ChainTyped /\ PodInv
      /\ spc[s] # "idle" => save[s].function \in Function
  BY DEF Chain, ChainTyped
<1>1. ASSUME NEW where \in SaverPlace, GotoS(s, where), spc[s] # "idle",
             save'[s].function = save[s].function,
             \A r \in Saver : r # s => save'[r] = save[r],
             save' = [r \in Saver |-> [function |-> save'[r].function, retries |-> save'[r].retries,
                                       seen |-> save'[r].seen]],
             status' \in [Function -> Status], UNCHANGED <<brokerVars, builderVars>>
      PROVE  /\ ChainTyped' /\ spc'[s] = where
             /\ \A r \in Saver : r # s => spc'[r] = spc[r] /\ save'[r] = save[r]
  BY <1>0, <1>1 DEF ChainTyped, GotoS
<1>2. ASSUME EndSave(s), status' \in [Function -> Status],
             reports' \subseteq Function, UNCHANGED <<toBuild, builds, saves, builderVars>>
      PROVE  /\ ChainTyped' /\ spc'[s] = "idle"
             /\ \A r \in Saver : r # s => spc'[r] = spc[r] /\ save'[r] = save[r]
  BY <1>0, <1>2 DEF ChainTyped, EndSave, GotoS, NoSave, SaverPlace
<1>3. ASSUME NEW m \in SaveMessage, ReceiveSave(s, m) PROVE Chain'
  <2>1. /\ spc[s] = "idle" /\ saves[m] > 0 /\ saves' = [saves EXCEPT ![m] = @ - 1]
        /\ save' = [save EXCEPT ![s] = [function |-> m.function, retries |-> m.retries, seen |-> "absent"]]
        /\ GotoS(s, "payload")
        /\ UNCHANGED <<status, toBuild, builds, reports, imageVars, builderVars, gaps>>
    BY <1>3 DEF ReceiveSave
  <2>2. m.function \in Function
    BY DEF SaveMessage
  <2>3. /\ spc'[s] = "payload" /\ save'[s].function = m.function
        /\ \A r \in Saver : r # s => spc'[r] = spc[r] /\ save'[r] = save[r]
    BY <1>0, <2>1 DEF ChainTyped, GotoS
  <2>4. PICK f \in Function : f = m.function
    BY <2>2
  <2>5. ChainInv(f) /\ Sent(m, f)
    BY <2>1, <2>4 DEF Chain, Sent
  <2>6. saves[m] = 1 /\ \A n \in SaveMessage : Sent(n, f) => n = m
    BY <2>5 DEF ChainInv, OnePlace
  <2>7. saves'[m] = 0 /\ saves' \in [SaveMessage -> Nat] /\ \A n \in SaveMessage : n # m => saves'[n] = saves[n]
    BY <1>0, <2>1, <2>6 DEF ChainTyped
  <2>8. ChainTyped'
    BY <1>0, <2>1, <2>2, <2>7, SMTT(20) DEF ChainTyped, GotoS, SaverPlace
  <2>9. PodInv'
    BY <1>0, <2>1, <2>3, <2>7 DEF PodInv
  <2>10. ASSUME NEW g \in Function PROVE ChainInv(g)'
    <3>1. CASE g = f
      <4>1. /\ ~Queued(g) /\ (\A b \in Builder : ~BuiltBy(b, g))
            /\ (\A r \in Saver : ~SavedBy(r, g)) /\ ~NoPlace(g)
        BY <2>5, <3>1 DEF ChainInv, OnePlace, NoPlace
      <4>2. /\ ~Queued(g)' /\ (\A b \in Builder : ~BuiltBy(b, g)')
            /\ (\A n \in SaveMessage : ~Sent(n, g)')
        BY <2>1, <2>6, <2>7, <3>1, <4>1 DEF Queued, BuiltBy, Sent
      <4>3. \A r \in Saver : SavedBy(r, g)' => r = s
        BY <2>3, <4>1 DEF SavedBy
      <4>4. OnePlace(g)'
        BY <2>1, <2>5, <3>1, <4>2, <4>3 DEF OnePlace, ChainInv, Queued
      <4> QED
        BY <2>1, <2>5, <3>1, <4>1, <4>2, <4>4 DEF ChainInv, Early
    <3>2. CASE g # f
      <4>1. ChainInv(g) /\ \A n \in SaveMessage : n.function = g => saves'[n] = saves[n]
        BY <2>4, <2>7, <3>2 DEF Chain
      <4>2. \A r \in Saver : SavedBy(r, g)' => SavedBy(r, g)
        BY <2>3, <2>4, <3>2 DEF SavedBy
      <4> QED
        BY <1>0, <2>1, <2>8, <4>1, <4>2, Staying DEF ChainInv, BuiltBy, Early
    <3> QED
      BY <3>1, <3>2
  <2> QED
    BY <2>8, <2>9, <2>10 DEF Chain
<1>4. ASSUME ChainTyped', spc'[s] \in {"payload", "store"} => SavedBy(s, save'[s].function),
             spc'[s] = "payload" => registry,
             \A r \in Saver : r # s => spc'[r] = spc[r] /\ save'[r] = save[r],
             UNCHANGED <<toBuild, builds, saves, registry, kaniko, builderVars>>,
             \A g \in Function :
               /\ g \in stored' => g \in stored \/ NoPlace(g)'
               /\ g \in stored' /\ g \notin stored => status[g] # "none"
               /\ Early(g)' => Early(g) \/ (NoPlace(g)' /\ status[g] # "none")
               /\ Early(g) => Early(g)'
               /\ g \in reports' \/ status'[g] = "failed" => Early(g)'
               /\ status'[g] = "none" <=> status[g] = "none"
               /\ Queued(g)' => status'[g] = status[g]
      PROVE  Chain'
  <2>1. PodInv'
    BY <1>0, <1>4 DEF PodInv
  <2>2. ASSUME NEW g \in Function PROVE ChainInv(g)'
    <3>1. \A r \in Saver : SavedBy(r, g)' => SavedBy(r, g)
      BY <1>4 DEF SavedBy
    <3>2. ChainInv(g)
      BY DEF Chain
    <3> QED
      BY <1>0, <1>4, <3>1, <3>2, Staying DEF BuiltBy
  <2> QED
    BY <1>4, <2>1, <2>2 DEF Chain
<1>5. UNCHANGED <<status, stored, gaps, reports>> =>
        \A g \in Function :
          /\ g \in stored' => g \in stored
          /\ Early(g)' <=> Early(g)
          /\ g \in reports' \/ status'[g] = "failed" => Early(g)'
          /\ status'[g] = status[g]
  BY DEF Chain, ChainInv, Early
<1>6. CASE MakePayload(s)
  <2>1. /\ registry /\ GotoS(s, "store") /\ spc[s] = "payload"
        /\ UNCHANGED <<status, brokerVars, imageVars, builderVars, save, gaps>>
    BY <1>0, <1>6, NoFault DEF MakePayload, PodInv
  <2>2. /\ ChainTyped' /\ spc'[s] = "store"
        /\ \A r \in Saver : r # s => spc'[r] = spc[r] /\ save'[r] = save[r]
    BY <1>0, <1>1, <2>1 DEF ChainTyped, SaverPlace
  <2> QED
    BY <1>4, <1>5, <2>1, <2>2 DEF SavedBy
<1>7. CASE StoreImage(s)
  <2>1. /\ spc[s] = "store"
        /\ UNCHANGED <<status, toBuild, builds, saves, registry, kaniko, builderVars>>
    BY <1>7 DEF StoreImage
  <2>2. PICK f \in Function : f = save[s].function
    BY <1>0, <2>1
  <2>3. ChainInv(f) /\ SavedBy(s, f)
    BY <2>1, <2>2 DEF Chain, SavedBy
  <2>4. /\ f \notin stored /\ ~Early(f) /\ status[f] # "none" /\ ~Queued(f)
        /\ (\A b \in Builder : ~BuiltBy(b, f)) /\ (\A m \in SaveMessage : ~Sent(m, f))
        /\ \A r \in Saver : SavedBy(r, f) => r = s
    BY <2>3 DEF ChainInv, OnePlace, NoPlace
  <2>5. \/ /\ stored' = stored \union {f} /\ GotoS(s, "read") /\ UNCHANGED <<save, reports, gaps>>
        \/ /\ EndSave(s) /\ reports' = reports \union {f} /\ UNCHANGED stored
           /\ gaps' = gaps \union {<<f, "early">>}
    BY <1>7, <2>2, <2>4 DEF StoreImage, SaveFails, AddGap
  <2>6. /\ ChainTyped' /\ spc'[s] \in {"read", "idle"}
        /\ \A r \in Saver : r # s => spc'[r] = spc[r] /\ save'[r] = save[r]
    <3>1. status' \in [Function -> Status] /\ UNCHANGED <<toBuild, builds, saves, builderVars>>
      BY <1>0, <2>1 DEF ChainTyped
    <3>2. CASE GotoS(s, "read") /\ UNCHANGED <<save, reports>>
      BY <1>0, <1>1, <2>1, <3>1, <3>2 DEF ChainTyped, SaverPlace
    <3>3. CASE EndSave(s) /\ reports' = reports \union {f}
      BY <1>0, <1>2, <2>1, <3>1, <3>3 DEF ChainTyped
    <3> QED
      BY <2>5, <3>2, <3>3
  <2>7. NoPlace(f)'
    BY <2>1, <2>4, <2>6 DEF NoPlace, Queued, BuiltBy, Sent, SavedBy
  <2>8. ASSUME NEW g \in Function
        PROVE  /\ g \in stored' => g \in stored \/ NoPlace(g)'
               /\ g \in stored' /\ g \notin stored => status[g] # "none"
               /\ Early(g)' => Early(g) \/ (NoPlace(g)' /\ status[g] # "none")
               /\ Early(g) => Early(g)'
               /\ g \in reports' \/ status'[g] = "failed" => Early(g)'
    <3>1. (g \in stored' => g \in stored \/ g = f) /\ (Early(g)' => Early(g) \/ g = f) /\ (Early(g) => Early(g)')
      BY <2>5 DEF Early
    <3>2. g \in reports' => g \in reports \/ Early(g)'
      BY <2>5 DEF Early
    <3>3. g \in reports \/ status[g] = "failed" => Early(g)
      BY DEF Chain, ChainInv
    <3> QED
      BY <2>1, <2>4, <2>7, <3>1, <3>2, <3>3
  <2> QED
    BY <1>4, <2>1, <2>6, <2>8
<1>8. CASE ReadRow(s) \/ UpdateFunction(s) \/ MarkReady(s)
  <2>1. spc[s] \in {"read", "update", "ready"} /\ UNCHANGED <<brokerVars, imageVars, builderVars>>
    BY <1>8 DEF ReadRow, UpdateFunction, MarkReady
  <2>2. \E where \in SaverPlace \ {"payload", "store"} : GotoS(s, where)
    BY <1>8 DEF ReadRow, UpdateFunction, MarkReady, LoseUpdate, SaverPlace
  <2>3. save' = save \/ save' = [save EXCEPT ![s].seen = row[save[s].function].status]
    BY <1>8 DEF ReadRow, UpdateFunction, MarkReady
  <2>4. /\ save'[s].function = save[s].function /\ \A r \in Saver : r # s => save'[r] = save[r]
        /\ save' = [r \in Saver |-> [function |-> save'[r].function, retries |-> save'[r].retries,
                                     seen |-> save'[r].seen]]
    BY <1>0, <2>3 DEF ChainTyped
  <2>5. PICK f \in Function : f = save[s].function
    BY <1>0, <2>1
  <2>6. status' = status \/ (status[f] = "building" /\ status' = [status EXCEPT ![f] = "ready"])
    BY <1>8, <2>5 DEF ReadRow, UpdateFunction, MarkReady, LoseUpdate, SetStatus
  <2>7. gaps' = gaps \/ gaps' = gaps \union {<<f, "lost">>}
    BY <1>8, <2>5 DEF ReadRow, UpdateFunction, MarkReady, LoseUpdate, AddGap
  <2>8. status' \in [Function -> Status]
    BY <1>0, <2>6 DEF ChainTyped, Status, Final
  <2>9. /\ ChainTyped' /\ spc'[s] \notin {"payload", "store"}
        /\ \A r \in Saver : r # s => spc'[r] = spc[r] /\ save'[r] = save[r]
    BY <1>1, <2>1, <2>2, <2>4, <2>8
  <2>10. ASSUME NEW g \in Function
         PROVE  /\ g \in stored' => g \in stored
                /\ Early(g)' <=> Early(g)
                /\ g \in reports' \/ status'[g] = "failed" => Early(g)'
                /\ status'[g] = "none" <=> status[g] = "none"
                /\ Queued(g)' => status'[g] = status[g]
    <3>1. Early(g)' <=> Early(g)
      BY <2>7 DEF Early
    <3>2. /\ (g \in reports \/ status[g] = "failed" => Early(g))
          /\ (Queued(g) => status[g] = "waiting") /\ (Queued(g)' <=> Queued(g))
      BY <2>1 DEF Chain, ChainInv, Queued
    <3>3. status'[g] = status[g] \/ (status[g] = "building" /\ status'[g] = "ready")
      BY <1>0, <2>6 DEF ChainTyped
    <3> QED
      BY <2>1, <3>1, <3>2, <3>3
  <2> QED
    BY <1>4, <2>1, <2>9, <2>10
<1>9. CASE WriteRow(s) \/ Acknowledge(s)
  <2>1. /\ spc[s] \in {"write", "ack"} /\ UNCHANGED <<status, brokerVars, imageVars, builderVars>>
        /\ (GotoS(s, "update") /\ UNCHANGED save) \/ EndSave(s)
        /\ gaps' = gaps \/ AddGap(save[s].function, "stale")
    BY <1>9, NoFault DEF WriteRow, Acknowledge
  <2>2. /\ ChainTyped' /\ spc'[s] \in {"update", "idle"}
        /\ \A r \in Saver : r # s => spc'[r] = spc[r] /\ save'[r] = save[r]
    <3>1. status' \in [Function -> Status] /\ reports' \subseteq Function
      BY <1>0, <2>1 DEF ChainTyped
    <3>2. CASE GotoS(s, "update") /\ UNCHANGED save
      BY <1>0, <1>1, <2>1, <3>1, <3>2 DEF ChainTyped, SaverPlace
    <3>3. CASE EndSave(s)
      BY <1>2, <2>1, <3>1, <3>3
    <3> QED
      BY <2>1, <3>2, <3>3
  <2>3. ASSUME NEW g \in Function
        PROVE  (Early(g)' <=> Early(g)) /\ (g \in reports' \/ status'[g] = "failed" => Early(g)')
    <3>1. Early(g)' <=> Early(g)
      BY <2>1 DEF Early, AddGap
    <3> QED
      BY <2>1, <3>1 DEF Chain, ChainInv
  <2> QED
    BY <1>4, <2>1, <2>2, <2>3
<1>10. CASE CrashSaver(s)
  BY <1>10, NoFault DEF CrashSaver
<1> QED
  BY <1>3, <1>6, <1>7, <1>8, <1>9, <1>10 DEF SaverStep

\* A function fails only after a fault, or when its image comes before its row:
\* with three attempts or more, builds of one archive that meet, however many
\* builders they have, make no function fail.
THEOREM FunctionsFailForAReason ==
  ASSUME MaxRetries >= 3
  PROVE  Spec => []FailureIsReal
<1>1. Init => FailureInv
  <2> SUFFICES ASSUME Init PROVE FailureInv
    OBVIOUS
  <2>1. ChainTyped
    BY FunctionBuildAssumption DEF Init, ChainTyped, Status, NoBuild, NoSave, SaverPlace
  <2>2. PodInv
    BY DEF Init, PodInv, NoBuild
  <2>3. ASSUME NEW f \in Function PROVE ChainInv(f)
    <3>1. NoPlace(f) /\ builds[f] = 0
      BY DEF Init, NoPlace, Queued, BuiltBy, Sent, SavedBy
    <3>2. OnePlace(f)
      BY <3>1 DEF OnePlace, NoPlace
    <3>3. f \notin reports /\ f \notin stored /\ ~Early(f) /\ status[f] = "none"
      BY DEF Init, Early
    <3> QED
      BY <3>1, <3>2, <3>3 DEF ChainInv, NoPlace
  <2> QED
    BY <2>1, <2>2, <2>3 DEF Init, FailureInv, Chain
<1>2. FailureInv /\ [Next]_vars => FailureInv'
  <2> SUFFICES ASSUME FailureInv, [Next]_vars PROVE FailureInv'
    OBVIOUS
  <2>1. faults \in Nat /\ faults' \in Nat /\ (faults' = 0 => faults = 0)
    BY FaultStep DEF FailureInv
  <2>2. ASSUME faults' = 0 PROVE Chain'
    <3>1. faults = 0 /\ Chain
      BY <2>1, <2>2 DEF FailureInv
    <3>2. CASE UNCHANGED vars
      BY <3>1, <3>2, Resting DEF vars, orcVars, historyVars
    <3>3. CASE Next
      BY <2>2, <3>1, <3>3, OutsideChain, BuilderChain, SaverChain DEF Next
    <3> QED
      BY <3>2, <3>3
  <2> QED
    BY <2>1, <2>2 DEF FailureInv
<1>3. FailureInv => FailureIsReal
  BY DEF FailureInv, FailureIsReal, Chain, ChainInv, Early
<1> QED
  BY <1>1, <1>2, <1>3, PTL DEF Spec
=============================================================================
