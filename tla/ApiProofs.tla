------------------------- MODULE ApiProofs -------------------------
(*****************************************************************************)
(* The assets at the API server, for any requests, organizations and faults: *)
(* what is registered keeps its files and its rows follow                    *)
(* (AssetRegistration), content goes where it may (Downloads), and failures  *)
(* are told (FailureReports).                                                *)
(*****************************************************************************)
EXTENDS ApiParts, FiniteSetTheorems, SequenceTheorems, TLAPS

(* AssetRegistration: what the events still to be consumed make of the rows,  *)
(* what each request knows at its step, and who removes which files.          *)

RowType == [there : BOOLEAN, managers : SUBSET Single, name : Nat, address : BOOLEAN]
EventType == [kind : {"create", "managers", "name", "disable"}, asset : Asset, data : RowType]
RegistrationTyped ==
  /\ orc \in [Asset -> RowType] /\ row \in [Asset -> RowType] /\ log \in Seq(EventType)
  /\ pc \in [Request -> {"new", "files", "register", "rows", "creator", "clean", "answer", "done", "failed"}]
  /\ todo \in [Request -> SUBSET Asset] /\ readRow \in [Request -> RowType]
  /\ asked \subseteq Request /\ answered \subseteq Request /\ files \subseteq Asset /\ created \subseteq ComputePlan

\* The event at a place of the log is of this kind and asset.
At(i, kind, a) == i \in DOMAIN log /\ log[i].kind = kind /\ log[i].asset = a
Pending(kind, a) == \E i \in DOMAIN log : At(i, kind, a)

\* The last event of each kind has what the orchestrator has.
LastIsCurrent(a) ==
  /\ \A i \in DOMAIN log : At(i, "managers", a) =>
       log[i].data.managers = orc[a].managers \/ \E j \in DOMAIN log : j > i /\ At(j, "managers", a)
  /\ \A i \in DOMAIN log : At(i, "name", a) =>
       log[i].data.name = orc[a].name \/ \E j \in DOMAIN log : j > i /\ At(j, "name", a)
  /\ Pending("disable", a) => ~orc[a].address

\* An asset without a row has only the event of its creation.
RowToCome(a) ==
  ~row[a].there =>
    /\ row[a] = None
    /\ \A i \in DOMAIN log : log[i].asset = a => log[i].kind = "create" /\ log[i].data = orc[a]
    /\ Registered(a) => Pending("create", a)
    /\ ~Registered(a) => orc[a] = None /\ ~Pending("create", a)
\* A row has what no event is to bring.
RowIsCurrent(a) ==
  row[a].there =>
    /\ Registered(a)
    /\ \/ <<a, "stale">> \in gaps /\ a \in ComputePlan
       \/ /\ Pending("managers", a) \/ row[a].managers = orc[a].managers
          /\ Pending("name", a) \/ row[a].name = orc[a].name
          /\ Pending("disable", a) \/ row[a].address = orc[a].address
ManagersHaveRows ==
  /\ \A a \in Asset : \A m \in orc[a].managers : row[m].there
  /\ \A i \in DOMAIN log : \A m \in log[i].data.managers : row[m].there
EventsInv ==
  /\ ManagersHaveRows
  /\ \A a \in Asset : LastIsCurrent(a) /\ RowToCome(a) /\ RowIsCurrent(a)

RequestInv(r) ==
  /\ todo[r] \subseteq What[r].assets
  /\ pc[r] \in {"files", "clean"} => SavesFiles(r)
  /\ pc[r] = "rows" => What[r].kind # "rename"
  /\ pc[r] # "new" =>
       /\ \A m \in What[r].managers : row[m].there
       /\ ~Creates(r) => \A a \in What[r].assets : row[a].there
  /\ pc[r] \in {"rows", "creator", "answer"} \/ r \in answered =>
       \A a \in What[r].assets : Registered(a) /\ What[r].managers \subseteq orc[a].managers
  /\ pc[r] \in {"rows", "creator"} =>
       /\ \A a \in What[r].assets \ todo[r] : row[a].there /\ (What[r].kind = "plan" => a \in created)
       /\ Creates(r) => \A a \in What[r].assets : row[a].there \/ orc[a] = New(a, What[r].managers)
  /\ pc[r] = "creator" => What[r].kind = "plan" /\ readRow[r].there
  /\ pc[r] = "answer" \/ r \in answered =>
       \A a \in What[r].assets : row[a].there /\ (What[r].kind = "plan" => a \in created)

\* An instance of an asset that is not registered is one a request still has to
\* register or to remove.
HandledBy(r, a) ==
  /\ SavesFiles(r) /\ a \in What[r].assets
  /\ pc[r] \in {"files", "register"} \/ (pc[r] = "clean" /\ a \in todo[r])
Accounted(a) == Registered(a) \/ <<a, "batch">> \in gaps \/ <<a, "crash">> \in gaps
InstancesInv == \A a \in files : Accounted(a) \/ \E r \in Request : HandledBy(r, a)

RegistrationInv ==
  RegistrationTyped /\ EventsInv /\ InstancesInv /\ \A r \in Request : RequestInv(r)

-----------------------------------------------------------------------------
(* The log *)

EventKind(r) ==
  IF What[r].kind = "link" THEN "managers" ELSE IF What[r].kind = "rename" THEN "name" ELSE "create"

\* Events of a kind are appended for the assets, with what the orchestrator has now.
LogGrows(kind, assets) ==
  /\ log' \in Seq(EventType) /\ Len(log) <= Len(log')
  /\ \A i \in 1..Len(log) : log'[i] = log[i]
  /\ \A i \in 1..Len(log') : i > Len(log) =>
       log'[i].kind = kind /\ log'[i].asset \in assets /\ log'[i].data = orc'[log'[i].asset]
  /\ \A a \in assets : \E i \in 1..Len(log') : i > Len(log) /\ log'[i].asset = a

LEMMA AssetsOfRequest ==
  ASSUME NEW r \in Request
  PROVE  /\ What[r].assets \in SUBSET Asset /\ What[r].managers \in SUBSET Single
         /\ What[r].kind \in {"single", "samples", "models", "plan", "link", "rename"}
         /\ IsFiniteSet(What[r].assets)
  BY AssetRegistrationAssumption, RegistrationAssumption DEF RequestType

LEMMA EmitGrows ==
  ASSUME log \in Seq(EventType), orc' \in [Asset -> RowType],
         NEW kind \in {"create", "managers", "name", "disable"},
         NEW assets \in SUBSET Asset, IsFiniteSet(assets), Emit(kind, assets, orc')
  PROVE  LogGrows(kind, assets)
<1> DEFINE n == Cardinality(assets)
           event(a) == [kind |-> kind, asset |-> a, data |-> orc'[a]]
<1>1. n \in Nat
  BY FS_CardinalityType
<1>2. PICK order \in [1..n -> assets] :
        /\ \A a \in assets : \E i \in DOMAIN order : order[i] = a
        /\ log' = log \o [i \in DOMAIN order |-> event(order[i])]
  BY DEF Emit
<1> DEFINE events == [i \in 1..n |-> event(order[i])]
<1>3. log' = log \o events
  BY <1>2
<1>4. \A a \in Asset : event(a) \in EventType
  BY DEF EventType
<1> HIDE DEF n
<1>5. events \in [1..n -> EventType]
  BY <1>2, <1>4
<1>6. events \in Seq(EventType) /\ Len(events) = n
  BY <1>1, <1>5
<1>7. Len(log) \in Nat
  BY LenProperties
<1>8. /\ log' \in Seq(EventType) /\ Len(log') = Len(log) + n
      /\ \A i \in 1..Len(log') :
           log'[i] = IF i <= Len(log) THEN log[i] ELSE events[i - Len(log)]
  <2>1. /\ log \o events \in Seq(EventType)
        /\ Len(log \o events) = Len(log) + Len(events)
        /\ \A i \in 1..(Len(log) + Len(events)) : (log \o events)[i] =
             IF i <= Len(log) THEN log[i] ELSE events[i - Len(log)]
    BY <1>6, ConcatProperties
  <2> HIDE DEF events
  <2> QED
    BY <1>3, <1>6, <2>1
<1> HIDE DEF events
<1>9. \A i \in 1..Len(log) : log'[i] = log[i]
  BY <1>1, <1>7, <1>8
<1>10. ASSUME NEW i \in 1..Len(log'), i > Len(log)
       PROVE  /\ log'[i].kind = kind /\ log'[i].asset \in assets
              /\ log'[i].data = orc'[log'[i].asset]
  <2>1. i - Len(log) \in 1..n
    BY <1>1, <1>7, <1>8, <1>10
  <2>2. log'[i] = events[i - Len(log)]
    BY <1>7, <1>8, <1>10
  <2>3. log'[i] = event(order[i - Len(log)]) /\ order[i - Len(log)] \in assets
    BY <1>2, <2>1, <2>2 DEF events
  <2> QED
    BY <2>3
<1>11. ASSUME NEW a \in assets
       PROVE  \E i \in 1..Len(log') : i > Len(log) /\ log'[i].asset = a
  <2>1. PICK i \in 1..n : order[i] = a
    BY <1>2
  <2>2. i + Len(log) \in 1..Len(log') /\ i + Len(log) > Len(log)
    BY <1>1, <1>7, <1>8, <2>1
  <2>3. log'[i + Len(log)] = events[i + Len(log) - Len(log)]
    BY <1>1, <1>7, <1>8, <2>2
  <2>4. i + Len(log) - Len(log) = i
    BY <1>1, <1>7
  <2>5. log'[i + Len(log)] = event(a)
    BY <2>1, <2>3, <2>4 DEF events
  <2> QED
    BY <2>2, <2>5
<1>12. Len(log') \in Nat /\ Len(log) <= Len(log')
  BY <1>1, <1>7, <1>8
<1> QED
  BY <1>8, <1>9, <1>10, <1>11, <1>12 DEF LogGrows

LEMMA Applies ==
  ASSUME RegistrationTyped, NEW r \in Request, Apply(r)
  PROVE  /\ orc' \in [Asset -> RowType]
         /\ \A a \in Asset \ What[r].assets : orc'[a] = orc[a]
         /\ \A a \in What[r].assets :
              orc'[a] = IF What[r].kind = "link"
                        THEN [orc[a] EXCEPT !.managers = @ \union What[r].managers]
                        ELSE IF What[r].kind = "rename" THEN [orc[a] EXCEPT !.name = @ + 1]
                        ELSE New(a, What[r].managers)
         /\ LogGrows(EventKind(r), What[r].assets)
<1> DEFINE w == What[r]
           after(a) == IF a \notin w.assets THEN orc[a]
                       ELSE IF w.kind = "link" THEN [orc[a] EXCEPT !.managers = @ \union w.managers]
                       ELSE IF w.kind = "rename" THEN [orc[a] EXCEPT !.name = @ + 1]
                       ELSE New(a, w.managers)
<1>1. orc' = [a \in Asset |-> after(a)]
  BY DEF Apply
<1>2. ASSUME NEW a \in Asset PROVE after(a) \in RowType
  <2>1. orc[a] \in RowType
    BY DEF RegistrationTyped
  <2>2. CASE a \in w.assets /\ w.kind = "link"
    BY <2>1, <2>2, AssetsOfRequest DEF RowType
  <2>3. CASE a \in w.assets /\ w.kind = "rename"
    BY <2>1, <2>3 DEF RowType
  <2>4. CASE a \in w.assets /\ w.kind \notin {"link", "rename"}
    BY <2>4, AssetsOfRequest DEF RowType, New
  <2> QED
    BY <2>1, <2>2, <2>3, <2>4
<1>3. Emit(EventKind(r), w.assets, orc')
  BY DEF Apply, EventKind
<1> HIDE DEF after
<1>4. orc' \in [Asset -> RowType]
  BY <1>1, <1>2
<1>5. \A a \in Asset : orc'[a] = after(a)
  BY <1>1
<1>6. LogGrows(EventKind(r), w.assets)
  BY <1>3, <1>4, AssetsOfRequest, EmitGrows DEF RegistrationTyped, EventKind
<1> QED
  BY <1>4, <1>5, <1>6, AssetsOfRequest DEF after

-----------------------------------------------------------------------------
(* What other steps leave of what a request knows *)

Grows ==
  /\ \A a \in Asset :
       /\ Registered(a) => Registered(a)' /\ orc[a].managers \subseteq orc'[a].managers
       /\ row[a].there => row'[a].there
       /\ Registered(a) /\ ~row'[a].there => orc'[a] = orc[a]
  /\ created \subseteq created'

LEMMA RequestStays ==
  ASSUME NEW q \in Request, RequestInv(q), Grows,
         pc'[q] = pc[q], todo'[q] = todo[q], readRow'[q] = readRow[q], q \in answered' <=> q \in answered
  PROVE  RequestInv(q)'
<1>1. What[q].assets \subseteq Asset /\ What[q].managers \subseteq Asset
  BY AssetsOfRequest DEF Asset, WithFiles
<1>2. \A a \in Asset : New(a, What[q].managers).there
  BY DEF New
<1>3. (todo[q] \subseteq What[q].assets)'
  BY DEF RequestInv
<1>4. (pc[q] \in {"files", "clean"} => SavesFiles(q))' /\ (pc[q] = "rows" => What[q].kind # "rename")'
  BY DEF RequestInv, SavesFiles
<1>5. (pc[q] # "new" =>
        /\ \A m \in What[q].managers : row[m].there
        /\ ~Creates(q) => \A a \in What[q].assets : row[a].there)'
  BY <1>1 DEF RequestInv, Grows, Creates, SavesFiles
<1>6. (pc[q] \in {"rows", "creator", "answer"} \/ q \in answered =>
        \A a \in What[q].assets : Registered(a) /\ What[q].managers \subseteq orc[a].managers)'
  BY <1>1 DEF RequestInv, Grows
<1>7. (pc[q] \in {"rows", "creator"} =>
        /\ \A a \in What[q].assets \ todo[q] : row[a].there /\ (What[q].kind = "plan" => a \in created)
        /\ Creates(q) => \A a \in What[q].assets : row[a].there \/ orc[a] = New(a, What[q].managers))'
  <2>1. ASSUME pc[q] \in {"rows", "creator"}, Creates(q), NEW a \in What[q].assets, ~row'[a].there
        PROVE  orc'[a] = New(a, What[q].managers)
    <3>1. ~row[a].there /\ Registered(a) /\ orc[a] = New(a, What[q].managers)
      BY <1>1, <2>1 DEF RequestInv, Grows
    <3> QED
      BY <1>1, <2>1, <3>1 DEF Grows
  <2>2. ASSUME pc[q] \in {"rows", "creator"}, NEW a \in What[q].assets \ todo[q]
        PROVE  row'[a].there /\ (What[q].kind = "plan" => a \in created')
    BY <1>1, <2>2 DEF RequestInv, Grows
  <2> QED
    BY <2>1, <2>2 DEF Creates, SavesFiles
<1>8. (pc[q] = "creator" => What[q].kind = "plan" /\ readRow[q].there)'
  BY DEF RequestInv
<1>9. (pc[q] = "answer" \/ q \in answered =>
        \A a \in What[q].assets : row[a].there /\ (What[q].kind = "plan" => a \in created))'
  BY <1>1 DEF RequestInv, Grows
<1> QED
  BY <1>3, <1>4, <1>5, <1>6, <1>7, <1>8, <1>9 DEF RequestInv

LEMMA GrownLog ==
  ASSUME log \in Seq(EventType), NEW kind, NEW assets, LogGrows(kind, assets)
  PROVE  /\ \A i, k, a : At(i, k, a) => At(i, k, a)' /\ log'[i] = log[i] /\ i \in Nat /\ i <= Len(log)
         /\ \A i, k, a : At(i, k, a)' =>
              \/ At(i, k, a) /\ log'[i] = log[i]
              \/ k = kind /\ a \in assets /\ log'[i].data = orc'[a]
         /\ \A a \in assets : \E j \in 1..Len(log') : j > Len(log) /\ At(j, kind, a)' /\ log'[j].data = orc'[a]
         /\ Len(log) \in Nat
<1>1. /\ log' \in Seq(EventType) /\ Len(log) \in Nat /\ Len(log') \in Nat /\ Len(log) <= Len(log')
      /\ DOMAIN log = 1..Len(log) /\ DOMAIN log' = 1..Len(log')
  BY LenProperties DEF LogGrows
<1>2. ASSUME NEW i, NEW k, NEW a, At(i, k, a)
      PROVE  At(i, k, a)' /\ log'[i] = log[i] /\ i \in Nat /\ i <= Len(log)
  <2>1. i \in 1..Len(log) /\ i \in 1..Len(log')
    BY <1>1, <1>2 DEF At
  <2>2. log'[i] = log[i]
    BY <2>1 DEF LogGrows
  <2> QED
    BY <1>1, <1>2, <2>1, <2>2 DEF At
<1>3. ASSUME NEW i, NEW k, NEW a, At(i, k, a)'
      PROVE  \/ At(i, k, a) /\ log'[i] = log[i]
             \/ k = kind /\ a \in assets /\ log'[i].data = orc'[a]
  <2>1. i \in 1..Len(log') /\ log'[i].kind = k /\ log'[i].asset = a
    BY <1>1, <1>3 DEF At
  <2>2. CASE i <= Len(log)
    <3>1. i \in 1..Len(log)
      BY <1>1, <2>1, <2>2
    <3>2. log'[i] = log[i]
      BY <3>1 DEF LogGrows
    <3> QED
      BY <1>1, <2>1, <3>1, <3>2 DEF At
  <2>3. CASE i > Len(log)
    BY <2>1, <2>3 DEF LogGrows
  <2> QED
    BY <1>1, <2>1, <2>2, <2>3
<1>4. ASSUME NEW a \in assets
      PROVE  \E j \in 1..Len(log') : j > Len(log) /\ At(j, kind, a)' /\ log'[j].data = orc'[a]
  <2>1. PICK j \in 1..Len(log') : j > Len(log) /\ log'[j].asset = a
    BY DEF LogGrows
  <2>2. log'[j].kind = kind /\ log'[j].data = orc'[a]
    BY <2>1 DEF LogGrows
  <2> QED
    BY <1>1, <2>1, <2>2 DEF At
<1> QED
  BY <1>1, <1>2, <1>3, <1>4

\* The assets that the events are not about.
LEMMA OtherAssets ==
  ASSUME RegistrationTyped, EventsInv, NEW kind, NEW assets, LogGrows(kind, assets),
         row' = row, gaps \subseteq gaps', NEW a \in Asset, a \notin assets, orc'[a] = orc[a]
  PROVE  LastIsCurrent(a)' /\ RowToCome(a)' /\ RowIsCurrent(a)'
<1>1. /\ \A i, k : At(i, k, a) <=> At(i, k, a)'
      /\ \A i, k : At(i, k, a) => log'[i] = log[i] /\ i \in Nat
  BY GrownLog DEF RegistrationTyped
<1>2. LastIsCurrent(a) /\ RowToCome(a) /\ RowIsCurrent(a)
  BY DEF EventsInv
<1>3. \A k : Pending(k, a) <=> Pending(k, a)'
  BY <1>1 DEF Pending, At
<1>4. LastIsCurrent(a)'
  <2>1. ASSUME NEW k \in {"managers", "name"}, NEW i, At(i, k, a)'
        PROVE  At(i, k, a) /\ i \in DOMAIN log /\ log'[i] = log[i]
    BY <1>1, <2>1 DEF At
  <2>2. ASSUME NEW i \in DOMAIN log', At(i, "managers", a)'
        PROVE  log'[i].data.managers = orc'[a].managers \/ \E j \in DOMAIN log' : j > i /\ At(j, "managers", a)'
    <3>1. log[i].data.managers = orc[a].managers \/ \E j \in DOMAIN log : j > i /\ At(j, "managers", a)
      BY <1>2, <2>1, <2>2 DEF LastIsCurrent
    <3>2. CASE log[i].data.managers = orc[a].managers
      BY <2>1, <2>2, <3>2
    <3>3. CASE \E j \in DOMAIN log : j > i /\ At(j, "managers", a)
      <4>1. PICK j : j > i /\ At(j, "managers", a)
        BY <3>3
      <4>2. At(j, "managers", a)' /\ j \in DOMAIN log'
        BY <1>1, <4>1 DEF At
      <4> QED
        BY <4>1, <4>2
    <3> QED
      BY <3>1, <3>2, <3>3
  <2>3. ASSUME NEW i \in DOMAIN log', At(i, "name", a)'
        PROVE  log'[i].data.name = orc'[a].name \/ \E j \in DOMAIN log' : j > i /\ At(j, "name", a)'
    <3>1. log[i].data.name = orc[a].name \/ \E j \in DOMAIN log : j > i /\ At(j, "name", a)
      BY <1>2, <2>1, <2>3 DEF LastIsCurrent
    <3>2. CASE log[i].data.name = orc[a].name
      BY <2>1, <2>3, <3>2
    <3>3. CASE \E j \in DOMAIN log : j > i /\ At(j, "name", a)
      <4>1. PICK j : j > i /\ At(j, "name", a)
        BY <3>3
      <4>2. At(j, "name", a)' /\ j \in DOMAIN log'
        BY <1>1, <4>1 DEF At
      <4> QED
        BY <4>1, <4>2
    <3> QED
      BY <3>1, <3>2, <3>3
  <2> QED
    BY <1>2, <1>3, <2>2, <2>3 DEF LastIsCurrent
<1>5. RowToCome(a)'
  <2>1. ASSUME NEW i \in DOMAIN log', log'[i].asset = a
        PROVE  i \in DOMAIN log /\ log[i].asset = a /\ log'[i] = log[i]
    <3>2. PICK k : At(i, k, a)'
      BY <2>1 DEF At
    <3> QED
      BY <1>1, <3>2 DEF At
  <2> QED
    BY <1>2, <1>3, <2>1 DEF RowToCome, Registered
<1>6. RowIsCurrent(a)'
  BY <1>2, <1>3 DEF RowIsCurrent, Registered
<1> QED
  BY <1>4, <1>5, <1>6

\* An asset that a request creates.
LEMMA CreatedAsset ==
  ASSUME RegistrationTyped, EventsInv, NEW assets, LogGrows("create", assets),
         row' = row, gaps \subseteq gaps', NEW a \in Asset, a \in assets, ~Registered(a),
         Registered(a)'
  PROVE  LastIsCurrent(a)' /\ RowToCome(a)' /\ RowIsCurrent(a)'
<1>1. LastIsCurrent(a) /\ RowToCome(a) /\ RowIsCurrent(a)
  BY DEF EventsInv
<1>2. ~row[a].there /\ row[a] = None
  BY <1>1 DEF RowIsCurrent, RowToCome
<1>3. \A i, k : ~At(i, k, a)
  <2> SUFFICES ASSUME NEW i, NEW k, At(i, k, a) PROVE FALSE
    OBVIOUS
  <2>1. log[i].kind = "create" /\ i \in DOMAIN log /\ log[i].asset = a
    BY <1>1, <1>2 DEF RowToCome, At
  <2>2. Pending("create", a)
    BY <2>1 DEF Pending, At
  <2> QED
    BY <1>1, <1>2, <2>2 DEF RowToCome
<1>4. \A i, k : At(i, k, a)' => k = "create" /\ log'[i].data = orc'[a]
  BY <1>3, GrownLog DEF RegistrationTyped
<1>5. Pending("create", a)'
  <2>1. PICK j \in 1..Len(log') : At(j, "create", a)'
    BY GrownLog DEF RegistrationTyped
  <2> QED
    BY <2>1 DEF Pending, At
<1>6. LastIsCurrent(a)'
  BY <1>4 DEF LastIsCurrent, Pending, At
<1>7. RowToCome(a)'
  <2>1. ASSUME NEW i \in DOMAIN log', log'[i].asset = a
        PROVE  log'[i].kind = "create" /\ log'[i].data = orc'[a]
    <3>1. PICK k : At(i, k, a)'
      BY <2>1 DEF At
    <3> QED
      BY <1>4, <3>1 DEF At
  <2> QED
    BY <1>2, <1>5, <2>1 DEF RowToCome, Registered
<1> QED
  BY <1>2, <1>6, <1>7 DEF RowIsCurrent

\* An asset with a row of which the orchestrator changes one thing.
LEMMA ChangedAsset ==
  ASSUME RegistrationTyped, EventsInv, NEW kind \in {"managers", "name", "disable"},
         NEW assets, LogGrows(kind, assets),
         row' = row, gaps \subseteq gaps', NEW a \in Asset, a \in assets, row[a].there,
         orc'[a].there,
         kind = "managers" \/ orc'[a].managers = orc[a].managers,
         kind = "name" \/ orc'[a].name = orc[a].name,
         orc'[a].address = IF kind = "disable" THEN FALSE ELSE orc[a].address
  PROVE  LastIsCurrent(a)' /\ RowToCome(a)' /\ RowIsCurrent(a)'
<1>1. LastIsCurrent(a) /\ RowToCome(a) /\ RowIsCurrent(a)
  BY DEF EventsInv
<1>2. /\ \A i, k : At(i, k, a) => At(i, k, a)' /\ log'[i] = log[i] /\ i \in Nat /\ i <= Len(log)
      /\ \A i, k : At(i, k, a)' =>
              \/ At(i, k, a) /\ log'[i] = log[i]
              \/ k = kind /\ log'[i].data = orc'[a]
      /\ Len(log) \in Nat
  BY GrownLog DEF RegistrationTyped
<1>3. PICK last \in 1..Len(log') : last > Len(log) /\ At(last, kind, a)' /\ log'[last].data = orc'[a]
  BY GrownLog DEF RegistrationTyped
<1>4. last \in DOMAIN log' /\ \A i, k : At(i, k, a) => last > i
  <2>1. last \in DOMAIN log' /\ last \in Nat
    BY <1>3 DEF At
  <2> QED
    BY <1>2, <1>3, <2>1
<1>5. /\ \A k : Pending(k, a) => Pending(k, a)'
      /\ Pending(kind, a)'
      /\ \A k : Pending(k, a)' => Pending(k, a) \/ k = kind
  BY <1>2, <1>3 DEF Pending, At
<1>6. LastIsCurrent(a)'
  <2>2. ASSUME NEW i \in DOMAIN log', At(i, "managers", a)'
        PROVE  log'[i].data.managers = orc'[a].managers \/ \E j \in DOMAIN log' : j > i /\ At(j, "managers", a)'
    <3>1. CASE kind = "managers"
      BY <1>2, <1>3, <1>4, <2>2, <3>1
    <3>2. CASE kind # "managers"
      <4>1. At(i, "managers", a) /\ log'[i] = log[i] /\ orc'[a].managers = orc[a].managers
        BY <1>2, <2>2, <3>2
      <4>2. log[i].data.managers = orc[a].managers \/ \E j \in DOMAIN log : j > i /\ At(j, "managers", a)
        BY <1>1, <4>1 DEF LastIsCurrent, At
      <4>3. \A j \in DOMAIN log : At(j, "managers", a) => At(j, "managers", a)' /\ j \in DOMAIN log'
        BY <1>2 DEF At
      <4> QED
        BY <4>1, <4>2, <4>3
    <3> QED
      BY <3>1, <3>2
  <2>3. ASSUME NEW i \in DOMAIN log', At(i, "name", a)'
        PROVE  log'[i].data.name = orc'[a].name \/ \E j \in DOMAIN log' : j > i /\ At(j, "name", a)'
    <3>1. CASE kind = "name"
      BY <1>2, <1>3, <1>4, <2>3, <3>1
    <3>2. CASE kind # "name"
      <4>1. At(i, "name", a) /\ log'[i] = log[i] /\ orc'[a].name = orc[a].name
        BY <1>2, <2>3, <3>2
      <4>2. log[i].data.name = orc[a].name \/ \E j \in DOMAIN log : j > i /\ At(j, "name", a)
        BY <1>1, <4>1 DEF LastIsCurrent, At
      <4>3. \A j \in DOMAIN log : At(j, "name", a) => At(j, "name", a)' /\ j \in DOMAIN log'
        BY <1>2 DEF At
      <4> QED
        BY <4>1, <4>2, <4>3
    <3> QED
      BY <3>1, <3>2
  <2>4. (Pending("disable", a) => ~orc[a].address)'
    <3>1. CASE kind = "disable"
      BY <3>1
    <3>2. CASE kind # "disable"
      <4>1. Pending("disable", a)' => Pending("disable", a)
        BY <1>5, <3>2
      <4>2. orc'[a].address = orc[a].address
        BY <3>2
      <4> QED
        BY <1>1, <4>1, <4>2 DEF LastIsCurrent
    <3> QED
      BY <3>1, <3>2
  <2> QED
    BY <2>2, <2>3, <2>4 DEF LastIsCurrent
<1>7. RowToCome(a)'
  BY DEF RowToCome
<1>8. RowIsCurrent(a)'
  <2>1. orc'[a].there
    OBVIOUS
  <2>2. CASE <<a, "stale">> \in gaps /\ a \in ComputePlan
    BY <2>1, <2>2 DEF RowIsCurrent, Registered
  <2>3. CASE ~(<<a, "stale">> \in gaps /\ a \in ComputePlan)
    <3>1. Pending("managers", a)' \/ row[a].managers = orc'[a].managers
      BY <1>1, <1>5, <2>3 DEF RowIsCurrent
    <3>2. Pending("name", a)' \/ row[a].name = orc'[a].name
      BY <1>1, <1>5, <2>3 DEF RowIsCurrent
    <3>3. Pending("disable", a)' \/ row[a].address = orc'[a].address
      <4>1. CASE kind = "disable"
        BY <1>5, <4>1
      <4>2. CASE kind # "disable"
        BY <1>1, <1>5, <2>3, <4>2 DEF RowIsCurrent
      <4> QED
        BY <4>1, <4>2
    <3> QED
      BY <2>1, <3>1, <3>2, <3>3 DEF RowIsCurrent, Registered
  <2> QED
    BY <2>2, <2>3
<1> QED
  BY <1>6, <1>7, <1>8

\* A call that the orchestrator applies.
LEMMA CallEvents ==
  ASSUME RegistrationInv, NEW r \in Request, pc[r] = "register", ~Conflict(r), Apply(r),
         UNCHANGED <<row, created>>, gaps \subseteq gaps'
  PROVE  /\ EventsInv' /\ Grows /\ orc' \in [Asset -> RowType] /\ log' \in Seq(EventType)
         /\ \A a \in What[r].assets :
              /\ Registered(a)' /\ What[r].managers \subseteq orc'[a].managers
              /\ Creates(r) => orc'[a] = New(a, What[r].managers)
<1> DEFINE w == What[r]
<1>1. /\ orc' \in [Asset -> RowType]
      /\ \A a \in Asset \ w.assets : orc'[a] = orc[a]
      /\ \A a \in w.assets :
           orc'[a] = IF w.kind = "link" THEN [orc[a] EXCEPT !.managers = @ \union w.managers]
                     ELSE IF w.kind = "rename" THEN [orc[a] EXCEPT !.name = @ + 1]
                     ELSE New(a, w.managers)
      /\ LogGrows(EventKind(r), w.assets)
  BY Applies DEF RegistrationInv
<1>2. /\ w.assets \subseteq Asset /\ w.managers \subseteq Single
      /\ w.kind \in {"single", "samples", "models", "plan", "link", "rename"}
      /\ w.kind = "rename" => w.managers = {}
  BY AssetsOfRequest, RegistrationAssumption
<1>3. RegistrationTyped /\ EventsInv /\ RequestInv(r)
  BY DEF RegistrationInv
<1>4. \A m \in w.managers : row[m].there
  BY <1>3 DEF RequestInv
<1>5. /\ Creates(r) <=> w.kind \notin {"link", "rename"}
      /\ Creates(r) => \A a \in w.assets : ~Registered(a)
      /\ ~Creates(r) => \A a \in w.assets : row[a].there /\ Registered(a)
  BY <1>2, <1>3 DEF Creates, SavesFiles, Conflict, RequestInv, EventsInv, RowIsCurrent
<1>6. \A a \in Asset : orc[a] \in RowType
  BY <1>3 DEF RegistrationTyped
<1>7. ASSUME NEW a \in w.assets, w.kind = "link"
      PROVE  /\ orc'[a].there /\ orc'[a].managers = orc[a].managers \union w.managers
             /\ orc'[a].name = orc[a].name /\ orc'[a].address = orc[a].address
  <2>1. orc[a] \in RowType /\ orc[a].there
    BY <1>2, <1>5, <1>6, <1>7 DEF Registered
  <2>2. orc'[a] = [orc[a] EXCEPT !.managers = @ \union w.managers]
    BY <1>1, <1>7
  <2> QED
    BY <2>1, <2>2 DEF RowType
<1>8. ASSUME NEW a \in w.assets, w.kind = "rename"
      PROVE  /\ orc'[a].there /\ orc'[a].managers = orc[a].managers
             /\ orc'[a].address = orc[a].address
  <2>1. orc[a] \in RowType /\ orc[a].there
    BY <1>2, <1>5, <1>6, <1>8 DEF Registered
  <2>2. orc'[a] = [orc[a] EXCEPT !.name = @ + 1]
    BY <1>1, <1>8
  <2> QED
    BY <2>1, <2>2 DEF RowType
<1>9. ASSUME NEW a \in w.assets, Creates(r)
      PROVE  orc'[a] = New(a, w.managers) /\ orc'[a].there /\ orc'[a].managers = w.managers
  <2>1. orc'[a] = New(a, w.managers)
    BY <1>1, <1>5, <1>9
  <2> QED
    BY <2>1 DEF New
<1>10. \A a \in w.assets : orc'[a].there
  BY <1>2, <1>5, <1>7, <1>8, <1>9
<1>11. ASSUME NEW a \in Asset PROVE \A m \in orc'[a].managers : row[m].there
  <2>1. \A m \in orc[a].managers : row[m].there
    BY <1>3 DEF EventsInv, ManagersHaveRows
  <2>2. CASE a \notin w.assets
    BY <1>1, <2>1, <2>2
  <2>3. CASE a \in w.assets /\ w.kind = "link"
    BY <1>4, <1>7, <2>1, <2>3
  <2>4. CASE a \in w.assets /\ w.kind = "rename"
    BY <1>8, <2>1, <2>4
  <2>5. CASE a \in w.assets /\ Creates(r)
    BY <1>4, <1>9, <2>5
  <2> QED
    BY <1>2, <1>5, <2>2, <2>3, <2>4, <2>5
<1>12. ManagersHaveRows'
  <2>1. ASSUME NEW i \in DOMAIN log' PROVE \A m \in log'[i].data.managers : row[m].there
    <3>0. log' \in Seq(EventType) /\ i \in 1..Len(log') /\ log \in Seq(EventType) /\ Len(log) \in Nat
      BY <1>1, <1>3, LenProperties DEF LogGrows, RegistrationTyped
    <3>1. CASE i > Len(log)
      BY <1>1, <1>2, <1>11, <3>0, <3>1 DEF LogGrows
    <3>2. CASE ~(i > Len(log))
      <4>1. i \in 1..Len(log)
        BY <3>0, <3>2
      <4> QED
        BY <1>1, <1>3, <3>0, <4>1 DEF LogGrows, EventsInv, ManagersHaveRows
    <3> QED
      BY <3>1, <3>2
  <2> QED
    BY <1>11, <2>1 DEF ManagersHaveRows
<1>13. ASSUME NEW a \in Asset PROVE LastIsCurrent(a)' /\ RowToCome(a)' /\ RowIsCurrent(a)'
  <2>1. CASE a \notin w.assets
    BY <1>1, <1>3, <2>1, OtherAssets
  <2>2. CASE a \in w.assets /\ Creates(r)
    <3>1. EventKind(r) = "create"
      BY <1>5, <2>2 DEF EventKind
    <3> QED
      BY <1>1, <1>3, <1>5, <1>9, <2>2, <3>1, CreatedAsset DEF Registered
  <2>3. CASE a \in w.assets /\ w.kind = "link"
    <3>1. EventKind(r) = "managers" /\ row[a].there
      BY <1>5, <2>3 DEF EventKind
    <3> QED
      BY <1>1, <1>3, <1>7, <2>3, <3>1, ChangedAsset
  <2>4. CASE a \in w.assets /\ w.kind = "rename"
    <3>1. EventKind(r) = "name" /\ row[a].there
      BY <1>5, <2>4 DEF EventKind
    <3> QED
      BY <1>1, <1>3, <1>8, <2>4, <3>1, ChangedAsset
  <2> QED
    BY <1>2, <1>5, <2>1, <2>2, <2>3, <2>4
<1>14. Grows
  <2>1. ASSUME NEW a \in Asset
        PROVE  /\ Registered(a) => Registered(a)' /\ orc[a].managers \subseteq orc'[a].managers
               /\ Registered(a) /\ ~row'[a].there => orc'[a] = orc[a]
    <3>1. CASE a \notin w.assets
      BY <1>1, <3>1 DEF Registered
    <3>2. CASE a \in w.assets /\ Creates(r)
      BY <1>5, <3>2
    <3>3. CASE a \in w.assets /\ w.kind = "link"
      BY <1>5, <1>7, <3>3 DEF Registered
    <3>4. CASE a \in w.assets /\ w.kind = "rename"
      BY <1>5, <1>8, <3>4 DEF Registered
    <3> QED
      BY <1>2, <1>5, <3>1, <3>2, <3>3, <3>4
  <2> QED
    BY <2>1 DEF Grows
<1>15. \A a \in w.assets : w.managers \subseteq orc'[a].managers
  BY <1>2, <1>5, <1>7, <1>9
<1> QED
  BY <1>1, <1>9, <1>10, <1>12, <1>13, <1>14, <1>15 DEF EventsInv, LogGrows, Registered

\* A model that the orchestrator disables.
LEMMA DisableEvents ==
  ASSUME RegistrationInv, NEW x \in Model, DisableModel(x)
  PROVE  EventsInv' /\ Grows /\ orc' \in [Asset -> RowType] /\ log' \in Seq(EventType)
<1> DEFINE event == [kind |-> "disable", asset |-> x, data |-> orc'[x]]
<1>1. /\ orc' = [orc EXCEPT ![x].address = FALSE] /\ log' = Append(log, event) /\ Registered(x)
      /\ UNCHANGED <<row, created, gaps>>
  BY DEF DisableModel, rowVars
<1>2. RegistrationTyped /\ EventsInv /\ x \in Asset
  BY DEF RegistrationInv, Asset, WithFiles
<1>3. orc' \in [Asset -> RowType]
  <2>0. orc[x] \in RowType
    BY <1>2 DEF RegistrationTyped
  <2>1. [orc[x] EXCEPT !.address = FALSE] \in RowType
    BY <2>0 DEF RowType
  <2> QED
    BY <1>1, <1>2, <2>1 DEF RegistrationTyped
<1>4. /\ \A a \in Asset \ {x} : orc'[a] = orc[a]
      /\ orc'[x].there = orc[x].there /\ orc'[x].managers = orc[x].managers
      /\ orc'[x].name = orc[x].name /\ ~orc'[x].address /\ orc'[x].address = FALSE
  <2>1. orc[x] \in RowType /\ orc'[x] = [orc[x] EXCEPT !.address = FALSE]
    BY <1>1, <1>2 DEF RegistrationTyped
  <2> QED
    BY <1>1, <1>2, <2>1 DEF RegistrationTyped, RowType
<1>5. row[x].there
  <2>1. PICK r \in answered : x \in What[r].assets
    BY DEF DisableModel
  <2>2. PICK q \in Request : q \in answered /\ x \in What[q].assets
    BY <2>1 DEF RegistrationInv, RegistrationTyped
  <2> QED
    BY <2>2 DEF RegistrationInv, RequestInv
<1>6. LogGrows("disable", {x})
  <2>1. event \in EventType /\ log \in Seq(EventType) /\ Len(log) \in Nat
    BY <1>2, <1>3, LenProperties DEF EventType, RegistrationTyped
  <2> HIDE DEF event
  <2>2. /\ log' \in Seq(EventType) /\ Len(log') = Len(log) + 1
        /\ \A i \in 1..Len(log) : log'[i] = log[i]
        /\ log'[Len(log) + 1] = event
    BY <1>1, <2>1, AppendProperties
  <2>3. \A i \in 1..Len(log') : i > Len(log) => i = Len(log) + 1
    BY <2>1, <2>2
  <2>4. Len(log) + 1 \in 1..Len(log') /\ Len(log) + 1 > Len(log) /\ Len(log) <= Len(log')
    BY <2>1, <2>2
  <2>5. event.kind = "disable" /\ event.asset = x /\ event.data = orc'[x]
    BY DEF event
  <2> QED
    BY <2>2, <2>3, <2>4, <2>5 DEF LogGrows
<1>7. ManagersHaveRows'
  <2>1. ASSUME NEW a \in Asset PROVE \A m \in orc'[a].managers : row[m].there
    BY <1>2, <1>4 DEF EventsInv, ManagersHaveRows
  <2>2. ASSUME NEW i \in DOMAIN log' PROVE \A m \in log'[i].data.managers : row[m].there
    <3>0. i \in 1..Len(log') /\ log \in Seq(EventType) /\ Len(log) \in Nat
      BY <1>2, <1>6, LenProperties DEF LogGrows, RegistrationTyped
    <3>1. CASE i > Len(log)
      BY <1>2, <1>6, <2>1, <3>0, <3>1 DEF LogGrows
    <3>2. CASE ~(i > Len(log))
      <4>1. i \in 1..Len(log)
        BY <3>0, <3>2
      <4> QED
        BY <1>2, <1>6, <3>0, <4>1 DEF LogGrows, EventsInv, ManagersHaveRows
    <3> QED
      BY <3>1, <3>2
  <2> QED
    BY <1>1, <2>1, <2>2 DEF ManagersHaveRows
<1>8. ASSUME NEW a \in Asset PROVE LastIsCurrent(a)' /\ RowToCome(a)' /\ RowIsCurrent(a)'
  <2>1. CASE a # x
    BY <1>1, <1>2, <1>4, <1>6, <2>1, OtherAssets
  <2>2. CASE a = x
    BY <1>1, <1>2, <1>4, <1>5, <1>6, <2>2, ChangedAsset DEF Registered
  <2> QED
    BY <2>1, <2>2
<1>9. Grows
  BY <1>1, <1>4, <1>5 DEF Grows, Registered
<1> QED
  BY <1>3, <1>6, <1>7, <1>8, <1>9 DEF EventsInv, LogGrows

\* A row that is written.
LEMMA RowWritten ==
  ASSUME RegistrationTyped, EventsInv, NEW a \in Asset, NEW fresh \in RowType, fresh.there,
         row' = [row EXCEPT ![a] = fresh], UNCHANGED <<orc, log>>, gaps \subseteq gaps',
         created \subseteq created', RowIsCurrent(a)'
  PROVE  EventsInv' /\ Grows /\ row' \in [Asset -> RowType]
<1>1. row' \in [Asset -> RowType] /\ row'[a] = fresh /\ \A b \in Asset \ {a} : row'[b] = row[b]
  BY DEF RegistrationTyped
<1>2. \A b \in Asset : row[b].there => row'[b].there
  BY <1>1
<1>3. Grows
  BY <1>1, <1>2 DEF Grows, Registered
<1>4. ManagersHaveRows'
  <2>1. \A b \in Asset : \A m \in orc[b].managers : m \in Asset
    BY DEF RegistrationTyped, RowType, Asset, WithFiles
  <2>2. \A i \in DOMAIN log : \A m \in log[i].data.managers : m \in Asset
    <3>1. \A i \in DOMAIN log : log[i] \in EventType
      BY DEF RegistrationTyped
    <3> QED
      BY <3>1 DEF EventType, RowType, Asset, WithFiles
  <2> QED
    BY <1>2, <2>1, <2>2 DEF EventsInv, ManagersHaveRows
<1>5. ASSUME NEW b \in Asset PROVE LastIsCurrent(b)' /\ RowToCome(b)' /\ RowIsCurrent(b)'
  <2>1. LastIsCurrent(b) /\ RowToCome(b) /\ RowIsCurrent(b)
    BY DEF EventsInv
  <2>2. LastIsCurrent(b)'
    BY <2>1 DEF LastIsCurrent, Pending, At
  <2>3. \A k : Pending(k, b)' <=> Pending(k, b)
    BY DEF Pending, At
  <2>4. CASE b = a
    BY <1>1, <2>2, <2>4 DEF RowToCome
  <2>5. CASE b # a
    <3>1. row'[b] = row[b]
      BY <1>1, <2>5
    <3>2. RowToCome(b)'
      BY <2>1, <2>3, <3>1 DEF RowToCome, Registered
    <3>3. RowIsCurrent(b)'
      BY <2>1, <2>3, <3>1 DEF RowIsCurrent, Registered
    <3> QED
      BY <2>2, <3>2, <3>3
  <2> QED
    BY <2>4, <2>5
<1> QED
  BY <1>1, <1>3, <1>4, <1>5 DEF EventsInv

\* An event that is applied, and may be applied again.
LEMMA ConsumedEvents ==
  ASSUME RegistrationInv, ConsumeEvent
  PROVE  EventsInv' /\ Grows /\ row' \in [Asset -> RowType] /\ log' \in Seq(EventType)
<1> DEFINE e == log[1]
<1>1. /\ log \in Seq(EventType) /\ log # <<>> /\ Len(log) \in Nat /\ Len(log) > 0
      /\ 1 \in DOMAIN log /\ e \in EventType /\ Head(log) = e /\ DOMAIN log = 1..Len(log)
  <2>1. log \in Seq(EventType) /\ log # <<>>
    BY DEF RegistrationInv, RegistrationTyped, ConsumeEvent
  <2>2. Len(log) \in Nat /\ DOMAIN log = 1..Len(log) /\ Len(log) > 0
    BY <2>1, LenProperties, EmptySeq
  <2> QED
    BY <2>1, <2>2
<1>2. RegistrationTyped /\ EventsInv
  BY DEF RegistrationInv
<1>3. /\ e.asset \in Asset /\ e.data \in RowType
      /\ e.kind \in {"create", "managers", "name", "disable"}
      /\ At(1, e.kind, e.asset) /\ Pending(e.kind, e.asset)
      /\ row[e.asset] \in RowType
  BY <1>1, <1>2 DEF EventType, At, Pending, RegistrationTyped
<1>4. PICK fresh : fresh = Applied(e)
  OBVIOUS
<1>5. row' = [row EXCEPT ![e.asset] = fresh] /\ UNCHANGED <<orc, created, gaps>>
  BY <1>1, <1>4 DEF ConsumeEvent
<1>6. PICK a : a = e.asset
  OBVIOUS
<1> HIDE DEF e
<1>7. LastIsCurrent(a) /\ RowToCome(a) /\ RowIsCurrent(a) /\ a \in Asset
  BY <1>2, <1>3, <1>6 DEF EventsInv
<1>8. /\ ~row[a].there => e.kind = "create" /\ e.data = orc[a] /\ fresh = orc[a] /\ orc[a].there
      /\ row[a].there => fresh.there
      /\ row[a].there =>
           /\ fresh.managers = IF e.kind = "managers" THEN e.data.managers ELSE row[a].managers
           /\ fresh.name = IF e.kind = "name" THEN e.data.name ELSE row[a].name
           /\ fresh.address = IF e.kind = "disable" THEN FALSE ELSE row[a].address
      /\ fresh \in RowType
  <2>1. ASSUME ~row[a].there
        PROVE  e.kind = "create" /\ e.data = orc[a] /\ fresh = orc[a] /\ orc[a].there
    <3>1. e.kind = "create" /\ e.data = orc[a]
      BY <1>1, <1>6, <1>7, <2>1 DEF RowToCome, e
    <3>2. Registered(a)
      BY <1>3, <1>6, <1>7, <2>1, <3>1 DEF RowToCome
    <3> QED
      BY <1>4, <1>6, <2>1, <3>1, <3>2 DEF Applied, Registered
  <2>2. ASSUME row[a].there, e.kind = "managers"
        PROVE  fresh = [row[a] EXCEPT !.managers = e.data.managers]
    <3>1. \A m \in e.data.managers : row[m].there
      BY <1>1, <1>2 DEF EventsInv, ManagersHaveRows, e
    <3>2. {m \in e.data.managers : row[m].there} = e.data.managers
      BY <3>1
    <3> QED
      BY <1>4, <1>6, <2>2, <3>2 DEF Applied
  <2>3. ASSUME row[a].there, e.kind = "name" PROVE fresh = [row[a] EXCEPT !.name = e.data.name]
    BY <1>4, <1>6, <2>3 DEF Applied
  <2>4. ASSUME row[a].there, e.kind = "disable" PROVE fresh = [row[a] EXCEPT !.address = FALSE]
    BY <1>4, <1>6, <2>4 DEF Applied
  <2>5. ASSUME row[a].there, e.kind = "create" PROVE fresh = row[a]
    BY <1>4, <1>6, <2>5 DEF Applied
  <2>6. row[a] \in RowType /\ orc[a] \in RowType /\ e.data \in RowType
    BY <1>2, <1>3, <1>7 DEF RegistrationTyped
  <2>7. CASE ~row[a].there
    BY <2>1, <2>6, <2>7
  <2>8. CASE row[a].there /\ e.kind = "managers"
    BY <2>2, <2>6, <2>8 DEF RowType
  <2>9. CASE row[a].there /\ e.kind = "name"
    BY <2>3, <2>6, <2>9 DEF RowType
  <2>10. CASE row[a].there /\ e.kind = "disable"
    BY <2>4, <2>6, <2>10 DEF RowType
  <2>11. CASE row[a].there /\ e.kind = "create"
    BY <2>5, <2>6, <2>11
  <2> QED
    BY <1>3, <2>7, <2>8, <2>9, <2>10, <2>11
<1>9. row' \in [Asset -> RowType] /\ row'[a] = fresh /\ \A b \in Asset \ {a} : row'[b] = row[b]
  BY <1>2, <1>5, <1>6, <1>7, <1>8 DEF RegistrationTyped
<1>10. fresh.there /\ \A b \in Asset : row[b].there => row'[b].there
  BY <1>8, <1>9
<1>11. Grows
  BY <1>5, <1>9, <1>10 DEF Grows, Registered
<1>12. CASE log' = log
  <2>1. RowIsCurrent(a)'
    <3>1. \A k : Pending(k, a)' <=> Pending(k, a)
      BY <1>12 DEF Pending, At
    <3>2. Pending(e.kind, a)
      BY <1>3, <1>6
    <3>3. Registered(a)
      BY <1>7, <1>8 DEF RowIsCurrent, Registered
    <3>4. CASE ~row[a].there
      BY <1>5, <1>8, <1>9, <3>3, <3>4 DEF RowIsCurrent, Registered
    <3>5. CASE row[a].there
      <4>1. Pending("managers", a) \/ fresh.managers = row[a].managers
        BY <1>8, <3>2, <3>5
      <4>2. Pending("name", a) \/ fresh.name = row[a].name
        BY <1>8, <3>2, <3>5
      <4>3. Pending("disable", a) \/ fresh.address = row[a].address
        BY <1>8, <3>2, <3>5
      <4> QED
        BY <1>5, <1>7, <1>9, <3>1, <3>3, <3>5, <4>1, <4>2, <4>3 DEF RowIsCurrent, Registered
    <3> QED
      BY <3>4, <3>5
  <2> QED
    BY <1>2, <1>5, <1>6, <1>7, <1>8, <1>10, <1>12, <2>1, RowWritten DEF RegistrationTyped
<1>13. CASE log' = Tail(log)
  <2>1. /\ log' \in Seq(EventType) /\ Len(log') = Len(log) - 1
        /\ \A i \in 1..Len(log') : log'[i] = log[i + 1]
    BY <1>1, <1>13, HeadTailProperties
  <2>2. \A i, k, b : At(i, k, b)' <=> i \in Int /\ i > 0 /\ At(i + 1, k, b)
    BY <1>1, <2>1 DEF At
  <2>3. \A i \in DOMAIN log' : log'[i] = log[i + 1] /\ i + 1 \in DOMAIN log /\ i \in Int /\ i > 0
    BY <1>1, <2>1
  <2>4. ASSUME NEW k, NEW b PROVE Pending(k, b)' => Pending(k, b)
    BY <2>2, <2>3 DEF Pending
  <2>5. ASSUME NEW k, NEW b, Pending(k, b), ~(b = a /\ k = e.kind) PROVE Pending(k, b)'
    <3>1. PICK i \in 1..Len(log) : At(i, k, b)
      BY <1>1, <2>5 DEF Pending
    <3>2. i # 1
      BY <1>6, <2>5, <3>1 DEF At, e
    <3>3. i - 1 \in Int /\ i - 1 > 0 /\ i - 1 + 1 = i /\ i - 1 \in 1..Len(log')
      BY <1>1, <2>1, <3>1, <3>2
    <3>4. At(i - 1, k, b)' /\ i - 1 \in DOMAIN log'
      BY <2>1, <2>2, <3>1, <3>3
    <3> QED
      BY <3>4 DEF Pending
  <2>6. ManagersHaveRows'
    <3>1. \A b \in Asset : \A m \in orc[b].managers : m \in Asset
      BY <1>2 DEF RegistrationTyped, RowType, Asset, WithFiles
    <3>2. \A i \in DOMAIN log : \A m \in log[i].data.managers : m \in Asset
      <4>1. \A i \in DOMAIN log : log[i] \in EventType
        BY <1>1
      <4> QED
        BY <4>1 DEF EventType, RowType, Asset, WithFiles
    <3> QED
      BY <1>2, <1>5, <1>10, <2>3, <3>1, <3>2 DEF EventsInv, ManagersHaveRows
  <2>7. ASSUME NEW b \in Asset PROVE LastIsCurrent(b)'
    <3>1. LastIsCurrent(b)
      BY <1>2 DEF EventsInv
    <3>2. ASSUME NEW i \in DOMAIN log', At(i, "managers", b)'
          PROVE  log'[i].data.managers = orc'[b].managers \/ \E j \in DOMAIN log' : j > i /\ At(j, "managers", b)'
      <4>1. At(i + 1, "managers", b) /\ log'[i] = log[i + 1] /\ i + 1 \in DOMAIN log /\ i \in Int /\ i > 0
        BY <2>2, <2>3, <3>2
      <4>2. CASE log[i + 1].data.managers = orc[b].managers
        BY <1>5, <4>1, <4>2
      <4>3. CASE log[i + 1].data.managers # orc[b].managers
        <5>1. PICK j \in DOMAIN log : j > i + 1 /\ At(j, "managers", b)
          BY <3>1, <4>1, <4>3 DEF LastIsCurrent
        <5>2. j - 1 \in Int /\ j - 1 > i /\ j - 1 > 0 /\ j - 1 + 1 = j /\ j - 1 \in 1..Len(log')
          BY <1>1, <2>1, <4>1, <5>1
        <5>3. At(j - 1, "managers", b)' /\ j - 1 \in DOMAIN log'
          BY <2>1, <2>2, <5>1, <5>2
        <5> QED
          BY <5>2, <5>3
      <4> QED
        BY <4>2, <4>3
    <3>3. ASSUME NEW i \in DOMAIN log', At(i, "name", b)'
          PROVE  log'[i].data.name = orc'[b].name \/ \E j \in DOMAIN log' : j > i /\ At(j, "name", b)'
      <4>1. At(i + 1, "name", b) /\ log'[i] = log[i + 1] /\ i + 1 \in DOMAIN log /\ i \in Int /\ i > 0
        BY <2>2, <2>3, <3>3
      <4>2. CASE log[i + 1].data.name = orc[b].name
        BY <1>5, <4>1, <4>2
      <4>3. CASE log[i + 1].data.name # orc[b].name
        <5>1. PICK j \in DOMAIN log : j > i + 1 /\ At(j, "name", b)
          BY <3>1, <4>1, <4>3 DEF LastIsCurrent
        <5>2. j - 1 \in Int /\ j - 1 > i /\ j - 1 > 0 /\ j - 1 + 1 = j /\ j - 1 \in 1..Len(log')
          BY <1>1, <2>1, <4>1, <5>1
        <5>3. At(j - 1, "name", b)' /\ j - 1 \in DOMAIN log'
          BY <2>1, <2>2, <5>1, <5>2
        <5> QED
          BY <5>2, <5>3
      <4> QED
        BY <4>2, <4>3
    <3>4. Pending("disable", b)' => ~orc'[b].address
      BY <1>5, <2>4, <3>1 DEF LastIsCurrent
    <3> QED
      BY <3>2, <3>3, <3>4 DEF LastIsCurrent
  <2>8. ASSUME NEW b \in Asset PROVE RowToCome(b)'
    <3>1. CASE b = a
      BY <1>9, <1>10, <3>1 DEF RowToCome
    <3>2. CASE b # a
      <4>1. row'[b] = row[b] /\ orc'[b] = orc[b] /\ RowToCome(b)
        BY <1>2, <1>5, <1>9, <3>2 DEF EventsInv
      <4>2. Pending("create", b)' <=> Pending("create", b)
        BY <2>4, <2>5, <3>2
      <4>3. \A i \in DOMAIN log' : log'[i] = log[i + 1] /\ i + 1 \in DOMAIN log
        BY <2>3
      <4> QED
        BY <4>1, <4>2, <4>3 DEF RowToCome, Registered
    <3> QED
      BY <3>1, <3>2
  <2>9. ASSUME NEW b \in Asset PROVE RowIsCurrent(b)'
    <3>1. CASE b # a
      <4>1. row'[b] = row[b] /\ orc'[b] = orc[b] /\ RowIsCurrent(b) /\ gaps' = gaps
        BY <1>2, <1>5, <1>9, <3>1 DEF EventsInv
      <4>2. \A k : Pending(k, b)' <=> Pending(k, b)
        BY <2>4, <2>5, <3>1
      <4> QED
        BY <4>1, <4>2 DEF RowIsCurrent, Registered
    <3>2. CASE b = a
      <4>1. Registered(a) /\ orc' = orc /\ gaps' = gaps
        BY <1>5, <1>7, <1>8 DEF RowIsCurrent, Registered
      <4>2. CASE ~row[a].there
        BY <1>8, <1>9, <3>2, <4>1, <4>2 DEF RowIsCurrent, Registered
      <4>3. CASE row[a].there /\ <<a, "stale">> \in gaps /\ a \in ComputePlan
        BY <3>2, <4>1, <4>3 DEF RowIsCurrent, Registered
      <4>4. CASE row[a].there /\ ~(<<a, "stale">> \in gaps /\ a \in ComputePlan)
        <5>1. Pending("managers", a)' \/ fresh.managers = orc[a].managers
          <6>1. CASE e.kind = "managers"
            <7>1. CASE e.data.managers = orc[a].managers
              BY <1>8, <4>4, <6>1, <7>1
            <7>2. CASE e.data.managers # orc[a].managers
              <8>1. At(1, "managers", a)
                BY <1>3, <1>6, <6>1
              <8>2. PICK j \in DOMAIN log : j > 1 /\ At(j, "managers", a)
                BY <1>1, <1>7, <7>2, <8>1 DEF LastIsCurrent, e
              <8>3. j - 1 \in Int /\ j - 1 > 0 /\ j - 1 + 1 = j /\ j - 1 \in 1..Len(log')
                BY <1>1, <2>1, <8>2
              <8>4. At(j - 1, "managers", a)' /\ j - 1 \in DOMAIN log'
                BY <2>1, <2>2, <8>2, <8>3
              <8> QED
                BY <8>4 DEF Pending
            <7> QED
              BY <7>1, <7>2
          <6>2. CASE e.kind # "managers"
            BY <1>7, <1>8, <2>5, <4>4, <6>2 DEF RowIsCurrent
          <6> QED
            BY <6>1, <6>2
        <5>2. Pending("name", a)' \/ fresh.name = orc[a].name
          <6>1. CASE e.kind = "name"
            <7>1. CASE e.data.name = orc[a].name
              BY <1>8, <4>4, <6>1, <7>1
            <7>2. CASE e.data.name # orc[a].name
              <8>1. At(1, "name", a)
                BY <1>3, <1>6, <6>1
              <8>2. PICK j \in DOMAIN log : j > 1 /\ At(j, "name", a)
                BY <1>1, <1>7, <7>2, <8>1 DEF LastIsCurrent, e
              <8>3. j - 1 \in Int /\ j - 1 > 0 /\ j - 1 + 1 = j /\ j - 1 \in 1..Len(log')
                BY <1>1, <2>1, <8>2
              <8>4. At(j - 1, "name", a)' /\ j - 1 \in DOMAIN log'
                BY <2>1, <2>2, <8>2, <8>3
              <8> QED
                BY <8>4 DEF Pending
            <7> QED
              BY <7>1, <7>2
          <6>2. CASE e.kind # "name"
            BY <1>7, <1>8, <2>5, <4>4, <6>2 DEF RowIsCurrent
          <6> QED
            BY <6>1, <6>2
        <5>3. Pending("disable", a)' \/ fresh.address = orc[a].address
          <6>1. CASE e.kind = "disable"
            <7>1. Pending("disable", a)
              BY <1>3, <1>6, <6>1
            <7>2. ~orc[a].address /\ orc[a].address \in BOOLEAN
              BY <1>2, <1>7, <7>1 DEF LastIsCurrent, RegistrationTyped, RowType
            <7>3. fresh.address = FALSE
              BY <1>8, <4>4, <6>1
            <7> QED
              BY <7>2, <7>3
          <6>2. CASE e.kind # "disable"
            BY <1>7, <1>8, <2>5, <4>4, <6>2 DEF RowIsCurrent
          <6> QED
            BY <6>1, <6>2
        <5> QED
          BY <1>9, <3>2, <4>1, <5>1, <5>2, <5>3 DEF RowIsCurrent, Registered
      <4> QED
        BY <4>2, <4>3, <4>4
    <3> QED
      BY <3>1, <3>2
  <2> QED
    BY <1>9, <1>11, <2>1, <2>6, <2>7, <2>8, <2>9 DEF EventsInv
<1> QED
  BY <1>12, <1>13 DEF ConsumeEvent

-----------------------------------------------------------------------------
(* The steps *)

\* A request moves, the consumer and the orchestrator have grown.
LEMMA RequestMoved ==
  ASSUME RegistrationInv, NEW r \in Request,
         NEW place \in {"new", "files", "register", "rows", "creator", "clean", "answer", "done", "failed"},
         NEW rest \in SUBSET What[r].assets, NEW read \in RowType,
         pc' = [pc EXCEPT ![r] = place], todo' = [todo EXCEPT ![r] = rest],
         readRow' = [readRow EXCEPT ![r] = read], asked' = asked,
         answered' = answered \/ answered' = answered \union {r},
         Grows, EventsInv', orc' \in [Asset -> RowType], row' \in [Asset -> RowType],
         log' \in Seq(EventType), created' \subseteq ComputePlan, gaps \subseteq gaps',
         files' \subseteq Asset, RequestInv(r)',
         \A a \in files' : a \in files \/ Accounted(a)' \/ HandledBy(r, a)',
         \A a \in files' : HandledBy(r, a) => Accounted(a)' \/ HandledBy(r, a)'
  PROVE  RegistrationInv'
<1>1. RegistrationTyped /\ InstancesInv /\ \A q \in Request : RequestInv(q)
  BY DEF RegistrationInv
<1>2. RegistrationTyped'
  <2>1. What[r].assets \subseteq Asset
    BY AssetsOfRequest
  <2> QED
    BY <1>1, <2>1 DEF RegistrationTyped
<1>3. ASSUME NEW q \in Request PROVE RequestInv(q)'
  <2>1. CASE q = r
    BY <2>1
  <2>2. CASE q # r
    <3>1. pc'[q] = pc[q] /\ todo'[q] = todo[q] /\ readRow'[q] = readRow[q] /\ (q \in answered' <=> q \in answered)
      BY <1>1, <2>2 DEF RegistrationTyped
    <3> QED
      BY <1>1, <3>1, RequestStays
  <2> QED
    BY <2>1, <2>2
<1>4. InstancesInv'
  <2> SUFFICES ASSUME NEW a \in files' PROVE Accounted(a)' \/ \E q \in Request : HandledBy(q, a)'
    BY DEF InstancesInv
  <2>1. CASE a \notin files
    BY <2>1
  <2>2. CASE a \in files /\ Accounted(a)
    BY <2>2 DEF Grows, Accounted
  <2>3. ASSUME NEW q \in Request, HandledBy(q, a) PROVE Accounted(a)' \/ \E p \in Request : HandledBy(p, a)'
    <3>1. CASE q = r
      BY <2>3, <3>1
    <3>2. CASE q # r
      <4>1. pc'[q] = pc[q] /\ todo'[q] = todo[q]
        BY <1>1, <3>2 DEF RegistrationTyped
      <4>2. HandledBy(q, a)'
        BY <2>3, <4>1 DEF HandledBy, SavesFiles
      <4> QED
        BY <4>2
    <3> QED
      BY <3>1, <3>2
  <2> QED
    BY <1>1, <2>1, <2>2, <2>3 DEF InstancesInv
<1> QED
  BY <1>2, <1>3, <1>4 DEF RegistrationInv

\* A request moves and no row, event or registration changes.
LEMMA QuietMove ==
  ASSUME RegistrationInv, NEW r \in Request,
         NEW place \in {"new", "files", "register", "rows", "creator", "clean", "answer", "done", "failed"},
         NEW rest \in SUBSET What[r].assets, NEW read \in RowType,
         pc' = [pc EXCEPT ![r] = place], todo' = [todo EXCEPT ![r] = rest],
         readRow' = [readRow EXCEPT ![r] = read], asked' = asked,
         answered' = answered \/ (answered' = answered \union {r} /\ pc[r] = "answer"),
         UNCHANGED <<orc, log, row, created>>, gaps \subseteq gaps', files' \subseteq Asset,
         place \in {"files", "clean"} => SavesFiles(r),
         place = "rows" => pc[r] = "rows",
         place = "creator" => pc[r] = "rows" /\ What[r].kind = "plan" /\ read.there,
         place \in {"rows", "creator"} => rest = todo[r] \/ rest = What[r].assets,
         place = "answer" => pc[r] = "rows" /\ todo[r] = {},
         pc[r] = "new" => KeysKnown(r),
         \A a \in files' : a \in files \/ Accounted(a)' \/ HandledBy(r, a)',
         \A a \in files' : HandledBy(r, a) => Accounted(a)' \/ HandledBy(r, a)'
  PROVE  RegistrationInv'
<1>1. RegistrationTyped /\ EventsInv /\ RequestInv(r)
  BY DEF RegistrationInv
<1>2. pc'[r] = place /\ todo'[r] = rest /\ readRow'[r] = read
  BY <1>1 DEF RegistrationTyped
<1>3. Grows
  BY DEF Grows, Registered
<1>4. EventsInv'
  <2>1. ManagersHaveRows'
    BY <1>1 DEF EventsInv, ManagersHaveRows
  <2>2. ASSUME NEW a \in Asset PROVE LastIsCurrent(a)' /\ RowToCome(a)' /\ RowIsCurrent(a)'
    <3>1. LastIsCurrent(a) /\ RowToCome(a) /\ RowIsCurrent(a)
      BY <1>1 DEF EventsInv
    <3>2. LastIsCurrent(a)'
      BY <3>1 DEF LastIsCurrent, Pending, At
    <3>3. RowToCome(a)'
      BY <3>1 DEF RowToCome, Pending, At, Registered
    <3>4. RowIsCurrent(a)'
      BY <3>1 DEF RowIsCurrent, Pending, At, Registered
    <3> QED
      BY <3>2, <3>3, <3>4
  <2> QED
    BY <2>1, <2>2 DEF EventsInv
<1>5. RequestInv(r)'
  <2>1. pc[r] = "new" => \A m \in What[r].managers : row[m].there
    BY DEF KeysKnown
  <2>2. pc[r] = "new" /\ ~Creates(r) => \A a \in What[r].assets : row[a].there
    BY DEF KeysKnown
  <2>3. (pc[r] # "new" =>
          /\ \A m \in What[r].managers : row[m].there
          /\ ~Creates(r) => \A a \in What[r].assets : row[a].there)'
    BY <1>1, <2>1, <2>2 DEF RequestInv, Creates, SavesFiles
  <2>4. (pc[r] \in {"files", "clean"} => SavesFiles(r))' /\ (pc[r] = "rows" => What[r].kind # "rename")'
    BY <1>1, <1>2 DEF RequestInv, SavesFiles
  <2>5. (pc[r] \in {"rows", "creator", "answer"} \/ r \in answered =>
          \A a \in What[r].assets : Registered(a) /\ What[r].managers \subseteq orc[a].managers)'
    <3>1. pc[r] \in {"rows", "creator", "answer"} \/ r \in answered =>
          \A a \in What[r].assets : Registered(a) /\ What[r].managers \subseteq orc[a].managers
      BY <1>1 DEF RequestInv
    <3>2. pc'[r] \in {"rows", "creator", "answer"} \/ r \in answered' =>
            pc[r] \in {"rows", "creator", "answer"} \/ r \in answered
      BY <1>2
    <3> QED
      BY <3>1, <3>2 DEF Registered
  <2>6. (pc[r] \in {"rows", "creator"} =>
          /\ \A a \in What[r].assets \ todo[r] : row[a].there /\ (What[r].kind = "plan" => a \in created)
          /\ Creates(r) => \A a \in What[r].assets : row[a].there \/ orc[a] = New(a, What[r].managers))'
    BY <1>1, <1>2 DEF RequestInv, Creates, SavesFiles, New
  <2>7. (pc[r] = "creator" => What[r].kind = "plan" /\ readRow[r].there)'
    BY <1>2
  <2>8. (pc[r] = "answer" \/ r \in answered =>
          \A a \in What[r].assets : row[a].there /\ (What[r].kind = "plan" => a \in created))'
    <3>1. pc[r] = "answer" \/ r \in answered =>
          \A a \in What[r].assets : row[a].there /\ (What[r].kind = "plan" => a \in created)
      BY <1>1 DEF RequestInv
    <3>2. pc[r] = "rows" /\ todo[r] = {} =>
          \A a \in What[r].assets : row[a].there /\ (What[r].kind = "plan" => a \in created)
      BY <1>1 DEF RequestInv
    <3>3. pc'[r] = "answer" \/ r \in answered' =>
            pc[r] = "answer" \/ r \in answered \/ (pc[r] = "rows" /\ todo[r] = {})
      BY <1>2
    <3> QED
      BY <3>1, <3>2, <3>3
  <2> QED
    BY <1>2, <2>3, <2>4, <2>5, <2>6, <2>7, <2>8 DEF RequestInv
<1> QED
  BY <1>1, <1>3, <1>4, <1>5, RequestMoved DEF RegistrationTyped

LEMMA RegistrationStarts == Init => RegistrationInv
<1> SUFFICES ASSUME Init PROVE RegistrationInv
  OBVIOUS
<1>1. \A a \in Asset : orc[a] = (IF a \in Known THEN New(a, {}) ELSE None) /\ row[a] = orc[a] /\ orc[a] \in RowType
  BY DEF Init, RowType, New, None
<1>2. log = <<>> /\ log \in Seq(EventType) /\ DOMAIN log = {}
  BY DEF Init
<1>3. RegistrationTyped
  <2>1. Known \subseteq Asset
    BY AssetRegistrationAssumption DEF Asset, WithFiles
  <2>2. orc \in [Asset -> RowType] /\ None \in RowType /\ row = orc
    BY <1>1 DEF Init, None, RowType
  <2> QED
    BY <1>2, <2>1, <2>2, AssetRegistrationAssumption DEF Init, RegistrationTyped
<1>4. \A a \in Asset : orc[a].managers = {} /\ (~orc[a].there => orc[a] = None)
  <2> SUFFICES ASSUME NEW a \in Asset PROVE orc[a].managers = {} /\ (~orc[a].there => orc[a] = None)
    OBVIOUS
  <2>1. CASE a \in Known
    <3>1. orc[a] = New(a, {})
      BY <1>1, <2>1
    <3> QED
      BY <3>1 DEF New
  <2>2. CASE a \notin Known
    BY <1>1, <2>2 DEF None
  <2> QED
    BY <2>1, <2>2
<1>5. \A k, a : ~Pending(k, a) /\ \A i : ~At(i, k, a)
  BY <1>2 DEF Pending, At
<1>6. EventsInv
  BY <1>1, <1>2, <1>4, <1>5 DEF EventsInv, ManagersHaveRows, LastIsCurrent, RowToCome, RowIsCurrent, Registered
<1>7. InstancesInv
  <2>1. Known \subseteq Asset
    BY AssetRegistrationAssumption DEF Asset, WithFiles
  <2> QED
    BY <1>1, <2>1 DEF Init, InstancesInv, Accounted, Registered, New
<1>8. ASSUME NEW r \in Request PROVE RequestInv(r)
  BY DEF Init, RequestInv
<1> QED
  BY <1>3, <1>6, <1>7, <1>8 DEF RegistrationInv

\* What a request reads and where it is, when they stay.
LEMMA StaysAt ==
  ASSUME RegistrationTyped, NEW r \in Request
  PROVE  /\ pc = [pc EXCEPT ![r] = pc[r]] /\ todo = [todo EXCEPT ![r] = todo[r]]
         /\ readRow = [readRow EXCEPT ![r] = readRow[r]] /\ readRow[r] \in RowType
         /\ pc[r] \in {"new", "files", "register", "rows", "creator", "clean", "answer", "done", "failed"}
  BY DEF RegistrationTyped

LEMMA FilesMoves ==
  ASSUME RegistrationInv, NEW r \in Request,
         \/ Receive(r) \/ FilesSaved(r) \/ Cleaned(r) \/ Crash(r) \/ Answer(r) \/ RowsSaved(r)
         \/ \E a \in Asset : SaveFile(r, a) \/ SaveFileFails(r, a) \/ DeleteInstance(r, a) \/ ReadPlan(r, a)
  PROVE  RegistrationInv'
<1> USE DEF fileVars, orcVars, rowVars, Goto, Start, Done
<1>1. RegistrationTyped /\ RequestInv(r) /\ todo[r] \in SUBSET What[r].assets
  BY DEF RegistrationInv, RequestInv
<1>2. /\ pc = [pc EXCEPT ![r] = pc[r]] /\ todo = [todo EXCEPT ![r] = todo[r]]
      /\ readRow = [readRow EXCEPT ![r] = readRow[r]] /\ readRow[r] \in RowType
  BY <1>1, StaysAt
<1>3. files \subseteq Asset
  BY <1>1 DEF RegistrationTyped
<1>4. \A a : <<a, "batch">> \in gaps' \/ <<a, "crash">> \in gaps' => Accounted(a)'
  BY DEF Accounted
<1>5. CASE Receive(r)
  <2>1. UNCHANGED <<files, orc, log, row, created, asked, readRow, answered, gaps>> /\ pc[r] = "new" /\ KeysKnown(r)
    BY <1>5 DEF Receive
  <2>2. \A a : ~HandledBy(r, a)
    BY <2>1 DEF HandledBy
  <2>3. CASE SavesFiles(r)
    <3>1. pc' = [pc EXCEPT ![r] = "files"] /\ todo' = [todo EXCEPT ![r] = What[r].assets]
      BY <1>5, <2>3 DEF Receive
    <3> HIDE DEF Goto, Start
    <3> QED
      BY <1>2, <1>3, <2>1, <2>2, <2>3, <3>1, QuietMove
  <2>4. CASE ~SavesFiles(r)
    <3>1. pc' = [pc EXCEPT ![r] = "register"] /\ todo' = [todo EXCEPT ![r] = {}]
      BY <1>5, <2>4 DEF Receive
    <3> QED
      BY <1>2, <1>3, <2>1, <2>2, <2>4, <3>1, QuietMove
  <2> QED
    BY <2>3, <2>4
<1>6. CASE FilesSaved(r)
  <2>1. /\ UNCHANGED <<files, orc, log, row, created, asked, readRow, answered, gaps>> /\ pc[r] = "files"
        /\ pc' = [pc EXCEPT ![r] = "register"] /\ todo' = [todo EXCEPT ![r] = {}]
    BY <1>6 DEF FilesSaved
  <2>2. \A a : HandledBy(r, a) => HandledBy(r, a)'
    BY <1>1, <2>1 DEF HandledBy, SavesFiles, RegistrationTyped
  <2> QED
    BY <1>2, <1>3, <2>1, <2>2, QuietMove
<1>7. CASE Cleaned(r)
  <2>1. /\ UNCHANGED <<files, orc, log, row, created, asked, readRow, answered, gaps, todo>>
        /\ pc[r] = "clean" /\ todo[r] = {}
        /\ pc' = [pc EXCEPT ![r] = "failed"]
    BY <1>7 DEF Cleaned
  <2>2. \A a : ~HandledBy(r, a)
    BY <2>1 DEF HandledBy
  <2> QED
    BY <1>1, <1>2, <1>3, <2>1, <2>2, QuietMove
<1>8. CASE Crash(r)
  <2>1. /\ UNCHANGED <<files, orc, log, row, created, asked, readRow, answered, todo>>
        /\ pc[r] # "new" /\ gaps \subseteq gaps'
        /\ pc' = [pc EXCEPT ![r] = "failed"]
    BY <1>8 DEF Crash, AddGaps
  <2>2. \A a : HandledBy(r, a) => <<a, "crash">> \in gaps'
    BY <1>8 DEF HandledBy, Crash, AddGaps, Creates
  <2> QED
    BY <1>1, <1>2, <1>3, <1>4, <2>1, <2>2, QuietMove
<1>9. CASE Answer(r)
  <2>1. /\ UNCHANGED <<files, orc, log, row, created, asked, readRow, gaps, todo>>
        /\ pc[r] = "answer" /\ answered' = answered \union {r}
        /\ pc' = [pc EXCEPT ![r] = "done"]
    BY <1>9 DEF Answer
  <2>2. \A a : ~HandledBy(r, a)
    BY <2>1 DEF HandledBy
  <2> QED
    BY <1>1, <1>2, <1>3, <2>1, <2>2, QuietMove
<1>10. CASE RowsSaved(r)
  <2>1. /\ UNCHANGED <<files, orc, log, row, created, asked, readRow, answered, gaps>>
        /\ pc[r] = "rows" /\ todo[r] = {}
        /\ pc' = [pc EXCEPT ![r] = "answer"] /\ todo' = [todo EXCEPT ![r] = {}]
    BY <1>10 DEF RowsSaved
  <2>2. \A a : ~HandledBy(r, a)
    BY <2>1 DEF HandledBy
  <2> QED
    BY <1>1, <1>2, <1>3, <2>1, <2>2, QuietMove
<1>11. ASSUME NEW a \in Asset, SaveFile(r, a) PROVE RegistrationInv'
  <2>1. /\ UNCHANGED <<orc, log, row, created, asked, readRow, answered, gaps, pc>>
        /\ pc[r] = "files" /\ a \in todo[r] /\ files' = files \union {a}
        /\ todo' = [todo EXCEPT ![r] = todo[r] \ {a}]
    BY <1>11 DEF SaveFile
  <2>2. SavesFiles(r) /\ pc[r] = "files" /\ todo[r] \ {a} \in SUBSET What[r].assets
    BY <1>1, <2>1 DEF RequestInv
  <2>3. \A b : b \in What[r].assets => HandledBy(r, b)'
    BY <1>1, <2>1, <2>2 DEF HandledBy, SavesFiles
  <2>4. \A b : HandledBy(r, b) => b \in What[r].assets
    BY DEF HandledBy
  <2>5. files' \subseteq Asset /\ a \in What[r].assets
    BY <1>1, <1>3, <2>1
  <2> QED
    BY <1>2, <1>3, <2>1, <2>2, <2>3, <2>4, <2>5, QuietMove, ZenonT(60)
<1>12. ASSUME NEW a \in Asset, SaveFileFails(r, a) PROVE RegistrationInv'
  <2>1. /\ UNCHANGED <<orc, log, row, created, asked, readRow, answered, todo>>
        /\ pc[r] = "files" /\ a \in todo[r] /\ files' \subseteq files \union {a}
        /\ pc' = [pc EXCEPT ![r] = "failed"] /\ gaps' = gaps \union (What[r].assets \X {"batch"})
    BY <1>12 DEF SaveFileFails, AddGaps
  <2>2. \A b : HandledBy(r, b) \/ b = a => <<b, "batch">> \in gaps'
    BY <1>1, <2>1 DEF HandledBy
  <2>3. files' \subseteq Asset /\ gaps \subseteq gaps'
    BY <1>3, <2>1
  <2> QED
    <3>1. \A b \in files' : b \in files \/ Accounted(b)' \/ HandledBy(r, b)'
      BY <1>4, <2>1, <2>2
    <3>2. \A b \in files' : HandledBy(r, b) => Accounted(b)' \/ HandledBy(r, b)'
      BY <1>4, <2>2
    <3>3. pc[r] # "new"
      BY <2>1
    <3> QED
      BY <1>1, <1>2, <2>1, <2>3, <3>1, <3>2, <3>3, QuietMove
<1>13. ASSUME NEW a \in Asset, DeleteInstance(r, a) PROVE RegistrationInv'
  <2>1. /\ UNCHANGED <<orc, log, row, created, asked, readRow, answered, gaps, pc>>
        /\ pc[r] = "clean" /\ a \in todo[r] /\ files' = files \ {a}
        /\ todo' = [todo EXCEPT ![r] = todo[r] \ {a}]
    BY <1>13 DEF DeleteInstance
  <2>2. SavesFiles(r) /\ todo[r] \ {a} \in SUBSET What[r].assets
    BY <1>1, <2>1 DEF RequestInv
  <2>3. \A b \in files' : HandledBy(r, b) => HandledBy(r, b)'
    <3>1. todo'[r] = todo[r] \ {a}
      BY <1>1, <2>1 DEF RegistrationTyped
    <3> QED
      BY <2>1, <3>1 DEF HandledBy, SavesFiles
  <2> QED
    BY <1>2, <1>3, <2>1, <2>2, <2>3, QuietMove
<1>14. ASSUME NEW a \in Asset, ReadPlan(r, a) PROVE RegistrationInv'
  <2>1. /\ UNCHANGED <<files, orc, log, row, created, asked, answered, gaps, todo>>
        /\ pc[r] = "rows" /\ What[r].kind = "plan" /\ row[a].there
        /\ pc' = [pc EXCEPT ![r] = "creator"] /\ readRow' = [readRow EXCEPT ![r] = row[a]]
        /\ row[a] \in RowType
    BY <1>1, <1>14 DEF ReadPlan, ReadsBack, RegistrationTyped
  <2>2. \A b : ~HandledBy(r, b)
    BY <2>1 DEF HandledBy
  <2> QED
    BY <1>1, <1>2, <1>3, <2>1, <2>2, QuietMove
<1> QED
  BY <1>5, <1>6, <1>7, <1>8, <1>9, <1>10, <1>11, <1>12, <1>13, <1>14

\* A request whose call fails, and that has not been answered.
LEMMA CallFails ==
  ASSUME RegistrationInv, NEW r \in Request, pc[r] # "new", Rejected(r),
         UNCHANGED <<orc, log, row, created, asked, readRow, answered, files>>, gaps \subseteq gaps',
         pc[r] \in {"register", "rows", "creator"}
  PROVE  RegistrationInv'
<1> USE DEF Goto, Start
<1>1. RegistrationTyped /\ files \subseteq Asset
  BY DEF RegistrationInv, RegistrationTyped
<1>2. readRow = [readRow EXCEPT ![r] = readRow[r]] /\ readRow[r] \in RowType
  BY <1>1, StaysAt
<1>3. CASE SavesFiles(r)
  <2>1. pc' = [pc EXCEPT ![r] = "clean"] /\ todo' = [todo EXCEPT ![r] = What[r].assets]
    BY <1>3 DEF Rejected
  <2>2. \A a : HandledBy(r, a) => HandledBy(r, a)'
    BY <1>1, <1>3, <2>1 DEF HandledBy, SavesFiles, RegistrationTyped
  <2> QED
    BY <1>1, <1>2, <1>3, <2>1, <2>2, QuietMove
<1>4. CASE ~SavesFiles(r)
  <2>1. pc' = [pc EXCEPT ![r] = "failed"] /\ todo' = [todo EXCEPT ![r] = {}]
    BY <1>4 DEF Rejected
  <2>2. \A a : ~HandledBy(r, a)
    BY <1>4 DEF HandledBy
  <2> QED
    BY <1>1, <1>2, <2>1, <2>2, QuietMove
<1> QED
  BY <1>3, <1>4

\* The orchestrator applies the call of a request, which learns of it or not.
LEMMA CallApplied ==
  ASSUME RegistrationInv, NEW r \in Request, pc[r] = "register", ~Conflict(r), Apply(r),
         UNCHANGED <<row, created, asked, readRow, answered, files>>, gaps \subseteq gaps',
         NEW place \in {"register", "rows", "answer", "clean", "failed"}, NEW rest \in SUBSET What[r].assets,
         pc' = [pc EXCEPT ![r] = place], todo' = [todo EXCEPT ![r] = rest],
         place = "clean" => SavesFiles(r),
         place = "rows" => rest = What[r].assets /\ What[r].kind # "rename",
         place = "answer" => What[r].kind = "rename"
  PROVE  RegistrationInv'
<1>1. RegistrationTyped /\ RequestInv(r) /\ files \subseteq Asset
  BY DEF RegistrationInv, RegistrationTyped
<1>2. readRow = [readRow EXCEPT ![r] = readRow[r]] /\ readRow[r] \in RowType
  BY <1>1, StaysAt
<1>3. /\ EventsInv' /\ Grows /\ orc' \in [Asset -> RowType] /\ log' \in Seq(EventType)
      /\ \A a \in What[r].assets :
           /\ Registered(a)' /\ What[r].managers \subseteq orc'[a].managers
           /\ Creates(r) => orc'[a] = New(a, What[r].managers)
  BY CallEvents
<1>4. pc'[r] = place /\ todo'[r] = rest
  BY <1>1 DEF RegistrationTyped
<1>5. RequestInv(r)'
  <2>1. What[r].assets \subseteq Asset
    BY AssetsOfRequest
  <2>2. (pc[r] # "new" =>
          /\ \A m \in What[r].managers : row[m].there
          /\ ~Creates(r) => \A a \in What[r].assets : row[a].there)'
    BY <1>1 DEF RequestInv, Creates, SavesFiles
  <2>3. (pc[r] \in {"rows", "creator"} =>
          /\ \A a \in What[r].assets \ todo[r] : row[a].there /\ (What[r].kind = "plan" => a \in created)
          /\ Creates(r) => \A a \in What[r].assets : row[a].there \/ orc[a] = New(a, What[r].managers))'
    BY <1>3, <1>4 DEF Creates, SavesFiles
  <2>4. (pc[r] = "answer" \/ r \in answered =>
          \A a \in What[r].assets : row[a].there /\ (What[r].kind = "plan" => a \in created))'
    BY <1>1, <1>4 DEF RequestInv, Creates, SavesFiles
  <2> QED
    BY <1>3, <1>4, <2>2, <2>3, <2>4 DEF RequestInv, SavesFiles
<1>6. \A a \in files : HandledBy(r, a) => Accounted(a)'
  BY <1>3 DEF HandledBy, Accounted
<1>7. row' \in [Asset -> RowType] /\ created' \subseteq ComputePlan
  BY <1>1 DEF RegistrationTyped
<1> QED
  BY <1>1, <1>2, <1>3, <1>5, <1>6, <1>7, RequestMoved

LEMMA CallMoves ==
  ASSUME RegistrationInv, NEW r \in Request,
         Register(r) \/ Refused(r) \/ Unreachable(r) \/ AnswerLost(r)
  PROVE  RegistrationInv'
<1> USE DEF fileVars, orcVars, rowVars
<1>1. /\ RegistrationTyped /\ RequestInv(r) /\ todo[r] \in SUBSET What[r].assets /\ files \subseteq Asset
      /\ {} \in SUBSET What[r].assets /\ What[r].assets \in SUBSET What[r].assets
  BY DEF RegistrationInv, RequestInv, RegistrationTyped
<1>2. /\ pc = [pc EXCEPT ![r] = pc[r]] /\ todo = [todo EXCEPT ![r] = todo[r]]
      /\ readRow = [readRow EXCEPT ![r] = readRow[r]] /\ readRow[r] \in RowType
  BY <1>1, StaysAt
<1>3. CASE Register(r)
  <2>1. /\ pc[r] = "register" /\ ~Conflict(r) /\ Apply(r)
        /\ UNCHANGED <<row, created, asked, readRow, answered, files, gaps>>
        /\ todo' = [todo EXCEPT ![r] = What[r].assets]
    BY <1>3 DEF Register, Start
  <2>2. CASE What[r].kind = "rename"
    <3>1. pc' = [pc EXCEPT ![r] = "answer"]
      BY <1>3, <2>2 DEF Register, Start, Goto
    <3> QED
      BY <1>1, <2>1, <2>2, <3>1, CallApplied
  <2>3. CASE What[r].kind # "rename"
    <3>1. pc' = [pc EXCEPT ![r] = "rows"]
      BY <1>3, <2>3 DEF Register, Start, Goto
    <3> QED
      BY <1>1, <2>1, <2>3, <3>1, CallApplied
  <2> QED
    BY <2>2, <2>3
<1>4. CASE Refused(r)
  <2>1. /\ pc[r] = "register" /\ Rejected(r) /\ gaps \subseteq gaps'
        /\ UNCHANGED <<orc, log, row, created, asked, readRow, answered, files>>
    BY <1>4 DEF Refused, AddGaps
  <2> QED
    BY <2>1, CallFails
<1>5. CASE Unreachable(r)
  <2>1. /\ pc[r] = "register" /\ TryAgain(r) /\ gaps \subseteq gaps'
        /\ UNCHANGED <<orc, log, row, created, asked, readRow, answered, files>>
    BY <1>5 DEF Unreachable, AddGaps
  <2>2. CASE LastTry(r)
    BY <2>1, <2>2, CallFails DEF TryAgain
  <2>3. CASE ~LastTry(r)
    <3>1. pc' = [pc EXCEPT ![r] = "register"] /\ todo' = [todo EXCEPT ![r] = todo[r]]
      BY <1>2, <2>1, <2>3 DEF TryAgain
    <3>2. \A a : HandledBy(r, a) => HandledBy(r, a)'
      BY <2>1, <2>3 DEF TryAgain, HandledBy, SavesFiles
    <3> QED
      BY <1>1, <1>2, <2>1, <3>1, <3>2, QuietMove
  <2> QED
    BY <2>2, <2>3
<1>6. CASE AnswerLost(r)
  <2>1. /\ pc[r] = "register" /\ ~Conflict(r) /\ Apply(r) /\ TryAgain(r) /\ gaps \subseteq gaps'
        /\ UNCHANGED <<row, created, asked, readRow, answered, files>>
    BY <1>6 DEF AnswerLost, AddGaps
  <2>2. CASE LastTry(r) /\ SavesFiles(r)
    <3>1. pc' = [pc EXCEPT ![r] = "clean"] /\ todo' = [todo EXCEPT ![r] = What[r].assets]
      BY <2>1, <2>2 DEF TryAgain, Rejected, Start, Goto
    <3> QED
      BY <1>1, <2>1, <2>2, <3>1, CallApplied
  <2>3. CASE LastTry(r) /\ ~SavesFiles(r)
    <3>1. pc' = [pc EXCEPT ![r] = "failed"] /\ todo' = [todo EXCEPT ![r] = {}]
      BY <2>1, <2>3 DEF TryAgain, Rejected, Start, Goto
    <3> QED
      BY <1>1, <2>1, <3>1, CallApplied
  <2>4. CASE ~LastTry(r)
    <3>1. pc' = [pc EXCEPT ![r] = "register"] /\ todo' = [todo EXCEPT ![r] = todo[r]]
      BY <1>2, <2>1, <2>4 DEF TryAgain
    <3> QED
      BY <1>1, <2>1, <3>1, CallApplied
  <2> QED
    BY <2>2, <2>3, <2>4
<1> QED
  BY <1>3, <1>4, <1>5, <1>6

\* A request writes a row.
LEMMA WriteMoves ==
  ASSUME RegistrationInv, NEW r \in Request, NEW a \in Asset,
         SaveRow(r, a) \/ SaveCreator(r, a) \/ SaveRowFails(r, a)
  PROVE  RegistrationInv'
<1> USE DEF fileVars, orcVars, rowVars, Goto, Done
<1>1. /\ RegistrationTyped /\ EventsInv /\ RequestInv(r) /\ todo[r] \in SUBSET What[r].assets
      /\ files \subseteq Asset /\ {} \in SUBSET What[r].assets /\ What[r].assets \in SUBSET What[r].assets
  BY DEF RegistrationInv, RequestInv, RegistrationTyped
<1>2. /\ pc = [pc EXCEPT ![r] = pc[r]] /\ todo = [todo EXCEPT ![r] = todo[r]]
      /\ readRow = [readRow EXCEPT ![r] = readRow[r]] /\ readRow[r] \in RowType
      /\ row[a] \in RowType /\ orc[a] \in RowType /\ created \subseteq ComputePlan
  BY <1>1, StaysAt DEF RegistrationTyped
<1>3. /\ LastIsCurrent(a) /\ RowToCome(a) /\ RowIsCurrent(a)
      /\ What[r].kind \in {"single", "samples", "models", "plan", "link", "rename"}
      /\ What[r].managers \subseteq Single
  BY <1>1, AssetsOfRequest DEF EventsInv
<1>4. ASSUME pc[r] \in {"rows", "creator"}, a \in todo[r], NEW fresh \in RowType, fresh.there,
             row' = [row EXCEPT ![a] = fresh], EventsInv', Grows,
             UNCHANGED <<orc, log, files, asked, answered>>, gaps \subseteq gaps',
             created' \subseteq ComputePlan, NEW read \in RowType, readRow' = [readRow EXCEPT ![r] = read],
             pc' = [pc EXCEPT ![r] = "rows"], todo' = [todo EXCEPT ![r] = todo[r] \ {a}],
             created \subseteq created', What[r].kind = "plan" => a \in created'
      PROVE  RegistrationInv'
  <2>1. row'[a] = fresh /\ row'[a].there /\ row' \in [Asset -> RowType] /\ \A b \in Asset : row[b].there => row'[b].there
    BY <1>1, <1>4 DEF RegistrationTyped
  <2>2. pc'[r] = "rows" /\ todo'[r] = todo[r] \ {a}
    BY <1>1, <1>4 DEF RegistrationTyped
  <2>3. What[r].assets \subseteq Asset /\ What[r].managers \subseteq Asset
    BY AssetsOfRequest DEF Asset, WithFiles
  <2>4. What[r].kind # "rename"
    BY <1>1, <1>4 DEF RequestInv
  <2>5. RequestInv(r)'
    <3>1. (pc[r] # "new" =>
            /\ \A m \in What[r].managers : row[m].there
            /\ ~Creates(r) => \A b \in What[r].assets : row[b].there)'
      BY <1>1, <1>4, <2>1, <2>3 DEF RequestInv, Creates, SavesFiles
    <3>2. (pc[r] \in {"rows", "creator", "answer"} \/ r \in answered =>
            \A b \in What[r].assets : Registered(b) /\ What[r].managers \subseteq orc[b].managers)'
      BY <1>1, <1>4 DEF RequestInv, Registered
    <3>3. \A b \in What[r].assets \ todo'[r] : row'[b].there /\ (What[r].kind = "plan" => b \in created')
      BY <1>1, <1>4, <2>1, <2>2, <2>3 DEF RequestInv
    <3>4. Creates(r) => \A b \in What[r].assets : row'[b].there \/ orc'[b] = New(b, What[r].managers)
      BY <1>1, <1>4, <2>1, <2>3 DEF RequestInv
    <3>5. (pc[r] \in {"rows", "creator"} =>
            /\ \A b \in What[r].assets \ todo[r] : row[b].there /\ (What[r].kind = "plan" => b \in created)
            /\ Creates(r) => \A b \in What[r].assets : row[b].there \/ orc[b] = New(b, What[r].managers))'
      BY <3>3, <3>4 DEF Creates, SavesFiles
    <3>6. (pc[r] = "answer" \/ r \in answered =>
            \A b \in What[r].assets : row[b].there /\ (What[r].kind = "plan" => b \in created))'
      BY <1>1, <1>4, <2>1, <2>2, <2>3 DEF RequestInv
    <3> QED
      BY <1>1, <2>2, <2>4, <3>1, <3>2, <3>5, <3>6 DEF RequestInv
  <2>6. \A b : ~HandledBy(r, b)
    BY <1>4 DEF HandledBy
  <2>7. todo[r] \ {a} \in SUBSET What[r].assets /\ orc' \in [Asset -> RowType] /\ log' \in Seq(EventType) /\ files' \subseteq Asset
    BY <1>1, <1>4 DEF RegistrationTyped
  <2> QED
    BY <1>4, <2>1, <2>5, <2>6, <2>7, RequestMoved
<1>5. CASE SaveRow(r, a)
  <2>1. /\ pc[r] = "rows" /\ a \in todo[r] /\ ~ReadsBack(r, a)
        /\ UNCHANGED <<orc, log, files, asked, answered, gaps, readRow, pc>>
        /\ created' = created \union ({a} \intersect ComputePlan)
        /\ todo' = [todo EXCEPT ![r] = todo[r] \ {a}]
    BY <1>5 DEF SaveRow
  <2>2. /\ a \in What[r].assets /\ Registered(a) /\ What[r].managers \subseteq orc[a].managers
        /\ Creates(r) => row[a].there \/ orc[a] = New(a, What[r].managers)
        /\ \A m \in What[r].managers : row[m].there
        /\ ~Creates(r) => row[a].there
        /\ Creates(r) <=> What[r].kind # "link"
    BY <1>1, <1>3, <2>1 DEF RequestInv, Creates, SavesFiles
  <2>3. created \subseteq created' /\ created' \subseteq ComputePlan /\ (What[r].kind = "plan" => a \in created')
    BY <1>2, <2>1, <2>2, KeysAreDrawn
  <2>4. CASE What[r].kind = "link"
    <3> DEFINE added == {m \in What[r].managers : row[m].there}
    <3>0. row' = [row EXCEPT ![a] =
                   IF What[r].kind = "link" THEN [row[a] EXCEPT !.managers = row[a].managers \union added]
                   ELSE IF row[a].there THEN row[a] ELSE New(a, What[r].managers)]
      BY <1>5 DEF SaveRow
    <3>1. added = What[r].managers
      BY <2>2
    <3> HIDE DEF added
    <3>2. row' = [row EXCEPT ![a] = [row[a] EXCEPT !.managers = row[a].managers \union What[r].managers]]
      BY <2>4, <3>0, <3>1
    <3>3. PICK fresh : fresh = [row[a] EXCEPT !.managers = row[a].managers \union What[r].managers]
      OBVIOUS
    <3>4. /\ fresh \in RowType /\ fresh.there /\ fresh.managers = row[a].managers \union What[r].managers
          /\ fresh.name = row[a].name /\ fresh.address = row[a].address
      BY <1>2, <1>3, <2>2, <2>4, <3>3 DEF RowType
    <3>5. row' = [row EXCEPT ![a] = fresh] /\ row'[a] = fresh
      BY <1>1, <3>2, <3>3 DEF RegistrationTyped
    <3>6. RowIsCurrent(a)'
      <4>1. \A k : Pending(k, a)' <=> Pending(k, a)
        BY <2>1 DEF Pending, At
      <4>2. row[a].managers = orc[a].managers => fresh.managers = orc[a].managers
        BY <2>2, <3>4
      <4> QED
        BY <1>3, <2>1, <2>2, <2>4, <3>4, <3>5, <4>1, <4>2 DEF RowIsCurrent, Registered
    <3>7. EventsInv' /\ Grows
      BY <1>1, <2>1, <2>3, <3>4, <3>5, <3>6, RowWritten
    <3> QED
      BY <1>2, <1>4, <2>1, <2>3, <3>4, <3>5, <3>7
  <2>5. CASE What[r].kind # "link"
    <3>1. PICK fresh : fresh = IF row[a].there THEN row[a] ELSE New(a, What[r].managers)
      OBVIOUS
    <3>2. row' = [row EXCEPT ![a] = fresh] /\ row'[a] = fresh
      BY <1>1, <1>5, <2>5, <3>1 DEF SaveRow, RegistrationTyped
    <3>3. /\ (fresh = row[a] /\ row[a].there) \/ fresh = orc[a]
          /\ fresh \in RowType /\ fresh.there
      <4>1. CASE row[a].there
        BY <1>2, <3>1, <4>1
      <4>2. CASE ~row[a].there
        BY <1>2, <2>2, <2>5, <3>1, <4>2 DEF Registered
      <4> QED
        BY <4>1, <4>2
    <3>4. RowIsCurrent(a)'
      <4>1. \A k : Pending(k, a)' <=> Pending(k, a)
        BY <2>1 DEF Pending, At
      <4>2. CASE fresh = row[a] /\ row[a].there
        BY <1>3, <2>1, <3>2, <4>1, <4>2 DEF RowIsCurrent, Registered
      <4>3. CASE fresh = orc[a]
        BY <2>1, <2>2, <3>2, <4>3 DEF RowIsCurrent, Registered
      <4> QED
        BY <3>3, <4>2, <4>3
    <3>5. EventsInv' /\ Grows
      BY <1>1, <2>1, <2>3, <3>2, <3>3, <3>4, RowWritten
    <3> QED
      BY <1>2, <1>4, <2>1, <2>3, <3>2, <3>3, <3>5
  <2> QED
    BY <2>4, <2>5
<1>6. CASE SaveCreator(r, a)
  <2>1. /\ pc[r] = "creator" /\ a \in todo[r] /\ gaps \subseteq gaps'
        /\ row' = [row EXCEPT ![a] = readRow[r]] /\ created' = created \union {a}
        /\ UNCHANGED <<orc, log, files, asked, answered>>
        /\ todo' = [todo EXCEPT ![r] = todo[r] \ {a}] /\ pc' = [pc EXCEPT ![r] = "rows"]
        /\ readRow' = [readRow EXCEPT ![r] = None]
        /\ row[a] = readRow[r] \/ <<a, "stale">> \in gaps'
    BY <1>6 DEF SaveCreator, AddGaps
  <2>2. /\ What[r].kind = "plan" /\ readRow[r].there /\ Registered(a) /\ a \in What[r].assets
        /\ None \in RowType
    BY <1>1, <2>1 DEF RequestInv, None, RowType
  <2>3. a \in ComputePlan /\ created' \subseteq ComputePlan /\ created \subseteq created'
    BY <1>2, <2>1, <2>2, KeysAreDrawn
  <2>4. RowIsCurrent(a)'
    <3>0. row'[a] = readRow[r]
      BY <1>1, <2>1 DEF RegistrationTyped
    <3>1. CASE <<a, "stale">> \in gaps'
      BY <2>1, <2>2, <2>3, <3>1 DEF RowIsCurrent, Registered
    <3>2. CASE row[a] = readRow[r] /\ <<a, "stale">> \notin gaps'
      <4>1. \A k : Pending(k, a)' <=> Pending(k, a)
        BY <2>1 DEF Pending, At
      <4>2. row'[a] = row[a] /\ orc'[a] = orc[a] /\ <<a, "stale">> \notin gaps
        BY <2>1, <3>0, <3>2
      <4> QED
        BY <1>3, <3>2, <4>1, <4>2 DEF RowIsCurrent, Registered
    <3> QED
      BY <2>1, <3>1, <3>2
  <2>5. EventsInv' /\ Grows
    BY <1>1, <1>2, <2>1, <2>2, <2>3, <2>4, RowWritten
  <2> QED
    BY <1>2, <1>4, <2>1, <2>2, <2>3, <2>5
<1>7. CASE SaveRowFails(r, a)
  <2>1. /\ pc[r] \in {"rows", "creator"} /\ a \in todo[r]
        /\ UNCHANGED <<orc, log, row, created, asked, readRow, answered, files>>
        /\ \/ Start(r, "failed", {}) /\ UNCHANGED gaps
           \/ What[r].kind = "models" /\ todo' = [todo EXCEPT ![r] = What[r].assets] /\ UNCHANGED <<pc, gaps>>
           \/ Rejected(r) /\ gaps \subseteq gaps'
    BY <1>7 DEF SaveRowFails, AddGaps
  <2>2. \A b : ~HandledBy(r, b)
    BY <2>1 DEF HandledBy
  <2>3. CASE Start(r, "failed", {}) /\ UNCHANGED gaps
    <3>1. pc' = [pc EXCEPT ![r] = "failed"] /\ todo' = [todo EXCEPT ![r] = {}]
      BY <2>3 DEF Start
    <3> QED
      BY <1>1, <1>2, <2>1, <2>2, <2>3, <3>1, QuietMove
  <2>4. CASE What[r].kind = "models" /\ todo' = [todo EXCEPT ![r] = What[r].assets] /\ UNCHANGED <<pc, gaps>>
    <3>1. pc[r] = "rows"
      BY <1>1, <2>1, <2>4 DEF RequestInv
    <3> QED
      BY <1>1, <1>2, <2>1, <2>2, <2>4, <3>1, QuietMove
  <2>5. CASE Rejected(r) /\ gaps \subseteq gaps'
    BY <2>1, <2>5, CallFails
  <2> QED
    BY <2>1, <2>3, <2>4, <2>5
<1> QED
  BY <1>5, <1>6, <1>7

\* The consumer, and the removal of a model.
LEMMA OutsideMoves ==
  ASSUME RegistrationInv,
         \/ ConsumeEvent \/ Rest \/ UNCHANGED vars
         \/ \E x \in Model : DisableModel(x) \/ RemoveModel(x)
  PROVE  RegistrationInv'
<1> USE DEF fileVars, orcVars, rowVars, requestVars
<1>1. RegistrationTyped /\ EventsInv /\ InstancesInv /\ \A q \in Request : RequestInv(q)
  BY DEF RegistrationInv
<1>2. ASSUME EventsInv', Grows, RegistrationTyped', UNCHANGED requestVars, gaps' = gaps, files' \subseteq files
      PROVE  RegistrationInv'
  <2>1. \A q \in Request : RequestInv(q)'
    BY <1>1, <1>2, RequestStays
  <2>2. InstancesInv'
    <3>1. \A a \in Asset : Accounted(a) => Accounted(a)'
      BY <1>2 DEF Grows, Accounted
    <3>2. \A q, a : HandledBy(q, a) => HandledBy(q, a)'
      BY <1>2 DEF HandledBy, SavesFiles
    <3>3. files' \subseteq Asset
      BY <1>1, <1>2 DEF RegistrationTyped
    <3> QED
      BY <1>1, <1>2, <3>1, <3>2, <3>3 DEF InstancesInv
  <2> QED
    BY <1>2, <2>1, <2>2 DEF RegistrationInv
<1>3. CASE ConsumeEvent
  <2>1. EventsInv' /\ Grows /\ row' \in [Asset -> RowType] /\ log' \in Seq(EventType)
    BY <1>3, ConsumedEvents
  <2>2. UNCHANGED <<orc, created, requestVars, gaps, files>>
    BY <1>3 DEF ConsumeEvent
  <2>3. RegistrationTyped'
    BY <1>1, <2>1, <2>2 DEF RegistrationTyped
  <2> QED
    BY <1>2, <2>1, <2>2, <2>3
<1>4. ASSUME NEW x \in Model, DisableModel(x) PROVE RegistrationInv'
  <2>1. EventsInv' /\ Grows /\ orc' \in [Asset -> RowType] /\ log' \in Seq(EventType)
    BY <1>4, DisableEvents
  <2>2. UNCHANGED <<row, created, requestVars, gaps, files>>
    BY <1>4 DEF DisableModel
  <2>3. RegistrationTyped'
    BY <1>1, <2>1, <2>2 DEF RegistrationTyped
  <2> QED
    BY <1>2, <2>1, <2>2, <2>3
<1>5. ASSUME UNCHANGED <<orc, log, row, created, requestVars, gaps>>, files' \subseteq files
      PROVE  RegistrationInv'
  <2>1. Grows
    BY <1>5 DEF Grows, Registered
  <2>2. RegistrationTyped'
    BY <1>1, <1>5 DEF RegistrationTyped
  <2>3. EventsInv'
    <3>1. ManagersHaveRows'
      BY <1>1, <1>5 DEF EventsInv, ManagersHaveRows
    <3>2. ASSUME NEW a \in Asset PROVE LastIsCurrent(a)' /\ RowToCome(a)' /\ RowIsCurrent(a)'
      <4>1. LastIsCurrent(a) /\ RowToCome(a) /\ RowIsCurrent(a)
        BY <1>1 DEF EventsInv
      <4>2. LastIsCurrent(a)'
        BY <1>5, <4>1 DEF LastIsCurrent, Pending, At
      <4>3. RowToCome(a)'
        BY <1>5, <4>1 DEF RowToCome, Pending, At, Registered
      <4>4. RowIsCurrent(a)'
        BY <1>5, <4>1 DEF RowIsCurrent, Pending, At, Registered
      <4> QED
        BY <4>2, <4>3, <4>4
    <3> QED
      BY <3>1, <3>2 DEF EventsInv
  <2> QED
    BY <1>2, <1>5, <2>1, <2>2, <2>3
<1>6. ASSUME NEW x \in Model, RemoveModel(x) PROVE RegistrationInv'
  BY <1>5, <1>6 DEF RemoveModel
<1>7. CASE Rest \/ UNCHANGED vars
  BY <1>5, <1>7 DEF Rest, vars
<1> QED
  BY <1>3, <1>4, <1>6, <1>7

\* What the invariant says when everything is at rest.
LEMMA RowsAtRest ==
  ASSUME RegistrationInv, Quiet, NEW a \in Asset
  PROVE  row[a] = orc[a] \/ (<<a, "stale">> \in gaps /\ a \in ComputePlan)
<1>1. log = <<>> /\ \A k : ~Pending(k, a)
  BY DEF Quiet, Pending
<1>2. RowToCome(a) /\ RowIsCurrent(a) /\ row[a] \in RowType /\ orc[a] \in RowType
  BY DEF RegistrationInv, EventsInv, RegistrationTyped
<1>3. CASE ~row[a].there
  BY <1>1, <1>2, <1>3 DEF RowToCome
<1>4. CASE row[a].there /\ ~(<<a, "stale">> \in gaps /\ a \in ComputePlan)
  <2>1. /\ row[a].managers = orc[a].managers /\ row[a].name = orc[a].name
        /\ row[a].address = orc[a].address /\ orc[a].there
    BY <1>1, <1>2, <1>4 DEF RowIsCurrent, Registered
  <2> QED
    BY <1>2, <1>4, <2>1 DEF RowType
<1> QED
  BY <1>3, <1>4

LEMMA RegistrationsAtRest == RegistrationInv => RegistrationsHold
<1> SUFFICES ASSUME RegistrationInv PROVE RegistrationsHold
  OBVIOUS
<1>1. RegistrationTyped /\ EventsInv /\ InstancesInv /\ \A q \in Request : RequestInv(q)
  BY DEF RegistrationInv
<1>2. AnswersHold
  <2> SUFFICES ASSUME NEW r \in answered, NEW a \in What[r].assets
               PROVE  /\ Registered(a) /\ row[a].there
                      /\ What[r].kind = "plan" => a \in created
                      /\ Quiet => What[r].managers \subseteq row[a].managers
    BY DEF AnswersHold
  <2>1. r \in Request /\ a \in Asset
    BY <1>1, AssetsOfRequest DEF RegistrationTyped
  <2>2. /\ Registered(a) /\ row[a].there /\ What[r].managers \subseteq orc[a].managers
        /\ What[r].kind = "plan" => a \in created
    BY <1>1, <2>1 DEF RequestInv
  <2>3. a \in ComputePlan => What[r].managers = {}
    <3>1. a \in ComputePlan => a \notin Sample /\ a \notin WithFiles
      BY AssetRegistrationAssumption DEF WithFiles
    <3>2. What[r].kind \in {"single", "samples", "models", "plan", "link", "rename"}
      BY <2>1, AssetsOfRequest
    <3> QED
      BY <2>1, <3>1, <3>2, KeysAreDrawn, RegistrationAssumption DEF SavesFiles
  <2> QED
    BY <2>1, <2>2, <2>3, RowsAtRest
<1>3. NothingLeftBehind
  <2> SUFFICES ASSUME Quiet, NEW a \in files PROVE Accounted(a)
    BY DEF NothingLeftBehind, Accounted
  <2>1. \A r \in Request : ~HandledBy(r, a)
    BY DEF Quiet, Idle, HandledBy
  <2> QED
    BY <1>1, <2>1 DEF InstancesInv
<1>4. RowsFollow
  BY RowsAtRest DEF RowsFollow
<1> QED
  BY <1>2, <1>3, <1>4 DEF RegistrationsHold

\* A registration that was answered is at the orchestrator and in the rows, one
\* that failed leaves nothing behind that is not accounted for, and once all events
\* are handled the rows are what the orchestrator has, although requests, the
\* consumer, events that are handled again, faults and crashes come in any order.
THEOREM RowsFollowTheOrchestrator == Spec => []RegistrationsHold
<1>1. Init => RegistrationInv
  BY RegistrationStarts
<1>2. RegistrationInv /\ [Next]_vars => RegistrationInv'
  <2> SUFFICES ASSUME RegistrationInv, [Next]_vars PROVE RegistrationInv'
    OBVIOUS
  <2>1. ASSUME NEW r \in Request, Receive(r) \/ RequestStep(r) \/ RequestFault(r)
        PROVE  RegistrationInv'
    <3>1. CASE \/ Receive(r) \/ FilesSaved(r) \/ Cleaned(r) \/ Crash(r) \/ Answer(r) \/ RowsSaved(r)
               \/ \E a \in Asset : SaveFile(r, a) \/ SaveFileFails(r, a) \/ DeleteInstance(r, a) \/ ReadPlan(r, a)
      BY <3>1, FilesMoves
    <3>2. CASE Register(r) \/ Refused(r) \/ Unreachable(r) \/ AnswerLost(r)
      BY <3>2, CallMoves
    <3>3. ASSUME NEW a \in Asset, SaveRow(r, a) \/ SaveCreator(r, a) \/ SaveRowFails(r, a)
          PROVE  RegistrationInv'
      BY <3>3, WriteMoves
    <3> QED
      BY <2>1, <3>1, <3>2, <3>3 DEF RequestStep, RequestFault
  <2> QED
    BY <2>1, OutsideMoves DEF Next
<1> QED
  BY <1>1, <1>2, RegistrationsAtRest, PTL DEF Spec

-----------------------------------------------------------------------------
(* AssetRegistration: what is registered keeps its files. *)

USE DEF WithFiles, Asset

\* The types the invariant needs.
KeptTyped ==
  /\ orc = [a \in Asset |-> [there |-> orc[a].there, managers |-> orc[a].managers,
                             name |-> orc[a].name, address |-> orc[a].address]]
  /\ pc = [r \in Request |-> pc[r]]
  /\ todo = [r \in Request |-> todo[r]]

Kept(a) == a \in files /\ a \in blobs
Excused(a) == <<a, "lost">> \in gaps \/ <<a, "row">> \in gaps

\* What a request that creates assets with files knows: those of its loop over
\* the files are there once they are saved, until the orchestrator has them
\* all; and it removes only those the orchestrator does not have, as far as it
\* knows.
Sound(r) ==
  /\ todo[r] \subseteq What[r].assets
  /\ pc[r] \in {"files", "clean"} => SavesFiles(r)
  /\ pc[r] = "files" => \A a \in What[r].assets \ todo[r] : Registered(a) \/ Kept(a)
  /\ pc[r] = "register" /\ SavesFiles(r) => \A a \in What[r].assets : Registered(a) \/ Kept(a)
  /\ pc[r] = "clean" => \A a \in What[r].assets : ~Registered(a) \/ Excused(a)

\* A disabled model was registered, and stays so.
KeptInv ==
  /\ KeptTyped
  /\ \A a \in disabled : a \in Asset /\ Registered(a)
  /\ \A r \in Request : Sound(r)
  /\ RegisteredHasFiles

\* The assets of a request are assets.
LEMMA AssetsOf == \A r \in Request : What[r].assets \subseteq Asset
  BY AssetRegistrationAssumption DEF RequestType

\* The initial states satisfy the invariant.
LEMMA KeptStarts == Init => KeptInv
<1> SUFFICES ASSUME Init PROVE KeptInv
  OBVIOUS
<1>1. KeptTyped
  BY DEF Init, KeptTyped, None, New
<1>2. \A r \in Request : Sound(r)
  BY DEF Init, Sound
<1>3. RegisteredHasFiles
  BY DEF Init, RegisteredHasFiles, Registered, None
<1> QED
  BY <1>1, <1>2, <1>3 DEF KeptInv, Init

\* A request that moves on, where only notes of what went wrong are added,
\* disturbs no other request.
LEMMA Moves ==
  ASSUME KeptInv, NEW r \in Request, NEW place, NEW rest,
         pc' = [pc EXCEPT ![r] = place], todo' = [todo EXCEPT ![r] = rest],
         UNCHANGED <<files, blobs, orc, disabled>>, gaps \subseteq gaps',
         Sound(r)'
  PROVE  KeptInv'
<1> USE DEF KeptInv
<1>1. KeptTyped'
  BY DEF KeptTyped
<1>2. ASSUME NEW q \in Request PROVE Sound(q)'
  <2>1. CASE q = r
    BY <2>1
  <2>2. CASE q # r
    BY <2>2 DEF KeptTyped, Sound, Registered, Kept, Excused
  <2> QED
    BY <2>1, <2>2
<1>3. RegisteredHasFiles'
  BY DEF RegisteredHasFiles, Registered
<1> QED
  BY <1>1, <1>2, <1>3 DEF Registered

\* What the orchestrator knows after a call: the assets that are created too.
LEMMA Applying ==
  ASSUME KeptTyped, NEW r \in Request, Apply(r)
  PROVE  /\ orc' = [a \in Asset |-> [there |-> orc'[a].there, managers |-> orc'[a].managers,
                                     name |-> orc'[a].name, address |-> orc'[a].address]]
         /\ \A a \in Asset :
              Registered(a)' <=> Registered(a) \/ (Creates(r) /\ a \in What[r].assets)
         /\ disabled' = disabled
<1> DEFINE w == What[r]
           changed(a) ==
             IF a \notin w.assets THEN orc[a]
             ELSE CASE w.kind = "link" -> [orc[a] EXCEPT !.managers = @ \union w.managers]
                    [] w.kind = "rename" -> [orc[a] EXCEPT !.name = @ + 1]
                    [] OTHER -> New(a, w.managers)
<1>1. orc' = [a \in Asset |-> changed(a)] /\ disabled' = disabled
  BY DEF Apply
<1>2. w.kind \in {"single", "samples", "models", "plan", "link", "rename"}
  BY AssetRegistrationAssumption DEF RequestType
<1>3. ASSUME NEW a \in Asset
      PROVE  /\ changed(a) = [there |-> changed(a).there, managers |-> changed(a).managers,
                              name |-> changed(a).name, address |-> changed(a).address]
             /\ changed(a).there <=> orc[a].there \/ (Creates(r) /\ a \in w.assets)
  <2>1. orc[a] = [there |-> orc[a].there, managers |-> orc[a].managers,
                  name |-> orc[a].name, address |-> orc[a].address]
    BY DEF KeptTyped
  <2>2. CASE a \notin w.assets
    BY <2>1, <2>2
  <2>3. CASE a \in w.assets /\ w.kind = "link"
    BY <2>1, <2>3 DEF Creates, SavesFiles
  <2>4. CASE a \in w.assets /\ w.kind = "rename"
    BY <2>1, <2>4 DEF Creates, SavesFiles
  <2>5. CASE a \in w.assets /\ w.kind \notin {"link", "rename"}
    BY <2>5, <1>2 DEF Creates, SavesFiles, New
  <2> QED
    BY <2>2, <2>3, <2>4, <2>5
<1> HIDE DEF changed
<1> QED
  BY <1>1, <1>3 DEF Registered

\* A call that the orchestrator applies: its files are kept, and no other
\* request that cleans up creates the same assets.
LEMMA Called ==
  ASSUME KeptInv, NEW r \in Request, NEW place, NEW rest,
         pc[r] = "register", ~Conflict(r), Apply(r),
         pc' = [pc EXCEPT ![r] = place], todo' = [todo EXCEPT ![r] = rest],
         UNCHANGED <<files, blobs>>, gaps \subseteq gaps',
         Sound(r)'
  PROVE  KeptInv'
<1> USE DEF KeptInv
<1>1. KeptTyped'
  BY Applying DEF KeptTyped
<1>2. disabled' = disabled /\ \A a \in Asset : Registered(a) => Registered(a)'
  BY Applying
<1>3. ASSUME NEW a \in Asset, Registered(a)', ~Registered(a)
      PROVE  Creates(r) /\ a \in What[r].assets
  BY <1>3, Applying
<1>4. ASSUME NEW q \in Request PROVE Sound(q)'
  <2>1. CASE q = r
    BY <2>1
  <2>2. CASE q # r
    <3>1. pc'[q] = pc[q] /\ todo'[q] = todo[q]
      BY <2>2 DEF KeptTyped
    <3>2. ASSUME pc[q] = "clean", NEW a \in What[q].assets, Registered(a)', ~Registered(a)
          PROVE  FALSE
      <4>1. SavesFiles(q) /\ a \in Asset
        BY <3>2, AssetsOf DEF Sound
      <4>2. Creates(r) /\ a \in What[r].assets
        BY <1>3, <3>2, <4>1
      <4> QED
        BY <2>2, <3>2, <4>1, <4>2, KeysAreDrawn, AssetRegistrationAssumption DEF Creates
    <3> QED
      BY <1>2, <3>1, <3>2, AssetsOf DEF Sound, Kept, Excused
  <2> QED
    BY <2>1, <2>2
<1>5. RegisteredHasFiles'
  <2> SUFFICES ASSUME NEW a \in WithFiles \ disabled, Registered(a)'
               PROVE  Kept(a)' \/ Excused(a)'
    BY <1>2 DEF RegisteredHasFiles, Kept, Excused
  <2>1. CASE Registered(a)
    BY <2>1 DEF RegisteredHasFiles, Kept, Excused
  <2>2. CASE ~Registered(a)
    <3>1. Creates(r) /\ a \in What[r].assets
      BY <1>3, <2>2
    <3>2. What[r].kind # "plan"
      BY <3>1, KeysAreDrawn, AssetRegistrationAssumption
    <3> QED
      BY <2>2, <3>1, <3>2 DEF Creates, Sound, Kept
  <2> QED
    BY <2>1, <2>2
<1> QED
  BY <1>1, <1>2, <1>4, <1>5

\* A request that its call failed removes only what is not registered, or what
\* is noted as lost or without a row.
LEMMA Rejecting ==
  ASSUME KeptInv, NEW r \in Request, Rejected(r),
         UNCHANGED <<files, blobs, disabled>>, gaps \subseteq gaps',
         \/ UNCHANGED orc
         \/ pc[r] = "register" /\ ~Conflict(r) /\ Apply(r),
         SavesFiles(r) => \A a \in What[r].assets : ~Registered(a)' \/ Excused(a)'
  PROVE  KeptInv'
<1> USE DEF Rejected, Start, Goto
<1>1. CASE SavesFiles(r)
  <2>1. Sound(r)'
    BY <1>1 DEF KeptInv, KeptTyped, Sound, SavesFiles
  <2> QED
    BY <1>1, <2>1, Moves, Called
<1>2. CASE ~SavesFiles(r)
  <2>1. Sound(r)'
    BY <1>2 DEF KeptInv, KeptTyped, Sound, SavesFiles
  <2> QED
    BY <1>2, <2>1, Moves, Called
<1> QED
  BY <1>1, <1>2

\* Steps 1 of a request: its files.
LEMMA FilesStep ==
  ASSUME KeptInv, NEW r \in Request,
         \/ Receive(r) \/ FilesSaved(r)
         \/ \E a \in Asset : SaveFile(r, a) \/ SaveFileFails(r, a)
  PROVE  KeptInv'
<1> USE DEF fileVars, orcVars, rowVars, Start, Goto
<1>1. CASE Receive(r)
  <2>1. Sound(r)'
    BY <1>1 DEF Receive, KeptInv, KeptTyped, Sound, SavesFiles
  <2> QED
    BY <1>1, <2>1, Moves DEF Receive
<1>2. CASE FilesSaved(r)
  <2>1. Sound(r)'
    BY <1>2 DEF FilesSaved, KeptInv, KeptTyped, Sound, SavesFiles, Registered, Kept
  <2> QED
    BY <1>2, <2>1, Moves DEF FilesSaved
<1>3. ASSUME NEW a \in Asset, SaveFile(r, a) PROVE KeptInv'
  <2>1. KeptTyped'
    BY <1>3 DEF SaveFile, Done, KeptInv, KeptTyped
  <2>2. ASSUME NEW q \in Request PROVE Sound(q)'
    BY <1>3 DEF SaveFile, Done, KeptInv, KeptTyped, Sound, SavesFiles, Registered, Kept, Excused
  <2>3. RegisteredHasFiles'
    BY <1>3 DEF SaveFile, KeptInv, RegisteredHasFiles, Registered
  <2> QED
    BY <1>3, <2>1, <2>2, <2>3 DEF SaveFile, KeptInv, Registered
<1>4. ASSUME NEW a \in Asset, SaveFileFails(r, a) PROVE KeptInv'
  <2>1. /\ files \subseteq files' /\ blobs \subseteq blobs' /\ gaps \subseteq gaps'
        /\ UNCHANGED <<orcVars, todo>> /\ pc' = [pc EXCEPT ![r] = "failed"]
    BY <1>4 DEF SaveFileFails, AddGaps
  <2>2. KeptTyped'
    BY <2>1 DEF KeptInv, KeptTyped
  <2>3. ASSUME NEW q \in Request PROVE Sound(q)'
    BY <2>1 DEF KeptInv, KeptTyped, Sound, SavesFiles, Registered, Kept, Excused
  <2>4. RegisteredHasFiles'
    BY <2>1 DEF KeptInv, RegisteredHasFiles, Registered
  <2> QED
    BY <2>1, <2>2, <2>3, <2>4 DEF KeptInv, Registered
<1> QED
  BY <1>1, <1>2, <1>3, <1>4

\* Step 2: the orchestrator.
LEMMA CallStep ==
  ASSUME KeptInv, NEW r \in Request,
         Register(r) \/ Refused(r) \/ Unreachable(r) \/ AnswerLost(r)
  PROVE  KeptInv'
<1> USE DEF fileVars, orcVars, rowVars
<1>1. CASE Register(r)
  <2>1. Sound(r)'
    BY <1>1 DEF Register, Start, Goto, KeptInv, KeptTyped, Sound
  <2> QED
    BY <1>1, <2>1, Called DEF Register, Start, Goto
<1>2. CASE Refused(r)
  <2>1. SavesFiles(r) => \A a \in What[r].assets : ~Registered(a)' \/ Excused(a)'
    BY <1>2 DEF Refused, AddGaps, Conflict, Creates, Registered, Excused
  <2> QED
    BY <1>2, <2>1, Rejecting DEF Refused, AddGaps
<1>3. CASE Unreachable(r)
  <2>1. CASE ~LastTry(r)
    <3>1. pc' = pc /\ todo' = todo /\ gaps' = gaps
      BY <1>3, <2>1 DEF Unreachable, TryAgain
    <3>2. Sound(r)'
      BY <1>3, <3>1 DEF Unreachable, KeptInv, Sound, SavesFiles, Registered, Kept, Excused
    <3> QED
      BY <1>3, <3>1, <3>2, Moves DEF Unreachable, KeptInv, KeptTyped
  <2>2. CASE LastTry(r)
    <3>1. SavesFiles(r) => \A a \in What[r].assets : ~Registered(a)' \/ Excused(a)'
      BY <1>3, <2>2 DEF Unreachable, AddGaps, Conflict, Creates, Registered, Excused
    <3> QED
      BY <1>3, <2>2, <3>1, Rejecting DEF Unreachable, TryAgain, AddGaps
  <2> QED
    BY <2>1, <2>2
<1>4. CASE AnswerLost(r)
  <2>1. CASE ~LastTry(r)
    <3>1. pc' = pc /\ todo' = todo /\ gaps' = gaps
      BY <1>4, <2>1 DEF AnswerLost, TryAgain
    <3>2. Sound(r)'
      BY <1>4, <3>1, Applying, AssetsOf DEF AnswerLost, KeptInv, Sound, SavesFiles, Kept, Excused
    <3> QED
      BY <1>4, <3>1, <3>2, Called DEF AnswerLost, KeptInv, KeptTyped
  <2>2. CASE LastTry(r)
    <3>1. SavesFiles(r) => \A a \in What[r].assets : Excused(a)'
      BY <1>4, <2>2 DEF AnswerLost, AddGaps, Creates, Excused
    <3>2. disabled' = disabled
      BY <1>4, Applying DEF AnswerLost, KeptInv
    <3> QED
      BY <1>4, <2>2, <3>1, <3>2, Rejecting DEF AnswerLost, TryAgain, AddGaps
  <2> QED
    BY <2>1, <2>2
<1> QED
  BY <1>1, <1>2, <1>3, <1>4

\* Step 3: the rows, the clean-up, and the end of a request.
LEMMA RowsStep ==
  ASSUME KeptInv, NEW r \in Request,
         \/ RowsSaved(r) \/ Answer(r) \/ Cleaned(r) \/ Crash(r)
         \/ \E a \in Asset : \/ SaveRow(r, a) \/ SaveRowFails(r, a) \/ ReadPlan(r, a)
                            \/ SaveCreator(r, a) \/ DeleteInstance(r, a)
  PROVE  KeptInv'
<1> USE DEF fileVars, orcVars, rowVars, Goto
<1>1. ASSUME NEW place \in {"rows", "creator", "answer", "done", "failed"}, NEW rest,
             pc' = [pc EXCEPT ![r] = place], todo' = [todo EXCEPT ![r] = rest],
             rest \subseteq What[r].assets,
             UNCHANGED <<files, blobs, orc, disabled>>, gaps \subseteq gaps'
      PROVE  KeptInv'
  <2>1. Sound(r)'
    BY <1>1 DEF KeptInv, KeptTyped, Sound
  <2> QED
    BY <1>1, <2>1, Moves
<1>2. todo = [todo EXCEPT ![r] = todo[r]] /\ pc = [pc EXCEPT ![r] = pc[r]]
  BY DEF KeptInv, KeptTyped
<1>3. todo[r] \subseteq What[r].assets
  BY DEF KeptInv, Sound
<1>4. CASE RowsSaved(r) \/ Answer(r) \/ Cleaned(r) \/ Crash(r)
  BY <1>1, <1>2, <1>3, <1>4 DEF RowsSaved, Answer, Cleaned, Crash, Start, AddGaps
<1>5. ASSUME NEW a \in Asset, SaveRow(r, a) \/ ReadPlan(r, a) PROVE KeptInv'
  BY <1>1, <1>2, <1>3, <1>5 DEF SaveRow, ReadPlan, Done
<1>6. ASSUME NEW a \in Asset, SaveCreator(r, a) PROVE KeptInv'
  BY <1>1, <1>2, <1>3, <1>6 DEF SaveCreator, Done, AddGaps
<1>7. ASSUME NEW a \in Asset, SaveRowFails(r, a) PROVE KeptInv'
  <2>1. CASE Rejected(r) /\ AddGaps(What[r].assets, "row")
    BY <1>7, <2>1, Rejecting DEF SaveRowFails, AddGaps, Excused
  <2>2. CASE Start(r, "failed", {}) /\ UNCHANGED gaps
    BY <1>1, <1>7, <2>2 DEF SaveRowFails, Start
  <2>3. CASE todo' = [todo EXCEPT ![r] = What[r].assets] /\ UNCHANGED <<pc, gaps>>
    BY <1>1, <1>2, <1>7, <2>3 DEF SaveRowFails
  <2> QED
    BY <1>7, <2>1, <2>2, <2>3 DEF SaveRowFails
<1>8. ASSUME NEW a \in Asset, DeleteInstance(r, a) PROVE KeptInv'
  <2>1. /\ files \ {a} \subseteq files' /\ blobs \ {a} \subseteq blobs'
        /\ UNCHANGED <<orcVars, pc, gaps>> /\ Done(r, a)
    BY <1>8 DEF DeleteInstance
  <2>2. SavesFiles(r) /\ a \in What[r].assets /\ (~Registered(a) \/ Excused(a))
    BY <1>8 DEF DeleteInstance, KeptInv, Sound
  <2>3. KeptTyped'
    BY <2>1 DEF Done, KeptInv, KeptTyped
  <2>4. ASSUME NEW q \in Request PROVE Sound(q)'
    <3>1. CASE q = r
      <4>1. pc'[r] = "clean" /\ todo'[r] \subseteq todo[r]
        BY <1>8, <2>1 DEF DeleteInstance, Done, KeptInv, KeptTyped
      <4>2. /\ SavesFiles(r) /\ todo[r] \subseteq What[r].assets
            /\ \A b \in What[r].assets : ~Registered(b) \/ Excused(b)
        BY <1>8 DEF DeleteInstance, KeptInv, Sound
      <4> QED
        BY <2>1, <3>1, <4>1, <4>2 DEF Sound, SavesFiles, Registered, Excused
    <3>2. CASE q # r
      <4>1. SavesFiles(q) => a \notin What[q].assets
        BY <2>2, <3>2, KeysAreDrawn
      <4> QED
        BY <2>1, <3>2, <4>1
        DEF Done, KeptInv, KeptTyped, Sound, SavesFiles, Registered, Kept, Excused
    <3> QED
      BY <3>1, <3>2
  <2>5. RegisteredHasFiles'
    BY <2>1, <2>2 DEF KeptInv, RegisteredHasFiles, Registered, Excused
  <2> QED
    BY <2>1, <2>3, <2>4, <2>5 DEF KeptInv, Registered
<1> QED
  BY <1>4, <1>5, <1>6, <1>7, <1>8

\* The consumer, and the removal of a model.
LEMMA OutsideStep ==
  ASSUME KeptInv,
         \/ ConsumeEvent \/ Rest \/ UNCHANGED vars
         \/ \E a \in Model : DisableModel(a) \/ RemoveModel(a)
  PROVE  KeptInv'
<1> USE DEF fileVars, orcVars, rowVars, requestVars
<1>1. CASE UNCHANGED <<files, blobs, orc, disabled, requestVars, gaps>>
  BY <1>1 DEF KeptInv, KeptTyped, Sound, SavesFiles, Registered, Kept, Excused, RegisteredHasFiles
<1>2. CASE ConsumeEvent \/ Rest \/ UNCHANGED vars
  BY <1>1, <1>2 DEF ConsumeEvent, Rest, vars
<1>3. ASSUME NEW a \in Model, DisableModel(a) PROVE KeptInv'
  <2>1. /\ UNCHANGED <<fileVars, requestVars, gaps>> /\ Registered(a)
        /\ disabled' = disabled \union {a} /\ orc' = [orc EXCEPT ![a].address = FALSE]
    BY <1>3 DEF DisableModel
  <2>2. KeptTyped'
    <3>1. ASSUME NEW b \in Asset
          PROVE  orc'[b] = IF b = a THEN [orc[a] EXCEPT !.address = FALSE] ELSE orc[b]
      BY <2>1 DEF KeptInv, KeptTyped
    <3>2. ASSUME NEW b \in Asset
          PROVE  orc'[b] = [there |-> orc'[b].there, managers |-> orc'[b].managers,
                            name |-> orc'[b].name, address |-> orc'[b].address]
      BY <3>1 DEF KeptInv, KeptTyped
    <3> QED
      BY <2>1, <3>2 DEF KeptInv, KeptTyped
  <2>3. ASSUME NEW b \in Asset PROVE Registered(b)' <=> Registered(b)
    BY <2>1 DEF KeptInv, KeptTyped, Registered
  <2>4. ASSUME NEW q \in Request PROVE Sound(q)'
    BY <2>1, <2>3, AssetsOf DEF KeptInv, Sound, SavesFiles, Kept, Excused
  <2>5. RegisteredHasFiles'
    BY <2>1, <2>3 DEF KeptInv, RegisteredHasFiles
  <2> QED
    BY <2>1, <2>2, <2>3, <2>4, <2>5 DEF KeptInv
<1>4. ASSUME NEW a \in Model, RemoveModel(a) PROVE KeptInv'
  <2>1. /\ files' = files \ {a} /\ blobs' = blobs \ {a} /\ a \in disabled /\ Registered(a)
        /\ UNCHANGED <<orcVars, requestVars, gaps>>
    BY <1>4 DEF RemoveModel, KeptInv
  <2>2. KeptTyped' /\ RegisteredHasFiles'
    BY <2>1 DEF KeptInv, KeptTyped, RegisteredHasFiles, Registered
  <2>3. ASSUME NEW q \in Request PROVE Sound(q)'
    BY <2>1 DEF KeptInv, Sound, SavesFiles, Registered, Kept, Excused
  <2> QED
    BY <2>1, <2>2, <2>3 DEF KeptInv, Registered
<1> QED
  BY <1>2, <1>3, <1>4

\* What the orchestrator announces to the other organizations can be fetched: an
\* asset keeps its files from its registration to its removal, unless an answer
\* of the orchestrator was lost or its row failed.
THEOREM RegisteredKeepFiles == Spec => []RegisteredHasFiles
<1>1. Init => KeptInv
  BY KeptStarts
<1>2. KeptInv /\ [Next]_vars => KeptInv'
  <2> SUFFICES ASSUME KeptInv, [Next]_vars PROVE KeptInv'
    OBVIOUS
  <2>1. CASE UNCHANGED vars
    BY <2>1, OutsideStep
  <2>2. ASSUME NEW r \in Request, Receive(r) \/ RequestStep(r) \/ RequestFault(r)
        PROVE  KeptInv'
    BY <2>2, FilesStep, CallStep, RowsStep DEF RequestStep, RequestFault
  <2> QED
    BY <2>1, <2>2, OutsideStep DEF Next
<1>3. KeptInv => RegisteredHasFiles
  BY DEF KeptInv
<1> QED
  BY <1>1, <1>2, <1>3, PTL DEF Spec

HIDE DEF WithFiles, Asset

-----------------------------------------------------------------------------
(* Downloads: where a request is says what was checked about it, and the     *)
(* secret of a request whose credentials never changed is the one expected.  *)

DownloadsTyped ==
  /\ exchange \in DO!SettingType
  /\ off \in BOOLEAN /\ file \in BOOLEAN
  /\ copies \in [Org -> {"none", "address", "gone"}]
  /\ config \in [Org -> Nat] /\ outgoing \in [Org -> Nat] /\ incoming \in [Org -> Nat]
  /\ sent \in [Download -> Nat]
  /\ downloadPc \in [Download -> {"new", "send", "auth", "rehash", "asset", "open", "stream", "done"}]
  /\ answer \in [Download -> {"none", "whole", "part", "integrity", "unauthorized",
                              "forbidden", "not found", "gone"}]

AssetIsKnown ==
  /\ copies[Owner] # "none"
  /\ \A o \in Org : copies[o] = "gone" => off
  /\ ~file => off

OwnCheck(r) == DO!Permission(r, DO!OrgOf(r))

\* A user whose request is at the owner passed the check of their own backend.
CheckIsPassed(r) ==
  /\ downloadPc[r] \in {"open", "stream"} => DO!Entitled(r)
  /\ downloadPc[r] \in {"send", "auth", "rehash", "asset"} /\ DO!By(r) = "user" =>
       DO!OrgOf(r) # Owner /\ OwnCheck(r)
  /\ downloadPc[r] = "auth" /\ r \notin crossed => sent[r] = incoming[DO!OrgOf(r)]

ChecksArePassed == \A r \in Download : CheckIsPassed(r)

SecretsFollow ==
  \A o \in Org :
    /\ <<"outgoing", o>> \notin syncs => outgoing[o] = config[o]
    /\ <<"incoming", o>> \notin syncs /\ o \notin overwritten => incoming[o] = config[o]

DownloadsInv ==
  /\ DownloadsTyped /\ AssetIsKnown /\ ChecksArePassed /\ SecretsFollow
  /\ DO!AnswersAreRight

LEMMA DownloadsInit == DO!Init => DownloadsInv
<1> SUFFICES ASSUME DO!Init PROVE DownloadsInv
  OBVIOUS
<1> USE DownloadsAssumption DEF DO!Init
<1>1. DownloadsTyped
  <2>1. copies \in [Org -> {"none", "address", "gone"}]
    OBVIOUS
  <2> QED
    BY <2>1 DEF DownloadsTyped, DO!Generated, DO!None
<1>2. AssetIsKnown
  BY DEF AssetIsKnown
<1>3. ChecksArePassed
  BY DEF ChecksArePassed, CheckIsPassed
<1>4. SecretsFollow
  BY DEF SecretsFollow
<1>5. DO!AnswersAreRight
  BY DEF DO!AnswersAreRight
<1> QED
  BY <1>1, <1>2, <1>3, <1>4, <1>5 DEF DownloadsInv

LEMMA DownloadsStep == DownloadsInv /\ [DO!Next]_(DO!vars) => DownloadsInv'
<1> SUFFICES ASSUME DownloadsInv, [DO!Next]_(DO!vars)
             PROVE  DownloadsInv'
  OBVIOUS
<1> USE DownloadsAssumption
    DEF DownloadsTyped, AssetIsKnown, ChecksArePassed, CheckIsPassed, SecretsFollow,
        DO!AnswersAreRight, DO!assetVars, DO!credVars, DO!reqVars,
        DO!Goto, DO!Answer, DO!WithCredentials
<1>0. DownloadsTyped /\ AssetIsKnown /\ ChecksArePassed /\ SecretsFollow /\ DO!AnswersAreRight
  BY DEF DownloadsInv
<1>1. \A r \in Download : DO!OrgOf(r) \in Org /\ DO!By(r) \in {"user", "worker"}
  BY <1>0 DEF DO!SettingType, DO!OrgOf, DO!By
<1>2. UNCHANGED exchange
  BY DEF DO!Next, DO!RequestStep, DO!vars, DO!SyncRow, DO!Disable, DO!RemoveFile, DO!Rotate,
         DO!SyncIncoming, DO!SyncOutgoing, DO!AskOwnBackend, DO!AskOwner, DO!Send, DO!Authenticate,
         DO!Rehash, DO!AskedOwner, DO!OpenFile, DO!Stream
<1>20. \A r \in Download :
         /\ DO!OrgOf(r)' = DO!OrgOf(r) /\ DO!By(r)' = DO!By(r)
         /\ DO!Entitled(r)' <=> DO!Entitled(r)
         /\ OwnCheck(r)' <=> OwnCheck(r)
  BY <1>2 DEF OwnCheck, DO!OrgOf, DO!By, DO!Entitled, DO!Permission
<1>3. ASSUME NEW o \in Org, DO!SyncRow(o) PROVE DownloadsInv'
  <2>1. UNCHANGED <<exchange, off, file, DO!credVars, DO!reqVars>>
    BY <1>3 DEF DO!SyncRow
  <2>5. \/ copies' = [copies EXCEPT ![o] = "address"]
        \/ copies' = [copies EXCEPT ![o] = "gone"] /\ off
    BY <1>3 DEF DO!SyncRow
  <2>2. copies' \in [Org -> {"none", "address", "gone"}] /\ AssetIsKnown'
    BY <1>0, <2>1, <2>5
  <2>3. DownloadsTyped'
    BY <1>0, <2>1, <2>2
  <2>4. ChecksArePassed' /\ SecretsFollow' /\ DO!AnswersAreRight'
    BY <1>0, <1>1, <1>20, <2>1
  <2> QED
    BY <2>2, <2>3, <2>4 DEF DownloadsInv
<1>4. ASSUME DO!Disable
      PROVE  DownloadsInv'
  <2> USE <1>4 DEF DO!Disable
  <2>1. DownloadsTyped'
    BY <1>0, <1>1, <1>20
  <2>2. AssetIsKnown'
    BY <1>0, <1>1, <1>20
  <2>3. \A q \in Download : CheckIsPassed(q)'
    BY <1>0, <1>1, <1>20
  <2>4. SecretsFollow'
    BY <1>0, <1>1, <1>20
  <2>5. DO!AnswersAreRight'
    BY <1>0, <1>1, <1>20
  <2> QED
    BY <2>1, <2>2, <2>3, <2>4, <2>5 DEF DownloadsInv
<1>5. ASSUME DO!RemoveFile
      PROVE  DownloadsInv'
  <2> USE <1>5 DEF DO!RemoveFile
  <2>1. DownloadsTyped'
    BY <1>0, <1>1, <1>20
  <2>2. AssetIsKnown'
    BY <1>0, <1>1, <1>20
  <2>3. \A q \in Download : CheckIsPassed(q)'
    BY <1>0, <1>1, <1>20
  <2>4. SecretsFollow'
    BY <1>0, <1>1, <1>20
  <2>5. DO!AnswersAreRight'
    BY <1>0, <1>1, <1>20
  <2> QED
    BY <2>1, <2>2, <2>3, <2>4, <2>5 DEF DownloadsInv
<1>6. ASSUME NEW o \in Org, DO!Rotate(o) PROVE DownloadsInv'
  <2>1. UNCHANGED <<exchange, outgoing, incoming, overwritten, DO!assetVars, DO!reqVars>>
    BY <1>6 DEF DO!Rotate
  <2>2. /\ config' = [config EXCEPT ![o] = config[o] + 1]
        /\ syncs' = syncs \union {<<"incoming", o>>, <<"outgoing", o>>}
    BY <1>6 DEF DO!Rotate
  <2>6. config' \in [Org -> Nat]
    <3>1. config \in [Org -> Nat]
      BY <1>0
    <3>2. config[o] \in Nat
      BY <3>1, <1>6
    <3>3. config[o] + 1 \in Nat
      BY <3>2
    <3> QED
      BY <2>2, <3>1, <3>3
  <2>3. DownloadsTyped'
    BY <1>0, <2>1, <2>6
  <2>4. AssetIsKnown' /\ ChecksArePassed' /\ DO!AnswersAreRight'
    BY <1>0, <1>1, <1>20, <2>1
  <2>5. SecretsFollow'
    BY <1>0, <2>1, <2>2
  <2> QED
    BY <2>3, <2>4, <2>5 DEF DownloadsInv
<1>7. ASSUME NEW o \in Org, DO!SyncIncoming(o)
      PROVE  DownloadsInv'
  <2> USE <1>7 DEF DO!SyncIncoming, DO!OrgOf
  <2>1. DownloadsTyped'
    BY <1>0, <1>1, <1>20
  <2>2. AssetIsKnown'
    BY <1>0, <1>1, <1>20
  <2>3. \A q \in Download : CheckIsPassed(q)'
    BY <1>0, <1>1, <1>20
  <2>4. SecretsFollow'
    BY <1>0, <1>1, <1>20
  <2>5. DO!AnswersAreRight'
    BY <1>0, <1>1, <1>20
  <2> QED
    BY <2>1, <2>2, <2>3, <2>4, <2>5 DEF DownloadsInv
<1>8. ASSUME NEW o \in Org, DO!SyncOutgoing(o)
      PROVE  DownloadsInv'
  <2> USE <1>8 DEF DO!SyncOutgoing, DO!OrgOf
  <2>1. DownloadsTyped'
    BY <1>0, <1>1, <1>20
  <2>2. AssetIsKnown'
    BY <1>0, <1>1, <1>20
  <2>3. \A q \in Download : CheckIsPassed(q)'
    BY <1>0, <1>1, <1>20
  <2>4. SecretsFollow'
    BY <1>0, <1>1, <1>20
  <2>5. DO!AnswersAreRight'
    BY <1>0, <1>1, <1>20
  <2> QED
    BY <2>1, <2>2, <2>3, <2>4, <2>5 DEF DownloadsInv
<1>9. \A r \in Download :
        /\ DO!By(r) = "worker" => (DO!Entitled(r) <=> DO!Permission(r, Owner))
        /\ DO!By(r) = "user" => (DO!Entitled(r) <=> OwnCheck(r) /\ DO!Permission(r, Owner))
        /\ DO!OrgOf(r) = Owner => (OwnCheck(r) <=> DO!Permission(r, Owner))
        /\ OwnCheck(r) <=> DO!Permission(r, DO!OrgOf(r))
  BY <1>1 DEF DO!Entitled, DO!Permission, OwnCheck
<1>10. ASSUME NEW r \in Download, DO!AskOwnBackend(r) PROVE DownloadsInv'
  <2> DEFINE o == DO!OrgOf(r)
  <2>1. /\ DO!By(r) = "user" /\ downloadPc[r] = "new"
        /\ UNCHANGED <<exchange, sent, crossed, DO!assetVars, DO!credVars>>
    BY <1>10 DEF DO!AskOwnBackend
  <2>3. \/ /\ OwnCheck(r) /\ UNCHANGED answer
           /\ \/ o = Owner /\ downloadPc' = [downloadPc EXCEPT ![r] = "open"]
              \/ o # Owner /\ downloadPc' = [downloadPc EXCEPT ![r] = "send"]
        \/ /\ downloadPc' = [downloadPc EXCEPT ![r] = "done"]
           /\ \/ copies[o] = "none" /\ answer' = [answer EXCEPT ![r] = "not found"]
              \/ ~OwnCheck(r) /\ answer' = [answer EXCEPT ![r] = "forbidden"]
              \/ copies[o] = "gone" /\ answer' = [answer EXCEPT ![r] = "gone"]
    BY <1>0, <1>1, <1>10 DEF DO!AskOwnBackend, DO!CheckAsset, OwnCheck
  <2>2. DownloadsTyped' /\ AssetIsKnown' /\ SecretsFollow'
    BY <1>0, <2>1, <2>3
  <2>4. ASSUME NEW q \in Download PROVE CheckIsPassed(q)'
    BY <1>0, <1>1, <1>9, <1>20, <2>1, <2>3, ZenonT(60)
  <2>5. DO!AnswersAreRight'
    BY <1>0, <1>1, <1>9, <1>20, <2>1, <2>3, ZenonT(60)
  <2> QED
    BY <2>2, <2>4, <2>5 DEF DownloadsInv
<1>11. ASSUME NEW r \in Download, DO!AskOwner(r) PROVE DownloadsInv'
  <2>1. /\ downloadPc' = [downloadPc EXCEPT ![r] = "send"] /\ DO!By(r) = "worker"
        /\ UNCHANGED <<exchange, answer, sent, crossed, DO!assetVars, DO!credVars>>
    BY <1>11 DEF DO!AskOwner
  <2>2. DownloadsTyped' /\ AssetIsKnown' /\ SecretsFollow'
    BY <1>0, <2>1
  <2>3. ASSUME NEW q \in Download PROVE CheckIsPassed(q)'
    BY <1>0, <1>1, <1>20, <2>1
  <2>4. DO!AnswersAreRight'
    BY <1>0, <1>1, <1>20, <2>1
  <2> QED
    BY <2>2, <2>3, <2>4 DEF DownloadsInv
<1>12. ASSUME NEW r \in Download, DO!Send(r)
       PROVE  DownloadsInv'
  <2> USE <1>12 DEF DO!Send
  <2>1. DownloadsTyped'
    BY <1>0, <1>1, <1>20
  <2>2. AssetIsKnown'
    BY <1>0, <1>1, <1>20
  <2>3. \A q \in Download : CheckIsPassed(q)'
    BY <1>0, <1>1, <1>20, ZenonT(60)
  <2>4. SecretsFollow'
    BY <1>0, <1>1, <1>20
  <2>5. DO!AnswersAreRight'
    BY <1>0, <1>1, <1>20
  <2> QED
    BY <2>1, <2>2, <2>3, <2>4, <2>5 DEF DownloadsInv
<1>13. ASSUME NEW r \in Download, DO!Authenticate(r)
       PROVE  DownloadsInv'
  <2> USE <1>13 DEF DO!Authenticate
  <2>1. DownloadsTyped'
    BY <1>0, <1>1, <1>20
  <2>2. AssetIsKnown'
    BY <1>0, <1>1, <1>20
  <2>3. \A q \in Download : CheckIsPassed(q)'
    BY <1>0, <1>1, <1>20, ZenonT(60)
  <2>4. SecretsFollow'
    BY <1>0, <1>1, <1>20
  <2>5. DO!AnswersAreRight'
    BY <1>0, <1>1, <1>20, ZenonT(60)
  <2> QED
    BY <2>1, <2>2, <2>3, <2>4, <2>5 DEF DownloadsInv
<1>14. ASSUME NEW r \in Download, DO!Rehash(r) PROVE DownloadsInv'
  <2> DEFINE o == DO!OrgOf(r)
  <2>1. /\ downloadPc' = [downloadPc EXCEPT ![r] = "asset"] /\ downloadPc[r] = "rehash"
        /\ incoming' = [incoming EXCEPT ![o] = sent[r]]
        /\ UNCHANGED <<exchange, answer, sent, config, syncs, outgoing, DO!assetVars>>
    BY <1>14 DEF DO!Rehash
  <2>2. /\ incoming[o] = sent[r] => UNCHANGED <<overwritten, crossed>>
        /\ incoming[o] # sent[r] =>
             /\ overwritten' = overwritten \union {o}
             /\ crossed' = crossed \union DO!WithCredentials(o)
    BY <1>14 DEF DO!Rehash
  <2>3. o \in Org
    BY <1>1
  <2>4. DownloadsTyped'
    BY <1>0, <2>1, <2>3
  <2>5. ASSUME NEW q \in Download PROVE CheckIsPassed(q)'
    <3>1. CASE q = r \/ DO!OrgOf(q) # o
      BY <1>0, <1>1, <1>20, <2>1, <2>2, <2>3, <3>1
    <3>2. CASE q # r /\ DO!OrgOf(q) = o
      <4>1. downloadPc'[q] = "auth" /\ q \notin crossed' => sent'[q] = incoming'[o]
        BY <1>0, <2>1, <2>2, <2>3, <3>2 DEF DO!OrgOf
      <4> QED
        BY <1>0, <1>1, <1>20, <2>1, <3>2, <4>1
    <3> QED
      BY <3>1, <3>2
  <2>6. AssetIsKnown' /\ SecretsFollow'
    BY <1>0, <2>1, <2>2, <2>3
  <2>7. DO!AnswersAreRight'
    BY <1>0, <1>1, <1>20, <2>1, <2>2
  <2> QED
    BY <2>4, <2>5, <2>6, <2>7 DEF DownloadsInv
<1>15. ASSUME NEW r \in Download, DO!AskedOwner(r)
       PROVE  DownloadsInv'
  <2> USE <1>15 DEF DO!AskedOwner, DO!CheckAsset
  <2>1. DownloadsTyped'
    BY <1>0, <1>1, <1>20, <1>9
  <2>2. AssetIsKnown'
    BY <1>0, <1>1, <1>20, <1>9
  <2>3. \A q \in Download : CheckIsPassed(q)'
    BY <1>0, <1>1, <1>20, <1>9, ZenonT(60)
  <2>4. SecretsFollow'
    BY <1>0, <1>1, <1>20, <1>9
  <2>5. DO!AnswersAreRight'
    BY <1>0, <1>1, <1>20, <1>9, ZenonT(60)
  <2> QED
    BY <2>1, <2>2, <2>3, <2>4, <2>5 DEF DownloadsInv
<1>16. ASSUME NEW r \in Download, DO!OpenFile(r)
       PROVE  DownloadsInv'
  <2> USE <1>16 DEF DO!OpenFile
  <2>1. DownloadsTyped'
    BY <1>0, <1>1, <1>20
  <2>2. AssetIsKnown'
    BY <1>0, <1>1, <1>20
  <2>3. \A q \in Download : CheckIsPassed(q)'
    BY <1>0, <1>1, <1>20, ZenonT(60)
  <2>4. SecretsFollow'
    BY <1>0, <1>1, <1>20
  <2>5. DO!AnswersAreRight'
    BY <1>0, <1>1, <1>20, ZenonT(60)
  <2> QED
    BY <2>1, <2>2, <2>3, <2>4, <2>5 DEF DownloadsInv
<1>17. ASSUME NEW r \in Download, DO!Stream(r)
       PROVE  DownloadsInv'
  <2> USE <1>17 DEF DO!Stream, DO!CutSeen
  <2>1. DownloadsTyped'
    BY <1>0, <1>1, <1>20
  <2>2. AssetIsKnown'
    BY <1>0, <1>1, <1>20
  <2>3. \A q \in Download : CheckIsPassed(q)'
    BY <1>0, <1>1, <1>20, ZenonT(60)
  <2>4. SecretsFollow'
    BY <1>0, <1>1, <1>20
  <2>5. DO!AnswersAreRight'
    BY <1>0, <1>1, <1>20, ZenonT(60)
  <2> QED
    BY <2>1, <2>2, <2>3, <2>4, <2>5 DEF DownloadsInv
<1>18. CASE UNCHANGED DO!vars
  BY <1>0, <1>1, <1>20, <1>18, ZenonT(60) DEF DO!vars, DownloadsInv
<1> QED
  BY <1>3, <1>4, <1>5, <1>6, <1>7, <1>8, <1>10, <1>11, <1>12, <1>13, <1>14, <1>15, <1>16, <1>17,
     <1>18 DEF DO!Next, DO!RequestStep

\* Content goes where the permissions say, a refusal has a reason, no worker keeps
\* a part of a file, and both ends agree on a secret once the jobs of its change
\* have run (views/utils.py, clients/organization.py, organization/models.py).
THEOREM AssetsGoWhereTheyMay == DO!Spec => []DownloadsAreRight
<1>1. DownloadsInv => DownloadsAreRight
  BY DEF DownloadsAreRight, DownloadsInv, SecretsFollow, DO!SecretsAgree
<1> QED
  BY <1>1, DownloadsInit, DownloadsStep, PTL DEF DO!Spec

-----------------------------------------------------------------------------
(* FailureReports: the log has the tasks, then the events of the failure, and *)
(* the rows of an organization tell what it has handled of the log.           *)

FailureEvent == [kind : {"created", "failed", "report"}, task : FailedTask \union {NoTask}]
FailedRow ==
  [there : BOOLEAN, failed : BOOLEAN, error : FR!ErrorType \union {"none"}, url : BOOLEAN,
   owner : Org \union {NoOrg}]

FailuresTyped ==
  /\ failure \in Failures
  /\ reporting \in [Run -> {"store", "register", "done"}]
  /\ reportRows \in [Org -> [there : BOOLEAN, run : Run \union {NoRun}]]
  /\ reported \in Run \union {NoRun}
  /\ failureLog \in Seq(FailureEvent)
  /\ failureHandled \in [Org -> Nat] /\ \A o \in Org : failureHandled[o] <= Len(failureLog)
  /\ failedRows \in [Org -> [FailedTask -> FailedRow]]

\* The event is among the first n of the log.
Told(kind, t, n) == \E i \in 1..n : failureLog[i] = FR!Event(kind, t)
ReportTold(n) == \E i \in 1..n : failureLog[i].kind = "report"

LogIsOrdered ==
  /\ \A t \in FailedTask : Told("created", t, Len(failureLog)) => t \in failure.tasks
  /\ reported = NoRun => \A i \in 1..Len(failureLog) : failureLog[i].kind = "created"
  /\ reported # NoRun =>
       /\ ReportTold(Len(failureLog))
       /\ \A t \in FailedTask :
            Told("created", t, Len(failureLog)) => Told("failed", t, Len(failureLog))
  /\ \A i, j \in 1..Len(failureLog) :
       failureLog[i].kind = "created" /\ failureLog[j].kind = "report" => i < j

RowTells(o, t) ==
  /\ failedRows[o][t].there <=> Told("created", t, failureHandled[o])
  /\ Told("failed", t, failureHandled[o]) => failedRows[o][t].failed
  /\ ReportTold(failureHandled[o]) /\ Told("created", t, failureHandled[o]) =>
       /\ failedRows[o][t].error = FR!Error /\ failedRows[o][t].owner = Owner
       /\ failedRows[o][t].url <=> FR!HasLogs(FR!Error)
  /\ failedRows[o][t].url =>
       FR!HasLogs(FR!Error) /\ reported # NoRun /\ failedRows[o][t].owner = Owner

RowsTell == \A o \in Org : \A t \in FailedTask : RowTells(o, t)

ReportsAreStored ==
  /\ reportRows[Owner].there => reportRows[Owner].run \in failure.runs
  /\ FR!HasLogs(FR!Error) /\ (reported # NoRun \/ \E r \in Run : reporting[r] = "register") =>
       reportRows[Owner].there
  /\ reported # NoRun => reported \in failure.runs
  /\ \A r \in Run : reporting[r] # "done" => r \in failure.runs
  /\ reported = NoRun /\ "down" \notin failure.env => \A r \in failure.runs : reporting[r] # "done"

RequestIsFounded ==
  proxied # FR!NoRequest =>
    /\ proxied.org \in failure.allowed /\ proxied.task \in FailedTask
    /\ Told("created", proxied.task, Len(failureLog))
    /\ reported # NoRun /\ FR!HasLogs(FR!Error)

FailuresInv ==
  /\ FailuresTyped /\ LogIsOrdered /\ RowsTell /\ ReportsAreStored /\ RequestIsFounded
  /\ FR!LogsAreRight
  /\ logsAnswer.result = "logs" => reported # NoRun

LEMMA FailureCardinality == \A S : FR!Cardinality(S) = Cardinality(S)
BY DEF FR!Cardinality, Cardinality

LEMMA FailuresInit == FR!Init => FailuresInv
<1> SUFFICES ASSUME FR!Init PROVE FailuresInv
  OBVIOUS
<1> USE FailuresAssumption DEF FR!Init
<1>1. failureLog \in Seq(FailureEvent) /\ Len(failureLog) = 0 /\ failureHandled = [o \in Org |-> 0]
  BY EmptySeq
<1>2. failure \in FR!SettingType /\ failure.runs \subseteq Run
  BY DEF FR!SettingType
<1>3. FailuresTyped
  <2>1. reporting \in [Run -> {"store", "register", "done"}]
    OBVIOUS
  <2>2. reportRows \in [Org -> [there : BOOLEAN, run : Run \union {NoRun}]]
    BY DEF FR!NoReport
  <2>3. failedRows \in [Org -> [FailedTask -> FailedRow]]
    BY DEF FR!NoRow, FailedRow
  <2> QED
    BY <1>1, <2>1, <2>2, <2>3 DEF FailuresTyped
<1>4. LogIsOrdered
  BY <1>1 DEF LogIsOrdered, Told
<1>5. RowsTell
  BY <1>1 DEF RowsTell, RowTells, Told, ReportTold, FR!NoRow
<1>6. ReportsAreStored
  BY <1>2 DEF ReportsAreStored, FR!NoReport
<1>7. RequestIsFounded
  BY DEF RequestIsFounded
<1>8. FR!LogsAreRight /\ logsAnswer.result # "logs"
  BY DEF FR!LogsAreRight, FR!NoAnswer
<1> QED
  BY <1>3, <1>4, <1>5, <1>6, <1>7, <1>8 DEF FailuresInv

\* The log with some events more.
LogExtends(events) ==
  /\ failureLog' \in Seq(FailureEvent)
  /\ Len(failureLog) \in Nat /\ Len(failureLog') \in Nat /\ Len(failureLog) <= Len(failureLog')
  /\ \A i \in 1..Len(failureLog) : failureLog'[i] = failureLog[i]
  /\ \A i \in 1..Len(failureLog') : i > Len(failureLog) => failureLog'[i] \in events
  /\ \A e \in events : \E i \in 1..Len(failureLog') : i > Len(failureLog) /\ failureLog'[i] = e

LEMMA LogAppended ==
  ASSUME FailuresTyped, NEW e \in FailureEvent, failureLog' = Append(failureLog, e)
  PROVE  LogExtends({e})
<1>1. failureLog \in Seq(FailureEvent)
  BY DEF FailuresTyped
<1>2. /\ failureLog' \in Seq(FailureEvent) /\ Len(failureLog') = Len(failureLog) + 1
      /\ \A i \in 1..Len(failureLog) : failureLog'[i] = failureLog[i]
      /\ failureLog'[Len(failureLog) + 1] = e
  BY <1>1, AppendProperties
<1>3. Len(failureLog) \in Nat
  BY <1>1, LenProperties
<1> QED
  BY <1>2, <1>3 DEF LogExtends

LEMMA LogConcatenated ==
  ASSUME FailuresTyped, NEW events \in SUBSET FailureEvent, IsFiniteSet(events),
         NEW order \in [1..Cardinality(events) -> events],
         \A e \in events : \E i \in DOMAIN order : order[i] = e,
         failureLog' = failureLog \o order
  PROVE  LogExtends(events)
<1> DEFINE n == Cardinality(events)
<1>1. n \in Nat
  BY FS_CardinalityType
<1> HIDE DEF n
<1>2. order \in [1..n -> events]
  BY DEF n
<1>3. order \in Seq(FailureEvent) /\ Len(order) = n
  BY <1>1, <1>2
<1>4. failureLog \in Seq(FailureEvent) /\ Len(failureLog) \in Nat
  BY LenProperties DEF FailuresTyped
<1>5. /\ failureLog' \in Seq(FailureEvent) /\ Len(failureLog') = Len(failureLog) + n
      /\ \A i \in 1..Len(failureLog') :
           failureLog'[i] = IF i <= Len(failureLog) THEN failureLog[i] ELSE order[i - Len(failureLog)]
  <2>1. /\ failureLog \o order \in Seq(FailureEvent)
        /\ Len(failureLog \o order) = Len(failureLog) + Len(order)
        /\ \A i \in 1..(Len(failureLog) + Len(order)) : (failureLog \o order)[i] =
             IF i <= Len(failureLog) THEN failureLog[i] ELSE order[i - Len(failureLog)]
    BY <1>3, <1>4, ConcatProperties
  <2> QED
    BY <1>3, <2>1
<1>6. \A i \in 1..Len(failureLog) : failureLog'[i] = failureLog[i]
  BY <1>1, <1>4, <1>5
<1>7. ASSUME NEW i \in 1..Len(failureLog'), i > Len(failureLog) PROVE failureLog'[i] \in events
  <2>1. i - Len(failureLog) \in 1..n
    BY <1>1, <1>4, <1>5, <1>7
  <2>2. failureLog'[i] = order[i - Len(failureLog)]
    BY <1>4, <1>5, <1>7
  <2> QED
    BY <1>2, <2>1, <2>2
<1>8. ASSUME NEW e \in events
      PROVE  \E i \in 1..Len(failureLog') : i > Len(failureLog) /\ failureLog'[i] = e
  <2>1. PICK i \in 1..n : order[i] = e
    BY <1>2
  <2>2. i + Len(failureLog) \in 1..Len(failureLog') /\ i + Len(failureLog) > Len(failureLog)
    BY <1>1, <1>4, <1>5, <2>1
  <2>3. failureLog'[i + Len(failureLog)] = order[i + Len(failureLog) - Len(failureLog)]
    BY <1>1, <1>4, <1>5, <2>2
  <2>4. i + Len(failureLog) - Len(failureLog) = i
    BY <1>1, <1>4
  <2> QED
    BY <2>1, <2>2, <2>3, <2>4
<1>9. Len(failureLog') \in Nat /\ Len(failureLog) <= Len(failureLog')
  BY <1>1, <1>4, <1>5
<1> QED
  BY <1>4, <1>5, <1>6, <1>7, <1>8, <1>9 DEF LogExtends

\* What was told of the first n events stays told.
LEMMA ToldStays ==
  ASSUME NEW events, LogExtends(events), NEW n \in 0..Len(failureLog)
  PROVE  /\ \A kind, t : Told(kind, t, n)' <=> Told(kind, t, n)
         /\ ReportTold(n)' <=> ReportTold(n)
<1>1. \A i \in 1..n : failureLog'[i] = failureLog[i]
  BY DEF LogExtends
<1> QED
  BY <1>1 DEF Told, ReportTold, FR!Event

LEMMA CreatedAreTold ==
  ASSUME FailuresTyped
  PROVE  FR!Created = {t \in FailedTask : Told("created", t, Len(failureLog))}
<1>1. DOMAIN failureLog = 1..Len(failureLog)
  BY LenProperties DEF FailuresTyped
<1> QED
  BY <1>1 DEF FR!Created, Told

\* The rows tell what they told, if the log grows and a report is not taken back.
LEMMA RowsKept ==
  ASSUME FailuresTyped, RowsTell, NEW events, LogExtends(events),
         UNCHANGED <<failure, failureHandled, failedRows>>, reported # NoRun => reported' # NoRun
  PROVE  RowsTell'
<1> SUFFICES ASSUME NEW o \in Org, NEW t \in FailedTask PROVE RowTells(o, t)'
  BY DEF RowsTell
<1>1. failureHandled[o] \in 0..Len(failureLog)
  BY DEF FailuresTyped, LogExtends
<1>2. failureHandled'[o] = failureHandled[o] /\ failedRows'[o][t] = failedRows[o][t]
  OBVIOUS
<1>3. FR!Error' = FR!Error
  BY DEF FR!Error
<1>4. RowTells(o, t)
  BY DEF RowsTell
<1>5. /\ \A kind : Told(kind, t, failureHandled[o])' <=> Told(kind, t, failureHandled[o])
      /\ ReportTold(failureHandled[o])' <=> ReportTold(failureHandled[o])
  <2>1. \A n \in 0..Len(failureLog) :
          /\ \A kind, x : Told(kind, x, n)' <=> Told(kind, x, n)
          /\ ReportTold(n)' <=> ReportTold(n)
    BY ToldStays
  <2> QED
    BY <1>1, <1>2, <2>1
<1> QED
  BY <1>2, <1>3, <1>4, <1>5 DEF RowTells

LEMMA LogKept ==
  ASSUME LogIsOrdered, UNCHANGED <<failure, reported, failureLog>>
  PROVE  LogIsOrdered'
<1>1. \A kind, t : Told(kind, t, Len(failureLog))' <=> Told(kind, t, Len(failureLog))
  BY DEF Told, FR!Event
<1>2. ReportTold(Len(failureLog))' <=> ReportTold(Len(failureLog))
  BY DEF ReportTold
<1> QED
  BY <1>1, <1>2 DEF LogIsOrdered

LEMMA RowsUntouched ==
  ASSUME FailuresTyped, RowsTell, UNCHANGED <<failure, reported, failureLog, failureHandled, failedRows>>
  PROVE  RowsTell'
<1>1. LogExtends({})
  BY LenProperties DEF LogExtends, FailuresTyped
<1> QED
  BY <1>1, RowsKept

LEMMA RequestKept ==
  ASSUME RequestIsFounded, UNCHANGED <<failure, reported, failureLog, proxied>>
  PROVE  RequestIsFounded'
<1>1. \A kind, t : Told(kind, t, Len(failureLog))' <=> Told(kind, t, Len(failureLog))
  BY DEF Told, FR!Event
<1>2. FR!Error' = FR!Error
  BY DEF FR!Error
<1> QED
  BY <1>1, <1>2 DEF RequestIsFounded

LEMMA AnswerKept ==
  ASSUME FR!LogsAreRight, logsAnswer.result = "logs" => reported # NoRun,
         UNCHANGED <<failure, logsAnswer>>, reported # NoRun => reported' = reported
  PROVE  FR!LogsAreRight' /\ (logsAnswer.result = "logs" => reported' # NoRun)
<1>1. FR!OfFunction' = FR!OfFunction
  BY DEF FR!OfFunction
<1> QED
  BY <1>1 DEF FR!LogsAreRight

\* Of two messages, or of one: the logs are those of the registered run unless
\* there are two.
LEMMA OneRun ==
  ASSUME FailuresTyped, ReportsAreStored, reported # NoRun, reportRows[Owner].there
  PROVE  reportRows[Owner].run = reported \/ Cardinality(failure.runs) > 1
<1> DEFINE x == reportRows[Owner].run
<1>1. x \in failure.runs /\ reported \in failure.runs
  BY DEF ReportsAreStored
<1>2. IsFiniteSet(failure.runs)
  <2>1. failure.runs \subseteq Run
    BY FailuresAssumption DEF FailuresTyped, FR!SettingType
  <2> QED
    BY <2>1, FailuresAssumption, FS_Subset
<1>3. ASSUME x # reported PROVE Cardinality(failure.runs) > 1
  <2>1. Cardinality({x, reported}) = 2
    <3>1. IsFiniteSet({reported}) /\ Cardinality({reported}) = 1
      BY FS_Singleton
    <3>2. x \notin {reported} BY <1>3
    <3>4. Cardinality({reported} \union {x}) = Cardinality({reported}) + 1
      BY ONLY <3>1, <3>2, FS_AddElement
    <3>3. {reported} \union {x} = {x, reported}
      OBVIOUS
    <3> QED
      BY <3>1, <3>3, <3>4
  <2>2. Cardinality({x, reported}) <= Cardinality(failure.runs)
    BY <1>1, <1>2, FS_Subset
  <2>3. Cardinality(failure.runs) \in Nat
    BY <1>2, FS_CardinalityType
  <2> QED
    BY <2>1, <2>2, <2>3
<1> QED
  BY <1>3

LEMMA FailuresStep == FailuresInv /\ [FR!Next]_(FR!vars) => FailuresInv'
<1> SUFFICES ASSUME FailuresInv, [FR!Next]_(FR!vars)
             PROVE  FailuresInv'
  OBVIOUS
<1> USE FailuresAssumption DEF FR!reportVars, FR!syncVars, FR!askVars
<1>t. FailuresTyped
  BY DEF FailuresInv
<1>l. LogIsOrdered
  BY DEF FailuresInv
<1>o. RowsTell
  BY DEF FailuresInv
<1>p. ReportsAreStored
  BY DEF FailuresInv
<1>q. RequestIsFounded
  BY DEF FailuresInv
<1>a. FR!LogsAreRight /\ (logsAnswer.result = "logs" => reported # NoRun)
  BY DEF FailuresInv
<1>f. failure \in FR!SettingType /\ failure.runs \subseteq Run /\ failure.runs # {}
      /\ (failure.failed # NoTask => failure.tasks = {failure.failed})
      /\ failure.tasks \subseteq FailedTask /\ failure.failed \in FailedTask \union {NoTask}
      /\ failure.allowed \subseteq Org
  BY <1>t DEF FailuresTyped, FR!SettingType
<1>u. UNCHANGED failure
  BY DEF FR!Next, FR!vars, FR!RegisterTask, FR!StoreFailure, FR!RegisterReport, FR!RegisterFails,
         FR!Crash, FR!HandleEvent, FR!AskLogs, FR!ServeLogs
<1>e. FR!Error' = FR!Error /\ FR!OfFunction' = FR!OfFunction
  BY <1>u DEF FR!Error, FR!OfFunction
<1>n. Len(failureLog) \in Nat
  BY <1>t, LenProperties DEF FailuresTyped
<1>1. ASSUME NEW t \in FailedTask, FR!RegisterTask(t) PROVE FailuresInv'
  <2>1. /\ t \in failure.tasks /\ reported = NoRun
        /\ failureLog' = Append(failureLog, FR!Event("created", t))
        /\ UNCHANGED <<reporting, reportRows, reported, failureHandled, failedRows, proxied, logsAnswer>>
    BY <1>1 DEF FR!RegisterTask
  <2>2. FR!Event("created", t) \in FailureEvent
    BY DEF FR!Event, FailureEvent
  <2>3. LogExtends({FR!Event("created", t)})
    BY <1>t, <2>1, <2>2, LogAppended
  <2>4. FailuresTyped'
    BY <1>t, <1>u, <2>1, <2>3 DEF FailuresTyped, LogExtends
  <2>5. LogIsOrdered'
    <3>1. \A i \in 1..Len(failureLog') : failureLog'[i].kind = "created"
      BY <1>l, <2>1, <2>3 DEF LogIsOrdered, LogExtends, FR!Event
    <3>2. \A x \in FailedTask : Told("created", x, Len(failureLog))' => x \in failure.tasks
      BY <1>l, <2>1, <2>3 DEF LogIsOrdered, LogExtends, FR!Event, Told
    <3> QED
      BY <1>u, <2>1, <3>1, <3>2 DEF LogIsOrdered
  <2>6. RowsTell'
    BY <1>t, <1>o, <1>u, <2>1, <2>3, RowsKept
  <2>7. ReportsAreStored' /\ FR!LogsAreRight' /\ (logsAnswer'.result = "logs" => reported' # NoRun)
    BY <1>p, <1>a, <1>u, <1>e, <2>1 DEF ReportsAreStored, FR!LogsAreRight
  <2>8. RequestIsFounded'
    BY <1>q, <2>1 DEF RequestIsFounded
  <2> QED
    BY <2>4, <2>5, <2>6, <2>7, <2>8 DEF FailuresInv
<1>2. ASSUME NEW r \in Run, FR!StoreFailure(r) PROVE FailuresInv'
  <2>1. /\ reporting[r] = "store" /\ reporting' = [reporting EXCEPT ![r] = "register"]
        /\ FR!HasLogs(FR!Error) => reportRows' = [reportRows EXCEPT ![Owner] = [there |-> TRUE, run |-> r]]
        /\ ~FR!HasLogs(FR!Error) => reportRows' = reportRows
        /\ UNCHANGED <<reported, failureLog, failureHandled, failedRows, proxied, logsAnswer>>
    BY <1>2 DEF FR!StoreFailure
  <2>2. reportRows' \in [Org -> [there : BOOLEAN, run : Run \union {NoRun}]]
    <3>1. [there |-> TRUE, run |-> r] \in [there : BOOLEAN, run : Run \union {NoRun}]
      OBVIOUS
    <3>2. reportRows \in [Org -> [there : BOOLEAN, run : Run \union {NoRun}]]
      BY <1>t DEF FailuresTyped
    <3> QED
      BY <2>1, <3>1, <3>2
  <2>3. FailuresTyped'
    BY <1>t, <1>u, <2>1, <2>2 DEF FailuresTyped
  <2>4. LogIsOrdered' /\ RowsTell' /\ RequestIsFounded' /\ FR!LogsAreRight'
    BY <1>t, <1>l, <1>o, <1>q, <1>a, <1>u, <2>1, LogKept, RowsUntouched, RequestKept, AnswerKept
  <2>5. ReportsAreStored'
    BY <1>t, <1>p, <1>f, <1>u, <1>e, <2>1 DEF ReportsAreStored, FailuresTyped
  <2> QED
    BY <1>a, <2>1, <2>3, <2>4, <2>5 DEF FailuresInv
<1>3. ASSUME NEW r \in Run, FR!RegisterReport(r) PROVE FailuresInv'
  <2>1. /\ reporting[r] = "register" /\ reporting' = [reporting EXCEPT ![r] = "done"]
        /\ UNCHANGED <<reportRows, failureHandled, failedRows, proxied, logsAnswer>>
    BY <1>3 DEF FR!RegisterReport
  <2>2. CASE reported # NoRun
    <3>1. UNCHANGED <<reported, failureLog>>
      BY <1>3, <2>2 DEF FR!RegisterReport
    <3>2. FailuresTyped'
      BY <1>t, <1>u, <2>1, <3>1 DEF FailuresTyped
    <3>3. LogIsOrdered' /\ RowsTell' /\ RequestIsFounded' /\ FR!LogsAreRight'
      BY <1>t, <1>l, <1>o, <1>q, <1>a, <1>u, <2>1, <3>1, LogKept, RowsUntouched, RequestKept, AnswerKept
    <3>4. ReportsAreStored'
      BY <1>t, <1>p, <1>u, <1>e, <2>1, <2>2, <3>1 DEF ReportsAreStored, FailuresTyped
    <3> QED
      BY <1>a, <2>1, <3>1, <3>2, <3>3, <3>4 DEF FailuresInv
  <2>3. CASE reported = NoRun
    <3> DEFINE failing == FR!Failing
               events == FR!EventsOfFailure
    <3>0. /\ failing = IF FR!OfFunction THEN FR!Created ELSE {failure.failed}
          /\ events = {FR!Event("report", failure.failed)} \union {FR!Event("failed", x) : x \in failing}
      BY DEF FR!Failing, FR!EventsOfFailure
    <3>1. /\ reported' = r
          /\ \E order \in [1..Cardinality(events) -> events] :
               /\ \A e \in events : \E i \in DOMAIN order : order[i] = e
               /\ failureLog' = failureLog \o order
      BY <1>3, <2>3, FailureCardinality DEF FR!RegisterReport
    <3>2. FR!Created = {x \in FailedTask : Told("created", x, Len(failureLog))}
      BY <1>t, CreatedAreTold
    <3>3. failing \subseteq FailedTask
      BY <1>f, <3>0, <3>2 DEF FR!OfFunction
    <3>4. events \in SUBSET FailureEvent
      BY <1>f, <3>0, <3>3 DEF FR!Event, FailureEvent
    <3>5. IsFiniteSet(events)
      <4>1. IsFiniteSet(failing)
        BY <3>3, FS_Subset
      <4>2. IsFiniteSet({FR!Event("failed", x) : x \in failing})
        <5> DEFINE f == [x \in failing |-> FR!Event("failed", x)]
                   T == {FR!Event("failed", x) : x \in failing}
        <5>1. f \in Surjection(failing, T)
          BY DEF Surjection
        <5> QED
          BY <4>1, <5>1, FS_Surjection
      <4> QED
        BY <3>0, <4>2, FS_Singleton, FS_Union
    <3>6. LogExtends(events)
      BY <1>t, <3>1, <3>4, <3>5, LogConcatenated
    <3>7. \A x \in FailedTask : Told("created", x, Len(failureLog))' => x \in failing
      <4>1. \A x : FR!Event("created", x) \notin events
        BY <3>0 DEF FR!Event
      <4>2. \A x \in FailedTask : Told("created", x, Len(failureLog))' => Told("created", x, Len(failureLog))
        BY <3>6, <4>1 DEF LogExtends, Told
      <4>3. \A x \in FailedTask : Told("created", x, Len(failureLog)) => x \in failing
        BY <1>l, <1>f, <3>0, <3>2 DEF LogIsOrdered, FR!OfFunction
      <4> QED
        BY <4>2, <4>3
    <3>8. \A x \in failing : Told("failed", x, Len(failureLog))'
      BY <3>0, <3>6 DEF LogExtends, Told, FR!Event
    <3>9. ReportTold(Len(failureLog))'
      <4>1. PICK i \in 1..Len(failureLog') : failureLog'[i] = FR!Event("report", failure.failed)
        BY <3>0, <3>6 DEF LogExtends
      <4>2. failureLog'[i].kind = "report"
        BY <4>1 DEF FR!Event
      <4> QED
        BY <4>2 DEF ReportTold
    <3>10. \A i, j \in 1..Len(failureLog') :
             failureLog'[i].kind = "created" /\ failureLog'[j].kind = "report" => i < j
      <4>1. \A e \in events : e.kind # "created"
        BY <3>0 DEF FR!Event
      <4> QED
        BY <1>l, <1>n, <2>3, <3>6, <4>1 DEF LogIsOrdered, LogExtends
    <3>11. \A x \in FailedTask : Told("created", x, Len(failureLog))' => x \in failure.tasks
      <4>1. \A x : FR!Event("created", x) \notin events
        BY <3>0 DEF FR!Event
      <4> QED
        BY <1>l, <3>6, <4>1 DEF LogIsOrdered, LogExtends, Told
    <3>12. LogIsOrdered'
      BY <1>u, <3>1, <3>7, <3>8, <3>9, <3>10, <3>11 DEF LogIsOrdered
    <3>13. FailuresTyped'
      BY <1>t, <1>u, <2>1, <3>1, <3>6 DEF FailuresTyped, LogExtends
    <3>14. RowsTell'
      BY <1>t, <1>o, <1>u, <2>1, <2>3, <3>6, RowsKept
    <3>15. ReportsAreStored'
      BY <1>t, <1>p, <1>u, <1>e, <2>1, <2>3, <3>1 DEF ReportsAreStored, FailuresTyped
    <3>16. RequestIsFounded' /\ logsAnswer.result # "logs"
      BY <1>q, <1>a, <2>1, <2>3 DEF RequestIsFounded
    <3>17. FR!LogsAreRight'
      BY <1>a, <1>u, <2>1, <2>3, AnswerKept
    <3> QED
      BY <2>1, <3>12, <3>13, <3>14, <3>15, <3>16, <3>17 DEF FailuresInv
  <2> QED
    BY <2>2, <2>3
<1>4. ASSUME NEW r \in Run, FR!RegisterFails(r) \/ FR!Crash(r) PROVE FailuresInv'
  <2>1. /\ reporting[r] = "register"
        /\ UNCHANGED <<reportRows, reported, failureLog, failureHandled, failedRows, proxied, logsAnswer>>
    BY <1>4 DEF FR!RegisterFails, FR!Crash
  <2>2. \/ reporting' = [reporting EXCEPT ![r] = "done"] /\ "down" \in failure.env
        \/ reporting' = [reporting EXCEPT ![r] = "store"]
    BY <1>4 DEF FR!RegisterFails, FR!Crash
  <2>3. FailuresTyped'
    BY <1>t, <1>u, <2>1, <2>2 DEF FailuresTyped
  <2>4. LogIsOrdered' /\ RowsTell' /\ RequestIsFounded' /\ FR!LogsAreRight'
    BY <1>t, <1>l, <1>o, <1>q, <1>a, <1>u, <2>1, LogKept, RowsUntouched, RequestKept, AnswerKept
  <2>5. ReportsAreStored'
    BY <1>t, <1>p, <1>f, <1>u, <1>e, <2>1, <2>2 DEF ReportsAreStored, FailuresTyped
  <2> QED
    BY <1>a, <2>1, <2>3, <2>4, <2>5 DEF FailuresInv
<1>5. ASSUME NEW o \in Org, FR!HandleEvent(o) PROVE FailuresInv'
  <2>0. PICK h \in Nat, e \in FailureEvent :
          /\ h = failureHandled[o] /\ h < Len(failureLog) /\ h + 1 \in 1..Len(failureLog)
          /\ e = failureLog[h + 1]
    <3>1. failureHandled[o] \in Nat /\ failureHandled[o] < Len(failureLog)
      BY <1>t, <1>5 DEF FR!HandleEvent, FailuresTyped
    <3>2. failureHandled[o] + 1 \in 1..Len(failureLog)
      BY <1>n, <3>1
    <3>3. failureLog[failureHandled[o] + 1] \in FailureEvent
      BY <1>t, <3>2 DEF FailuresTyped
    <3> QED
      BY <3>1, <3>2, <3>3
  <2>2. /\ failureHandled' = [failureHandled EXCEPT ![o] = h + 1]
        /\ UNCHANGED <<reporting, reported, failureLog, proxied, logsAnswer>>
    BY <1>5, <2>0 DEF FR!HandleEvent
  <2>3. \/ reportRows' = reportRows
        \/ /\ e.kind = "report" /\ FR!HasLogs(FR!Error) /\ ~reportRows[o].there
           /\ reportRows' = [reportRows EXCEPT ![o] = [there |-> TRUE, run |-> NoRun]]
    BY <1>5, <2>0 DEF FR!HandleEvent, FR!CreateReport
  <2>4. failedRows' = [failedRows EXCEPT ![o] = [t \in FailedTask |->
            CASE e = FR!Event("created", t) -> [failedRows[o][t] EXCEPT !.there = TRUE]
              [] e = FR!Event("failed", t) -> [failedRows[o][t] EXCEPT !.failed = TRUE]
              [] e.kind = "report" /\ t \in FR!TasksOf(o) -> FR!WithReport(failedRows[o][t])
              [] OTHER -> failedRows[o][t]]]
    BY <1>5, <2>0 DEF FR!HandleEvent
  <2>5. FR!Error \in FR!ErrorType /\ FR!HasLogs(FR!Error) \in BOOLEAN
    BY <1>f DEF FR!Error, FR!ErrorOf, FR!SettingType, FR!Exception, FR!ErrorType, FR!HasLogs
  <2>r. failedRows \in [Org -> [FailedTask -> FailedRow]]
    BY <1>t DEF FailuresTyped
  <2>c. ASSUME NEW t \in FailedTask
        PROVE  /\ failedRows[o][t] \in FailedRow
               /\ e = FR!Event("created", t) =>
                    failedRows'[o][t] = [failedRows[o][t] EXCEPT !.there = TRUE]
               /\ e = FR!Event("failed", t) =>
                    failedRows'[o][t] = [failedRows[o][t] EXCEPT !.failed = TRUE]
               /\ e.kind = "report" /\ t \in FR!TasksOf(o) =>
                    failedRows'[o][t] = FR!WithReport(failedRows[o][t])
               /\ \/ e = FR!Event("created", t) \/ e = FR!Event("failed", t)
                  \/ e.kind = "report" /\ t \in FR!TasksOf(o)
                  \/ failedRows'[o][t] = failedRows[o][t]
    <3> DEFINE fresh == CASE e = FR!Event("created", t) -> [failedRows[o][t] EXCEPT !.there = TRUE]
                 [] e = FR!Event("failed", t) -> [failedRows[o][t] EXCEPT !.failed = TRUE]
                 [] e.kind = "report" /\ t \in FR!TasksOf(o) -> FR!WithReport(failedRows[o][t])
                 [] OTHER -> failedRows[o][t]
    <3>1. failedRows'[o][t] = fresh
      BY <2>4, <2>r
    <3>2. /\ e = FR!Event("created", t) => e # FR!Event("failed", t) /\ e.kind # "report"
          /\ e = FR!Event("failed", t) => e.kind # "report"
      BY DEF FR!Event
    <3>3. e = FR!Event("created", t) => fresh = [failedRows[o][t] EXCEPT !.there = TRUE]
      BY <3>2
    <3>4. e = FR!Event("failed", t) => fresh = [failedRows[o][t] EXCEPT !.failed = TRUE]
      BY <3>2
    <3>5. e.kind = "report" /\ t \in FR!TasksOf(o) => fresh = FR!WithReport(failedRows[o][t])
      BY <3>2
    <3>6. \/ e = FR!Event("created", t) \/ e = FR!Event("failed", t)
          \/ e.kind = "report" /\ t \in FR!TasksOf(o)
          \/ fresh = failedRows[o][t]
      OBVIOUS
    <3> HIDE DEF fresh
    <3> QED
      BY <2>r, <3>1, <3>3, <3>4, <3>5, <3>6
  <2>6. failedRows' \in [Org -> [FailedTask -> FailedRow]]
    <3>1. ASSUME NEW t \in FailedTask PROVE failedRows'[o][t] \in FailedRow
      <4>1. failedRows[o][t] \in FailedRow
        BY <2>c
      <4>2. [failedRows[o][t] EXCEPT !.there = TRUE] \in FailedRow
        BY <4>1 DEF FailedRow
      <4>3. [failedRows[o][t] EXCEPT !.failed = TRUE] \in FailedRow
        BY <4>1 DEF FailedRow
      <4>4. FR!WithReport(failedRows[o][t]) \in FailedRow
        BY <2>5, <4>1 DEF FailedRow, FR!WithReport
      <4> QED
        BY <2>c, <4>1, <4>2, <4>3, <4>4
    <3> DEFINE fresh == [t \in FailedTask |->
            CASE e = FR!Event("created", t) -> [failedRows[o][t] EXCEPT !.there = TRUE]
              [] e = FR!Event("failed", t) -> [failedRows[o][t] EXCEPT !.failed = TRUE]
              [] e.kind = "report" /\ t \in FR!TasksOf(o) -> FR!WithReport(failedRows[o][t])
              [] OTHER -> failedRows[o][t]]
    <3>2. DOMAIN fresh = FailedTask /\ fresh = [t \in FailedTask |-> fresh[t]]
      OBVIOUS
    <3> HIDE DEF fresh
    <3>3. failedRows' = [failedRows EXCEPT ![o] = fresh]
      BY <2>4 DEF fresh
    <3>4. \A t \in FailedTask : fresh[t] \in FailedRow
      BY <2>r, <3>1, <3>3
    <3> QED
      BY <2>r, <3>2, <3>3, <3>4
  <2>7. FailuresTyped'
    <3>1. reportRows' \in [Org -> [there : BOOLEAN, run : Run \union {NoRun}]]
      <4>1. [there |-> TRUE, run |-> NoRun] \in [there : BOOLEAN, run : Run \union {NoRun}]
        OBVIOUS
      <4>2. reportRows \in [Org -> [there : BOOLEAN, run : Run \union {NoRun}]]
        BY <1>t DEF FailuresTyped
      <4> QED
        BY <2>3, <4>1, <4>2
    <3>2. failureHandled' \in [Org -> Nat] /\ \A x \in Org : failureHandled'[x] <= Len(failureLog')
      BY <1>t, <1>n, <2>0, <2>2 DEF FailuresTyped
    <3> QED
      BY <1>t, <1>u, <2>2, <2>6, <3>1, <3>2 DEF FailuresTyped
  <2>8. e.kind = "report" => reported # NoRun
    BY <1>l, <2>0 DEF LogIsOrdered
  <2>9. ASSUME NEW q \in Org, NEW t \in FailedTask PROVE RowTells(q, t)'
    <3>1. RowTells(q, t)
      BY <1>o DEF RowsTell
    <3>2. CASE q # o
      <4>1. failedRows'[q] = failedRows[q] /\ failureHandled'[q] = failureHandled[q]
        BY <1>t, <2>2, <2>4, <3>2 DEF FailuresTyped
      <4>2. /\ \A kind : Told(kind, t, failureHandled[q])' <=> Told(kind, t, failureHandled[q])
            /\ ReportTold(failureHandled[q])' <=> ReportTold(failureHandled[q])
        BY <2>2, <4>1 DEF Told, ReportTold, FR!Event
      <4> QED
        BY <1>e, <2>2, <3>1, <4>1, <4>2 DEF RowTells
    <3>3. CASE q = o
      <4>h. failureHandled'[o] = h + 1
        BY <1>t, <2>2 DEF FailuresTyped
      <4>1. /\ \A kind : Told(kind, t, failureHandled[o])' <=> Told(kind, t, h) \/ e = FR!Event(kind, t)
            /\ ReportTold(failureHandled[o])' <=> ReportTold(h) \/ e.kind = "report"
        <5>1. 1..(h + 1) = 1..h \union {h + 1}
          OBVIOUS
        <5> QED
          BY <2>0, <2>2, <4>h, <5>1 DEF Told, ReportTold, FR!Event
      <4>2. /\ failedRows[o][t].there <=> Told("created", t, h)
            /\ Told("failed", t, h) => failedRows[o][t].failed
            /\ ReportTold(h) /\ Told("created", t, h) =>
                 /\ failedRows[o][t].error = FR!Error /\ failedRows[o][t].owner = Owner
                 /\ failedRows[o][t].url <=> FR!HasLogs(FR!Error)
            /\ failedRows[o][t].url =>
                 FR!HasLogs(FR!Error) /\ reported # NoRun /\ failedRows[o][t].owner = Owner
        BY <2>0, <3>1, <3>3 DEF RowTells
      <4>3. failedRows[o][t] \in FailedRow
        BY <2>c
      <4>4. CASE e = FR!Event("created", t)
        <5>1. e.kind = "created" /\ \A kind : e = FR!Event(kind, t) <=> kind = "created"
          BY <4>4 DEF FR!Event
        <5>2. ~ReportTold(h)
          BY <1>l, <2>0, <5>1 DEF LogIsOrdered, ReportTold
        <5>3. failedRows'[o][t] = [failedRows[o][t] EXCEPT !.there = TRUE]
          BY <2>c, <4>4
        <5>4. /\ failedRows'[o][t].there /\ failedRows'[o][t].failed = failedRows[o][t].failed
              /\ failedRows'[o][t].url = failedRows[o][t].url
              /\ failedRows'[o][t].owner = failedRows[o][t].owner
          BY <4>3, <5>3 DEF FailedRow
        <5> QED
          BY <1>e, <2>2, <3>3, <4>1, <4>2, <5>1, <5>2, <5>4 DEF RowTells
      <4>5. CASE e = FR!Event("failed", t)
        <5>1. e.kind = "failed" /\ \A kind : e = FR!Event(kind, t) <=> kind = "failed"
          BY <4>5 DEF FR!Event
        <5>2. failedRows'[o][t] = [failedRows[o][t] EXCEPT !.failed = TRUE]
          BY <2>c, <4>5
        <5>3. /\ failedRows'[o][t].failed /\ failedRows'[o][t].there = failedRows[o][t].there
              /\ failedRows'[o][t].url = failedRows[o][t].url
              /\ failedRows'[o][t].error = failedRows[o][t].error
              /\ failedRows'[o][t].owner = failedRows[o][t].owner
          BY <4>3, <5>2 DEF FailedRow
        <5> QED
          BY <1>e, <2>2, <3>3, <4>1, <4>2, <5>1, <5>3 DEF RowTells
      <4>6. CASE e.kind = "report"
        <5>1. \A kind \in {"created", "failed"} : e # FR!Event(kind, t)
          BY <4>6 DEF FR!Event
        <5>2. Told("created", t, h) => t \in FR!TasksOf(o)
          <6>1. Told("created", t, h) => t \in failure.tasks
            BY <1>l, <1>n, <2>0 DEF LogIsOrdered, Told
          <6> QED
            BY <1>f, <4>2, <6>1 DEF FR!TasksOf, FR!OfFunction
        <5>3. CASE t \in FR!TasksOf(o)
          <6>1. failedRows'[o][t] = FR!WithReport(failedRows[o][t])
            BY <2>c, <4>6, <5>3
          <6>2. /\ failedRows'[o][t].failed = failedRows[o][t].failed
                /\ failedRows'[o][t].there = failedRows[o][t].there
                /\ failedRows'[o][t].url = FR!HasLogs(FR!Error)
                /\ failedRows'[o][t].error = FR!Error
                /\ failedRows'[o][t].owner = Owner
            BY <4>3, <6>1 DEF FailedRow, FR!WithReport
          <6> QED
            BY <1>e, <2>2, <2>8, <3>3, <4>1, <4>2, <4>6, <5>1, <6>2 DEF RowTells
        <5>4. CASE t \notin FR!TasksOf(o)
          <6>1. failedRows'[o][t] = failedRows[o][t]
            BY <2>c, <5>1, <5>4
          <6> QED
            BY <1>e, <2>2, <3>3, <4>1, <4>2, <5>1, <5>2, <5>4, <6>1 DEF RowTells
        <5> QED
          BY <5>3, <5>4
      <4>7. CASE e.kind # "report" /\ e # FR!Event("created", t) /\ e # FR!Event("failed", t)
        <5>1. failedRows'[o][t] = failedRows[o][t]
          BY <2>c, <4>7
        <5> QED
          BY <1>e, <2>2, <3>3, <4>1, <4>2, <4>7, <5>1 DEF RowTells
      <4> QED
        BY <4>4, <4>5, <4>6, <4>7
    <3> QED
      BY <3>2, <3>3
  <2>10. LogIsOrdered' /\ RequestIsFounded' /\ FR!LogsAreRight'
    BY <1>l, <1>q, <1>a, <1>u, <2>2, LogKept, RequestKept, AnswerKept
  <2>11. ReportsAreStored'
    BY <1>t, <1>p, <1>u, <1>e, <2>2, <2>3, <2>8 DEF ReportsAreStored, FailuresTyped
  <2> QED
    BY <1>a, <2>2, <2>7, <2>9, <2>10, <2>11 DEF FailuresInv, RowsTell
<1>6. ASSUME NEW o \in Org, NEW t \in FailedTask, FR!AskLogs(o, t) PROVE FailuresInv'
  <2> DEFINE aRow == failedRows[o][t]
             owner == IF aRow.error = "build" THEN Owner ELSE aRow.owner
  <2>1. /\ proxied = FR!NoRequest /\ aRow.there
        /\ UNCHANGED <<reporting, reportRows, reported, failureLog, failureHandled, failedRows>>
    BY <1>6 DEF FR!AskLogs
  <2>2. FailuresTyped' /\ LogIsOrdered' /\ RowsTell' /\ ReportsAreStored'
    <3>1. FailuresTyped'
      BY <1>t, <1>u, <2>1 DEF FailuresTyped
    <3>2. ReportsAreStored'
      BY <1>p, <1>u, <1>e, <2>1 DEF ReportsAreStored
    <3> QED
      BY <1>t, <1>l, <1>o, <1>u, <2>1, <3>1, <3>2, LogKept, RowsUntouched
  <2>3. \/ /\ proxied' = FR!NoRequest /\ logsAnswer'.result \in {"forbidden", "gone"}
        \/ o \in failure.allowed /\ aRow.url /\ owner = o /\ FR!LocalLogs(o)
        \/ /\ o \in failure.allowed /\ aRow.url /\ owner # o
           /\ proxied' = [org |-> o, task |-> t] /\ UNCHANGED logsAnswer
    BY <1>6 DEF FR!AskLogs, FR!Answer
  <2>4. RowTells(o, t)
    BY <1>o DEF RowsTell
  <2>5. aRow.url => FR!HasLogs(FR!Error) /\ reported # NoRun /\ aRow.owner = Owner /\ reportRows[Owner].there
    BY <1>p, <2>4 DEF RowTells, ReportsAreStored
  <2>6. CASE proxied' = FR!NoRequest /\ logsAnswer'.result \in {"forbidden", "gone"}
    <3>1. RequestIsFounded'
      BY <2>6 DEF RequestIsFounded, FR!NoRequest
    <3>2. FR!LogsAreRight' /\ (logsAnswer'.result = "logs" => reported' # NoRun)
      BY <2>6 DEF FR!LogsAreRight
    <3> QED
      BY <2>2, <3>1, <3>2 DEF FailuresInv
  <2>7. CASE o \in failure.allowed /\ aRow.url /\ owner = o /\ FR!LocalLogs(o)
    <3>1. /\ reportRows[Owner].there /\ reportRows[Owner].run # NoRun /\ reported # NoRun
      BY <1>p, <1>f, <2>5, <2>7 DEF ReportsAreStored
    <3>2. proxied' = FR!NoRequest /\ logsAnswer'.result = "logs" /\ logsAnswer'.org = o
          /\ logsAnswer'.run = reportRows[Owner].run
      BY <2>7, <3>1 DEF FR!LocalLogs, FR!Answer
    <3>3. RequestIsFounded'
      BY <3>2 DEF RequestIsFounded, FR!NoRequest
    <3>4. logsAnswer'.run = reported' \/ Cardinality(failure'.runs) > 1
      BY <1>t, <1>p, <1>u, <2>1, <3>1, <3>2, OneRun
    <3>5. o \in failure'.allowed
      BY <1>u, <2>7
    <3>6. FR!LogsAreRight'
      BY <3>2, <3>4, <3>5, FailureCardinality DEF FR!LogsAreRight
    <3> QED
      BY <2>1, <2>2, <3>1, <3>3, <3>6 DEF FailuresInv
  <2>8. CASE /\ o \in failure.allowed /\ aRow.url /\ owner # o
             /\ proxied' = [org |-> o, task |-> t] /\ UNCHANGED logsAnswer
    <3>1. Told("created", t, Len(failureLog))
      BY <1>t, <1>n, <2>1, <2>4 DEF FailuresTyped, RowTells, Told
    <3>2. RequestIsFounded'
      BY <1>u, <1>e, <2>1, <2>5, <2>8, <3>1 DEF RequestIsFounded, Told
    <3>3. FR!LogsAreRight' /\ (logsAnswer'.result = "logs" => reported' # NoRun)
      BY <1>a, <1>u, <1>e, <2>1, <2>8 DEF FR!LogsAreRight
    <3> QED
      BY <2>2, <3>2, <3>3 DEF FailuresInv
  <2> QED
    BY <2>3, <2>6, <2>7, <2>8
<1>7. ASSUME FR!ServeLogs PROVE FailuresInv'
  <2> DEFINE o == proxied.org
             aRow == failedRows[Owner][proxied.task]
             h == failureHandled[Owner]
  <2>1. /\ proxied # FR!NoRequest
        /\ UNCHANGED <<reporting, reportRows, reported, failureLog, failureHandled, failedRows>>
    BY <1>7 DEF FR!ServeLogs
  <2>2. FailuresTyped' /\ LogIsOrdered' /\ RowsTell' /\ ReportsAreStored'
    <3>1. FailuresTyped'
      BY <1>t, <1>u, <2>1 DEF FailuresTyped
    <3>2. ReportsAreStored'
      BY <1>p, <1>u, <1>e, <2>1 DEF ReportsAreStored
    <3> QED
      BY <1>t, <1>l, <1>o, <1>u, <2>1, <3>1, <3>2, LogKept, RowsUntouched
  <2>3. /\ o \in failure.allowed /\ proxied.task \in FailedTask /\ reported # NoRun
        /\ Told("created", proxied.task, Len(failureLog)) /\ FR!HasLogs(FR!Error)
    BY <1>q, <2>1 DEF RequestIsFounded
  <2>4. reportRows[Owner].there /\ reportRows[Owner].run # NoRun
    BY <1>p, <1>f, <2>3 DEF ReportsAreStored
  <2>5. h \in Nat /\ h <= Len(failureLog)
    BY <1>t DEF FailuresTyped
  <2>6. ~FR!OfFunction /\ (~aRow.there \/ aRow.owner # Owner) => FR!OwnerBehind
    <3>1. RowTells(Owner, proxied.task)
      BY <1>o, <2>3 DEF RowsTell
    <3>2. ReportTold(h) => Told("created", proxied.task, h)
      BY <1>l, <1>n, <2>3, <2>5 DEF LogIsOrdered, ReportTold, Told, FR!Event
    <3>3. ReportTold(h) => aRow.there /\ aRow.owner = Owner
      BY <3>1, <3>2 DEF RowTells
    <3> QED
      BY <3>3 DEF ReportTold, FR!OwnerBehind
  <2>7. \/ /\ ~FR!OfFunction /\ (~aRow.there \/ aRow.owner # Owner)
           /\ \/ FR!Answer("not found", NoRun, o)
              \/ FR!Answer("error", NoRun, o)
        \/ FR!Answer("logs", reportRows[Owner].run, o)
    BY <1>7, <2>3, <2>4 DEF FR!ServeLogs, FR!LocalLogs
  <2>8. proxied' = FR!NoRequest
    BY <2>7 DEF FR!Answer
  <2>9. RequestIsFounded'
    BY <2>8 DEF RequestIsFounded, FR!NoRequest
  <2>10. reportRows[Owner].run = reported \/ Cardinality(failure.runs) > 1
    BY <1>t, <1>p, <2>3, <2>4, OneRun
  <2>11. FR!LogsAreRight'
    <3>1. CASE FR!Answer("logs", reportRows[Owner].run, o)
      <4>1. logsAnswer'.result = "logs" /\ logsAnswer'.org = o /\ logsAnswer'.run = reportRows[Owner].run
        BY <3>1 DEF FR!Answer
      <4> QED
        BY <1>u, <2>1, <2>3, <2>10, <4>1, FailureCardinality DEF FR!LogsAreRight
    <3>2. CASE /\ ~FR!OfFunction /\ (~aRow.there \/ aRow.owner # Owner)
               /\ \/ FR!Answer("not found", NoRun, o)
                  \/ FR!Answer("error", NoRun, o)
      <4>1. PICK result \in {"not found", "error"} : FR!Answer(result, NoRun, o)
        BY <3>2
      <4>2. logsAnswer' = [result |-> result, run |-> NoRun, org |-> o, early |-> FR!OwnerBehind]
        BY <4>1 DEF FR!Answer
      <4>3. logsAnswer'.result = result /\ logsAnswer'.early = FR!OwnerBehind
        BY <4>2
      <4> QED
        BY <1>e, <2>6, <3>2, <4>3 DEF FR!LogsAreRight
    <3> QED
      BY <2>7, <3>1, <3>2
  <2> QED
    BY <2>1, <2>2, <2>3, <2>9, <2>11 DEF FailuresInv
<1>8. CASE UNCHANGED FR!vars
  <2>1. UNCHANGED <<failure, reporting, reportRows, reported, failureLog, failureHandled, failedRows,
                    proxied, logsAnswer>>
    BY <1>8 DEF FR!vars
  <2> QED
    <3>1. FailuresTyped'
      BY <1>t, <2>1 DEF FailuresTyped
    <3>2. ReportsAreStored'
      BY <1>p, <1>e, <2>1 DEF ReportsAreStored
    <3>3. LogIsOrdered' /\ RowsTell' /\ RequestIsFounded' /\ FR!LogsAreRight'
      BY <1>t, <1>l, <1>o, <1>q, <1>a, <2>1, LogKept, RowsUntouched, RequestKept, AnswerKept
    <3> QED
      BY <1>a, <2>1, <3>1, <3>2, <3>3 DEF FailuresInv
<1> QED
  BY <1>1, <1>2, <1>3, <1>4, <1>5, <1>6, <1>7, <1>8 DEF FR!Next

\* Whoever is given logs may see them and they are the right ones, and the rows of
\* the failed tasks tell why (tasks_asset_failure_report.py, events/sync.py,
\* failed_asset_logs.py).
THEOREM FailuresAreReported == FR!Spec => []FailuresAreTold
<1>1. ASSUME FailuresInv PROVE FailuresAreTold
  <2>1. FR!Created = {t \in FailedTask : Told("created", t, Len(failureLog))}
    BY <1>1, CreatedAreTold DEF FailuresInv
  <2>2. FR!RowsTellWhy
    BY <1>1, <2>1, FailuresAssumption
    DEF FR!RowsTellWhy, FailuresInv, FailuresTyped, LogIsOrdered, RowsTell, RowTells, ReportsAreStored,
        FR!SettingType
  <2> QED
    BY <1>1, <2>2 DEF FailuresAreTold, FailuresInv
<1> QED
  BY <1>1, FailuresInit, FailuresStep, PTL DEF FR!Spec

-----------------------------------------------------------------------------
(* The specification that is checked is that of every part.                  *)

LEMMA PartsStart ==
  PartsInit => Init /\ AC!Init /\ SE!Init /\ RE!Init /\ LI!Init /\ DO!Init /\ FR!Init
  BY DEF PartsInit

LEMMA PartsStep ==
  ASSUME [PartsNext]_partsVars
  PROVE  /\ [Next]_vars /\ [AC!Next]_(AC!vars) /\ [SE!Next]_(SE!vars) /\ [RE!Next]_(RE!vars)
         /\ [LI!Next]_(LI!vars) /\ [DO!Next]_(DO!vars) /\ [FR!Next]_(FR!vars)
<1>1. UNCHANGED vars \/ Next
  BY DEF PartsNext, partsVars
<1>2. UNCHANGED accountVars \/ AC!Next
  BY DEF PartsNext, partsVars
<1>3. UNCHANGED sessionVars \/ SE!Next
  BY DEF PartsNext, partsVars
<1>4. UNCHANGED readVars \/ RE!Next
  BY DEF PartsNext, partsVars
<1>5. UNCHANGED listVars \/ LI!Next
  BY DEF PartsNext, partsVars
<1>6. UNCHANGED downloadVars \/ DO!Next
  BY DEF PartsNext, partsVars
<1>7. UNCHANGED failureVars \/ FR!Next
  BY DEF PartsNext, partsVars
<1>8. /\ UNCHANGED accountVars => UNCHANGED AC!vars
      /\ UNCHANGED sessionVars => UNCHANGED SE!vars
      /\ UNCHANGED readVars => UNCHANGED RE!vars
      /\ UNCHANGED listVars => UNCHANGED LI!vars
      /\ UNCHANGED downloadVars => UNCHANGED DO!vars
      /\ UNCHANGED failureVars => UNCHANGED FR!vars
  BY DEF accountVars, sessionVars, readVars, listVars, downloadVars, failureVars,
         AC!vars, AC!rowVars, AC!requestVars, SE!vars, RE!vars, LI!vars,
         DO!vars, DO!assetVars, DO!credVars, DO!reqVars,
         FR!vars, FR!reportVars, FR!syncVars, FR!askVars
<1> QED
  BY <1>1, <1>2, <1>3, <1>4, <1>5, <1>6, <1>7, <1>8

\* A behaviour that the runs check moves one part as the part's own specification
\* allows and leaves the others in one state: what is proved of the parts holds.
THEOREM PartsAreTheParts ==
  PartsSpec => Spec /\ AC!Spec /\ SE!Spec /\ RE!Spec /\ LI!Spec /\ DO!Spec /\ FR!Spec
<1>1. PartsInit => Init /\ AC!Init /\ SE!Init /\ RE!Init /\ LI!Init /\ DO!Init /\ FR!Init
  BY PartsStart
<1>2. [PartsNext]_partsVars =>
         /\ [Next]_vars /\ [AC!Next]_(AC!vars) /\ [SE!Next]_(SE!vars) /\ [RE!Next]_(RE!vars)
         /\ [LI!Next]_(LI!vars) /\ [DO!Next]_(DO!vars) /\ [FR!Next]_(FR!vars)
  BY PartsStep
<1> QED
  BY <1>1, <1>2, PTL DEF PartsSpec, Spec, AC!Spec, SE!Spec, RE!Spec, LI!Spec, DO!Spec, FR!Spec
=============================================================================
