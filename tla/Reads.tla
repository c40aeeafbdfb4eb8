-------------------------------- MODULE Reads --------------------------------
(***************************************************************************)
(* What a reader of the API sees while the event consumer and other        *)
(* requests change the database: the workflow graph of a compute plan      *)
(* (api/views/compute_plan_graph.py), its performances                     *)
(* (api/views/performance.py) and the pages of the news feed               *)
(* (api/views/newsfeed.py).                                                *)
(*                                                                         *)
(* A request is not a transaction: every query of it sees the rows that    *)
(* are committed when it runs.  Rows are never deleted.  The serializers   *)
(* and the fields that no order or filter looks at are left out.           *)
(***************************************************************************)
EXTENDS Pagination, FiniteSets

CONSTANTS
  Task, Plan, NoTask,
  MaxDisplayed,   \* MAX_TASKS_DISPLAYED (5000)
  MaxChanges,     \* bound: updates of rows
  Settings        \* the requests explored, see TypeOK

VARIABLES
  setting,        \* the request, and what never changes in the rows
  rows,           \* ComputeTask: the tasks the plan has
  performances,   \* Performance: the tasks that have one
  plans,          \* ComputePlan: creation, start and end date, 0 for none
  managers,       \* DataManager: the creation dates
  at,             \* the query the reader is at
  first, second,  \* what its queries returned
  page,           \* the page it asks for
  watch, seen,    \* a walk: the items when it began, the items on its pages
  moved,          \* a walk: an item changed its place, or went away
  late,           \* items inserted after the reader's first query of a request
  changes

vars == <<setting, rows, performances, plans, managers, at, first, second,
          page, watch, seen, moved, late, changes>>
database == <<rows, performances, plans, managers>>

Kind == {"graph", "performances", "news"}

TypeOK ==
  /\ setting \in Settings /\ setting.kind \in Kind
  /\ rows \subseteq Task /\ performances \subseteq rows
  /\ \A t \in rows : setting.parent[t] \in rows \union {NoTask}
  /\ \A p \in Plan : plans[p].ended # 0 => plans[p].created # 0
  /\ at \in {"begin", "second", "slice", "created", "started", "managers", "done", "refused"}
  /\ page \in Nat /\ moved \in BOOLEAN
  /\ changes \in 0..MaxChanges

NoDates == [created |-> 0, started |-> 0, ended |-> 0]

Init ==
  /\ setting \in Settings
  /\ rows = {} /\ performances = {}
  /\ plans = [p \in Plan |-> NoDates] /\ managers = {}
  /\ at = "begin" /\ first = {} /\ second = {}
  /\ page = 1 /\ watch = {} /\ seen = {} /\ moved = FALSE /\ late = {}
  /\ changes = 0

-----------------------------------------------------------------------------
(* Writers: the event consumer and the other requests.                     *)

Change == changes < MaxChanges /\ changes' = changes + 1
Now == changes + 1
reader == <<setting, at, first, second, page, watch, seen>>
OfTasks == setting.kind # "news"

\* A task comes after its parent (a foreign key), in any other order.
InsertTask(t) ==
  /\ OfTasks /\ t \notin rows
  /\ setting.parent[t] \in rows \union {NoTask}
  /\ rows' = rows \union {t}
  /\ late' = late \union {t}
  /\ UNCHANGED <<reader, performances, plans, managers, moved, changes>>

InsertPerformance(t) ==
  /\ setting.kind = "performances" /\ t \in rows \ performances
  /\ performances' = performances \union {t}
  /\ UNCHANGED <<reader, rows, plans, managers, moved, late, changes>>

SetDates(p, dates) ==
  /\ setting.kind = "news" /\ Change
  /\ plans' = [plans EXCEPT ![p] = dates]
  /\ UNCHANGED <<reader, rows, performances, managers, late>>

CreatePlan(p) ==
  /\ plans[p].created = 0
  /\ SetDates(p, [NoDates EXCEPT !.created = Now])
  /\ UNCHANGED moved

\* update_status and update_end_date; one transaction may start a plan and end
\* it.
AdvancePlan(p) ==
  /\ plans[p].created # 0 /\ plans[p].ended = 0
  /\ LET started == [plans[p] EXCEPT !.started = IF @ = 0 THEN Now ELSE @] IN
     \/ plans[p].started = 0 /\ SetDates(p, started)
     \/ SetDates(p, [started EXCEPT !.ended = Now])
  /\ UNCHANGED moved

\* A plan that gets new tasks loses its end date.
ReopenPlan(p) ==
  /\ plans[p].ended # 0
  /\ SetDates(p, [plans[p] EXCEPT !.ended = 0])
  /\ moved' = TRUE

InsertManager ==
  /\ setting.kind = "news" /\ Change
  /\ managers' = managers \union {Now}
  /\ UNCHANGED <<reader, rows, performances, plans, moved, late>>

writers == <<database, moved, changes>>

-----------------------------------------------------------------------------
(* get_cp_graph                                                            *)

Edges(ts) == {<<setting.parent[t], t>> : t \in {u \in ts : setting.parent[u] # NoTask}}

\* The tasks: len() runs the query.
ReadTasks ==
  /\ setting.kind = "graph" /\ at = "begin"
  /\ first' = rows /\ late' = {}
  /\ at' = IF Cardinality(rows) > MaxDisplayed THEN "refused" ELSE "second"
  /\ UNCHANGED <<setting, writers, second, page, watch, seen>>

\* The edges: the query runs when the answer is rendered.
ReadEdges ==
  /\ setting.kind = "graph" /\ at = "second"
  /\ second' = Edges(rows)
  /\ at' = "done"
  /\ UNCHANGED <<setting, writers, first, page, watch, seen, late>>

\* Faulty: the edges are read before the tasks.
ReadEdgesFirst ==
  /\ setting.kind = "graph"
  /\ \/ /\ at = "begin" /\ second' = Edges(rows) /\ at' = "second"
        /\ late' = {} /\ UNCHANGED first
     \/ at = "second" /\ first' = rows /\ at' = "done" /\ UNCHANGED <<second, late>>
  /\ UNCHANGED <<setting, writers, page, watch, seen>>

Graph == ReadTasks \/ ReadEdges

-----------------------------------------------------------------------------
(* CPPerformanceViewSet.list: the statistics, then the performances.       *)

ReadStatistics ==
  /\ setting.kind = "performances" /\ at = "begin"
  /\ first' = {setting.rank[t] : t \in rows} /\ late' = {}
  /\ at' = "second"
  /\ UNCHANGED <<setting, writers, second, page, watch, seen>>

ReadPerformances ==
  /\ setting.kind = "performances" /\ at = "second"
  /\ second' = performances
  /\ at' = "done"
  /\ UNCHANGED <<setting, writers, first, page, watch, seen, late>>

-----------------------------------------------------------------------------
(* NewsFeedViewSet: every page is cut from the whole list, read anew.      *)

\* date_filters; 0 is no date.
InRange(date) == date # 0 /\ setting.after <= date /\ date < setting.before
NewsItem(p, news) == [plan |-> p, news |-> news, date |-> plans[p][news]]
Items(news) == {NewsItem(p, news) : p \in {q \in Plan : InRange(plans[q][news])}}
ManagerItems == {[plan |-> "none", news |-> "manager", date |-> d] : d \in {m \in managers : InRange(m)}}

AllItems == Items("ended") \union Items("created") \union Items("started") \union ManagerItems

\* sort(key=timestamp, reverse=True): later items first; the sort is stable.
NewsOrder == <<"ended", "created", "started", "manager">>
Rank(item) == CHOOSE i \in DOMAIN NewsOrder : NewsOrder[i] = item.news
Newer(x, y) == x.date > y.date \/ (x.date = y.date /\ Rank(x) < Rank(y))
Newest(items, n) ==
  LET place(x) == Cardinality({y \in items : Newer(y, x)}) + 1
  IN {x \in items : Bottom(page) < place(x) /\ place(x) <= Top(page, n)}

\* get_compute_plan_items: the query of each step.
QueryOf(step) == CASE step = "begin" -> "ended" [] step = "created" -> "created" [] step = "started" -> "started"

ReadNews ==
  /\ setting.kind = "news" /\ at \in {"begin", "created", "started"}
  /\ first' = Items(QueryOf(at)) \union IF at = "begin" THEN {} ELSE first
  /\ at' = CASE at = "begin" -> IF setting.important THEN "slice" ELSE "created"
             [] at = "created" -> "started"
             [] at = "started" -> "managers"
  /\ watch' = IF page = 1 /\ at = "begin"
                THEN IF setting.important THEN Items("ended") ELSE AllItems ELSE watch
  /\ moved' = (moved /\ ~(page = 1 /\ at = "begin"))
  /\ UNCHANGED <<setting, database, changes, second, page, seen, late>>

ReadManagers ==
  /\ setting.kind = "news" /\ at = "managers"
  /\ first' = first \union ManagerItems
  /\ at' = "slice"
  /\ UNCHANGED <<setting, writers, second, page, watch, seen, late>>

\* paginate_queryset: the count and the slice are of the same list; a page past
\* its end is a 404.
CutPage ==
  /\ setting.kind = "news" /\ at = "slice"
  /\ LET n == Cardinality(first) IN
     IF page > 1 /\ Bottom(page) >= n
       THEN at' = "refused" /\ UNCHANGED <<seen, page>>
       ELSE /\ seen' = seen \union Newest(first, n)
            /\ at' = IF HasNext(page, n) THEN "begin" ELSE "done"
            /\ page' = page + 1
  /\ UNCHANGED <<setting, writers, first, second, watch, late>>

Reader ==
  \/ Graph
  \/ ReadStatistics \/ ReadPerformances
  \/ ReadNews \/ ReadManagers \/ CutPage

Next ==
  \/ \E t \in Task : InsertTask(t) \/ InsertPerformance(t)
  \/ \E p \in Plan : CreatePlan(p) \/ AdvancePlan(p) \/ ReopenPlan(p)
  \/ InsertManager
  \/ Reader

Spec == Init /\ [][Next]_vars

-----------------------------------------------------------------------------
\* The answer to a request made of several queries holds together.  Every edge
\* into a task of the graph is in the graph with the task it comes from; an edge
\* into no task of the graph is that of a task inserted between the queries.  A
\* performance whose rank the statistics miss is that of such a task.
AnswersCohere ==
  at = "done" =>
    /\ setting.kind = "graph" =>
         /\ Edges(first) \subseteq second /\ \A e \in Edges(first) : e[1] \in first
         /\ \A e \in second : e[2] \in first \union late
    /\ setting.kind = "performances" =>
         \A t \in second : setting.rank[t] \in first \/ t \in late

\* Whatever the consumer does between the queries of the news feed, a page list
\* that has the end of a plan has its start and its creation, unless they are
\* out of the dates asked for.
NewsCohere ==
  setting.kind = "news" /\ at = "slice" /\ ~setting.important =>
    \A e \in first : e.news = "ended" /\ plans[e.plan].ended = e.date =>
      \A news \in {"created", "started"} :
        InRange(plans[e.plan][news]) => \E i \in first : i.plan = e.plan /\ i.news = news

\* A reader who follows the pages of the news feed to the last one has seen
\* every item that was there when it began, whatever is created, started or
\* ended meanwhile: new items come first, and a page is cut from a list that is
\* read anew.  A plan that gets new tasks loses the item of its end.
NewsIsComplete ==
  setting.kind = "news" /\ at = "done" /\ ~moved => watch \subseteq seen
=============================================================================
