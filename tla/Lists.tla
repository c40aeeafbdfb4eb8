--------------------------------- MODULE Lists ---------------------------------
(***************************************************************************)
(* A reader that follows the pages of a list of assets to the last one,    *)
(* while the event consumer and other requests insert and update rows: the *)
(* orderings, the filters of api/views/filters_utils.py and the filter     *)
(* sets of the views.                                                      *)
(*                                                                         *)
(* Each page is two queries, the count and the slice.  Some filters join   *)
(* another table: the functions of a compute plan through its tasks, the   *)
(* data managers of data samples; the result of a join has a row for each  *)
(* match.  The rows are never deleted.  Dates, names and the serialization *)
(* of the rows are left out.                                               *)
(***************************************************************************)
EXTENDS Pagination, FiniteSets, Sequences, SequencesExt

CONSTANTS
  Item,           \* the assets of the list
  Via,            \* the rows a join goes through
  NoVia,
  MaxChanges,     \* bound: updates of rows
  Settings        \* the requests explored, see TypeOK

VARIABLES
  setting,        \* the request, and what never changes in the rows
  rows,           \* the assets in the table
  links,          \* the pairs of an asset and a row that refers to it
  status,         \* the status of each asset, 0 or 1
  at, page, count,\* the query the reader is at, the page, the last count
  watch,          \* the assets of the list when the walk began
  shown,          \* how often each asset was on the pages
  moved,          \* since then an asset changed its place or left the list
  grown,          \* since then the list got new rows
  late,           \* rows were inserted between the last count and its slice
  changes

vars == <<setting, rows, links, status, at, page, count, watch, shown, moved, grown, late, changes>>
reader == <<setting, at, page, count, watch, shown>>

View ==
  {"tasks", "plans", "functions", "planFunctions", "managers", "samples",
   "inputAssets", "outputAssets", "performances"}

-----------------------------------------------------------------------------
(* Filters                                                                 *)

\* PermissionFilter: public, or authorized for all the organizations asked.
PermissionFilter(i) ==
  setting.orgs = {} \/ setting.public[i] \/ setting.orgs \subseteq setting.authorized[i]

\* FilterSet: owner__in and the like.
OwnerFilter(i) == setting.owners = {} \/ setting.owner[i] \in setting.owners

\* status__in
StatusFilter(i) == setting.status = {} \/ status[i] \in setting.status

\* InputAssetFilter, OutputAssetFilter, PerformanceFilter: identifier__in
IdentifierFilter(i) ==
  setting.identifiers = {} \/ setting.field["identifier"][i] \in setting.identifiers

\* A metadata filter that has no key or no type makes the parameter be ignored.
WellFormed == \A n \in DOMAIN setting.metadata : setting.metadata[n].type # "none"

HasKey(i, key) == key \in DOMAIN setting.values[i]
Holds(f, i) ==
  CASE f.type = "is" -> HasKey(i, f.key) /\ setting.values[i][f.key] = f.value
    [] f.type = "contains" -> HasKey(i, f.key) /\ f.value \in setting.parts[setting.values[i][f.key]]
    [] f.type = "exists" -> HasKey(i, f.key)
    [] OTHER -> TRUE

\* The filters are the items of a dictionary: the last one of a type for a key.
InEffect(n) ==
  \A m \in DOMAIN setting.metadata :
    m > n => setting.metadata[m].type # setting.metadata[n].type
             \/ setting.metadata[m].key # setting.metadata[n].key

MetadataFilter(i) ==
  WellFormed =>
    \A n \in DOMAIN setting.metadata :
      setting.metadata[n].type = "exists" \/ InEffect(n) => Holds(setting.metadata[n], i)

Passes(i) ==
  OwnerFilter(i) /\ StatusFilter(i) /\ IdentifierFilter(i) /\ PermissionFilter(i) /\ MetadataFilter(i)

\* The filter that joins: by compute plan, function, data manager or data
\* sample.  setting.asked is its value, {} when the request has none.
Match(i) == {l \in links : l[1] = i /\ setting.group[l[2]] \in setting.asked}

\* distinct=True in the filter, distinct() in the view.
Distinct(view) == view \in {"planFunctions", "samples", "plans", "tasks"}

\* The rows of the result.
ListRows ==
  LET passing == {i \in rows : Passes(i)}
  IN IF setting.asked = {} THEN {<<i, NoVia>> : i \in passing}
     ELSE IF Distinct(setting.view) THEN {<<i, NoVia>> : i \in {j \in passing : Match(j) # {}}}
     ELSE UNION {Match(i) : i \in passing}
ListedIn(rs) == {r[1] : r \in rs}

-----------------------------------------------------------------------------
TypeOK ==
  /\ setting \in Settings /\ setting.view \in View /\ setting.ordering \in {"default", "rank", "status"}
  /\ rows \subseteq Item /\ links \subseteq rows \X Via
  /\ status \in [Item -> {0, 1}]
  /\ at \in {"count", "slice", "done", "refused"}
  /\ shown \in [Item -> Nat] /\ watch \subseteq Item
  /\ moved \in BOOLEAN /\ grown \in BOOLEAN /\ late \in BOOLEAN
  /\ changes \in 0..MaxChanges

Init ==
  /\ setting \in Settings
  /\ rows = {} /\ links = {} /\ status = [i \in Item |-> 0]
  /\ at = "count" /\ page = 1 /\ count = 0
  /\ watch = {} /\ shown = [i \in Item |-> 0]
  /\ moved = FALSE /\ grown = FALSE /\ late = FALSE
  /\ changes = 0

-----------------------------------------------------------------------------
(* Writers                                                                 *)

\* What a change of the rows does to the walk.
Note(before, after) ==
  /\ grown' = (grown \/ after \ before # {})
  /\ late' = (late \/ (at = "slice" /\ after \ before # {}))

\* DataSample.data_managers; a task has one plan and one function.
ManyToMany == setting.view \in {"managers", "samples"}

Insert(i) ==
  /\ i \notin rows
  /\ rows' = rows \union {i}
  /\ UNCHANGED <<reader, links, status, moved, changes>>
  /\ Note(ListRows, ListRows')

\* A task of a plan that uses the function, a data sample of a manager.
Link(i, v) ==
  /\ setting.asked # {}
  /\ i \in rows /\ <<i, v>> \notin links
  /\ ManyToMany \/ \A l \in links : l[2] # v
  /\ links' = links \union {<<i, v>>}
  /\ UNCHANGED <<reader, rows, status, moved, changes>>
  /\ Note(ListRows, ListRows')

\* The consumer updates the status of a task or of a plan.
Update(i) ==
  /\ setting.view \in {"tasks", "plans"} /\ i \in rows
  /\ changes < MaxChanges
  /\ changes' = changes + 1
  /\ status' = [status EXCEPT ![i] = 1 - @]
  /\ moved' = (moved \/ setting.ordering = "status" \/ setting.status # {})
  /\ UNCHANGED <<reader, rows, links>>
  /\ Note(ListRows, ListRows')

-----------------------------------------------------------------------------
(* The reader                                                              *)

\* order_by of input_assets and output_assets
AssetOrder(view) == IF view = "inputAssets" THEN <<"identifier", "position">> ELSE <<"identifier">>

\* ordering of PerformanceViewSet
PerformanceOrder == <<"rank", "round", "worker">>

\* Faulty: the key does not break the ties of the creation date.
DateOnly(view) == <<"created">>

\* ordering = ["creation_date", "key"] of the other views
DefaultOrder(view) == <<"created", "key">>

\* OrderingFilter: the fields asked for replace the default of the view.
OrderBy ==
  CASE setting.ordering # "default" -> <<setting.ordering>>
    [] setting.ordering = "default" /\ setting.view \in {"inputAssets", "outputAssets"} -> AssetOrder(setting.view)
    [] setting.ordering = "default" /\ setting.view = "performances" -> PerformanceOrder
    [] OTHER -> DefaultOrder(setting.view)

Field(f, i) == IF f = "status" THEN status[i] ELSE setting.field[f][i]
Precedes(i, j) ==
  \E n \in DOMAIN OrderBy :
    /\ Field(OrderBy[n], i) < Field(OrderBy[n], j)
    /\ \A m \in 1..(n - 1) : Field(OrderBy[m], i) = Field(OrderBy[m], j)

\* The orders in which the database may return the rows.
Sorted(rs) == {s \in SetToSeqs(rs) : \A m, n \in DOMAIN s : m < n => ~ Precedes(s[n][1], s[m][1])}

\* Paginator.count; a page past the end is a 404.
ReadCount ==
  /\ at = "count"
  /\ count' = Cardinality(ListRows)
  /\ watch' = IF page = 1 THEN ListedIn(ListRows) ELSE watch
  /\ moved' = (page > 1 /\ moved) /\ grown' = (page > 1 /\ grown)
  /\ late' = FALSE
  /\ at' = IF page > 1 /\ Bottom(page) >= count' THEN "refused" ELSE "slice"
  /\ UNCHANGED <<setting, rows, links, status, page, shown, changes>>

\* Paginator.page and get_next_link
ReadSlice ==
  /\ at = "slice"
  /\ \E s \in Sorted(ListRows) :
       shown' = [i \in Item |-> shown[i] + Cardinality({n \in Slice(s, page, count) : s[n][1] = i})]
  /\ at' = IF HasNext(page, count) THEN "count" ELSE "done"
  /\ page' = page + 1
  /\ UNCHANGED <<setting, rows, links, status, count, watch, moved, grown, late, changes>>

Next ==
  \/ \E i \in Item : Insert(i) \/ Update(i) \/ \E v \in Via : Link(i, v)
  \/ ReadCount \/ ReadSlice

Spec == Init /\ [][Next]_vars

-----------------------------------------------------------------------------
\* The order puts no two rows of the list at the same place.  The default one
\* never does, except in two lists: an output with several assets has one
\* identifier for all of them, and tasks of one rank and worker, or one task with
\* several outputs, have performances that no field of the order tells apart.
Total ==
  \/ setting.ordering = "default"
     /\ setting.view \notin {"outputAssets", "performances"}
  \/ \A i, j \in ListedIn(ListRows) : i = j \/ Precedes(i, j) \/ Precedes(j, i)

\* A reader who follows the pages to the last one has seen every asset that was
\* in the list when it began, in any order without ties, unless an asset
\* changed its place or left the list meanwhile, or one was inserted between the
\* count and the slice of the last page.
WalkIsComplete ==
  at = "done" /\ Total /\ ~ moved /\ ~ late => \A i \in watch : shown[i] > 0

\* No two metadata filters of the request have the same type and key.
NoRepeat == \A n \in DOMAIN setting.metadata : InEffect(n)

Asked(i) ==
  /\ OwnerFilter(i) /\ StatusFilter(i) /\ IdentifierFilter(i) /\ PermissionFilter(i)
  /\ WellFormed => \A n \in DOMAIN setting.metadata : Holds(setting.metadata[n], i)
  /\ setting.asked # {} => Match(i) # {}

\* The pages of a list nobody changes while it is read are the assets that
\* satisfy all the request asks for, each of them once.  Two exceptions: of two
\* metadata filters of one type for one key only the last one counts, and the
\* lists that are joined without distinct, the functions of compute plans and
\* the managers of data samples, repeat an asset for every match.
PagesAreTheList ==
  at = "done" /\ ~ moved /\ ~ grown /\ Total /\ NoRepeat =>
    \A i \in Item :
      /\ shown[i] > 0 <=> i \in rows /\ Asked(i)
      /\ shown[i] > 1 => setting.view \in {"functions", "managers"} /\ shown[i] = Cardinality(Match(i))
=============================================================================
