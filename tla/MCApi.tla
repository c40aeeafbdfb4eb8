--------------------------------- MODULE MCApi ---------------------------------
(* ApiParts for TLC. *)
EXTENDS ApiParts, TLC

CONSTANTS
  \* AssetRegistration: m1, m2 and m3 are known
  create, samples, link, link2, rename, models, newPlan, renamePlan, k, m1, m2, m3, m4, s1, s2, x,
  \* Accounts: u1 and z are members, u1 and f are in the file, n1 and y are names of
  \* the external users e1 and e2
  u1, f, n1, y, z, e1, e2, c1, c2,
  add, again, role, password, set, delete, drop, approve, accept, remove, login1, login2, login3, api1, api2, sync,
  \* Reads and Lists
  a, b, c, p, q, v, v2, g, h,
  \* Downloads and FailureReports
  o1, o2, r1, r2

-----------------------------------------------------------------------------
(* AssetRegistration *)

Ask(kind, assets, managers) == [kind |-> kind, assets |-> assets, managers |-> managers]
MCWhat ==
  (create :> Ask("single", {m4}, {})) @@ (samples :> Ask("samples", {s1, s2}, {m1}))
  @@ (link :> Ask("link", {s1}, {m2})) @@ (link2 :> Ask("link", {s1}, {m3}))
  @@ (rename :> Ask("rename", {m4}, {})) @@ (models :> Ask("models", {x}, {}))
  @@ (newPlan :> Ask("plan", {k}, {})) @@ (renamePlan :> Ask("rename", {k}, {}))
MCScenarios == {{samples, link, link2}, {create, rename}, {models, create}, {newPlan, renamePlan}}

-----------------------------------------------------------------------------
(* Accounts *)

Call(kind, name, r, s) == [kind |-> kind, user |-> name, role |-> r, subject |-> s]
MCCalls ==
  (add :> Call("create", f, "USER", e1)) @@ (role :> Call("role", u1, "ADMIN", e1))
  @@ (password :> Call("password", u1, "USER", e1)) @@ (set :> Call("set", u1, "USER", e1))
  @@ (again :> Call("create", u1, "USER", e1)) @@ (drop :> Call("remove", u1, "USER", e1))
  @@ (delete :> Call("delete", u1, "USER", e1)) @@ (approve :> Call("approve", n1, "USER", e1))
  @@ (accept :> Call("approve", f, "USER", e1))
  @@ (remove :> Call("remove", n1, "USER", e1)) @@ (login1 :> Call("login", n1, "USER", e1))
  @@ (login2 :> Call("login", n1, "USER", e1)) @@ (login3 :> Call("login", n1, "USER", e2))
  @@ (api1 :> Call("api", n1, "USER", e1)) @@ (api2 :> Call("api", n1, "USER", e1))
  @@ (sync :> Call("sync", f, "ADMIN", e1))
MCUsernames == [e \in {e1, e2} |-> <<n1, y>>]
MCMembers == {u1, z}
MCUserFile == (u1 :> c2) @@ (f :> c1)
Accounts(requests, default, max) == [asked |-> requests, default |-> default, maxFaults |-> max]
MCAccountSettings ==
  {Accounts(calls, "none", 1) : calls \in {{role, password, set}, {role, password, delete}, {sync, role}, {sync, add},
                              {sync, accept}, {sync, delete}, {sync, login1}, {login1, login3, remove}, {role, delete, again, drop}}}
  \union {Accounts(calls, "none", 2) : calls \in {{login1, login2, approve}, {login1, api1, api2}, {login1, login2, api1}}}
  \union {Accounts({login1, login2}, c1, 1)}

-----------------------------------------------------------------------------
(* Reads *)

Read(kind, important, after) ==
  [kind |-> kind, important |-> important, after |-> after, before |-> 9,
   parent |-> (a :> NoTask) @@ (b :> a) @@ (c :> a),
   rank |-> (a :> 1) @@ (b :> 2) @@ (c :> 3)]
MCReadings ==
  {Read(kind, FALSE, 1) : kind \in {"graph", "performances"}}
  \union {Read("news", important, after) : important \in BOOLEAN, after \in {1, 2}}

-----------------------------------------------------------------------------
(* Lists *)

\* A request that filters nothing, and three assets: the first two created at
\* the same time.
List(view, ordering) ==
  [view |-> view, ordering |-> ordering, asked |-> {}, orgs |-> {}, owners |-> {},
   status |-> {}, metadata |-> <<>>,
   identifiers |-> {},
   field |-> [d \in {"created", "key", "rank", "round", "worker", "identifier", "position"} |->
     CASE d = "created" -> (a :> 2) @@ (b :> 1) @@ (c :> 1)
       [] d \in {"key", "position"} -> (a :> 1) @@ (b :> 2) @@ (c :> 3)
       [] d \in {"rank", "identifier"} -> (a :> 1) @@ (b :> 2) @@ (c :> 2)
       [] d = "round" -> (a :> 1) @@ (b :> 1) @@ (c :> 2)
       [] d = "worker" -> (a :> 1) @@ (b :> 1) @@ (c :> 1)],
   owner |-> (a :> g) @@ (b :> h) @@ (c :> g),
   public |-> (a :> FALSE) @@ (b :> FALSE) @@ (c :> TRUE),
   authorized |-> (a :> {g, h}) @@ (b :> {g}) @@ (c :> {}),
   values |-> (a :> ("k" :> "xy")) @@ (b :> ("k" :> "x" @@ "l" :> "y")) @@ (c :> <<>>),
   parts |-> ("xy" :> {"x", "y", "xy"}) @@ ("x" :> {"x"}) @@ ("y" :> {"y"}),
   group |-> (v :> 1) @@ (v2 :> 1)]

Filter(type, key, value) == [type |-> type, key |-> key, value |-> value]
MetadataAsked == {
  <<Filter("is", "k", "x")>>,
  <<Filter("contains", "k", "x"), Filter("exists", "l", "")>>,
  <<Filter("contains", "k", "x"), Filter("contains", "k", "y")>>,
  <<Filter("is", "k", "x"), Filter("none", "k", "")>>}

MCListings ==
  {List("tasks", ordering) : ordering \in {"default", "rank", "status"}}
  \union {[List("tasks", "default") EXCEPT !.status = {0}]}
  \union {[List(view, "default") EXCEPT !.asked = {1}] :
            view \in {"planFunctions", "functions", "samples", "managers"}}
  \union {[List("plans", "default") EXCEPT !.metadata = m] : m \in MetadataAsked}
  \union {[List("functions", "default") EXCEPT !.orgs = os] : os \in {{g}, {g, h}}}
  \union {[List("functions", "default") EXCEPT !.owners = {g}, !.asked = {1, 2}]}
  \union {List(view, "default") :
            view \in {"inputAssets", "outputAssets", "performances"}}
  \union {[List("outputAssets", "default") EXCEPT !.identifiers = {2}]}

-----------------------------------------------------------------------------
(* Downloads *)

By(org, by) == [org |-> org, by |-> by]
Exchange(process, download, model, export, asks, env) ==
  [process |-> process, download |-> download, model |-> model, export |-> export,
   asks |-> (r1 :> asks[1]) @@ (r2 :> asks[2]), env |-> env]
UserAndWorker == <<By(o2, "user"), By(o2, "worker")>>
Both == {o1, o2}
MCExchanges ==
  {Exchange(process, download, TRUE, export, UserAndWorker, {"cut"}) :
     process \in {Both, {o1}}, download \in {Both, {o1}}, export \in {Both, {o1}, {o2}}}
  \union {Exchange(process, {}, FALSE, {}, <<By(o1, "user"), By(o2, "user")>>, {}) : process \in {Both, {o1}}}
  \union {Exchange(Both, Both, TRUE, Both, asks, {"rehash"}) :
            asks \in {<<By(o2, "user"), By(o1, "worker")>>, <<By(o2, "worker"), By(o1, "worker")>>,
                     <<By(o2, "worker"), By(o2, "worker")>>}}

-----------------------------------------------------------------------------
(* FailureReports *)

Failure(failed, type, runs, allowed, env) ==
  [failed |-> failed, tasks |-> IF failed = NoTask THEN {a, b} ELSE {failed},
   raised |-> [logs |-> type # "internal", type |-> type], runs |-> runs, allowed |-> allowed, env |-> env]
MCFailures ==
  {Failure(NoTask, type, {r1}, allowed, {"down", "crash"}) :
     type \in {"build", "internal", "none"}, allowed \in {Both, {o1}}}
  \union {Failure(a, type, {r1, r2}, allowed, env) :
            type \in {"execution", "internal"}, allowed \in {Both, {o1}}, env \in {{}, {"crash"}}}

=============================================================================
