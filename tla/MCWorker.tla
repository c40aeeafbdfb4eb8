------------------------------- MODULE MCWorker -------------------------------
(* WorkerParts for TLC: five plans and two reactors, two tasks, two functions. *)
EXTENDS WorkerParts, TLC

CONSTANTS
  p1, p2, p3, p4, p5, w1, w2,
  t1, t2, i1, i2, m1, m2, n1, f1, f2, c1, c2, base, l1, l2, tag1, tag2

-----------------------------------------------------------------------------
MCHandles == (w1 :> {p1, p2, p3}) @@ (w2 :> {p1, p2, p4, p5})

PlanOf(images, models, perfs, keyed, env) ==
  [image |-> images, parent |-> (t1 :> NoTask) @@ (t2 :> t1),
   models |-> models, perfs |-> perfs, keyed |-> keyed, env |-> env]
Same == [t \in {t1, t2} |-> i1]
TrainThenTest == <<(t1 :> {m1, m2}) @@ (t2 :> {}), (t1 :> {}) @@ (t2 :> {n1})>>
TrainTwice == <<(t1 :> {m1}) @@ (t2 :> {m1}), (t1 :> {n1}) @@ (t2 :> {n1})>>
MCPlans ==
  {PlanOf((t1 :> i1) @@ (t2 :> i2), TrainThenTest[1], TrainThenTest[2], FALSE, env) :
     env \in {{"fail", "user"}, {"lost"}, {"kill"}}}
  \union {PlanOf(Same, TrainThenTest[1], TrainThenTest[2], FALSE, {"fail"})}
  \union {PlanOf(Same, TrainTwice[1], TrainTwice[2], TRUE, env) :
            env \in {{"fail", "user"}, {"kill"}, {"fail", "kill"}}}

Images == (f1 :> <<c1, base, l1, l1>>) @@ (f2 :> <<c2, base, l2>>)
Deploy(runs, owned, tags, env) ==
  [image |-> Images, tag |-> tags, owned |-> owned, runs |-> runs, env |-> env]
Apart == (f1 :> tag1) @@ (f2 :> tag2)
Shared == (f1 :> tag1) @@ (f2 :> tag1)
Each == (t1 :> f1) @@ (t2 :> f2)
Twice == (t1 :> f1) @@ (t2 :> f1)
MCDeployments ==
  {Deploy(Each, owned, Apart, env) :
     owned \in {{}, {f1}}, env \in {{"collect", "network"}, {"lose", "refuse"}, {"collect", "lose"}}}
  \union {Deploy(Twice, owned, Apart, env) :
            owned \in {{}, {f1}}, env \in {{"scan", "network"}, {"collect", "lose"}}}
  \union {Deploy(Each, {f1}, Shared, {"collect"})}

=============================================================================
