----------------------------- MODULE TaskRouting -----------------------------
(***************************************************************************)
(* substrapp/task_routing.py: the table that maps running compute plans to *)
(* workers.  A row with no release date says that the plan's tasks go to   *)
(* the queue of that worker.  The event reactors (one thread per channel;  *)
(* two processes during a rolling update of their deployment) add rows,    *)
(* the workers' teardowns release them, and an administrator changes the   *)
(* number of workers.                                                      *)
(***************************************************************************)
EXTENDS Naturals, FiniteSetsExt

CONSTANTS
  Plan,         \* the compute plans
  Reactor,      \* the threads that route plans
  Handles,      \* the plans each of them may route
  MaxWorkers    \* bound on the size of the worker replica set

ASSUME TaskRoutingAssumption ==
  /\ Handles \in [Reactor -> SUBSET Plan]
  /\ MaxWorkers \in Nat \ {0}
  /\ IsFiniteSet(Plan) /\ IsFiniteSet(Reactor)

Worker == 0..(MaxWorkers - 1)

VARIABLES
  rows,     \* the rows of ComputePlanWorkerMapping with no release date
  scale,    \* the number of replicas of the workers' stateful set
  routing,  \* the row each reactor is about to insert, if any
  settled   \* history: so far no plan has ended and nobody has rescaled

routingVars == <<rows, scale, routing, settled>>

Row == [plan : Plan, worker : Worker]
RowsOf(p) == {r \in rows : r.plan = p}
CountOf(w) == Cardinality({r \in rows : r.worker = w})

\* The keys of count_by_idx: the workers of the replica set, and every worker
\* that has a running plan.
Counted == 0..(scale - 1) \union {r.worker : r \in rows}

\* _get_workers_with_fewest_running_cps
WithFewestPlans == {w \in Counted : \A v \in Counted : CountOf(w) <= CountOf(v)}

-----------------------------------------------------------------------------
RoutingInit ==
  /\ rows = {}
  /\ scale \in 1..MaxWorkers
  /\ routing = [r \in Reactor |-> {}]
  /\ settled = TRUE

\* _acquire_worker_index: the plan has no row; choose the first of the least
\* loaded workers.
ChooseWorker(r, p) ==
  /\ routing[r] = {}
  /\ p \in Handles[r] /\ RowsOf(p) = {}
  /\ routing' = [routing EXCEPT ![r] = {[plan |-> p, worker |-> Min(WithFewestPlans)]}]
  /\ UNCHANGED <<rows, scale, settled>>

\* Faulty variant: no unique constraint on the plans with no release date.
InsertRowAlways(r) ==
  /\ routing[r] # {}
  /\ rows' = rows \union routing[r]
  /\ routing' = [routing EXCEPT ![r] = {}]
  /\ UNCHANGED <<scale, settled>>

\* _acquire_worker_index: the INSERT, in a later statement of the transaction.
\* The unique constraint refuses a second row for the plan: the exception stops
\* the reactor, which starts again at the same event and finds the other row.
InsertRow(r) ==
  /\ routing[r] # {}
  /\ \E row \in routing[r] :
       rows' = IF RowsOf(row.plan) = {} THEN rows \union {row} ELSE rows
  /\ routing' = [routing EXCEPT ![r] = {}]
  /\ UNCHANGED <<scale, settled>>

\* release_worker
Release(p) ==
  /\ RowsOf(p) # {}
  /\ rows' = rows \ RowsOf(p)
  /\ settled' = FALSE
  /\ UNCHANGED <<scale, routing>>

Rescale(n) ==
  /\ n # scale
  /\ scale' = n
  /\ settled' = FALSE
  /\ UNCHANGED <<rows, routing>>

\* Every plan is routed; the reactors wait.
AllRouted ==
  /\ \A p \in Plan : RowsOf(p) # {}
  /\ \A r \in Reactor : routing[r] = {}
  /\ UNCHANGED routingVars

RoutingNext ==
  \/ \E r \in Reactor : InsertRow(r) \/ \E p \in Plan : ChooseWorker(r, p)
  \/ \E p \in Plan : Release(p)
  \/ \E n \in 1..MaxWorkers : Rescale(n)
  \/ AllRouted

RoutingSpec == RoutingInit /\ [][RoutingNext]_routingVars

-----------------------------------------------------------------------------
RoutingTypeOK ==
  /\ rows \subseteq Row
  /\ scale \in 1..MaxWorkers
  /\ routing \in [Reactor -> SUBSET Row]
  /\ settled \in BOOLEAN

\* "At a given point in time, a compute plan can only be mapped to one worker"
\* (task_routing.py:26), also when two reactors route it at once.
OneWorkerPerPlan == \A r, q \in rows : r.plan = q.plan => r = q

\* While plans only arrive, the load of two workers differs by no more than the
\* number of threads that route plans: a choice made on counts that others have
\* outdated is off by at most one plan each.
Spread ==
  settled =>
    \A v, w \in 0..(scale - 1) : CountOf(v) <= CountOf(w) + Cardinality(Reactor)

\* The plans' mapping never has two workers, and arrivals are spread.
RoutingHolds == OneWorkerPerPlan /\ Spread
=============================================================================
