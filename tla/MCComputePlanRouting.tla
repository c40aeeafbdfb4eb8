------------------------- MODULE MCComputePlanRouting -------------------------
(* ComputePlanRouting for TLC: a plan of three tasks, one of two that may be       *)
(* canceled, and one of two of which one may be added later.                       *)
EXTENDS ComputePlanRouting

CONSTANTS t1, t2, t3

MCPlan(some, more, stop) == [tasks |-> some, grows |-> more, stops |-> stop]

MCPlans == {
  MCPlan({t1, t2, t3}, FALSE, FALSE), MCPlan({t1, t2}, FALSE, TRUE), MCPlan({t1, t2}, TRUE, TRUE)}
=============================================================================
