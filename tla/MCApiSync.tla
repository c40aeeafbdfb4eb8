------------------------------ MODULE MCApiSync ------------------------------
(* ApiSync for TLC: the task c takes the output of the task p as its input, *)
(* and so does the task d where there is one.                               *)
EXTENDS ApiSync, TLC

CONSTANTS p, c, d

\* The tasks come from another organization; the consumer may crash.
EventsSetting == [tasks |-> {p, c, d}, views |-> FALSE, updates |-> TRUE, lag |-> 5, crashes |-> 1]

\* The tasks are created by this server, whose plan is renamed and canceled.
ViewSetting == [tasks |-> {p, c}, views |-> TRUE, updates |-> TRUE, lag |-> 4, crashes |-> 0]

MCSettings == {EventsSetting, ViewSetting}
ResolvedSettings == {[ViewSetting EXCEPT !.updates = FALSE, !.lag = 12]}
RedeliverySettings == {[EventsSetting EXCEPT !.tasks = {p, c}, !.updates = FALSE]}

MCParent == [t \in Task |-> IF t = p THEN NoTask ELSE p]
=============================================================================
