---------------------------- MODULE MCComputeTask ----------------------------
(* ComputeTask for TLC: with several slots, tasks and slots are             *)
(* interchangeable.                                                         *)
EXTENDS ComputeTask, TLC

TaskAndSlotSymmetry == Permutations(Task) \union Permutations(Slot)

\* User code that fails and reports of it that are lost, or processes that are killed and messages that come twice.
OneSlotEnvs == {
  {"cancel", "transient", "userCode", "down"},
  {"cancel", "crash", "duplicate", "redeliver"}}
SlotsEnvs == {{"cancel", "transient", "crash", "duplicate", "redeliver"}}
=============================================================================
