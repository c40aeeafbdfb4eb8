----------------------------- MODULE MCLockLocal -----------------------------
(* LockLocal for TLC: crashes outside the secondary lock, or every fault. *)
EXTENDS LockLocal

MCFaultSets == {{"crash"}, FaultKind}
=============================================================================
