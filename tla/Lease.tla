-------------------------------- MODULE Lease --------------------------------
(***************************************************************************)
(* What lock_local.lock_resource promises its callers: at any time at most *)
(* one of those inside the "with" block has a lock younger than its ttl.   *)
(* Without a ttl no lock ever lapses and this is mutual exclusion.         *)
(***************************************************************************)
CONSTANTS Caller,    \* the calls of lock_resource on one resource
          HasTtl     \* TRUE when the callers pass a ttl

VARIABLES held,      \* the callers that are inside the "with" block
          lapsed     \* the callers whose ttl has run out since they acquired

vars == <<held, lapsed>>

Init == held = {} /\ lapsed = {}

\* A caller enters only when every caller still inside has outlived its ttl.
Acquire(c) ==
  /\ c \notin held /\ c \notin lapsed
  /\ held \subseteq lapsed
  /\ held' = held \union {c}
  /\ UNCHANGED lapsed

\* Leaving the block, or dying in it.
Release(c) ==
  /\ c \in held
  /\ held' = held \ {c}
  /\ UNCHANGED lapsed

\* Time passes; the ttl also runs while the lock is being given back.
Lapse(c) ==
  /\ HasTtl
  /\ lapsed' = lapsed \union {c}
  /\ UNCHANGED held

Next == \E c \in Caller : Acquire(c) \/ Release(c) \/ Lapse(c)

Spec == Init /\ [][Next]_vars
=============================================================================
