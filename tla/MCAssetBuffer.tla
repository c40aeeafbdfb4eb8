---------------------------- MODULE MCAssetBuffer ----------------------------
(* AssetBuffer for TLC: t1 makes m from a data manager with the opener o,    *)
(* t2 reads m and the sample s, t3 the sample e.                            *)
EXTENDS AssetBuffer, TLC

CONSTANTS t1, t2, t3, e, s, o, m, p1, p2

MCInputs == (t1 :> {o}) @@ (t2 :> {m, s}) @@ (t3 :> {e})
MCOutputs == (t1 :> {m}) @@ (t2 :> {}) @@ (t3 :> {})

\* A volume for every asset or for two of them, one process or two.  With s in
\* the object storage both t2 and t3 clear a full buffer, one while the other
\* has begun to fill it again.
Worker(processes, capacity, served, env) ==
  [processes |-> processes, capacity |-> capacity, served |-> served, env |-> env]
MCSettings ==
  {Worker({p1}, capacity, {s}, env) : capacity \in {2, 4}, env \in {{}, {"fetch", "checksum"}, {"kill"}, {"restart"}}}
  \union {Worker({p1, p2}, 2, {s}, {"fetch", "checksum"}), Worker({p1, p2}, 2, {}, {})}
  \union {Worker({p1, p2}, 4, {s}, env) : env \in {{}, {"kill"}}}
=============================================================================
