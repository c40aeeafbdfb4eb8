SPECIFICATION Spec
CONSTANTS
  Task = {t1, t2}
  NoTask = NoTask
  Slot = {s1, s2}
  Free = Free
  Orphan = Orphan
  MaxRetries = 0
  Envs = {{}}
  MaxFaults = 0
INVARIANTS InputsStay
