SPECIFICATION FairSpec
CONSTANTS
  t1 = t1
  t2 = t2
  t3 = t3
  e = e
  s = s
  o = o
  m = m
  Task = {t1, t2, t3}
  Process = {p1, p2}
  Free = Free
  Dead = Dead
  Sample = {e, s}
  Opener = {o}
  Model = {m}
  Inputs <- MCInputs
  Outputs <- MCOutputs
  p1 = p1
  p2 = p2
  Settings <- MCSettings
  MaxRetries = 1
  MaxFaults = 2
INVARIANTS RunsOnWhole FailuresAreReal
PROPERTIES DisabledLeave EveryTaskEnds
