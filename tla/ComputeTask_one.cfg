SPECIFICATION FairSpec
CONSTANTS
  Task = {t1, t2}
  NoTask = NoTask
  Slot = {s1}
  Free = Free
  Orphan = Orphan
  MaxRetries = 1
  Envs <- OneSlotEnvs
  MaxFaults = 1
INVARIANTS OwnOutput
PROPERTIES EveryTaskEnds
