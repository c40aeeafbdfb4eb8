SPECIFICATION FairSpec
CONSTANTS
  t1 = t1
  t2 = t2
  t3 = t3
  Worker = {w1, w2}
  NoWorker = NoWorker
  Task = {t1, t2, t3}
  NoTask = NoTask
  Plans <- MCPlans
  MaxRetries = 1
INVARIANTS ScheduledOnPodsWorker PodIsAccountedFor
PROPERTIES ResourcesFreed EveryTaskEnds
