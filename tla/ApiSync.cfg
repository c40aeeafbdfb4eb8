SPECIFICATION FairSpec
CONSTANTS
  p = p
  c = c
  d = d
  Task = {p, c, d}
  NoTask = NoTask
  Parent <- MCParent
  Settings <- MCSettings
INVARIANTS RowsSynced PlanSynced InputsResolvedByEvents
PROPERTIES EventsHandledOnce
