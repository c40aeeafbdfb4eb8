SPECIFICATION FairSpec
CONSTANTS
  p = p
  c = c
  d = d
  Task = {p, c, d}
  NoTask = NoTask
  Parent <- MCParent
  Settings <- RedeliverySettings
PROPERTIES EventsHandled
