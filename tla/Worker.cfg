SPECIFICATION PartsSpec
CONSTANTS
  p1 = p1
  p2 = p2
  p3 = p3
  p4 = p4
  p5 = p5
  w1 = w1
  w2 = w2
  Plan = {p1, p2, p3, p4, p5}
  Reactor = {w1, w2}
  Handles <- MCHandles
  MaxWorkers = 3
  t1 = t1
  t2 = t2
  i1 = i1
  i2 = i2
  m1 = m1
  m2 = m2
  n1 = n1
  NoTask = NoTask
  NoPod = NoPod
  Task = {t1, t2}
  Image = {i1, i2}
  Output = {m1, m2, n1}
  Secret = {1, 2}
  MaxRetries = 1
  f1 = f1
  f2 = f2
  c1 = c1
  c2 = c2
  base = base
  l1 = l1
  l2 = l2
  tag1 = tag1
  tag2 = tag2
  Function = {f1, f2}
  Blob = {c1, c2, base, l1, l2}
  Plans <- MCPlans
  Deployments <- MCDeployments
  FilesFaults = 2
  ImageFaults = 3
  Tries = 2
  MaxTurns = 3
  MaxLost = 3
CHECK_DEADLOCK FALSE
INVARIANTS RoutingHolds ArgumentsResolve OutputsHold FaultsAreSurvived ImagesArrive ProfileIsOfTheLastAttempt
