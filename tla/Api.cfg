SPECIFICATION PartsSpec
CONSTANTS
  create = create
  samples = samples
  link = link
  link2 = link2
  rename = rename
  models = models
  newPlan = newPlan
  renamePlan = renamePlan
  k = k
  m1 = m1
  m2 = m2
  m3 = m3
  m4 = m4
  s1 = s1
  s2 = s2
  x = x
  u1 = u1
  f = f
  n1 = n1
  y = y
  z = z
  e1 = e1
  e2 = e2
  c1 = c1
  c2 = c2
  add = add
  again = again
  role = role
  password = password
  set = set
  delete = delete
  drop = drop
  approve = approve
  accept = accept
  remove = remove
  login1 = login1
  login2 = login2
  login3 = login3
  api1 = api1
  api2 = api2
  sync = sync
  NoTask = NoTask
  NoVia = NoVia
  a = a
  b = b
  c = c
  p = p
  q = q
  v = v
  v2 = v2
  g = g
  h = h
  o1 = o1
  o2 = o2
  r1 = r1
  r2 = r2
  Request = {create, samples, link, link2, rename, models, newPlan, renamePlan}
  Single = {m1, m2, m3, m4}
  Sample = {s1, s2}
  Model = {x}
  ComputePlan = {k}
  Known = {m1, m2, m3}
  Scenarios <- MCScenarios
  What <- MCWhat
  MaxAttempts = 2
  Env = {"refuse", "down", "lost", "input", "db", "crash", "redeliver"}
  MaxFaults = 2
  User = {u1, f, n1, y, z}
  Subject = {e1, e2}
  Channel = {c1, c2}
  AccountCall = {add, again, role, password, set, delete, drop, approve, accept, remove, login1, login2, login3, api1, api2, sync}
  Tab = {r1, r2}
  Usernames <- MCUsernames
  AccountSettings <- MCAccountSettings
  Calls <- MCCalls
  Members <- MCMembers
  HomeChannel = c1
  UserFile <- MCUserFile
  MaxJobs = 3
  AccountEnv = {"crash", "expire", "revoke"}
  MaxTokens = 3
  MaxLost = 1
  MaxFlushes = 1
  Task = {a, b, c}
  Plan = {p, q}
  MaxDisplayed = 2
  ReadChanges = 4
  Readings <- MCReadings
  Item = {a, b, c}
  Via = {v, v2}
  ListChanges = 2
  Listings <- MCListings
  PageSize = 1
  Org = {o1, o2}
  Download = {r1, r2}
  Owner = o1
  MaxRotations = 1
  Exchanges <- MCExchanges
  Run = {r1, r2}
  FailedTask = {a, b}
  NoRun = NoRun
  Failures <- MCFailures
  NoOrg = NoOrg
CHECK_DEADLOCK FALSE
INVARIANTS RegisteredHasFiles RegistrationsHold AccountsHold ExternalUsersKept SessionsEnd ReadsCohere ListsAreWalked DownloadsAreRight FailuresAreTold
