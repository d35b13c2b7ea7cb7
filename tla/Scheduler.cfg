SPECIFICATION JobsSpec
CONSTANTS
  Procs = {p1, p2}
  Attempts = {a1, a2}
  Keys = {own, shard}
  Own = own
  Free = Free
  MaxEdits = 1
  MaxFaults = 1
  a1 = a1
  p1 = p1
  p2 = p2
  Backups = {b1, b2}
  j1 = j1
  j2 = j2
  s1 = s1
  s2 = s2
  Jobbers = {j1, j2}
  Servers = {s1, s2}
  NoOne = NoOne
  MaxRequests = 3
  MaxMishaps = 1
INVARIANTS DispatchesAreApart DecisionsStand JobsAreSafe
PROPERTIES CronKeepsItsPlan BusyRowIsFreed DueTaskIsTaken
CHECK_DEADLOCK FALSE
