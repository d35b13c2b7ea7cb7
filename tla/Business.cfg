SPECIFICATION BusinessSpec
CONSTANTS
  v1 = v1
  v2 = v2
  People = {o, p}
  Organizer = o
  Votes = {v1, v2}
  Options = {yes}
  Kinds <- VoteKinds
  Never = Never
  MaxWeight = 1
  MaxClock = 1
  MaxEdits = 1
  MaxJobFailures = 1
  Guests = {g1, g2, g3}
  Capacities = {0, 1, 2}
  MaxResizes = 1
  MaxReturns = 1
  Accounts = {a}
  Readers = {r}
  Editors = {e1, e2}
  Workers = {w1, w2}
  Absent = Absent
  MaxChanges = 2
  MaxFaults = 1
  creator = creator
  colleague = colleague
  outsider = outsider
  minister = minister
  Staff = {creator, colleague, outsider, minister}
  Creator = creator
  Nobody = Nobody
  Reviewers = {minister}
  Acceptors = {creator, minister}
  KindOf <- DeptKinds
  Authority <- Signers
  Scanners = {s1}
  MaxRevision = 4
  MaxTransfers = 1
  Leavers = {minister}
INVARIANTS ElectorateIsFrozen SeatsArePassedOn StaleIsOnItsWayOut
INVARIANTS TaskFollowsFlow NobodyJudgesOwnWork
PROPERTIES ResultIsFinal DueVoteIsClosed SeatsAreNotOversold
PROPERTIES QueuedRefreshIsDone ScreenIsCurrent
CHECK_DEADLOCK FALSE
