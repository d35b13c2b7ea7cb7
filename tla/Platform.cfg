SPECIFICATION PlatformSpec
CONSTANTS
  Calls = {c1, c2, c3}
  Probes = 2
  MinRequests = 2
  Window = 3
  ErrorRate = 50
  Waiters = {w1, w2, w3}
  Unheld = Unheld
  MaxTroubles = 1
  Mails = {m1, m2, m3}
  QueueSize = 1
  MaxAttempts = 2
  PerWindow = 2
  MaxWindows = 3
  MaxLosses = 1
  Requests = {r1, r2, r3}
  BufferSize = 1
  Files = {k1, k2}
  Cleaners = {x1, x2}
  None = None
  MaxSwings = 2
  MaxMishaps = 2
INVARIANTS BreakerIsSound QueueIsSound MailIsAccountedFor StopIsOrderly ListedFilesExist
PROPERTIES TrialEnds FirstComeFirstServed WaitersAreServed MailIsSettled StopEnds
PROPERTIES RecordedDeletionIsDone
CHECK_DEADLOCK FALSE
