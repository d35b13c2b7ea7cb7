SPECIFICATION FairSpec
CONSTANTS
  Procs = {p1}
  Attempts = {a1}
  Keys = {own}
  Own = own
  Free = Free
  MaxEdits = 0
  MaxFaults = 1
PROPERTY LockEndsWithDispatch
CHECK_DEADLOCK FALSE
