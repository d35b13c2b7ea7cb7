SPECIFICATION CacheSpec
CONSTANTS
  Accounts = {a}
  Readers = {r}
  Editors = {}
  Workers = {w}
  Absent = Absent
  MaxChanges = 1
  MaxFaults = 1
PROPERTY DurableRefresh
CHECK_DEADLOCK FALSE
