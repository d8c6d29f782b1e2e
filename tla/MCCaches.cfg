SPECIFICATION CachesSpec
CONSTANTS
  l1 = l1
  l2 = l2
  c1 = c1
  c2 = c2
  n1 = n1
  r1 = r1
  r2 = r2
  Numbers <- OneNumber
  Lookups <- TwoLookups
  Changes <- TwoChanges
  MaxEvents = 2
  Requests <- TwoRequests
  PhoneIDs = {1, 2}
  Objects = {1, 2, 3}
  Schedules = {1}
  MaxEdits = 3
  MaxFaults = 1
SYMMETRY Symmetry
INVARIANT CacheIsRight
INVARIANT OneRowPerNumber
INVARIANT NoDanglingSchedule
PROPERTY EditsAreKept
PROPERTY LooksUpFresh
CHECK_DEADLOCK FALSE
