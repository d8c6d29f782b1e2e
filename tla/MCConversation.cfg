SPECIFICATION Spec
CONSTANTS
  w1 = w1
  w2 = w2
  m1 = m1
  m2 = m2
  m3 = m3
  Workers <- MCWorkers
  MessageIDs <- TwoMessages
  UnarchiveThread = TRUE
  MaxAnnounced = 3
  MaxThreads = 2
  MaxFaults = 1
SYMMETRY Symmetry
INVARIANT TypeOK
INVARIANT UnreadIsExact
INVARIANT ThreadMirrorsMessages
PROPERTY ArchivedByChoice
CHECK_DEADLOCK FALSE
