SPECIFICATION FairSpec
CONSTANTS
  w1 = w1
  w2 = w2
  Workers <- OneWorker
  MonitorIDs = {1, 2}
  CheckInterval = 2
  RecheckAfter = 10
  HasWindows = TRUE
  MaxFaults = 1
PROPERTY ShownOnlineAgain
CHECK_DEADLOCK FALSE
