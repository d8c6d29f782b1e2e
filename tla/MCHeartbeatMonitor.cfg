SPECIFICATION Spec
CONSTANTS
  w1 = w1
  w2 = w2
  Workers <- TwoWorkers
  MonitorIDs = {1, 2}
  CheckInterval = 2
  RecheckAfter = 10
  HasWindows = TRUE
  MaxFaults = 1
SYMMETRY Symmetry
INVARIANT TypeOK
INVARIANT MonitorIsWatched
INVARIANT SilenceIsNoticed
INVARIANT ProbedBeforeAlarm
PROPERTY ChainsDoNotMultiply
PROPERTY OneAlarmPerSilence
CHECK_DEADLOCK FALSE
