SPECIFICATION FairSpec
CONSTANTS
  w1 = w1
  Workers <- OneWorker
  MaxSendAttempts = 2
  MaxFaults = 0
  MaxPushes = 4
  SlowTimers = TRUE
INVARIANT NeverStranded
INVARIANT ExpiryIsAnnounced
PROPERTY EventuallySettled
CHECK_DEADLOCK FALSE
