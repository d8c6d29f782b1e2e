SPECIFICATION Spec
CONSTANTS
  w1 = w1
  Workers <- OneWorker
  MaxSendAttempts = 1
  MaxFaults = 1
  MaxPushes = 3
  SlowTimers = FALSE
INVARIANT StatusIsEarned
INVARIANT AttemptsArePushed
PROPERTY OutcomeIsFinal
PROPERTY KeepsPromise
CHECK_DEADLOCK FALSE
