SPECIFICATION MCSpec
CONSTANTS
  m1 = m1
  m2 = m2
  h1 = h1
  h2 = h2
  Messages <- TwoMessages
  Handlers <- TwoHandlers
  Rates = {0, 1}
  Schedules <- WithOrWithoutWindows
  SendTimes = {2}
  MaxIndex = 1
  MaxTime = 2
  MaxRetries = 1
  MaxFaults = 1
  SecondsPerMinute = 2
  MinutesPerDay = 3
INVARIANT TypeOK
INVARIANT RateIsKept
INVARIANT PendingIsQueued
INVARIANT DueWhenAllowed
INVARIANT EarliestAllowed
INVARIANT SilenceIsOpen
SYMMETRY Symmetry
CHECK_DEADLOCK FALSE
