SPECIFICATION MCSpec
CONSTANTS
  m1 = m1
  m2 = m2
  h1 = h1
  h2 = h2
  Messages <- TwoMessages
  Handlers <- TwoHandlers
  Rates = {1}
  Schedules <- WithOrWithoutWindows
  SendTimes = {}
  MaxIndex = 0
  MaxTime = 0
  MaxRetries = 0
  MaxFaults = 0
  SecondsPerMinute = 2
  MinutesPerDay = 3
INVARIANT RateIsNeverExceeded
SYMMETRY Symmetry
CHECK_DEADLOCK FALSE
