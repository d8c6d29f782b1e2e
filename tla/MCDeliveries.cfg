SPECIFICATION BothSpec
CONSTANTS
  w1 = w1
  a1 = a1
  a2 = a2
  h1 = h1
  d1 = d1
  Workers <- OneWorker
  MaxSendAttempts = 2
  MaxFaults = 0
  MaxPushes = 4
  SlowTimers = FALSE
  Announced = {"message.send.failed", "message.phone.received"}
  Webhooks <- OneWebhook
  Channels <- OneChannel
  EventIDs = {1}
  Mailers <- TwoMailers
  MaxChanges = 1
  MaxTicks = 2
  MaxMailFaults = 1
SYMMETRY Symmetry
INVARIANT BothTypeOK
INVARIANT CopiesAreBounded
INVARIANT FailureIsTold
CHECK_DEADLOCK FALSE
