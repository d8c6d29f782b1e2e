SPECIFICATION Spec
CONSTANTS
  w1 = w1
  w2 = w2
  k1 = k1
  k2 = k2
  n1 = n1
  Workers <- TwoWorkers
  Keys <- TwoKeys
  PhoneIDs = {1, 2}
  Numbers <- OneNumber
  NumberOf <- SameNumber
  MaxLogins = 2
  MaxRemovals = 1
  MaxFaults = 1
SYMMETRY Symmetry
INVARIANT TypeOK
INVARIANT OneKeyPerPhone
INVARIANT KeysSettle
CHECK_DEADLOCK FALSE
