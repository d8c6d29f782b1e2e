SPECIFICATION Spec
CONSTANTS
  w1 = w1
  w2 = w2
  Workers <- MCWorkers
  Month = 3
  Created = 2
  Renewals = {3}
  FreeLimit = 2
  PaidLimit = 3
  AlertAt = 1
  MaxTime = 2
  MaxMessages = 3
  MaxRows = 2
  MaxChanges = 2
  MaxFaults = 1
  MaxOddities = 1
SYMMETRY Symmetry
INVARIANT TypeOK
INVARIANT CountedOnce
INVARIANT OvershootIsInFlight
 
INVARIANT NothingOutlivesTheAccount
CHECK_DEADLOCK FALSE
