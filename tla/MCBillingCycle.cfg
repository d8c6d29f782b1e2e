SPECIFICATION Spec
CONSTANTS
  FirstYear = 2026
  LastYear = 2028
INVARIANT CycleContainsNow
CHECK_DEADLOCK FALSE
