SPECIFICATION Spec
CONSTANTS
  MaxTimers         = 3
  NullTimerInterval = 4
  MaxCountdown      = 5
  Periods           = {1, 2, 3, 5}
  MaxTime           = 8
INVARIANTS
  TypeOK
  NoTimerIsPassed
  CallsAreDue
PROPERTIES
  KeepsTime
CHECK_DEADLOCK FALSE
