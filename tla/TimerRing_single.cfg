SPECIFICATION Spec
CONSTANTS
  Timers = {t1, t2, t3}
  Head = head
  Timeout = 2
  MaxTime = 4
  Main = main
  Owner = main
  NULL = null
INVARIANTS
  RingHoldsArmed
  Ascending
  Inv
PROPERTIES
  StepsAreTimeoutSteps
  IdleIsClosed
CHECK_DEADLOCK FALSE
