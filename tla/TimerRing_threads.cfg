SPECIFICATION SafeSpec
CONSTANTS
  Timers = {t1, t2, t3}
  Head = head
  Timeout = 2
  MaxTime = 3
  Main = main
  Owner = worker
  NULL = null
SYMMETRY MCSymmetry
INVARIANT RingHoldsArmed
CHECK_DEADLOCK FALSE
