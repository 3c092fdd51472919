SPECIFICATION Spec
CONSTANTS
  t1 = t1
  t2 = t2
  t3 = t3
  Threads = {t1, t2, t3}
  NULL = NULL
  Kinds = {"FAST"}
  Interrupts = FALSE
  TimedWaits = TRUE
  Broadcasts = TRUE
  Cancels = {}
  CancelStates = {"ENABLE"}
SYMMETRY Symmetry
INVARIANTS
  NoStrandedWaiter
CHECK_DEADLOCK FALSE
