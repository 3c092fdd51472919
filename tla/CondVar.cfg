SPECIFICATION MCSpec
CONSTANTS
  t1 = t1
  t2 = t2
  t3 = t3
  Threads = {t1, t2, t3}
  NULL = NULL
  Kinds = {"FAST"}
  Interrupts = FALSE
  TimedWaits = FALSE
  Broadcasts = TRUE
  Cancels = {}
  CancelStates = {"ENABLE"}
  Calls = 2
INVARIANTS
  NoStrayRestart
  NoStrandedWaiter
PROPERTIES
  WokenReturns
CHECK_DEADLOCK FALSE
