SPECIFICATION Spec
CONSTANTS
  t1 = t1
  t2 = t2
  t3 = t3
  Threads = {t1, t2}
  NULL = NULL
  Kinds = {"FAST"}
  Interrupts = TRUE
  TimedWaits = TRUE
  Broadcasts = TRUE
  Cancels = {t1}
  CancelStates = {"ENABLE"}
SYMMETRY Symmetry
INVARIANTS
  MutualExclusion
  CleanupHoldsMutex
CHECK_DEADLOCK FALSE
