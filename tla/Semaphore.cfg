SPECIFICATION MCSpec
CONSTANTS
  t1 = t1
  t2 = t2
  t3 = t3
  Threads = {t1, t2, t3}
  NULL = NULL
  Interrupts = FALSE
  LONG_MAX = 7
  INT_MAX = 7
  InitialValues = {0, 2}
  Cancels = {t1}
  CancelStates = {"ENABLE"}
  Calls = 2
INVARIANTS
  ExitedUnreachable
  WaitersReached
  NoStrayRestart
PROPERTIES
  ImplementsAbstractSemaphore
  SleeperWakes
CHECK_DEADLOCK FALSE
