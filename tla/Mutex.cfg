SPECIFICATION MCSpec
CONSTANTS
  t1 = t1
  t2 = t2
  t3 = t3
  Threads = {t1, t2, t3}
  NULL = NULL
  Kinds = {"FAST", "RECURSIVE", "BAD"}
  MaxDepth = 2
  Interrupts = FALSE
  Calls = 2
INVARIANTS
  MutualExclusion
  NoLostWakeup
  NoStrayRestart
PROPERTIES
  LockReturns
  ImplementsAbstractMutex
CHECK_DEADLOCK FALSE
