SPECIFICATION MCSpec
CONSTANTS
  Threads = {t1, t2}
  NULL = NULL
  Blocks = {b1, b2}
  Calls = 6
INVARIANTS MutexesKept StreamOwned
PROPERTIES HandlersPaired ForkReturns
CHECK_DEADLOCK FALSE
