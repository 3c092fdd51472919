SPECIFICATION MCSpec
CONSTANTS
  Threads = {t1}
  NULL = NULL
  MaxDepth = 2
  CancelsExiting = FALSE
  HandlerCalls = {"cleanup", "destroy"}
  PTHREAD_KEYS_MAX = 2
  Destructors = {d1, d2}
  Reuses = FALSE
  Calls = 4
  KeyCalls = 2
  Requests = 2
INVARIANTS CancelNoticed HandlersRunOnce 
PROPERTIES RegionNotInterrupted CancelEndsCall
CHECK_DEADLOCK FALSE
