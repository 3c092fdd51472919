SPECIFICATION MCSpec
CONSTANTS
  t1 = t1
  Threads = {t1, t2}
  Waited = {1, 2}
  Handled = {3}
  Shares = FALSE
  CancelStates = {"ENABLE", "DISABLE"}
  Calls = 2
  Kills = 2
INVARIANTS HandlersRestored
PROPERTIES RestartKept SigwaitResult SigwaitReturns
CHECK_DEADLOCK FALSE
