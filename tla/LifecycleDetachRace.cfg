SPECIFICATION Spec
CONSTANTS
  main = main
  a = a
  b = b
  c = c
  NULL = NULL
  InitialThread = main
  Threads = {main, a, b}
  Cancels = {}
  CancelStates = {"ENABLE"}
  Interrupts = FALSE
  ProcessExits = FALSE
  Detaches = {"others"}
  Rejoins = FALSE
  Crashes = FALSE
  Blocking = {}
  CancelableSuspends = FALSE
  Forks = FALSE
  KillsOthers = FALSE
  LateResets = FALSE
  MaxClones = 3
  PipeSize = 2
  DetachStates = {FALSE}
CHECK_DEADLOCK FALSE
SYMMETRY Symmetry
INVARIANT JoinableKept
