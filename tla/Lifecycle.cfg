SPECIFICATION Spec
CONSTANTS
  main = main
  a = a
  b = b
  c = c
  NULL = NULL
  InitialThread = main
  Threads = {main, a, b}
  Cancels = {}
  CancelStates = {"ENABLE"}
  Interrupts = FALSE
  ProcessExits = TRUE
  Detaches = {}
  Rejoins = FALSE
  Crashes = TRUE
  Blocking = {main, a, b}
  CancelableSuspends = FALSE
  Forks = TRUE
  KillsOthers = TRUE
  LateResets = FALSE
  MaxClones = 2
  PipeSize = 3
  DetachStates = {FALSE}
CHECK_DEADLOCK FALSE
SYMMETRY Symmetry
INVARIANTS
  DescriptorsLast
  JoinableKept
  RunningMapped
  NoLostChild
  JoinAfterTermination
  MainOutlives
  NoStrayRestart
