SPECIFICATION FairSpec
CONSTANTS
  main = main
  a = a
  b = b
  c = c
  NULL = NULL
  InitialThread = main
  Threads = {main, a}
  Cancels = {a}
  CancelStates = {"ENABLE"}
  Interrupts = FALSE
  ProcessExits = TRUE
  Detaches = {"self"}
  Rejoins = FALSE
  Crashes = TRUE
  Blocking = {main}
  CancelableSuspends = FALSE
  Forks = FALSE
  KillsOthers = FALSE
  LateResets = FALSE
  MaxClones = 3
  PipeSize = 3
  DetachStates = {TRUE, FALSE}
CHECK_DEADLOCK FALSE
PROPERTIES
  CreateReturns
  JoinReturns
  CancelledJoinerLeaves
  Reclaimed
  ProcessEnds
