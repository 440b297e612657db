SPECIFICATION FairSpec
CONSTANTS
  Workflow = {w1}
  Program <- OneSleep
  ExecTimeout = FALSE
  MaxFaults = 0
  MaxSignals = 0
  MaxCancels = 0
  MaxLosses = 1
  MaxCrashes = 0
INVARIANT SingleDispatch
INVARIANT FinishedOnce
PROPERTY TasksSettled
PROPERTY Progress
PROPERTY SleepWakes
CHECK_DEADLOCK FALSE
