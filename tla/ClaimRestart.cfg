SPECIFICATION FairSpec
CONSTANTS
  Workflow = {w1}
  Program <- OneSleep
  ExecTimeout = FALSE
  MaxFaults = 0
  MaxSignals = 0
  MaxCancels = 0
  MaxLosses = 0
  MaxCrashes = 1
PROPERTY SleepEnds
CHECK_DEADLOCK FALSE
